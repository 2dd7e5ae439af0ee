--------------------------- MODULE FetchContract ---------------------------
(***************************************************************************)
(* What a call of TransactionListVmHandle::start promises its caller,      *)
(* without requests, contexts, tasks or tokens: the call ends in one       *)
(* answer, an error or the transactions of its own addresses on its own    *)
(* network, and only a list that was answered is then shown, once, to an   *)
(* observer of the same handle.                                            *)
(***************************************************************************)
EXTENDS Integers

CONSTANTS Starts, Handles, Observers, Addresses, CoinTypes, Nothing

Calls == [handle : Handles, observer : Observers,
          addresses : Addresses, coin_type : CoinTypes]

VARIABLES
    asked,   \* per start: its arguments, once made
    status,  \* per start: how far its caller can see it is
    shown    \* per start: what was shown, and to which observer

vars == <<asked, status, shown>>

\* The transactions a call asks for.
Wanted(c) == [testnet |-> c.coin_type = 1, addresses |-> c.addresses]

Init ==
    /\ asked = [s \in Starts |-> Nothing]
    /\ status = [s \in Starts |-> "idle"]
    /\ shown = [s \in Starts |-> Nothing]

Move(s, from, to) ==
    /\ status[s] = from
    /\ status' = [status EXCEPT ![s] = to]

Ask(s, c) ==
    /\ Move(s, "idle", "pending")
    /\ asked' = [asked EXCEPT ![s] = c]
    /\ UNCHANGED shown

Refuse(s) ==
    /\ Move(s, "pending", "refused")
    /\ UNCHANGED <<asked, shown>>

Satisfy(s) ==
    /\ Move(s, "pending", "satisfied")
    /\ UNCHANGED <<asked, shown>>

\* An observer that this or another call gave for the same handle.
Show(s, other) ==
    /\ Move(s, "satisfied", "shown")
    /\ asked[other] # Nothing
    /\ asked[other].handle = asked[s].handle
    /\ shown' = [shown EXCEPT ![s] =
                    [observer |-> asked[other].observer, txs |-> Wanted(asked[s])]]
    /\ UNCHANGED asked

Next ==
    \E s \in Starts :
        \/ \E c \in Calls : Ask(s, c)
        \/ Refuse(s)
        \/ Satisfy(s)
        \/ \E other \in Starts : Show(s, other)

Spec == Init /\ [][Next]_vars
=============================================================================
