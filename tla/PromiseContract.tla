--------------------------- MODULE PromiseContract ---------------------------
(***************************************************************************)
(* What getTransactions() of index.js promises a JavaScript program, over  *)
(* what start() promises index.js: the promise is settled at most once, and*)
(* with the answer of its own call; an error without a message leaves it   *)
(* pending for ever; and the list it was resolved with is then shown to    *)
(* the observer made for the call, and to no other.                        *)
(***************************************************************************)
EXTENDS FetchContract

VARIABLE promise   \* per start: the promise of its call

promiseVars == <<vars, promise>>

Unsettled(state) == [state |-> state, value |-> Nothing]

PromiseInit ==
    /\ Init
    /\ promise = [s \in Starts |-> Unsettled("none")]

Becomes(s, from, outcome) ==
    /\ promise[s] = Unsettled(from)
    /\ promise' = [promise EXCEPT ![s] = outcome]

getTransactions(s, c) ==
    Ask(s, c) /\ Becomes(s, "none", Unsettled("pending"))

Resolve(s) ==
    /\ Satisfy(s)
    /\ Becomes(s, "pending", [state |-> "resolved", value |-> Wanted(asked[s])])

Reject(s) == Refuse(s) /\ Becomes(s, "pending", Unsettled("rejected"))

LoseError(s) == Refuse(s) /\ UNCHANGED promise

ShowOwn(s) ==
    /\ Show(s, s)
    /\ promise[s] = [state |-> "resolved", value |-> Wanted(asked[s])]
    /\ UNCHANGED promise

PromiseNext ==
    \E s \in Starts :
        \/ \E c \in Calls : getTransactions(s, c)
        \/ Resolve(s)
        \/ Reject(s)
        \/ LoseError(s)
        \/ ShowOwn(s)

PromiseSpec == PromiseInit /\ [][PromiseNext]_promiseVars
=============================================================================
