------------------------------ MODULE ObjcTable ------------------------------
(***************************************************************************)
(* The iOS example over the core: table view controllers, each with a      *)
(* handle of its own that it starts whenever its view appears, and with    *)
(* itself as the observer.  The core is taken by its contract, which it    *)
(* keeps because one thread, the main thread, calls start().  The list of  *)
(* one on_update is named by the call of start() that led to it; how many  *)
(* rows it has, the server decides anew for each call.                     *)
(*                                                                         *)
(* UIKit is external: after reloadData it asks for the number of rows, at  *)
(* once or when it lays the table out, and then for any row below it.      *)
(***************************************************************************)
EXTENDS Integers

CONSTANTS
    Starts, Handles, Addresses, CoinTypes, Nothing,
    Controllers,   \* LGSampleDataTableViewController objects
    MaxRows        \* bound on the transactions of a list

ASSUME MaxRowsAssumption == MaxRows \in Nat
ASSUME TableNothingAssumption ==
    /\ Nothing \notin Starts \cup Handles \cup 0..MaxRows
    /\ Nothing \notin [handle : Handles, observer : Controllers,
                       addresses : Addresses, coin_type : CoinTypes]

VARIABLES
    asked, status, shown,   \* the calls of start(), as FetchContract has them
    handle,      \* per controller: its handle
    address,     \* per controller: the address it was made for
    screen,      \* per controller: whether its view is to be seen
    viewModel,   \* per controller: the list it was given last
    rows,        \* per list: the number of its transactions
    counted,     \* per table: the number of rows it was told, if any
    cells        \* per table and row: the list its cell was filled from

calls == <<asked, status, shown>>
made == <<handle, address>>
table == <<viewModel, rows, counted, cells>>
tableVars == <<calls, made, screen, table>>

Contract == INSTANCE FetchContract WITH Observers <- Controllers

Rows == 0..MaxRows - 1
Lists == Starts \cup {Nothing}
Shows == [observer : Controllers,
          txs : [testnet : BOOLEAN, addresses : Addresses]]
NoCells == [row \in Rows |-> Nothing]

\* Every variable holds values of its kind; what m_transactions[index] yields
\* behind its end is no list.
TableTypeOK ==
    /\ asked \in [Starts -> Contract!Calls \cup {Nothing}]
    /\ status \in [Starts -> {"idle", "pending", "refused", "satisfied", "shown"}]
    /\ shown \in [Starts -> Shows \cup {Nothing}]
    /\ handle \in [Controllers -> Handles \cup {Nothing}]
    /\ address \in [Controllers -> Addresses \cup {Nothing}]
    /\ screen \in [Controllers -> {"none", "made", "on", "off"}]
    /\ viewModel \in [Controllers -> Lists]
    /\ rows \in [Starts -> 0..MaxRows]
    /\ counted \in [Controllers -> 0..MaxRows \cup {Nothing}]
    /\ cells \in [Controllers -> [Rows -> Lists]]

\* No controller has been made.
NoController ==
    /\ handle = [c \in Controllers |-> Nothing]
    /\ address = [c \in Controllers |-> Nothing]
    /\ screen = [c \in Controllers |-> "none"]
    /\ viewModel = [c \in Controllers |-> Nothing]
    /\ rows = [s \in Starts |-> 0]
    /\ counted = [c \in Controllers |-> Nothing]
    /\ cells = [c \in Controllers |-> NoCells]

TableInit == Contract!Init /\ NoController

(***************************************************************************)
(* The example.                                                            *)
(***************************************************************************)

\* Each call makes a handle.  Variant: the API keeps one for all.
SharedHandle(h) == TRUE
observer_transaction_list(h) == \A c \in Controllers : handle[c] # h

\* The user browses the history of an address.
browseHistory(c, a, h) ==
    /\ screen[c] = "none"
    /\ observer_transaction_list(h)
    /\ handle' = [handle EXCEPT ![c] = h]
    /\ address' = [address EXCEPT ![c] = a]
    /\ screen' = [screen EXCEPT ![c] = "made"]
    /\ UNCHANGED <<calls, table>>

\* The handle is started again each time the view appears.
ArgumentsOf(c, t) == [handle |-> handle[c], observer |-> c,
                      addresses |-> address[c], coin_type |-> t]

Appear(c) ==
    /\ screen[c] \in {"made", "off"}
    /\ screen' = [screen EXCEPT ![c] = "on"]
    /\ UNCHANGED <<made, table>>

viewWillAppear(c, s) ==
    /\ Appear(c)
    /\ \E t \in CoinTypes : Contract!Ask(s, ArgumentsOf(c, t))

\* stop() is empty: the handle goes on.
viewWillDisappear(c) ==
    /\ screen[c] = "on"
    /\ screen' = [screen EXCEPT ![c] = "off"]
    /\ UNCHANGED <<calls, made, table>>

\* The core answers a call, whether its view is still to be seen or not.
Answer(s) ==
    /\ Contract!Refuse(s) \/ Contract!Satisfy(s)
    /\ UNCHANGED <<made, screen, table>>

\* count() of a list, of nil.
Count(list, length) == IF list = Nothing THEN 0 ELSE length[list]

\* The table forgets its cells, and asks how many rows there are, now or later.
\* Variants: it is not told; it is told before the controller has the new list.
NoReload(c) == UNCHANGED <<counted, cells>>
EarlyReload(c) ==
    /\ cells' = [cells EXCEPT ![c] = NoCells]
    /\ counted' = [counted EXCEPT ![c] = Count(viewModel[c], rows)]
reloadData(c) ==
    /\ cells' = [cells EXCEPT ![c] = NoCells]
    /\ \E number \in {Nothing, Count(viewModel'[c], rows')} :
          counted' = [counted EXCEPT ![c] = number]

\* The observer of the list, the controller, gets it.  Variant: it keeps the list
\* it has.
KeepFirst(c, s) ==
    viewModel' = [viewModel EXCEPT ![c] = IF @ = Nothing THEN s ELSE @]
Keep(c, s) == viewModel' = [viewModel EXCEPT ![c] = s]

Receive(c, s, length) ==
    /\ rows' = [rows EXCEPT ![s] = length]
    /\ Keep(c, s)
    /\ reloadData(c)
    /\ UNCHANGED <<made, screen>>

onUpdate(s, other, length) ==
    Contract!Show(s, other) /\ Receive(asked[other].observer, s, length)

(***************************************************************************)
(* What UIKit asks of the controller, on the main thread too.              *)
(***************************************************************************)

numberOfRows(c) ==
    /\ screen[c] = "on"
    /\ counted[c] = Nothing
    /\ counted' = [counted EXCEPT ![c] = Count(viewModel[c], rows)]
    /\ UNCHANGED <<calls, made, screen, viewModel, rows, cells>>

\* getTransaction(index) does not look at the length.
getTransaction(list, index) == IF index < rows[list] THEN list ELSE "undefined"

cellForRow(c, row) ==
    /\ screen[c] = "on"
    /\ counted[c] # Nothing
    /\ row < counted[c]
    /\ cells' = [cells EXCEPT ![c][row] =
          IF viewModel[c] = Nothing THEN Nothing
          ELSE getTransaction(viewModel[c], row)]
    /\ UNCHANGED <<calls, made, screen, viewModel, rows, counted>>

(***************************************************************************)
(* The specification.                                                      *)
(***************************************************************************)

TableNext ==
    \/ \E c \in Controllers :
          \/ \E a \in Addresses, h \in Handles : browseHistory(c, a, h)
          \/ \E s \in Starts : viewWillAppear(c, s)
          \/ viewWillDisappear(c)
          \/ numberOfRows(c)
          \/ \E row \in Rows : cellForRow(c, row)
    \/ \E s \in Starts :
          \/ Answer(s)
          \/ \E other \in Starts, length \in 0..MaxRows : onUpdate(s, other, length)

TableSpec == TableInit /\ [][TableNext]_tableVars

(***************************************************************************)
(* Properties.                                                             *)
(***************************************************************************)

\* No cell is filled from behind the end of a list, and a table never mixes the
\* rows of two lists, although getTransaction() checks nothing, a restart may
\* bring a shorter list while the table is on the screen, and lists come in any
\* order (transaction_list_vm.hpp 33, LGSampleDataTableViewController.m 42-64).
CellsCurrent ==
    \A c \in Controllers, row \in Rows :
        cells[c][row] # Nothing =>
            cells[c][row] = viewModel[c] /\ row < rows[viewModel[c]]

\* A table has only lists of its own address, also when an earlier call of its
\* handle answers later, or after stop() (transaction_list_vm.cpp 25, 57, 72,
\* api.cpp 26-28).
OwnList ==
    \A c \in Controllers : viewModel[c] # Nothing =>
        /\ shown[viewModel[c]].observer = c
        /\ shown[viewModel[c]].txs.addresses = address[c]

(***************************************************************************)
(* The inductive invariant behind the first two.                           *)
(***************************************************************************)

\* A controller has its handle to itself, and an address, once it is made.
HandlesApart ==
    /\ \A c \in Controllers :
          IF screen[c] = "none" THEN handle[c] = Nothing /\ viewModel[c] = Nothing
          ELSE handle[c] \in Handles /\ address[c] \in Addresses
    /\ \A c, other \in Controllers :
          handle[c] # Nothing /\ handle[c] = handle[other] => c = other

\* Every call was made by the controller that it names as its observer.
CallsOwn ==
    /\ \A s \in Starts : status[s] = "idle" <=> asked[s] = Nothing
    /\ \A s \in Starts : asked[s] # Nothing =>
          /\ asked[s].observer \in Controllers
          /\ asked[s].handle = handle[asked[s].observer]
          /\ asked[s].handle # Nothing
          /\ asked[s].addresses = address[asked[s].observer]

\* A list has been shown, and a table that counted rows counted those of its list.
ListsShown ==
    \A c \in Controllers :
        /\ viewModel[c] # Nothing => status[viewModel[c]] = "shown"
        /\ counted[c] # Nothing => counted[c] = Count(viewModel[c], rows)

TableInv ==
    /\ TableTypeOK
    /\ HandlesApart
    /\ CallsOwn
    /\ ListsShown
    /\ OwnList
    /\ CellsCurrent

=============================================================================
