--------------------------- MODULE ObjcTableProofs ---------------------------
(***************************************************************************)
(* Proofs about ObjcTable for any number of controllers, handles, calls    *)
(* and rows.                                                               *)
(***************************************************************************)
EXTENDS ObjcTable, TLAPS

\* The initial state: no controller, no call, no list.
LEMMA InitTableInv == TableInit => TableInv
  <1> SUFFICES ASSUME TableInit PROVE TableInv
    OBVIOUS
  <1> USE DEF TableInit, NoController
  <1>1. TableTypeOK
    BY MaxRowsAssumption DEF TableTypeOK, Lists, NoCells, Contract!Init
  <1>2. HandlesApart /\ ListsShown /\ OwnList
    BY DEF HandlesApart, ListsShown, OwnList
  <1>3. CallsOwn
    BY DEF CallsOwn, Contract!Init
  <1>4. CellsCurrent
    BY DEF CellsCurrent, NoCells
  <1> QED BY <1>1, <1>2, <1>3, <1>4 DEF TableInv

\* The count of a list is a number of rows.
LEMMA CountIsNumber ==
    ASSUME NEW list \in Lists, NEW length \in [Starts -> 0..MaxRows]
    PROVE  /\ Count(list, length) \in 0..MaxRows
           /\ Count(list, length) # Nothing
BY MaxRowsAssumption, TableNothingAssumption DEF Count, Lists

\* A new controller has an unused handle, so no call can name it.
LEMMA browseHistoryInv ==
    ASSUME TableInv, NEW c \in Controllers, NEW a \in Addresses, NEW h \in Handles,
           browseHistory(c, a, h)
    PROVE  TableInv'
  <1>1. /\ screen[c] = "none" /\ \A other \in Controllers : handle[other] # h
        /\ handle' = [handle EXCEPT ![c] = h] /\ address' = [address EXCEPT ![c] = a]
        /\ screen' = [screen EXCEPT ![c] = "made"]
        /\ UNCHANGED <<asked, status, shown, viewModel, rows, counted, cells>>
    BY DEF browseHistory, observer_transaction_list, calls, table
  <1>2. TableTypeOK'
    BY <1>1 DEF TableInv, TableTypeOK
  <1>3. HandlesApart'
    BY <1>1 DEF TableInv, TableTypeOK, HandlesApart
  <1>4. \A s \in Starts : asked[s] # Nothing => asked[s].observer # c
    BY <1>1 DEF TableInv, CallsOwn, HandlesApart
  <1>5. CallsOwn'
    BY <1>1, <1>4 DEF TableInv, TableTypeOK, CallsOwn
  <1>6. ListsShown' /\ CellsCurrent'
    BY <1>1 DEF TableInv, ListsShown, CellsCurrent
  <1>7. viewModel[c] = Nothing
    BY <1>1 DEF TableInv, HandlesApart
  <1>8. OwnList'
    BY <1>1, <1>7 DEF TableInv, TableTypeOK, OwnList
  <1> QED BY <1>2, <1>3, <1>5, <1>6, <1>8 DEF TableInv

\* A call is made by the controller it names, with its handle and address.
LEMMA viewWillAppearInv ==
    ASSUME TableInv, NEW c \in Controllers, NEW s \in Starts, viewWillAppear(c, s)
    PROVE  TableInv'
  <1>1. PICK t \in CoinTypes :
          Contract!Ask(s, [handle |-> handle[c], observer |-> c,
                           addresses |-> address[c], coin_type |-> t])
    BY DEF viewWillAppear, ArgumentsOf
  <1> DEFINE arguments == [handle |-> handle[c], observer |-> c,
                           addresses |-> address[c], coin_type |-> t]
  <1>2. /\ screen[c] \in {"made", "off"} /\ screen' = [screen EXCEPT ![c] = "on"]
        /\ status[s] = "idle" /\ status' = [status EXCEPT ![s] = "pending"]
        /\ asked' = [asked EXCEPT ![s] = arguments]
        /\ UNCHANGED <<shown, handle, address, viewModel, rows, counted, cells>>
    BY <1>1 DEF viewWillAppear, Appear, Contract!Ask, Contract!Move, made, table
  <1>3. handle[c] \in Handles /\ address[c] \in Addresses
    BY <1>2 DEF TableInv, HandlesApart
  <1>4. arguments # Nothing /\ handle[c] # Nothing
    BY <1>3, TableNothingAssumption
  <1>5. TableTypeOK' /\ HandlesApart'
    <2>1. arguments \in Contract!Calls
      BY <1>3 DEF Contract!Calls
    <2> HIDE DEF arguments
    <2> QED BY <1>2, <2>1 DEF TableInv, TableTypeOK, HandlesApart
  <1>6. CallsOwn'
    <2>1. /\ asked'[s] = arguments /\ status'[s] = "pending"
          /\ \A x \in Starts \ {s} : asked'[x] = asked[x] /\ status'[x] = status[x]
      BY <1>2 DEF TableInv, TableTypeOK
    <2> HIDE DEF arguments
    <2>2. /\ arguments.observer = c /\ arguments.handle = handle[c]
          /\ arguments.addresses = address[c]
      BY DEF arguments
    <2> QED BY <1>2, <1>4, <2>1, <2>2 DEF TableInv, CallsOwn
  <1>7. \A x \in Starts : status[x] = "shown" => status'[x] = "shown"
    BY <1>2
  <1>8. ListsShown' /\ OwnList' /\ CellsCurrent'
    BY <1>2, <1>7 DEF TableInv, TableTypeOK, Lists, ListsShown, OwnList, CellsCurrent
  <1> QED BY <1>5, <1>6, <1>8 DEF TableInv

LEMMA viewWillDisappearInv ==
    ASSUME TableInv, NEW c \in Controllers, viewWillDisappear(c)
    PROVE  TableInv'
  <1>1. /\ screen[c] = "on" /\ screen' = [screen EXCEPT ![c] = "off"]
        /\ UNCHANGED <<asked, status, shown, handle, address, viewModel, rows, counted, cells>>
    BY DEF viewWillDisappear, calls, made, table
  <1>2. TableTypeOK' /\ HandlesApart'
    BY <1>1 DEF TableInv, TableTypeOK, HandlesApart
  <1>3. CallsOwn' /\ ListsShown' /\ OwnList' /\ CellsCurrent'
    BY <1>1 DEF TableInv, CallsOwn, ListsShown, OwnList, CellsCurrent
  <1> QED BY <1>2, <1>3 DEF TableInv

LEMMA AnswerInv ==
    ASSUME TableInv, NEW s \in Starts, Answer(s)
    PROVE  TableInv'
  <1>1. PICK to \in {"refused", "satisfied"} :
          status[s] = "pending" /\ status' = [status EXCEPT ![s] = to]
    BY DEF Answer, Contract!Refuse, Contract!Satisfy, Contract!Move
  <1>2. UNCHANGED <<asked, shown, handle, address, screen, viewModel, rows, counted, cells>>
    BY DEF Answer, Contract!Refuse, Contract!Satisfy, made, table
  <1>3. TableTypeOK' /\ HandlesApart'
    BY <1>1, <1>2 DEF TableInv, TableTypeOK, HandlesApart
  <1>4. /\ \A x \in Starts : status'[x] = "idle" <=> status[x] = "idle"
        /\ \A x \in Starts : status[x] = "shown" => status'[x] = "shown"
    BY <1>1 DEF TableInv, TableTypeOK
  <1>5. CallsOwn'
    BY <1>2, <1>4 DEF TableInv, CallsOwn
  <1>6. ListsShown' /\ OwnList' /\ CellsCurrent'
    BY <1>2, <1>4 DEF TableInv, TableTypeOK, Lists, ListsShown, OwnList, CellsCurrent
  <1> QED BY <1>3, <1>5, <1>6 DEF TableInv

\* The list goes to the controller that asked for it, whose table forgets what it
\* had; no other table shows this list.
LEMMA onUpdateInv ==
    ASSUME TableInv, NEW s \in Starts, NEW other \in Starts, NEW length \in 0..MaxRows,
           onUpdate(s, other, length)
    PROVE  TableInv'
  <1>1. PICK c : c = asked[other].observer
    OBVIOUS
  <1>2. /\ status[s] = "satisfied" /\ status' = [status EXCEPT ![s] = "shown"]
        /\ asked[other] # Nothing /\ asked[other].handle = asked[s].handle
        /\ shown' = [shown EXCEPT ![s] =
              [observer |-> c, txs |-> Contract!Wanted(asked[s])]]
        /\ rows' = [rows EXCEPT ![s] = length]
        /\ viewModel' = [viewModel EXCEPT ![c] = s]
        /\ UNCHANGED <<asked, handle, address, screen>>
    BY <1>1 DEF onUpdate, Receive, Contract!Show, Contract!Move, Keep, made
  <1>3. PICK number \in {Nothing, Count(viewModel'[c], rows')} :
          /\ counted' = [counted EXCEPT ![c] = number]
          /\ cells' = [cells EXCEPT ![c] = NoCells]
    BY <1>1 DEF onUpdate, Receive, reloadData
  <1>4. asked[s] # Nothing /\ c \in Controllers /\ asked[s].observer = c
    <2>1. asked[s] # Nothing
      BY <1>2 DEF TableInv, CallsOwn
    <2>2. /\ asked[s].observer \in Controllers /\ c \in Controllers
          /\ handle[asked[s].observer] = handle[c] /\ handle[c] # Nothing
      BY <1>1, <1>2, <2>1 DEF TableInv, CallsOwn
    <2> QED BY <2>1, <2>2 DEF TableInv, HandlesApart
  <1>5. /\ asked[s] \in Contract!Calls
        /\ asked[s].addresses = address[c] /\ handle[c] # Nothing
    BY <1>2, <1>4 DEF TableInv, TableTypeOK, CallsOwn
  <1>6. /\ viewModel'[c] = s /\ shown'[s].observer = c
        /\ shown'[s].txs.addresses = address[c] /\ status'[s] = "shown"
    BY <1>2, <1>4, <1>5 DEF TableInv, TableTypeOK, Contract!Wanted
  <1>7. /\ rows' \in [Starts -> 0..MaxRows]
        /\ \A x \in Starts \ {s} : rows'[x] = rows[x] /\ shown'[x] = shown[x]
                                   /\ status'[x] = status[x]
        /\ \A d \in Controllers \ {c} : viewModel'[d] = viewModel[d]
              /\ counted'[d] = counted[d] /\ cells'[d] = cells[d]
        /\ counted'[c] = number /\ cells'[c] = NoCells
    BY <1>2, <1>3, <1>4 DEF TableInv, TableTypeOK
  <1>8. \A d \in Controllers : viewModel[d] # s
    BY <1>2, TableNothingAssumption DEF TableInv, ListsShown
  <1>9. number = Nothing \/ (number = Count(viewModel'[c], rows') /\ number \in 0..MaxRows)
    BY <1>6, <1>7, CountIsNumber DEF Lists
  <1>10. TableTypeOK'
    <2>1. [observer |-> c, txs |-> Contract!Wanted(asked[s])] \in Shows
      BY <1>4, <1>5 DEF Contract!Wanted, Contract!Calls, Shows
    <2>2. shown' \in [Starts -> Shows \cup {Nothing}]
      BY <1>2, <2>1 DEF TableInv, TableTypeOK
    <2>3. viewModel' \in [Controllers -> Lists] /\ cells' \in [Controllers -> [Rows -> Lists]]
      BY <1>2, <1>3, <1>4 DEF TableInv, TableTypeOK, Lists, NoCells
    <2>4. counted' \in [Controllers -> 0..MaxRows \cup {Nothing}]
      BY <1>3, <1>9 DEF TableInv, TableTypeOK
    <2> QED BY <1>2, <1>7, <2>2, <2>3, <2>4 DEF TableInv, TableTypeOK
  <1>11. HandlesApart'
    <2>1. screen[c] # "none"
      BY <1>4, <1>5 DEF TableInv, HandlesApart
    <2> QED BY <1>2, <1>7, <2>1 DEF TableInv, HandlesApart
  <1>12. CallsOwn'
    BY <1>2, <1>4, <1>6, <1>7 DEF TableInv, CallsOwn
  <1>13. ASSUME NEW d \in Controllers \ {c}, viewModel[d] # Nothing
         PROVE  /\ viewModel[d] \in Starts \ {s}
                /\ rows'[viewModel[d]] = rows[viewModel[d]]
                /\ shown'[viewModel[d]] = shown[viewModel[d]]
                /\ status'[viewModel[d]] = status[viewModel[d]]
    BY <1>7, <1>8, <1>13 DEF TableInv, TableTypeOK, Lists
  <1>14. ListsShown'
    <2>1. ASSUME NEW d \in Controllers \ {c}
          PROVE  /\ viewModel'[d] # Nothing => status'[viewModel'[d]] = "shown"
                 /\ counted'[d] # Nothing => counted'[d] = Count(viewModel'[d], rows')
      BY <1>7, <1>13 DEF TableInv, ListsShown, Count
    <2>2. /\ status'[viewModel'[c]] = "shown"
          /\ counted'[c] # Nothing => counted'[c] = Count(viewModel'[c], rows')
      BY <1>6, <1>7, <1>9
    <2> QED BY <2>1, <2>2 DEF ListsShown
  <1>15. OwnList'
    BY <1>2, <1>6, <1>7, <1>13 DEF TableInv, OwnList
  <1>16. CellsCurrent'
    <2> SUFFICES ASSUME NEW d \in Controllers, NEW row \in Rows, cells'[d][row] # Nothing
                 PROVE  cells'[d][row] = viewModel'[d] /\ row < rows'[viewModel'[d]]
      BY DEF CellsCurrent
    <2>1. d # c
      BY <1>7 DEF NoCells
    <2>2. cells[d][row] = viewModel[d] /\ row < rows[viewModel[d]] /\ viewModel[d] # Nothing
      BY <1>7, <2>1 DEF TableInv, CellsCurrent
    <2> QED BY <1>7, <1>13, <2>1, <2>2
  <1> QED BY <1>10, <1>11, <1>12, <1>14, <1>15, <1>16 DEF TableInv

LEMMA numberOfRowsInv ==
    ASSUME TableInv, NEW c \in Controllers, numberOfRows(c)
    PROVE  TableInv'
  <1>1. /\ counted' = [counted EXCEPT ![c] = Count(viewModel[c], rows)]
        /\ UNCHANGED <<asked, status, shown, handle, address, screen, viewModel, rows, cells>>
    BY DEF numberOfRows, calls, made
  <1>2. Count(viewModel[c], rows) \in 0..MaxRows
    BY CountIsNumber DEF TableInv, TableTypeOK
  <1>3. TableTypeOK' /\ ListsShown'
    BY <1>1, <1>2 DEF TableInv, TableTypeOK, ListsShown
  <1>4. HandlesApart' /\ CallsOwn' /\ OwnList' /\ CellsCurrent'
    BY <1>1 DEF TableInv, HandlesApart, CallsOwn, OwnList, CellsCurrent
  <1> QED BY <1>3, <1>4 DEF TableInv

\* The row is below the count, and the count is that of the list.
LEMMA cellForRowInv ==
    ASSUME TableInv, NEW c \in Controllers, NEW row \in Rows, cellForRow(c, row)
    PROVE  TableInv'
  <1> DEFINE cell == IF viewModel[c] = Nothing THEN Nothing
                     ELSE getTransaction(viewModel[c], row)
  <1>1. /\ cells' = [cells EXCEPT ![c][row] = cell]
        /\ counted[c] # Nothing /\ row < counted[c]
        /\ UNCHANGED <<asked, status, shown, handle, address, screen, viewModel, rows, counted>>
    BY DEF cellForRow, calls, made
  <1>2. viewModel[c] # Nothing => row < rows[viewModel[c]] /\ cell = viewModel[c]
    <2>1. counted[c] = Count(viewModel[c], rows)
      BY <1>1 DEF TableInv, ListsShown
    <2> QED BY <1>1, <2>1 DEF Count, getTransaction
  <1>3. cell = viewModel[c] /\ cell \in Lists
    BY <1>2 DEF TableInv, TableTypeOK
  <1> HIDE DEF cell
  <1>4. TableTypeOK'
    BY <1>1, <1>3 DEF TableInv, TableTypeOK
  <1>5. CellsCurrent'
    <2> SUFFICES ASSUME NEW d \in Controllers, NEW r \in Rows, cells'[d][r] # Nothing
                 PROVE  cells'[d][r] = viewModel[d] /\ r < rows[viewModel[d]]
      BY <1>1 DEF CellsCurrent
    <2>1. CASE d = c /\ r = row
      BY <1>1, <1>2, <1>3, <2>1 DEF TableInv, TableTypeOK
    <2>2. CASE d # c \/ r # row
      BY <1>1, <2>2 DEF TableInv, TableTypeOK, CellsCurrent
    <2> QED BY <2>1, <2>2
  <1>6. HandlesApart' /\ CallsOwn' /\ ListsShown' /\ OwnList'
    BY <1>1 DEF TableInv, HandlesApart, CallsOwn, ListsShown, OwnList
  <1> QED BY <1>4, <1>5, <1>6 DEF TableInv

(***************************************************************************)
(* The theorems.                                                           *)
(***************************************************************************)

LEMMA NextTableInv == TableInv /\ [TableNext]_tableVars => TableInv'
  <1> SUFFICES ASSUME TableInv, [TableNext]_tableVars PROVE TableInv'
    OBVIOUS
  <1>1. CASE UNCHANGED tableVars
    <2>1. UNCHANGED <<asked, status, shown, handle, address, screen, viewModel, rows,
                      counted, cells>>
      BY <1>1 DEF tableVars, calls, made, table
    <2> QED BY <2>1 DEF TableInv, TableTypeOK, HandlesApart, CallsOwn, ListsShown, OwnList,
                        CellsCurrent
  <1>2. CASE TableNext
    BY <1>2, browseHistoryInv, viewWillAppearInv, viewWillDisappearInv, AnswerInv,
       onUpdateInv, numberOfRowsInv, cellForRowInv DEF TableNext
  <1> QED BY <1>1, <1>2

\* The tables of any number of controllers and calls stay consistent
\* (LGSampleDataTableViewController.m 17-64).
THEOREM TableInvHolds == TableSpec => []TableInv
  <1> QED BY InitTableInv, NextTableInv, PTL DEF TableSpec

\* getTransaction() is never asked for a row behind the end of its list, and no
\* table mixes two lists, whatever the lengths of the lists and the order in which
\* they come (transaction_list_vm.hpp 33, LGSampleDataTableViewController.m 42-64).
THEOREM CellsStayCurrent == TableSpec => []CellsCurrent
  <1>1. TableInv => CellsCurrent
    BY DEF TableInv
  <1> QED BY <1>1, TableInvHolds, PTL

\* A table has only lists of its own address, also after a restart or stop()
\* (transaction_list_vm.cpp 25, 57, 72, api.cpp 26-28).
THEOREM ListsOwn == TableSpec => []OwnList
  <1>1. TableInv => OwnList
    BY DEF TableInv
  <1> QED BY <1>1, TableInvHolds, PTL
=============================================================================
