------------------------------- MODULE ObjcApp -------------------------------
(***************************************************************************)
(* The iOS example over the core itself: the controllers of ObjcTable are  *)
(* the observers, each viewWillAppear is a call of start() on the main     *)
(* thread, and each on_update an onUpdate.  The main thread does one thing *)
(* at a time: it runs the tasks of the core, which the context appended to *)
(* the main queue, or what UIKit asks of a controller.  When a dangling    *)
(* reference ends the process, the tables end with it.                     *)
(***************************************************************************)
EXTENDS LedgerClient

CONSTANT MaxRows   \* bound on the transactions of a list

ASSUME AppAssumption ==
    ~Inline /\ RestartAllowed /\ Threads = {Main} /\ MaxRows \in Nat
ASSUME AppNothingAssumption == Nothing \notin Starts \cup 0..MaxRows

VARIABLES handle, address, screen, viewModel, rows, counted, cells

controllers == <<handle, address, screen, viewModel, rows, counted, cells>>
appVars == <<vars, controllers>>

\* The table sees of the core what a caller of start() sees.
Table == INSTANCE ObjcTable WITH
    Controllers <- Observers,
    asked  <- call,
    status <- [s \in Starts |-> StatusOf(s)],
    shown  <- [s \in Starts |->
                 IF updates[s] = <<>> THEN Nothing ELSE updates[s][1]]

AppInit == Init /\ Table!NoController

\* The main thread is neither in start() nor gone.
MainFree == ~crashed /\ ~Busy(Main)

viewWillAppear(c, s) ==
    /\ \E t \in CoinTypes : StartCall(Main, s, Table!ArgumentsOf(c, t))
    /\ Table!Appear(c)

\* What the user does or UIKit asks does not reach the core.
browseHistory(c) ==
    /\ MainFree
    /\ UNCHANGED vars
    /\ \E a \in Addresses, h \in Handles : Table!browseHistory(c, a, h)

viewWillDisappear(c) == MainFree /\ UNCHANGED vars /\ Table!viewWillDisappear(c)

numberOfRows(c) == MainFree /\ UNCHANGED vars /\ Table!numberOfRows(c)

cellForRow(c) ==
    /\ MainFree
    /\ UNCHANGED vars
    /\ \E row \in Table!Rows : Table!cellForRow(c, row)

\* A task that shows a list calls onUpdate of the controller; the others do not
\* reach the controllers.
RunMain(s) ==
    /\ RunTask(s)
    /\ IF Head(queue).kind = "update"
       THEN \E length \in 0..MaxRows :
               Table!Receive(Head(queue).update.observer, s, length)
       ELSE UNCHANGED controllers

AppNext ==
    \/ \E c \in Observers :
          \/ browseHistory(c)
          \/ \E s \in Starts : viewWillAppear(c, s)
          \/ viewWillDisappear(c)
          \/ numberOfRows(c)
          \/ cellForRow(c)
    \/ \E s \in Starts :
          \/ StartStep(s) /\ UNCHANGED controllers
          \/ \E k \in Kinds : NetworkStep(k, s) /\ UNCHANGED controllers
          \/ RunMain(s)

AppSpec == AppInit /\ [][AppNext]_appVars

\* start() goes on, the main queue runs its tasks, NSURLSession completes every
\* request, if only with its timeout, and UIKit lays out a table on the screen.
AppFairSpec ==
    /\ AppSpec
    /\ \A s \in Starts :
          /\ WF_appVars(StartStep(s) /\ UNCHANGED controllers)
          /\ WF_appVars(RunMain(s))
          /\ \A k \in Kinds : WF_appVars(NetworkStep(k, s) /\ UNCHANGED controllers)
    /\ \A c \in Observers : WF_appVars(numberOfRows(c))

(***************************************************************************)
(* Properties.                                                             *)
(***************************************************************************)

\* Over the core itself a controller meets nothing that ObjcTable, which has only
\* the contract of start(), does not allow for: the lists its table shows are its
\* own, whole and counted (LGSampleDataTableViewController.m 32-64 over
\* transaction_list_vm.cpp 21-70).
ImplementsTable == Table!TableSpec

ControlledBy(c, s) == pc[s] # "idle" /\ call[s].observer = c

\* The list that a call was answered becomes that of its controller, whatever list
\* that had before; and while its view is on the screen the rows of its list are
\* counted; or the process ends
\* (LGSampleDataTableViewController.m 42-54, transaction_list_vm.cpp 53-67).
ListReachesTable ==
    /\ \A s \in Starts :
          StatusOf(s) = "satisfied"
              ~> crashed \/ \E c \in Observers :
                               ControlledBy(c, s) /\ viewModel[c] = s
    /\ \A c \in Observers :
          (screen[c] = "on" /\ viewModel[c] # Nothing)
              ~> crashed \/ screen[c] # "on" \/ counted[c] # Nothing
=============================================================================
