---------------------------- MODULE ObjcAppProofs ----------------------------
(***************************************************************************)
(* Proofs about ObjcApp, for any number of controllers, handles, calls and *)
(* rows: it takes only steps of the core, and the tables over the core     *)
(* implement the tables over the contract of the core.                     *)
(***************************************************************************)
EXTENDS ObjcApp, LedgerClientProofs

(***************************************************************************)
(* The steps of the core.                                                  *)
(***************************************************************************)

\* A controller that was made has a handle and an address.
ControllersKnown ==
    /\ handle \in [Observers -> Handles \cup {Nothing}]
    /\ address \in [Observers -> Addresses \cup {Nothing}]
    /\ screen \in [Observers -> {"none", "made", "on", "off"}]
    /\ \A c \in Observers : screen[c] # "none" =>
          handle[c] \in Handles /\ address[c] \in Addresses

LEMMA InitControllers == AppInit => ControllersKnown
BY DEF AppInit, Table!NoController, ControllersKnown

\* Only the user makes a controller, with both.
LEMMA NextControllers == ControllersKnown /\ [AppNext]_appVars => ControllersKnown'
  <1> SUFFICES ASSUME ControllersKnown, [AppNext]_appVars PROVE ControllersKnown'
    OBVIOUS
  <1>1. CASE UNCHANGED controllers
    BY <1>1 DEF controllers, ControllersKnown
  <1>2. ASSUME NEW c \in Observers, browseHistory(c)
        PROVE  ControllersKnown'
    <2>1. PICK a \in Addresses, h \in Handles :
              /\ handle' = [handle EXCEPT ![c] = h]
              /\ address' = [address EXCEPT ![c] = a]
              /\ screen' = [screen EXCEPT ![c] = "made"]
      BY <1>2 DEF browseHistory, Table!browseHistory
    <2> QED BY <2>1 DEF ControllersKnown
  <1>3. ASSUME NEW c \in Observers, Table!Appear(c)
        PROVE  ControllersKnown'
    <2>1. /\ screen[c] \in {"made", "off"}
          /\ screen' = [screen EXCEPT ![c] = "on"]
          /\ UNCHANGED <<handle, address>>
      BY <1>3 DEF Table!Appear, Table!made
    <2> QED BY <2>1 DEF ControllersKnown
  <1>4. ASSUME NEW c \in Observers, viewWillDisappear(c)
        PROVE  ControllersKnown'
    <2>1. /\ screen[c] = "on"
          /\ screen' = [screen EXCEPT ![c] = "off"]
          /\ UNCHANGED <<handle, address>>
      BY <1>4 DEF viewWillDisappear, Table!viewWillDisappear, Table!made
    <2> QED BY <2>1 DEF ControllersKnown
  <1>5. ASSUME NEW c \in Observers, numberOfRows(c) \/ cellForRow(c)
        PROVE  ControllersKnown'
    <2>1. UNCHANGED <<handle, address, screen>>
      BY <1>5 DEF numberOfRows, Table!numberOfRows, cellForRow, Table!cellForRow, Table!made
    <2> QED BY <2>1 DEF ControllersKnown
  <1>6. ASSUME NEW s \in Starts, RunMain(s)
        PROVE  ControllersKnown'
    <2>1. UNCHANGED <<handle, address, screen>>
      BY <1>6 DEF RunMain, Table!Receive, Table!made, controllers
    <2> QED BY <2>1 DEF ControllersKnown
  <1>7. CASE UNCHANGED appVars
    BY <1>7, <1>1 DEF appVars
  <1> QED
    BY <1>1, <1>2, <1>3, <1>4, <1>5, <1>6, <1>7 DEF AppNext, viewWillAppear

\* The call that a controller makes as its view appears is one of start().
LEMMA AppearCalls ==
    ASSUME ControllersKnown, NEW c \in Observers, NEW s \in Starts, viewWillAppear(c, s)
    PROVE  \E t \in CoinTypes :
              /\ Table!ArgumentsOf(c, t) \in Calls
              /\ StartCall(Main, s, Table!ArgumentsOf(c, t))
  <1>1. PICK t \in CoinTypes : StartCall(Main, s, Table!ArgumentsOf(c, t))
    BY DEF viewWillAppear
  <1>2. screen[c] # "none"
    BY DEF viewWillAppear, Table!Appear
  <1>3. Table!ArgumentsOf(c, t) \in Calls
    BY <1>2 DEF ControllersKnown, Table!ArgumentsOf, Calls
  <1> QED BY <1>1, <1>3

\* Every step of the example is a step of the core or leaves it alone.
LEMMA AppNextIsNext == ControllersKnown /\ [AppNext]_appVars => [Next]_vars
  <1> SUFFICES ASSUME ControllersKnown, [AppNext]_appVars PROVE [Next]_vars
    OBVIOUS
  <1>1. ASSUME NEW c \in Observers, NEW s \in Starts, viewWillAppear(c, s)
        PROVE  Next
    <2>1. PICK t \in CoinTypes :
              /\ Table!ArgumentsOf(c, t) \in Calls
              /\ StartCall(Main, s, Table!ArgumentsOf(c, t))
      BY <1>1, AppearCalls
    <2> QED BY <2>1, ThreadAssumption DEF Next
  <1>2. ASSUME NEW c \in Observers,
               \/ browseHistory(c) \/ viewWillDisappear(c)
               \/ numberOfRows(c) \/ cellForRow(c)
        PROVE  UNCHANGED vars
    BY <1>2 DEF browseHistory, viewWillDisappear, numberOfRows, cellForRow
  <1>3. ASSUME NEW s \in Starts,
               StartStep(s) \/ (\E k \in Kinds : NetworkStep(k, s)) \/ RunMain(s)
        PROVE  Next
    BY <1>3 DEF Next, RunMain
  <1>4. CASE UNCHANGED appVars
    BY <1>4 DEF appVars
  <1> QED BY <1>1, <1>2, <1>3, <1>4 DEF AppNext

\* The example uses the core as any program may: what holds of every run of the core
\* holds under it (LGSampleDataTableViewController.m 32-35).
THEOREM AppIsCore == AppSpec => Spec
  <1>1. AppInit => Init
    BY DEF AppInit
  <1> QED BY <1>1, InitControllers, NextControllers, AppNextIsNext, PTL DEF AppSpec, Spec

(***************************************************************************)
(* What the tables see of the core are steps of its contract.              *)
(***************************************************************************)

LEMMA InitTable == AppInit => Table!TableInit
BY InitContract DEF AppInit, Table!TableInit, Contract!Init, Table!Contract!Init

\* What leaves the contract alone leaves the calls alone that a table knows of.
LEMMA CallsUnseen ==
    ASSUME UNCHANGED Contract!vars
    PROVE  UNCHANGED Table!calls
BY DEF Contract!vars, Table!calls

\* The view appears: start() is the first step of the contract.
LEMMA AppearAsks ==
    ASSUME Sound, ControllersKnown, NEW c \in Observers, NEW s \in Starts,
           viewWillAppear(c, s)
    PROVE  Table!viewWillAppear(c, s)
  <1>1. PICK t \in CoinTypes :
            /\ Table!ArgumentsOf(c, t) \in Calls
            /\ StartCall(Main, s, Table!ArgumentsOf(c, t))
    BY AppearCalls
  <1>2. Contract!Ask(s, Table!ArgumentsOf(c, t))
    BY <1>1, StartCallAsks, ThreadAssumption, AppAssumption
  <1>3. Table!Contract!Ask(s, Table!ArgumentsOf(c, t))
    BY <1>2 DEF Contract!Ask, Contract!Move, Table!Contract!Ask, Table!Contract!Move
  <1> QED BY <1>3 DEF viewWillAppear, Table!viewWillAppear

\* on_update: the list is shown, and the controller that gets it is the observer that
\* the contract names.
LEMMA UpdateReceived ==
    ASSUME Sound, Sound', NEW s \in Starts, on_update(s), NEW length \in 0..MaxRows,
           Table!Receive(Head(queue).update.observer, s, length)
    PROVE  \E other \in Starts : Table!onUpdate(s, other, length)
  <1>1. PICK other \in Starts : Contract!Show(s, other)
    BY on_updateShows, AppAssumption
  <1>2. Table!Contract!Show(s, other)
    BY <1>1 DEF Contract!Show, Contract!Move, Contract!Wanted,
                Table!Contract!Show, Table!Contract!Move, Table!Contract!Wanted
  <1>3. PICK update : update = Head(queue).update
    OBVIOUS
  <1>4. /\ LInv /\ Runs("update", s)
        /\ updates' = [updates EXCEPT ![s] = Append(@, update)]
    BY <1>3 DEF Sound, on_update
  <1>5. update \in Updates /\ updates[s] = <<>>
    <2>1. /\ Head(queue) \in Tasks
          /\ Head(queue).kind = "update" /\ Head(queue).start = s
          /\ TaskUnanswered(Head(queue))
      BY <1>4, RunsFacts
    <2>2. update \in Updates
      BY <1>3, <2>1, TaskFacts
    <2> QED BY <2>1, <2>2 DEF TaskUnanswered
  <1>6. updates'[s] # <<>> /\ updates'[s][1] = update
    <2>1. updates \in [Starts -> Seq(Updates)]
      BY <1>4 DEF LInv, TypeOK
    <2>2. /\ Append(updates[s], update) \in Seq(Updates)
          /\ Len(Append(updates[s], update)) = 1
          /\ Append(updates[s], update)[1] = update
      BY <1>5, <2>1, AppendToEmpty
    <2>3. Append(updates[s], update) # <<>>
      BY <2>2, LengthOne
    <2> QED BY <1>4, <2>1, <2>2, <2>3
  <1>7. update = [observer |-> call[other].observer, txs |-> Wanted(call[s])]
    <2>1. [x \in Starts |-> IF updates'[x] = <<>> THEN Nothing ELSE updates'[x][1]]
            = [[x \in Starts |-> IF updates[x] = <<>> THEN Nothing ELSE updates[x][1]]
                EXCEPT ![s] = [observer |-> call[other].observer,
                               txs |-> Wanted(call[s])]]
      BY <1>1 DEF Contract!Show, Contract!Wanted, Wanted
    <2> QED BY <1>6, <2>1
  <1>8. update.observer = call[other].observer
    BY <1>7
  <1> QED BY <1>2, <1>3, <1>8 DEF Table!onUpdate

\* An answer: an error or the list, which the tables do not look at.
LEMMA AnswerSeen ==
    ASSUME Sound, Sound', NEW s \in Starts, UNCHANGED controllers,
           Contract!Refuse(s) \/ Contract!Satisfy(s)
    PROVE  Table!Answer(s)
  <1>1. UNCHANGED Table!made /\ UNCHANGED screen /\ UNCHANGED Table!table
    BY DEF controllers, Table!made, Table!table
  <1>2. Table!Contract!Refuse(s) \/ Table!Contract!Satisfy(s)
    BY DEF Contract!Refuse, Contract!Satisfy, Contract!Move,
           Table!Contract!Refuse, Table!Contract!Satisfy, Table!Contract!Move
  <1> QED BY <1>1, <1>2 DEF Table!Answer

\* What no caller sees the tables do not see.
LEMMA StepUnseen ==
    ASSUME UNCHANGED Contract!vars, UNCHANGED controllers
    PROVE  UNCHANGED Table!tableVars
BY CallsUnseen DEF controllers, Table!tableVars, Table!made, Table!table

\* A task of the main queue.
LEMMA RunMainTable ==
    ASSUME Sound, Sound', NEW s \in Starts, RunMain(s)
    PROVE  [Table!TableNext]_(Table!tableVars)
  <1>0. Threads = {Main}
    BY AppAssumption
  <1>1. CASE on_update(s)
    <2>1. Head(queue).kind = "update"
      BY <1>1 DEF on_update, Runs
    <2>2. PICK length \in 0..MaxRows : Table!Receive(Head(queue).update.observer, s, length)
      BY <2>1 DEF RunMain
    <2>3. \E other \in Starts : Table!onUpdate(s, other, length)
      BY <1>1, <2>2, UpdateReceived
    <2> QED BY <2>2, <2>3 DEF Table!TableNext
  <1>2. CASE ~on_update(s)
    <2>1. Head(queue).kind # "update" /\ UNCHANGED controllers
      BY <1>2 DEF RunMain, RunTask, TokenFailure, TokenReceived, tx_task, TxsFailure,
                  TxsNotObject, TxsReceived, Runs
    <2>2. CASE TokenFailure(s)
      <3>1. /\ Runs("token", s) /\ UNCHANGED startVars /\ UNCHANGED updates
            /\ respond(s, ErrorOf(Head(queue).resp), Nothing)
            /\ ErrorOf(Head(queue).resp) \in {"", "parse error"}
        BY <2>2 DEF TokenFailure, respondByCopy, ErrorOf
      <3>2. Contract!Refuse(s)
        BY <1>0, <3>1, FailureRefuses
      <3> QED BY <2>1, <3>2, AnswerSeen DEF Table!TableNext
    <2>3. CASE TxsFailure(s)
      <3>1. /\ Runs("txs", s) /\ UNCHANGED startVars /\ UNCHANGED updates
            /\ ErrorOf(Head(queue).resp) \in {"", "parse error"}
            /\ respond(s, ErrorOf(Head(queue).resp), Nothing) \/ UNCHANGED responses
        BY <2>3 DEF TxsFailure, respondByReference, ErrorOf
      <3>2. CASE respond(s, ErrorOf(Head(queue).resp), Nothing)
        <4>1. Contract!Refuse(s)
          BY <1>0, <3>1, <3>2, FailureRefuses
        <4> QED BY <2>1, <4>1, AnswerSeen DEF Table!TableNext
      <3>3. CASE UNCHANGED responses
        <4>1. UNCHANGED Contract!vars
          BY <3>1, <3>3, Unseen DEF startVars
        <4> QED BY <2>1, <4>1, StepUnseen
      <3> QED BY <3>1, <3>2, <3>3
    <2>4. CASE TxsReceived(s)
      <3>1. Contract!Satisfy(s)
        BY <1>0, <2>4, TxsReceivedSatisfies
      <3> QED BY <2>1, <3>1, AnswerSeen DEF Table!TableNext
    <2>5. CASE TokenReceived(s) \/ tx_task(s) \/ TxsNotObject(s)
      <3>1. UNCHANGED startVars /\ UNCHANGED <<responses, updates>>
        BY <2>5 DEF TokenReceived, tx_task, TxsNotObject
      <3>2. UNCHANGED Contract!vars
        BY <3>1, Unseen DEF startVars
      <3> QED BY <2>1, <3>2, StepUnseen
    <2> QED BY <1>2, <2>2, <2>3, <2>4, <2>5 DEF RunMain, RunTask
  <1> QED BY <1>1, <1>2

\* What the user does and UIKit asks are steps of the tables.
LEMMA ScreenSteps ==
    ASSUME NEW c \in Observers,
           browseHistory(c) \/ viewWillDisappear(c) \/ numberOfRows(c) \/ cellForRow(c)
    PROVE  Table!TableNext
BY DEF browseHistory, viewWillDisappear, numberOfRows, cellForRow, Table!TableNext

\* Start() goes on, or the HTTP client answers.
LEMMA CoreSteps ==
    ASSUME Sound, NEW s \in Starts, UNCHANGED controllers,
           StartStep(s) \/ \E k \in Kinds : NetworkStep(k, s)
    PROVE  UNCHANGED Table!tableVars
  <1>1. CASE StartStep(s)
    <2>1. PICK to \in Stages \ {"idle"} : pc[s] # "idle" /\ pc' = [pc EXCEPT ![s] = to]
      BY <1>1 DEF StartStep, SetTestnetMode, get_transactions, get_token, Step, Stages
    <2>2. UNCHANGED <<call, responses, updates>>
      BY <1>1 DEF StartStep, SetTestnetMode, get_transactions, get_token, taskVars
    <2>3. \A other \in Starts : pc'[other] = "idle" <=> pc[other] = "idle"
      BY <2>1 DEF Sound, LInv, TypeOK
    <2>4. UNCHANGED Contract!vars
      BY <2>2, <2>3, Unseen
    <2> QED BY <2>4, StepUnseen
  <1>2. CASE \E k \in Kinds : NetworkStep(k, s)
    <2>1. UNCHANGED startVars /\ UNCHANGED <<responses, updates>>
      BY <1>2 DEF NetworkStep, on_network_error, on_success, Answer
    <2>2. UNCHANGED Contract!vars
      BY <2>1, Unseen DEF startVars
    <2> QED BY <2>2, StepUnseen
  <1> QED BY <1>1, <1>2

(***************************************************************************)
(* The theorem.                                                            *)
(***************************************************************************)

\* What ObjcTable assumes of its parameters holds of those it is given here.
LEMMA TableAssumed ==
    /\ MaxRows \in Nat
    /\ Nothing \notin Starts \cup Handles \cup 0..MaxRows
    /\ Nothing \notin [handle : Handles, observer : Observers,
                       addresses : Addresses, coin_type : CoinTypes]
BY AppAssumption, AppNothingAssumption, NothingAssumption DEF Calls

LEMMA NextTable ==
    Sound /\ Sound' /\ ControllersKnown /\ [AppNext]_appVars
        => [Table!TableNext]_(Table!tableVars)
  <1> SUFFICES ASSUME Sound, Sound', ControllersKnown, [AppNext]_appVars
               PROVE  [Table!TableNext]_(Table!tableVars)
    OBVIOUS
  <1>1. ASSUME NEW c \in Observers, NEW s \in Starts, viewWillAppear(c, s)
        PROVE  Table!TableNext
    BY <1>1, AppearAsks DEF Table!TableNext
  <1>2. CASE UNCHANGED appVars
    <2>1. UNCHANGED Contract!vars
      BY <1>2, Unseen DEF appVars, vars
    <2> QED BY <1>2, <2>1, StepUnseen DEF appVars
  <1> QED BY <1>1, <1>2, ScreenSteps, CoreSteps, RunMainTable DEF AppNext

\* The tables over the core implement the tables over the contract of the core,
\* although answers come in any order and a dangling reference may end the process:
\* what is proved of the latter, that no cell is filled from behind the end of a list
\* or from another list than the table counted, holds of the former
\* (LGSampleDataTableViewController.m 32-64, transaction_list_vm.cpp 21-70).
THEOREM TableImplemented == AppSpec => ImplementsTable
  <1>1. AppSpec => []Sound
    BY AppIsCore, SoundHolds, PTL
  <1> QED
    BY <1>1, InitControllers, NextControllers, InitTable, NextTable, PTL
    DEF AppSpec, ImplementsTable, Table!TableSpec
=============================================================================
