-------------------------- MODULE NodeClientProofs --------------------------
(***************************************************************************)
(* Proofs about NodeClient for any number of calls.  Its steps are steps   *)
(* of the core, so that Sound holds before and after each of them; what    *)
(* they add concerns the one handler that runs and the promises.           *)
(***************************************************************************)
EXTENDS NodeClient, LedgerClientProofs, SequenceTheorems

\* What Node.js makes of the parameters.
LEMMA NodeFacts == Inline /\ WrappersPinned /\ Threads = {Main}
BY NodeAssumption, ThreadAssumption

LEMMA InitNodeInv == NodeInit => NodeInv
  <1> SUFFICES ASSUME NodeInit PROVE NodeInv
    OBVIOUS
  <1>1. TypeOK
    BY InitLInv DEF NodeInit, LInv
  <1>2. \A s \in Starts : Unsettled("none") \in Promises
    BY DEF Unsettled, Promises
  <1>3. NodeTypeOK
    BY <1>1, <1>2 DEF NodeInit, NodeTypeOK
  <1>4. TaskInHandler
    BY DEF NodeInit, Init, TaskInHandler
  <1>5. NoSecondCallback /\ SettledAsAnswered
    BY DEF NodeInit, NoSecondCallback, SettledAsAnswered, Unsettled
  <1> QED BY <1>3, <1>4, <1>5 DEF NodeInv

(***************************************************************************)
(* Steps outside of a handler.                                             *)
(***************************************************************************)

\* A new promise is settled by nobody yet; the others are as they were.
LEMMA getTransactionsInv ==
    ASSUME Sound', NodeInv, NEW s \in Starts, NEW c \in Calls, getTransactions(s, c)
    PROVE  NodeInv'
  <1>1. /\ promise' = [promise EXCEPT ![s] = Unsettled("pending")]
        /\ call' = [call EXCEPT ![s] = c] /\ handler = Nothing
        /\ UNCHANGED <<handler, threw, thenThrew, unhandled, queue, responses>>
    BY DEF getTransactions, StartCall, taskVars
  <1>2. Unsettled("pending") \in Promises /\ Unsettled("pending").state = "pending"
    BY DEF Unsettled, Promises
  <1>3. /\ promise' \in [Starts -> Promises] /\ promise'[s].state = "pending"
        /\ \A other \in Starts \ {s} : promise'[other] = promise[other]
    BY <1>1, <1>2 DEF NodeInv, NodeTypeOK
  <1>4. NodeTypeOK'
    BY <1>1, <1>3 DEF NodeInv, NodeTypeOK, Sound, LInv
  <1>5. TaskInHandler' /\ NoSecondCallback'
    BY <1>1 DEF NodeInv, TaskInHandler, NoSecondCallback
  <1>6. \A other \in Starts \ {s} : call'[other] = call[other]
    BY <1>1 DEF NodeInv, NodeTypeOK, TypeOK
  <1>7. SettledAsAnswered'
    <2>1. ASSUME NEW other \in Starts \ {s}
          PROVE  /\ promise'[other] = promise[other] /\ responses'[other] = responses[other]
                 /\ Wanted(call[other])' = Wanted(call[other])
      BY <1>1, <1>3, <1>6 DEF Wanted
    <2> QED BY <1>3, <2>1 DEF NodeInv, SettledAsAnswered
  <1> QED BY <1>4, <1>5, <1>7 DEF NodeInv

\* The steps of start() leave the JavaScript side alone.
LEMMA NodeStartStepInv ==
    ASSUME Sound', NodeInv, NEW s \in Starts, NodeStartStep(s)
    PROVE  NodeInv'
  <1>1. UNCHANGED <<promise, handler, threw, thenThrew, unhandled, queue, responses, call>>
    BY DEF NodeStartStep, StartStep, SetTestnetMode, get_transactions, get_token,
           jsVars, taskVars
  <1>2. NodeTypeOK'
    BY <1>1 DEF NodeInv, NodeTypeOK, Sound, LInv
  <1> QED BY <1>1, <1>2 DEF NodeInv, TaskInHandler, NoSecondCallback, SettledAsAnswered, Wanted

(***************************************************************************)
(* Handlers.                                                               *)
(***************************************************************************)

\* A handler starts with an empty queue, and puts the continuation of its answer
\* there.
LEMMA EnterInv ==
    ASSUME Sound', NodeInv, NEW k \in Kinds, NEW s \in Starts,
           NEW clause \in {"then", "catch"}, NEW resp,
           Enter(k, s, clause), Answer(k, s, resp),
           clause = "catch" <=> resp.error
    PROVE  NodeInv'
  <1>1. /\ handler = Nothing /\ handler' = [kind |-> k, start |-> s, clause |-> clause]
        /\ UNCHANGED <<promise, threw, thenThrew, unhandled, responses, call>>
        /\ queue' = Append(queue, [kind |-> k, start |-> s, resp |-> resp])
    BY DEF Enter, Answer, cb_with, startVars
  <1>2. queue = <<>> /\ ~threw
    BY <1>1 DEF NodeInv, TaskInHandler
  <1> DEFINE task == [kind |-> k, start |-> s, resp |-> resp]
  <1>3. Len(queue') = 1 /\ Head(queue') = task
    <2>1. Append(<<>>, task) = <<task>>
      OBVIOUS
    <2>2. queue' = <<task>>
      BY <1>1, <1>2, <2>1
    <2> HIDE DEF task
    <2> QED BY <2>2
  <1>4. handler' \in Handlers
    BY <1>1 DEF Handlers
  <1>5. NodeTypeOK'
    BY <1>1, <1>4 DEF NodeInv, NodeTypeOK, Sound, LInv
  <1>6. TaskInHandler'
    <2>1. handler'.clause = clause /\ handler' # Nothing
      <3>1. handler'.clause = clause
        BY <1>1
      <3>2. Nothing \notin Handlers
        BY HandlerAssumption
      <3> QED BY <1>4, <3>1, <3>2
    <2> QED BY <1>1, <1>2, <1>3, <2>1 DEF TaskInHandler
  <1> QED BY <1>1, <1>5, <1>6 DEF NodeInv, NoSecondCallback, SettledAsAnswered, Wanted

\* A handler that threw was a .catch.
LEMMA LeaveInv ==
    ASSUME Sound', NodeInv, NEW k \in Kinds, NEW s \in Starts, Leave(k, s)
    PROVE  NodeInv'
  <1>1. /\ handler # Nothing /\ queue = <<>> /\ handler' = Nothing /\ threw' = FALSE
        /\ UNCHANGED <<queue, responses, call, promise>>
        /\ thenThrew' = IF threw /\ handler.clause = "then" THEN thenThrew \cup {<<k, s>>}
                        ELSE thenThrew
        /\ unhandled' \in {unhandled, unhandled \cup {<<k, s>>}}
    BY DEF Leave, vars
  <1>2. thenThrew' = thenThrew
    BY <1>1 DEF NodeInv, TaskInHandler
  <1>3. NodeTypeOK'
    <2>1. unhandled \cup {<<k, s>>} \in SUBSET (Kinds \X Starts)
      BY DEF NodeInv, NodeTypeOK
    <2>2. unhandled' \in SUBSET (Kinds \X Starts)
      BY <1>1, <2>1 DEF NodeInv, NodeTypeOK
    <2> QED BY <1>1, <1>2, <2>2 DEF NodeInv, NodeTypeOK, Sound, LInv
  <1>4. TaskInHandler'
    BY <1>1 DEF TaskInHandler
  <1> QED BY <1>1, <1>2, <1>3, <1>4 DEF NodeInv, NoSecondCallback, SettledAsAnswered, Wanted

(***************************************************************************)
(* Tasks.                                                                  *)
(***************************************************************************)

\* The answer of a call comes from a failure of the network, an invalid body, or
\* its list; the other tasks give none.
Answers(s, task) ==
    \/ UNCHANGED responses
    \/ /\ Unanswered(s)
       /\ task.kind \in Kinds /\ task.resp.error \in BOOLEAN
       /\ queue' = <<>>
       /\ respond(s, ErrorOf(task.resp), Nothing)
    \/ /\ Unanswered(s)
       /\ ~task.resp.error /\ task.resp.value \in Urls
       /\ respond(s, "", task.resp.value)

\* What a task leaves in the queue: nothing, or what goes on after a success.
GoesOn(task) ==
    \/ queue' = <<>>
    \/ /\ task.kind \in Kinds /\ ~task.resp.error
       /\ \E next : queue' = <<next>> /\ next.kind \in {"inject", "update"}

LEMMA OneInQueue ==
    ASSUME NEW S, NEW q \in Seq(S), q # <<>>, Len(q) <= 1
    PROVE  Head(q) \in S /\ Tail(q) = <<>>
  <1>1. Len(q) = 1
    <2>1. Len(q) \in Nat /\ Len(q) # 0
      BY EmptySeq
    <2> QED BY <2>1
  <1>2. q[1] \in S /\ Head(q) = q[1]
    BY <1>1, ElementOfSeq
  <1>3. Tail(q) \in Seq(S) /\ Len(Tail(q)) = 0
    BY <1>1, HeadTailProperties
  <1>4. Tail(q) = <<>>
    BY <1>3, EmptySeq
  <1> QED BY <1>2, <1>4

LEMMA RunTaskFacts ==
    ASSUME Sound, Sound', NEW s \in Starts, RunTask(s), Len(queue) <= 1
    PROVE  /\ queue # <<>> /\ UNCHANGED call
           /\ Answers(s, Head(queue))
           /\ GoesOn(Head(queue))
  <1> DEFINE task == Head(queue)
  <1>1. LInv /\ queue \in Seq(Tasks)
    BY DEF Sound, LInv, TypeOK
  <1>2. queue # <<>> /\ task \in Tasks /\ Tail(queue) = <<>>
    <2>1. queue # <<>>
      BY DEF RunTask, TokenFailure, TokenReceived, tx_task, TxsFailure, TxsNotObject,
             TxsReceived, on_update, Runs
    <2> QED BY <1>1, <2>1, OneInQueue
  <1>3. UNCHANGED call
    BY DEF RunTask, TokenFailure, TokenReceived, tx_task, TxsFailure, TxsNotObject,
           TxsReceived, on_update, startVars
  <1>4. \A next : Append(Tail(queue), next) = <<next>>
    <2>1. \A next : Append(<<>>, next) = <<next>>
      OBVIOUS
    <2> QED BY <1>2, <2>1
  <1>5. task.kind \in Kinds => task.resp \in HttpResponses(task.kind)
    BY <1>2, TaskFacts
  <1>6. CASE TokenFailure(s)
    <2>1. /\ Runs("token", s) /\ Failed(task.resp) /\ queue' = <<>>
          /\ respond(s, ErrorOf(task.resp), Nothing)
      BY <1>2, <1>6 DEF TokenFailure, respondByCopy
    <2>2. Unanswered(s)
      BY <1>1, <2>1, NoAnswerYet
    <2>3. task.kind \in Kinds /\ task.resp.error \in BOOLEAN
      BY <1>5, <2>1, ResponseFacts DEF Runs, Kinds
    <2> QED BY <1>2, <1>3, <2>1, <2>2, <2>3 DEF Answers, GoesOn
  <1>7. CASE TokenReceived(s)
    <2>1. /\ task.kind = "token" /\ ~Failed(task.resp) /\ UNCHANGED responses
          /\ \E next : queue' = <<next>> /\ next.kind = "inject"
      BY <1>4, <1>7 DEF TokenReceived, Runs, execute
    <2> QED BY <1>2, <1>3, <2>1 DEF Answers, GoesOn, Kinds, Failed
  <1>8. CASE tx_task(s) \/ TxsNotObject(s) \/ on_update(s)
    <2>1. UNCHANGED responses /\ queue' = <<>>
      BY <1>2, <1>8 DEF tx_task, TxsNotObject, on_update
    <2> QED BY <1>2, <1>3, <2>1 DEF Answers, GoesOn
  <1>9. CASE TxsFailure(s)
    <2>1. /\ Runs("txs", s) /\ Failed(task.resp) /\ queue' = <<>>
          /\ respond(s, ErrorOf(task.resp), Nothing) \/ UNCHANGED responses
      BY <1>2, <1>9 DEF TxsFailure, respondByReference
    <2>2. Unanswered(s)
      BY <1>1, <2>1, NoAnswerYet
    <2>3. task.kind \in Kinds /\ task.resp.error \in BOOLEAN
      BY <1>5, <2>1, ResponseFacts DEF Runs, Kinds
    <2> QED BY <1>2, <1>3, <2>1, <2>2, <2>3 DEF Answers, GoesOn
  <1>10. CASE TxsReceived(s)
    <2>1. /\ Runs("txs", s) /\ task.kind = "txs" /\ task.resp.json = "object"
          /\ respond(s, "", task.resp.value)
      BY <1>10 DEF TxsReceived, Runs, respondByCopy
    <2>4. \E next : queue' = <<next>> /\ next.kind = "update"
      <3> DEFINE next == [kind |-> "update", start |-> s,
                          update |-> [observer |-> m_observer[call[s].handle],
                                      txs |-> task.resp.value]]
      <3>1. queue' = Append(Tail(queue), next)
        BY <1>10 DEF TxsReceived, Notify, execute
      <3>2. next.kind = "update"
        OBVIOUS
      <3> HIDE DEF next
      <3> QED BY <1>4, <3>1, <3>2
    <2>2. Unanswered(s)
      BY <1>1, <2>1, NoAnswerYet
    <2>3. task.resp.value \in Urls /\ ~Failed(task.resp) /\ task.resp.error \in BOOLEAN
      BY <1>5, <2>1, ResponseFacts DEF Kinds
    <2> QED BY <1>2, <1>3, <2>1, <2>2, <2>3, <2>4 DEF Answers, GoesOn, Failed, Kinds
  <1> QED BY <1>6, <1>7, <1>8, <1>9, <1>10 DEF RunTask

\* A promise with no answer is not settled.
LEMMA SettledOnce ==
    ASSUME NodeInv, NEW s \in Starts, responses[s] = <<>>
    PROVE  promise[s] \in Promises /\ promise[s].state \in {"none", "pending"}
  <1>1. promise[s] \in Promises
    BY DEF NodeInv, NodeTypeOK
  <1>2. promise[s].state \in {"none", "pending", "rejected", "resolved"}
    BY <1>1 DEF Promises
  <1>3. \A response : <<response>> # <<>>
    OBVIOUS
  <1>4. promise[s].state # "resolved" /\ promise[s].state # "rejected"
    BY <1>3 DEF NodeInv, SettledAsAnswered
  <1> QED BY <1>1, <1>2, <1>4

\* What settles a promise for the first time.
LEMMA SettleFacts ==
    ASSUME NodeInv, NEW s \in Starts, responses[s] = <<>>,
           NEW outcome \in Promises, Settle(s, outcome)
    PROVE  /\ promise' \in [Starts -> Promises]
           /\ \A other \in Starts \ {s} : promise'[other] = promise[other]
           /\ promise'[s] = outcome \/ promise'[s].state = "none"
  <1>1. promise \in [Starts -> Promises]
    BY DEF NodeInv, NodeTypeOK
  <1>2. promise[s] \in Promises /\ promise[s].state \in {"none", "pending"}
    BY SettledOnce
  <1> QED BY <1>1, <1>2 DEF Settle

\* A list that a call is answered with is the one it wants.
LEMMA AnswerWanted ==
    ASSUME Sound, NEW s \in Starts, responses[s] # <<>>, responses[s][1].result # Nothing
    PROVE  /\ responses[s][1] = [error |-> "", result |-> url[s]]
           /\ url[s] = Wanted(call[s])
  <1>1. /\ pc[s] = "returned"
        /\ responses[s][1] = [error |-> "", result |-> url[s]]
    BY DEF Sound, DataInv, AnswersOwn
  <1>2. url[s] \in Urls /\ url[s].addresses = call[s].addresses
    BY <1>1 DEF Sound, LInv, UrlsBuilt, DataInv, UrlsOwn
  <1>3. url[s].testnet <=> call[s].coin_type = 1
    BY <1>1, NodeFacts DEF Sound, NetworkInv, NetworkOwn, OwnTestnet
  <1>4. url[s] = Wanted(call[s])
    BY <1>2, <1>3 DEF Urls, Wanted
  <1> QED BY <1>1, <1>4

AllWanted ==
    \A s \in Starts :
        responses[s] # <<>> /\ responses[s][1].result # Nothing =>
            responses[s][1].result = Wanted(call[s])

LEMMA AnswersWantedNext == Sound' => AllWanted'
  <1>1. Sound => AllWanted
    <2> SUFFICES ASSUME Sound, NEW s \in Starts,
                        responses[s] # <<>>, responses[s][1].result # Nothing
                 PROVE  responses[s][1].result = Wanted(call[s])
      BY DEF AllWanted
    <2>1. /\ responses[s][1] = [error |-> "", result |-> url[s]]
          /\ url[s] = Wanted(call[s])
      BY AnswerWanted
    <2>2. [error |-> "", result |-> url[s]].result = url[s]
      OBVIOUS
    <2> QED BY <2>1, <2>2
  <1> QED BY <1>1, PTL

LEMMA AtMostOne == \A n \in {0, 1} : n <= 1
OBVIOUS

LEMMA AppendOne == \A e : Append(<<>>, e) = <<e>>
OBVIOUS

\* The answer of a call whose promise is not settled, as respond() gives it.
LEMMA AnswerGiven ==
    ASSUME Sound, NEW s \in Starts, Unanswered(s),
           NEW error \in {"", "parse error"}, NEW result \in Urls \cup {Nothing},
           respond(s, error, result)
    PROVE  /\ responses'[s] = <<[error |-> error, result |-> result]>>
           /\ Len(responses'[s]) = 1 /\ Len(responses[s]) = 0
           /\ responses'[s][1] = [error |-> error, result |-> result]
           /\ \A other \in Starts \ {s} : responses'[other] = responses[other]
  <1> DEFINE response == [error |-> error, result |-> result]
  <1>1. /\ Len(responses'[s]) = 1 /\ responses'[s][1] = response
        /\ \A other \in Starts \ {s} : responses'[other] = responses[other]
    BY RespondFacts DEF Sound
  <1>2. responses' = [responses EXCEPT ![s] = Append(@, response)]
    BY DEF respond
  <1>3. responses \in [Starts -> Seq(Responses)] /\ responses[s] = <<>>
    BY DEF Sound, LInv, TypeOK, Unanswered
  <1> HIDE DEF response
  <1>5. responses'[s] = <<response>>
    BY <1>2, <1>3, AppendOne
  <1>6. Len(responses[s]) = 0
    BY <1>3, EmptySeq
  <1> QED BY <1>1, <1>5, <1>6 DEF response

\* A task runs in its handler; what it answers settles the promise of its call, or
\* throws if it is a failure of the network, out of a .catch.
LEMMA NodeTaskInv ==
    ASSUME Sound, Sound', NodeInv, NEW s \in Starts, NodeTask(s)
    PROVE  NodeInv'
  <1> DEFINE task == Head(queue)
             resp == task.resp
             response == responses'[s][Len(responses'[s])]
  <1>1. /\ RunTask(s) /\ UNCHANGED <<handler, thenThrew, unhandled>>
        /\ IF Len(responses'[s]) > Len(responses[s])
           THEN js_respond(s, response) ELSE UNCHANGED <<promise, threw>>
    BY DEF NodeTask
  <1>2. /\ queue # <<>> /\ UNCHANGED call
        /\ Answers(s, task)
        /\ GoesOn(task)
    BY <1>1, RunTaskFacts DEF NodeInv, TaskInHandler
  <1>3. /\ handler # Nothing /\ ~threw
        /\ handler.clause = "catch" <=> task.kind \in Kinds /\ resp.error
    BY <1>2 DEF NodeInv, TaskInHandler
  <1>4. queue' # <<>> => Len(queue') = 1 /\ Head(queue').kind \notin Kinds
                         /\ handler.clause # "catch"
    BY <1>2, <1>3 DEF GoesOn, Kinds
  <1>5. queue' = <<>> => Len(queue') = 0
    BY EmptySeq
  <1>6. /\ promise \in [Starts -> Promises] /\ threw \in BOOLEAN
        /\ responses \in [Starts -> Seq(Responses)] /\ Sound
    BY DEF NodeInv, NodeTypeOK, TypeOK
  \* It is enough to look at the promise of s, and at what is thrown.
  <1>7. SUFFICES
          /\ promise' \in [Starts -> Promises]
          /\ threw' \in BOOLEAN
          /\ threw' => queue' = <<>> /\ handler.clause = "catch"
          /\ \A other \in Starts \ {s} : /\ promise'[other] = promise[other]
                                         /\ responses'[other] = responses[other]
          /\ promise'[s].state = "resolved" =>
                /\ responses'[s] = <<[error |-> "", result |-> promise'[s].value]>>
                /\ promise'[s].value = Wanted(call[s])
          /\ promise'[s].state = "rejected" =>
                responses'[s] = <<[error |-> "parse error", result |-> Nothing]>>
    <2>1. NodeTypeOK'
      BY <1>1, <1>7 DEF NodeInv, NodeTypeOK, Sound, LInv
    <2>2. TaskInHandler'
      <3>1. handler' = handler
        BY <1>1
      <3>2. Len(queue') \in {0, 1}
        BY <1>4, <1>5
      <3>3. queue' # <<>> => ~(handler.clause = "catch") /\ ~(Head(queue').kind \in Kinds)
        BY <1>4
      <3>4. Len(queue') <= 1
        BY <3>2, AtMostOne
      <3>5. /\ handler' = Nothing => queue' = <<>> /\ ~threw'
            /\ threw' => queue' = <<>> /\ handler'.clause = "catch"
        BY <1>3, <1>7, <3>1
      <3>6. queue' # <<>> =>
               (handler'.clause = "catch"
                  <=> Head(queue').kind \in Kinds /\ Head(queue').resp.error)
        BY <3>1, <3>3
      <3> QED BY <3>4, <3>5, <3>6 DEF TaskInHandler
    <2>3. NoSecondCallback'
      BY <1>1 DEF NodeInv, NoSecondCallback
    <2>4. SettledAsAnswered'
      BY <1>2, <1>7 DEF NodeInv, SettledAsAnswered, Wanted
    <2> QED BY <2>1, <2>2, <2>3, <2>4 DEF NodeInv
  <1> HIDE DEF task
  <1>8. CASE UNCHANGED responses
    <2>1. ~(Len(responses'[s]) > Len(responses[s]))
      BY <1>6, <1>8, LenProperties
    <2>2. UNCHANGED <<promise, threw>>
      BY <1>1, <2>1
    <2> QED BY <1>3, <1>6, <1>8, <2>2 DEF NodeInv, SettledAsAnswered
  <1>9. CASE /\ Unanswered(s)
             /\ task.kind \in Kinds /\ resp.error \in BOOLEAN
             /\ queue' = <<>>
             /\ respond(s, ErrorOf(resp), Nothing)
    <2>1. ErrorOf(resp) = (IF resp.error THEN "" ELSE "parse error")
      BY DEF ErrorOf
    <2>2. /\ responses'[s] = <<[error |-> ErrorOf(resp), result |-> Nothing]>>
          /\ response = [error |-> ErrorOf(resp), result |-> Nothing]
          /\ js_respond(s, response)
          /\ \A other \in Starts \ {s} : responses'[other] = responses[other]
      <3>1. ErrorOf(resp) \in {"", "parse error"}
        BY <2>1
      <3>2. /\ responses'[s] = <<[error |-> ErrorOf(resp), result |-> Nothing]>>
            /\ Len(responses'[s]) = 1 /\ Len(responses[s]) = 0
            /\ responses'[s][1] = [error |-> ErrorOf(resp), result |-> Nothing]
            /\ \A other \in Starts \ {s} : responses'[other] = responses[other]
        BY <1>6, <1>9, <3>1, AnswerGiven
      <3>3. js_respond(s, response)
        BY <1>1, <3>2
      <3> QED BY <3>2, <3>3
    <2>3. response.error = ErrorOf(resp) /\ response.result = Nothing
      BY <2>2
    <2>4. CASE resp.error
      <3>1. threw' = TRUE /\ UNCHANGED promise
        BY <2>1, <2>2, <2>3, <2>4 DEF js_respond
      <3>2. promise[s].state \in {"none", "pending"}
        BY <1>9, SettledOnce DEF Unanswered
      <3> QED BY <1>3, <1>6, <1>9, <2>2, <2>4, <3>1, <3>2
    <2>5. CASE ~resp.error
      <3>1. /\ UNCHANGED threw /\ Settle(s, Unsettled("rejected"))
            /\ Unsettled("rejected") \in Promises
            /\ Unsettled("rejected").state = "rejected"
        BY <2>1, <2>2, <2>3, <2>5 DEF js_respond, Unsettled, Promises
      <3>2. /\ promise' \in [Starts -> Promises]
            /\ \A other \in Starts \ {s} : promise'[other] = promise[other]
            /\ promise'[s].state \in {"rejected", "none"}
        BY <1>9, <3>1, SettleFacts DEF Unanswered
      <3> QED BY <1>3, <1>6, <2>1, <2>2, <2>5, <3>1, <3>2
    <2> QED BY <1>9, <2>4, <2>5
  <1>10. CASE /\ Unanswered(s)
              /\ ~resp.error /\ resp.value \in Urls
              /\ respond(s, "", resp.value)
    <2> DEFINE resolved == [state |-> "resolved", value |-> resp.value]
               answer == [error |-> "", result |-> resp.value]
    <2>0. answer.error = "" /\ answer.result = resp.value
      OBVIOUS
    <2> HIDE DEF answer
    <2>1. /\ responses'[s] = <<answer>>
          /\ responses'[s][1] = answer
          /\ response = answer
          /\ js_respond(s, response)
          /\ \A other \in Starts \ {s} : responses'[other] = responses[other]
      <3>1. /\ responses'[s] = <<answer>>
            /\ Len(responses'[s]) = 1 /\ Len(responses[s]) = 0
            /\ responses'[s][1] = answer
            /\ \A other \in Starts \ {s} : responses'[other] = responses[other]
        BY <1>6, <1>10, AnswerGiven DEF answer
      <3>2. Len(responses'[s]) > Len(responses[s])
        BY <3>1
      <3>3. js_respond(s, response)
        BY <1>1, <3>2
      <3> QED BY <3>1, <3>3
    <2>2. response.error = "" /\ response.result = resp.value /\ resp.value # Nothing
      <3>1. response.error = "" /\ response.result = resp.value
        BY <2>0, <2>1
      <3>2. resp.value # Nothing
        BY <1>10, NothingAssumption
      <3> QED BY <3>1, <3>2
    <2>3. resp.value = Wanted(call[s])
      <3>1. \A e : <<e>> # <<>>
        OBVIOUS
      <3>2. responses'[s] # <<>>
        BY <2>1, <3>1
      <3>3. responses'[s][1].result = resp.value
        BY <2>0, <2>1
      <3>4. responses'[s][1].result = Wanted(call'[s])
        BY <2>2, <3>2, <3>3, AnswersWantedNext DEF AllWanted, Wanted
      <3> QED BY <1>2, <3>3, <3>4 DEF Wanted
    <2>4. UNCHANGED threw /\ Settle(s, resolved)
      BY <2>1, <2>2 DEF js_respond
    <2>5. resolved \in Promises /\ resolved.state = "resolved" /\ resolved.value = resp.value
      BY <1>10 DEF Promises
    <2> HIDE DEF resolved
    <2>6. /\ promise' \in [Starts -> Promises]
          /\ \A other \in Starts \ {s} : promise'[other] = promise[other]
          /\ promise'[s] = resolved \/ promise'[s].state = "none"
      BY <1>10, <2>4, <2>5, SettleFacts DEF Unanswered
    <2>7. /\ promise'[s].state = "resolved" =>
                /\ responses'[s] = <<[error |-> "", result |-> promise'[s].value]>>
                /\ promise'[s].value = Wanted(call[s])
          /\ promise'[s].state # "rejected"
      BY <2>1, <2>3, <2>5, <2>6 DEF answer
    <2> QED BY <1>3, <1>6, <2>1, <2>4, <2>6, <2>7
  <1> QED BY <1>2, <1>8, <1>9, <1>10 DEF Answers

(***************************************************************************)
(* The invariant and what follows from it.                                 *)
(***************************************************************************)

\* What a step of NodeClient is to the core.
LEMMA NodeNextIsNext == [NodeNext]_nodeVars => [Next]_vars
  <1> SUFFICES ASSUME [NodeNext]_nodeVars PROVE [Next]_vars
    OBVIOUS
  <1>1. CASE UNCHANGED nodeVars
    BY <1>1 DEF nodeVars
  <1>2. ASSUME NEW s \in Starts, NEW c \in Calls, getTransactions(s, c)
        PROVE  Next
    <2>1. Main \in Threads /\ StartCall(Main, s, c)
      BY <1>2, ThreadAssumption DEF getTransactions
    <2> QED BY <2>1 DEF Next
  <1>3. ASSUME NEW s \in Starts, NodeStartStep(s)
        PROVE  Next
    BY <1>3 DEF NodeStartStep, Next
  <1>4. ASSUME NEW s \in Starts, NodeTask(s)
        PROVE  Next
    BY <1>4 DEF NodeTask, Next
  <1>5. ASSUME NEW s \in Starts, NEW k \in Kinds, Then(k, s) \/ Catch(k, s)
        PROVE  Next
    BY <1>5 DEF Then, Catch, NetworkStep, Next
  <1>6. ASSUME NEW s \in Starts, NEW k \in Kinds, Leave(k, s)
        PROVE  UNCHANGED vars
    BY <1>6 DEF Leave
  <1> QED BY <1>1, <1>2, <1>3, <1>4, <1>5, <1>6 DEF NodeNext

LEMMA NextSound == Sound /\ [NodeNext]_nodeVars => Sound'
  <1>1. Sound /\ [NodeNext]_nodeVars => LInv' /\ DataInv' /\ NetworkInv'
    BY NodeNextIsNext, NextLInv, NextDataInv, NextNetworkInv DEF Sound
  <1>2. LInv /\ DataInv /\ NetworkInv => Sound
    BY DEF Sound
  <1> QED BY <1>1, <1>2, PTL

LEMMA NextNodeInv == Sound /\ NodeInv /\ [NodeNext]_nodeVars => NodeInv'
  <1> SUFFICES ASSUME Sound, NodeInv, [NodeNext]_nodeVars PROVE NodeInv'
    OBVIOUS
  <1>0. Sound'
    BY NextSound
  <1>1. CASE UNCHANGED nodeVars
    BY <1>0, <1>1 DEF nodeVars, vars, jsVars, NodeInv, NodeTypeOK, TaskInHandler,
       NoSecondCallback, SettledAsAnswered, Wanted, Sound, LInv
  <1>2. ASSUME NEW s \in Starts, NEW c \in Calls, getTransactions(s, c)
        PROVE  NodeInv'
    BY <1>0, <1>2, getTransactionsInv
  <1>3. ASSUME NEW s \in Starts, NodeStartStep(s)
        PROVE  NodeInv'
    BY <1>0, <1>3, NodeStartStepInv
  <1>4. ASSUME NEW s \in Starts, NodeTask(s)
        PROVE  NodeInv'
    BY <1>0, <1>4, NodeTaskInv
  <1>5. ASSUME NEW s \in Starts, NEW k \in Kinds, Then(k, s)
        PROVE  NodeInv'
    <2>1. Enter(k, s, "then")
      BY <1>5 DEF Then
    <2>2. PICK resp : Answer(k, s, resp) /\ ~resp.error
      BY <1>5 DEF Then, on_success, Bodies
    <2> QED BY <1>0, <2>1, <2>2, EnterInv
  <1>6. ASSUME NEW s \in Starts, NEW k \in Kinds, Catch(k, s)
        PROVE  NodeInv'
    <2>1. Enter(k, s, "catch")
      BY <1>6 DEF Catch
    <2>2. PICK resp : Answer(k, s, resp) /\ resp.error
      BY <1>6 DEF Catch, on_network_error, NetworkError
    <2> QED BY <1>0, <2>1, <2>2, EnterInv
  <1>7. ASSUME NEW s \in Starts, NEW k \in Kinds, Leave(k, s)
        PROVE  NodeInv'
    BY <1>0, <1>7, LeaveInv
  <1> QED BY <1>1, <1>2, <1>3, <1>4, <1>5, <1>6, <1>7 DEF NodeNext

\* Under Node.js, too, a call is in one place and carries only its own data.
LEMMA NodeSound == NodeSpec => []Sound
  <1>1. Init => Sound
    BY InitLInv, InitDataInv, InitNetworkInv DEF Sound
  <1>2. NodeInit => Init
    BY DEF NodeInit
  <1> QED BY <1>1, <1>2, NextSound, PTL DEF NodeSpec

\* Whatever the number of calls and however the handlers of axios interleave, the
\* one that runs answers its call once, and a promise has the outcome of its own
\* call (index.js 19-31 and 79-101).
THEOREM NodeInvHolds == NodeSpec => []NodeInv
  <1> QED BY InitNodeInv, NextNodeInv, NodeSound, PTL DEF NodeSpec

\* No .catch runs after its own .then has thrown: the core never sees a second
\* callback of a request (index.js 27-29, 87-92; http_callback.cpp 29-39).
THEOREM ThenNeverThrows == NodeSpec => []NoSecondCallback
  <1>1. NodeInv => NoSecondCallback
    BY DEF NodeInv
  <1> QED BY <1>1, NodeInvHolds, PTL

\* A promise is resolved with the list its call asked for, and rejected only after
\* an error that has a message (index.js 87-92, client.cpp 66-106).
THEOREM PromisesAsAnswered == NodeSpec => []SettledAsAnswered
  <1>1. NodeInv => SettledAsAnswered
    BY DEF NodeInv
  <1> QED BY <1>1, NodeInvHolds, PTL

\* With the exception of respond() on its way, no further JavaScript is called
\* (client.cpp 40-50 and 95-106, NJSItfHandleResponse.cpp 25-31).
THEOREM NothingAfterThrow == NodeSpec => []NothingRunsAfterThrow
  <1>1. NodeInv => NothingRunsAfterThrow
    BY DEF NodeInv, TaskInHandler, NothingRunsAfterThrow
  <1> QED BY <1>1, NodeInvHolds, PTL

(***************************************************************************)
(* What the theorems about the core say under Node.js, where their         *)
(* conditions hold.                                                        *)
(***************************************************************************)

\* index.js drives the core as its own specification allows (index.js 19-31).
THEOREM NodeIsCore == NodeSpec => Spec
  <1>1. NodeInit => Init
    BY DEF NodeInit
  <1> QED BY <1>1, NodeNextIsNext, PTL DEF NodeSpec, Spec

\* Under Node.js both requests of a call go to the network its options name,
\* however calls overlap (transaction_list_vm.cpp 32, client.cpp 33, 66).
THEOREM NodeNetworks == NodeSpec => []OwnNetwork
  <1>1. Spec => []OwnNetwork
    BY NodeFacts, NetworksOwn
  <1> QED BY <1>1, NodeIsCore, PTL

\* Under Node.js no Runnable outlives the HandleResponse it refers to
\* (client.cpp 93-107, NJSItfRunnable.cpp 47-69).
THEOREM NodeReferences == NodeSpec => []NoDanglingUse
  <1>1. Spec => []NoDanglingUse
    BY NodeFacts, ReferencesLive
  <1> QED BY <1>1, NodeIsCore, PTL

\* index.js makes a handle for each call, so that the list goes to the observer of
\* its own call (index.js 79-99).
THEOREM NodeObservers == NodeSpec => []OwnObserver
  <1>1. Spec => []OwnObserver
    BY NodeAssumption, ObserversOwn
  <1> QED BY <1>1, NodeIsCore, PTL

(***************************************************************************)
(* The promises.                                                           *)
(***************************************************************************)

PromisesKnown == \A s \in Starts : PromiseKnown(s)

\* What PromiseKnown looks at.
LEMMA PromiseKept ==
    ASSUME NEW s \in Starts, PromiseKnown(s),
           promise'[s] = promise[s], responses'[s] = responses[s],
           pc'[s] = "idle" <=> pc[s] = "idle"
    PROVE  PromiseKnown(s)'
BY DEF PromiseKnown, Unsettled

\* getTransactions() returns a pending promise, whose call is unanswered.
LEMMA getTransactionsKnown ==
    ASSUME Sound, NodeInv, PromisesKnown,
           NEW s \in Starts, NEW c \in Calls, getTransactions(s, c)
    PROVE  PromisesKnown'
  <1>1. /\ promise' = [promise EXCEPT ![s] = Unsettled("pending")]
        /\ pc[s] = "idle" /\ pc' = [pc EXCEPT ![s] = "bound"] /\ UNCHANGED responses
    BY DEF getTransactions, StartCall, Step, taskVars
  <1>2. /\ promise'[s] = Unsettled("pending") /\ pc'[s] = "bound"
        /\ \A other \in Starts \ {s} : promise'[other] = promise[other]
                                       /\ pc'[other] = pc[other]
    BY <1>1 DEF NodeInv, NodeTypeOK, TypeOK
  <1>3. responses[s] = <<>>
    BY <1>1 DEF Sound, LInv, WaitingUnanswered, Unanswered
  <1>4. PromiseKnown(s)'
    BY <1>1, <1>2, <1>3 DEF PromiseKnown, Unsettled
  <1>5. \A other \in Starts \ {s} : PromiseKnown(other)'
    BY <1>1, <1>2, PromiseKept DEF PromisesKnown
  <1> QED BY <1>4, <1>5 DEF PromisesKnown

LEMMA NodeStartStepKnown ==
    ASSUME Sound, PromisesKnown, NEW s \in Starts, NodeStartStep(s)
    PROVE  PromisesKnown'
  <1>1. UNCHANGED <<promise, responses>>
    BY DEF NodeStartStep, StartStep, SetTestnetMode, get_transactions, get_token,
           jsVars, taskVars
  <1>2. PICK to \in Stages \ {"idle"} : pc[s] # "idle" /\ pc' = [pc EXCEPT ![s] = to]
    BY DEF NodeStartStep, StartStep, SetTestnetMode, get_transactions, get_token, Step,
           Stages
  <1>3. \A other \in Starts : pc'[other] = "idle" <=> pc[other] = "idle"
    BY <1>2 DEF Sound, LInv, TypeOK
  <1> QED BY <1>1, <1>3, PromiseKept DEF PromisesKnown

\* A call whose task runs has returned, and its promise is pending.
LEMMA PendingUntilAnswered ==
    ASSUME Sound, PromisesKnown, NEW s \in Starts, RunTask(s)
    PROVE  /\ pc[s] = "returned" /\ UNCHANGED pc
           /\ responses[s] = <<>> => promise[s] = Unsettled("pending")
  <1>1. UNCHANGED pc
    BY DEF RunTask, TokenFailure, TokenReceived, tx_task, TxsFailure, TxsNotObject,
           TxsReceived, on_update, startVars
  <1>2. \E kind : Runs(kind, s)
    BY DEF RunTask, TokenFailure, TokenReceived, tx_task, TxsFailure, TxsNotObject,
           TxsReceived, on_update
  <1>3. pc[s] = "returned"
    BY <1>2, RunsFacts DEF Sound
  <1> QED BY <1>1, <1>3 DEF PromisesKnown, PromiseKnown

LEMMA OneAfterNone == \A m, n : m = 1 /\ n = 0 => m > n
OBVIOUS

\* What respond() of index.js makes of the promise of the call it answers ...
LEMMA AnswerSettles ==
    ASSUME Sound, NodeInv, PromisesKnown, NEW s \in Starts, NodeTask(s), Unanswered(s),
           NEW error \in {"", "parse error"}, NEW result \in Urls \cup {Nothing},
           respond(s, error, result)
    PROVE  /\ promise[s] = Unsettled("pending")
           /\ error # "" => promise' = [promise EXCEPT ![s] = Unsettled("rejected")]
           /\ error = "" /\ result = Nothing => UNCHANGED promise
           /\ error = "" /\ result # Nothing =>
                 promise' = [promise EXCEPT ![s] =
                                [state |-> "resolved", value |-> result]]
  <1> DEFINE answer == [error |-> error, result |-> result]
             response == responses'[s][Len(responses'[s])]
  <1>0. answer.error = error /\ answer.result = result
    OBVIOUS
  <1> HIDE DEF answer
  <1>1. /\ RunTask(s)
        /\ Len(responses'[s]) > Len(responses[s]) => js_respond(s, response)
    BY DEF NodeTask
  <1>2. Len(responses'[s]) = 1 /\ Len(responses[s]) = 0 /\ responses'[s][1] = answer
    <2>1. /\ responses'[s] = <<[error |-> error, result |-> result]>>
          /\ Len(responses'[s]) = 1 /\ Len(responses[s]) = 0
          /\ responses'[s][1] = [error |-> error, result |-> result]
          /\ \A other \in Starts \ {s} : responses'[other] = responses[other]
      BY AnswerGiven
    <2> QED BY <2>1 DEF answer
  <1>3. js_respond(s, answer)
    <2>1. response = answer
      BY <1>2
    <2>2. Len(responses'[s]) > Len(responses[s])
      BY <1>2, OneAfterNone
    <2>3. js_respond(s, response)
      BY <1>1, <2>2
    <2> QED BY <2>1, <2>3
  <1>4. promise[s] = Unsettled("pending") /\ promise[s].state = "pending"
    <2>1. promise[s] = Unsettled("pending")
      BY <1>1, PendingUntilAnswered DEF Unanswered
    <2>2. Unsettled("pending").state = "pending"
      BY DEF Unsettled
    <2> QED BY <2>1, <2>2
  <1> QED BY <1>0, <1>3, <1>4 DEF js_respond, Settle

\* ... while a task that gives no answer leaves it alone.
LEMMA NoAnswerNoSettling ==
    ASSUME NodeInv, NEW s \in Starts, NodeTask(s), UNCHANGED responses
    PROVE  UNCHANGED promise
  <1>1. responses \in [Starts -> Seq(Responses)]
    BY DEF NodeInv, NodeTypeOK, TypeOK
  <1>2. ~(Len(responses'[s]) > Len(responses[s]))
    BY <1>1, LenProperties
  <1> QED BY <1>2 DEF NodeTask

\* The answer of a call settles its promise as it says.
LEMMA NodeTaskKnown ==
    ASSUME Sound, NodeInv, PromisesKnown, NEW s \in Starts, NodeTask(s), Sound'
    PROVE  PromisesKnown'
  <1> DEFINE task == Head(queue)
             resp == task.resp
  <1>1. RunTask(s)
    BY DEF NodeTask
  <1>2. Answers(s, task)
    BY <1>1, RunTaskFacts DEF NodeInv, TaskInHandler
  <1>3. pc[s] = "returned" /\ UNCHANGED pc
    BY <1>1, PendingUntilAnswered
  <1>4. promise \in [Starts -> Promises] /\ Sound
    BY DEF NodeInv, NodeTypeOK
  <1> HIDE DEF task
  <1>5. CASE UNCHANGED responses
    <2>1. UNCHANGED promise
      BY <1>5, NoAnswerNoSettling
    <2> QED BY <1>3, <1>5, <2>1, PromiseKept DEF PromisesKnown
  <1>6. ASSUME NEW error \in {"", "parse error"}, NEW result \in Urls \cup {Nothing},
               Unanswered(s), respond(s, error, result),
               result # Nothing => error = ""
        PROVE  PromisesKnown'
    <2> DEFINE answer == [error |-> error, result |-> result]
    <2>0. answer.error = error /\ answer.result = result
      OBVIOUS
    <2> HIDE DEF answer
    <2>1. /\ responses'[s] = <<answer>>
          /\ responses'[s][1] = answer
          /\ \A other \in Starts \ {s} : responses'[other] = responses[other]
      <3>1. /\ responses'[s] = <<[error |-> error, result |-> result]>>
            /\ Len(responses'[s]) = 1 /\ Len(responses[s]) = 0
            /\ responses'[s][1] = [error |-> error, result |-> result]
            /\ \A other \in Starts \ {s} : responses'[other] = responses[other]
        BY <1>4, <1>6, AnswerGiven
      <3> QED BY <3>1 DEF answer
    <2>2. responses'[s] # <<>>
      <3>1. \A e : <<e>> # <<>>
        OBVIOUS
      <3> QED BY <2>1, <3>1
    <2>3. /\ promise[s] = Unsettled("pending")
          /\ error # "" => promise' = [promise EXCEPT ![s] = Unsettled("rejected")]
          /\ error = "" /\ result = Nothing => UNCHANGED promise
          /\ error = "" /\ result # Nothing =>
                promise' = [promise EXCEPT ![s] =
                               [state |-> "resolved", value |-> result]]
      BY <1>6, AnswerSettles
    <2>4. /\ \A other \in Starts \ {s} : promise'[other] = promise[other]
          /\ error # "" => promise'[s] = Unsettled("rejected")
          /\ error = "" /\ result = Nothing => promise'[s] = Unsettled("pending")
          /\ error = "" /\ result # Nothing =>
                promise'[s] = [state |-> "resolved", value |-> result]
      BY <1>4, <2>3
    <2>5. PromiseKnown(s)'
      BY <1>3, <2>0, <2>1, <2>2, <2>4 DEF PromiseKnown, Unsettled
    <2>6. \A other \in Starts \ {s} : PromiseKnown(other)'
      BY <1>3, <2>1, <2>4, PromiseKept DEF PromisesKnown
    <2> QED BY <2>5, <2>6 DEF PromisesKnown
  <1>7. CASE Unanswered(s) /\ respond(s, ErrorOf(resp), Nothing)
    <2>1. ErrorOf(resp) \in {"", "parse error"}
      BY DEF ErrorOf
    <2> QED BY <1>6, <1>7, <2>1
  <1>8. CASE Unanswered(s) /\ resp.value \in Urls /\ respond(s, "", resp.value)
    BY <1>6, <1>8
  <1> QED BY <1>2, <1>5, <1>7, <1>8 DEF Answers

LEMMA NextPromisesKnown ==
    Sound /\ NodeInv /\ PromisesKnown /\ [NodeNext]_nodeVars => PromisesKnown'
  <1> SUFFICES ASSUME Sound, NodeInv, PromisesKnown, [NodeNext]_nodeVars
               PROVE  PromisesKnown'
    OBVIOUS
  <1>0. Sound'
    BY NextSound
  <1>1. CASE UNCHANGED nodeVars
    BY <1>1, PromiseKept DEF nodeVars, vars, jsVars, PromisesKnown
  <1>2. ASSUME NEW s \in Starts, NEW c \in Calls, getTransactions(s, c)
        PROVE  PromisesKnown'
    BY <1>2, getTransactionsKnown
  <1>3. ASSUME NEW s \in Starts, NodeStartStep(s)
        PROVE  PromisesKnown'
    BY <1>3, NodeStartStepKnown
  <1>4. ASSUME NEW s \in Starts, NodeTask(s)
        PROVE  PromisesKnown'
    BY <1>0, <1>4, NodeTaskKnown
  <1>5. ASSUME NEW s \in Starts, NEW k \in Kinds, Then(k, s) \/ Catch(k, s) \/ Leave(k, s)
        PROVE  PromisesKnown'
    <2>1. UNCHANGED <<promise, responses, pc>>
      BY <1>5 DEF Then, Catch, Leave, Enter, on_success, on_network_error, Answer,
                  startVars, vars
    <2> QED BY <2>1, PromiseKept DEF PromisesKnown
  <1> QED BY <1>1, <1>2, <1>3, <1>4, <1>5 DEF NodeNext

LEMMA InitPromisesKnown == NodeInit => PromisesKnown
BY DEF NodeInit, Init, PromisesKnown, PromiseKnown

\* For any number of calls, the answer of a call and nothing else decides what its
\* promise is (index.js 87-92).
THEOREM PromiseInvHolds == NodeSpec => []PromiseInv
  <1>1. NodeInv /\ PromisesKnown => PromiseInv
    BY DEF PromiseInv, PromisesKnown
  <1> QED BY <1>1, InitPromisesKnown, NextPromisesKnown, NodeSound, NodeInvHolds, PTL
          DEF NodeSpec

(***************************************************************************)
(* NodeClient implements PromiseContract.                                  *)
(***************************************************************************)

\* The steps of the contract are those that PromiseContract refines.
LEMMA SameContract ==
    ASSUME NEW s \in Starts
    PROVE  /\ \A c \in Calls : Contract!Ask(s, c) => Promise!Ask(s, c)
           /\ Contract!Refuse(s) => Promise!Refuse(s)
           /\ Contract!Satisfy(s) => Promise!Satisfy(s)
           /\ \A other \in Starts : Contract!Show(s, other) => Promise!Show(s, other)
BY DEF Contract!Ask, Promise!Ask, Contract!Refuse, Promise!Refuse, Contract!Satisfy,
       Promise!Satisfy, Contract!Show, Promise!Show, Contract!Move, Promise!Move,
       Contract!Wanted, Promise!Wanted

LEMMA SameUnseen == UNCHANGED Contract!vars => UNCHANGED Promise!vars
BY DEF Contract!vars, Promise!vars

LEMMA InitPromise == NodeInit => Promise!PromiseInit
  <1>1. Contract!Init => Promise!Init
    BY DEF Contract!Init, Promise!Init
  <1>2. NodeInit => promise = [s \in Starts |-> Promise!Unsettled("none")]
    BY DEF NodeInit, Unsettled, Promise!Unsettled
  <1> QED BY <1>1, <1>2, InitContract DEF NodeInit, Promise!PromiseInit

LEMMA getTransactionsAsks ==
    ASSUME Sound, NodeInv, PromisesKnown, NEW s \in Starts, NEW c \in Calls,
           getTransactions(s, c)
    PROVE  Promise!getTransactions(s, c)
  <1>1. StartCall(Main, s, c) /\ pc[s] = "idle"
    BY DEF getTransactions, StartCall, Step
  <1>2. Promise!Ask(s, c)
    <2>1. Contract!Ask(s, c)
      BY <1>1, NodeFacts, ThreadAssumption, StartCallAsks
    <2> QED BY <2>1, SameContract
  <1>3. /\ promise[s] = Unsettled("none")
        /\ promise' = [promise EXCEPT ![s] = Unsettled("pending")]
    BY <1>1 DEF getTransactions, PromisesKnown, PromiseKnown
  <1> QED BY <1>2, <1>3 DEF Promise!getTransactions, Promise!Becomes, Promise!Unsettled,
          Unsettled

\* A failure rejects the promise if it has a message, and is lost otherwise.
LEMMA FailureSettles ==
    ASSUME Sound, Sound', NodeInv, PromisesKnown, NEW s \in Starts, NodeTask(s),
           NEW kind \in {"token", "txs"}, Runs(kind, s), UNCHANGED startVars,
           UNCHANGED updates, respond(s, ErrorOf(Head(queue).resp), Nothing)
    PROVE  Promise!Reject(s) \/ Promise!LoseError(s)
  <1>1. PICK error \in {"", "parse error"} : error = ErrorOf(Head(queue).resp)
    BY DEF ErrorOf
  <1>2. respond(s, error, Nothing) /\ Unanswered(s)
    BY <1>1, NoAnswerYet DEF Sound
  <1>3. Promise!Refuse(s)
    <2>1. Contract!Refuse(s)
      BY <1>2, NodeFacts, FailureRefuses
    <2> QED BY <2>1, SameContract
  <1>4. /\ promise[s] = Unsettled("pending")
        /\ \/ promise' = [promise EXCEPT ![s] = Unsettled("rejected")]
           \/ UNCHANGED promise
    BY <1>2, AnswerSettles
  <1> QED BY <1>3, <1>4 DEF Promise!Reject, Promise!LoseError, Promise!Becomes,
          Promise!Unsettled, Unsettled

\* A list resolves it, with what the call wants.
LEMMA ListResolves ==
    ASSUME Sound, Sound', NodeInv, PromisesKnown, NEW s \in Starts, NodeTask(s),
           TxsReceived(s)
    PROVE  Promise!Resolve(s)
  <1>1. /\ Runs("txs", s) /\ Head(queue).resp.json = "object"
        /\ UNCHANGED startVars /\ respond(s, "", Head(queue).resp.value)
    BY DEF TxsReceived, respondByCopy
  <1>2. Unanswered(s)
    BY <1>1, NoAnswerYet DEF Sound
  <1>3. PICK txs \in Urls : txs = Head(queue).resp.value
    <2>1. Head(queue).resp \in HttpResponses("txs")
      BY <1>1, RunsFacts, TaskFacts DEF Sound, Kinds
    <2> QED BY <1>1, <2>1, ResponseFacts DEF Kinds
  <1>4. txs # Nothing /\ respond(s, "", txs)
    BY <1>1, <1>3, NothingAssumption
  <1>5. /\ promise[s] = Unsettled("pending")
        /\ promise' = [promise EXCEPT ![s] = [state |-> "resolved", value |-> txs]]
    BY <1>2, <1>4, AnswerSettles
  <1>6. txs = Wanted(call[s])
    <2> DEFINE answer == [error |-> "", result |-> txs]
    <2>1. answer.result = txs
      OBVIOUS
    <2> HIDE DEF answer
    <2>2. responses'[s] = <<answer>> /\ responses'[s][1] = answer
      BY <1>2, <1>4, AnswerGiven DEF answer
    <2>3. \A e : <<e>> # <<>>
      OBVIOUS
    <2>4. txs = Wanted(call'[s])
      BY <1>4, <2>1, <2>2, <2>3, AnswersWantedNext DEF AllWanted, Wanted
    <2> QED BY <1>1, <2>4 DEF startVars
  <1>7. Promise!Satisfy(s)
    <2>1. Contract!Satisfy(s)
      BY NodeFacts, TxsReceivedSatisfies
    <2> QED BY <2>1, SameContract
  <1> QED BY <1>5, <1>6, <1>7 DEF Promise!Resolve, Promise!Becomes, Promise!Unsettled,
          Unsettled, Promise!Wanted, Wanted

LEMMA OwnObserverNext == Sound' => OwnObserver'
  <1>1. Sound => OwnObserver
    BY NodeAssumption DEF Sound, DataInv, ObserverNotOutdated, NotOutdated, HandlesFresh,
       OwnObserver
  <1> QED BY <1>1, PTL

\* The observer of the call is shown the list that has resolved its promise.
LEMMA on_updateShowsOwn ==
    ASSUME Sound, Sound', NodeInv, PromisesKnown, NEW s \in Starts, NodeTask(s),
           on_update(s)
    PROVE  Promise!ShowOwn(s)
  <1>1. PICK other \in Starts : Contract!Show(s, other)
    BY NodeFacts, on_updateShows
  <1>2. /\ Runs("update", s) /\ UNCHANGED startVars /\ UNCHANGED responses
        /\ pc[s] = "returned"
    BY RunsFacts DEF on_update, Sound
  <1>3. UNCHANGED promise
    BY <1>2, NoAnswerNoSettling
  <1>4. call[other].observer = call[s].observer /\ call[s] # Nothing
    <2>1. updates'[s] # <<>> /\ updates'[s][1].observer = call[other].observer
      <3> DEFINE seen == [x \in Starts |->
                            IF updates[x] = <<>> THEN Nothing ELSE updates[x][1]]
                 show == [observer |-> call[other].observer,
                          txs |-> Contract!Wanted(call[s])]
      <3>1. seen'[s] = show
        BY <1>1 DEF Contract!Show
      <3>2. show \in Updates /\ show # Nothing /\ show.observer = call[other].observer
        <4>1. call[other] \in Calls /\ call[s] \in Calls
          BY <1>1, <1>2 DEF Contract!Show, Sound, LInv, TypeOK, CallsBound
        <4>2. Contract!Wanted(call[s]) \in Urls
          BY <4>1 DEF Contract!Wanted, Calls, Urls
        <4>3. show \in Updates
          BY <4>1, <4>2 DEF Calls, Updates
        <4>4. show.observer = call[other].observer
          OBVIOUS
        <4> HIDE DEF show
        <4> QED BY <4>3, <4>4, NothingAssumption
      <3> HIDE DEF show
      <3> QED BY <3>1, <3>2
    <2>2. OwnObserver'
      BY OwnObserverNext
    <2>3. updates'[s][1].observer = call'[s].observer
      BY <2>1, <2>2 DEF OwnObserver
    <2>4. call[s] # Nothing
      BY <1>2, NothingAssumption DEF Sound, LInv, CallsBound
    <2> QED BY <1>2, <2>1, <2>3, <2>4 DEF startVars
  <1>5. Promise!Show(s, s)
    <2>1. Promise!Show(s, other)
      BY <1>1, SameContract
    <2> QED BY <1>4, <2>1 DEF Promise!Show
  <1>6. promise[s] = [state |-> "resolved", value |-> Wanted(call[s])]
    <2> DEFINE txs == Head(queue).update.txs
               answer == [error |-> "", result |-> txs]
    <2>0. answer.result = txs /\ answer.error = ""
      OBVIOUS
    <2>1. responses[s][1] = answer /\ Len(responses[s]) = 1 /\ txs \in Urls
      <3>1. /\ TaskUnanswered(Head(queue)) /\ Head(queue) \in Tasks
            /\ Head(queue).kind = "update" /\ Head(queue).start = s
        BY <1>2, RunsFacts DEF Sound
      <3>2. Head(queue).update \in Updates
        BY <3>1, TaskFacts
      <3> QED BY <3>1, <3>2 DEF TaskUnanswered, Updates
    <2> HIDE DEF txs, answer
    <2>2. responses[s] # <<>>
      BY <2>1, LengthOne DEF Sound, LInv, TypeOK
    <2>3. txs # Nothing
      BY <2>1, NothingAssumption
    <2>4. responses[s][1].result = Wanted(call[s])
      <3>1. /\ responses[s][1] = [error |-> "", result |-> url[s]]
            /\ url[s] = Wanted(call[s])
        BY <2>0, <2>1, <2>2, <2>3, AnswerWanted
      <3>2. \A u : [error |-> "", result |-> u].result = u
        OBVIOUS
      <3> QED BY <3>1, <3>2
    <2>5. promise[s] = [state |-> "resolved", value |-> responses[s][1].result]
      BY <1>2, <2>0, <2>1, <2>2, <2>3 DEF PromisesKnown, PromiseKnown
    <2> QED BY <2>4, <2>5
  <1> QED BY <1>3, <1>5, <1>6 DEF Promise!ShowOwn, Promise!Wanted, Wanted

LEMMA NodeTaskPromise ==
    ASSUME Sound, Sound', NodeInv, PromisesKnown, NEW s \in Starts, NodeTask(s)
    PROVE  [Promise!PromiseNext]_(Promise!promiseVars)
  <1>1. RunTask(s)
    BY DEF NodeTask
  <1>2. CASE TokenFailure(s)
    <2>1. Promise!Reject(s) \/ Promise!LoseError(s)
      BY <1>2, FailureSettles DEF TokenFailure, respondByCopy
    <2> QED BY <2>1 DEF Promise!PromiseNext
  <1>3. CASE TxsFailure(s)
    <2>1. /\ Runs("txs", s) /\ UNCHANGED startVars /\ UNCHANGED updates
          /\ respond(s, ErrorOf(Head(queue).resp), Nothing) \/ UNCHANGED responses
      BY <1>3 DEF TxsFailure, respondByReference
    <2>2. CASE respond(s, ErrorOf(Head(queue).resp), Nothing)
      BY <2>1, <2>2, FailureSettles DEF Promise!PromiseNext
    <2>3. CASE UNCHANGED responses
      BY <2>1, <2>3, NoAnswerNoSettling, Unseen, SameUnseen
      DEF startVars, Promise!promiseVars
    <2> QED BY <2>1, <2>2, <2>3
  <1>4. CASE TxsReceived(s)
    BY <1>4, ListResolves DEF Promise!PromiseNext
  <1>5. CASE on_update(s)
    BY <1>5, on_updateShowsOwn DEF Promise!PromiseNext
  <1>6. CASE TokenReceived(s) \/ tx_task(s) \/ TxsNotObject(s)
    <2>1. UNCHANGED startVars /\ UNCHANGED <<responses, updates>>
      BY <1>6 DEF TokenReceived, tx_task, TxsNotObject
    <2> QED BY <2>1, NoAnswerNoSettling, Unseen, SameUnseen
        DEF startVars, Promise!promiseVars
  <1> QED BY <1>1, <1>2, <1>3, <1>4, <1>5, <1>6 DEF RunTask

LEMMA NextPromise ==
    Sound /\ Sound' /\ NodeInv /\ PromisesKnown /\ [NodeNext]_nodeVars
        => [Promise!PromiseNext]_(Promise!promiseVars)
  <1> SUFFICES ASSUME Sound, Sound', NodeInv, PromisesKnown, [NodeNext]_nodeVars
               PROVE  [Promise!PromiseNext]_(Promise!promiseVars)
    OBVIOUS
  <1>1. CASE UNCHANGED nodeVars
    BY <1>1, Unseen, SameUnseen DEF nodeVars, vars, jsVars, Promise!promiseVars
  <1>2. ASSUME NEW s \in Starts, NEW c \in Calls, getTransactions(s, c)
        PROVE  [Promise!PromiseNext]_(Promise!promiseVars)
    <2>1. Promise!getTransactions(s, c)
      BY <1>2, getTransactionsAsks
    <2> QED BY <2>1 DEF Promise!PromiseNext, Promise!Calls, Calls
  <1>3. ASSUME NEW s \in Starts, NodeStartStep(s)
        PROVE  [Promise!PromiseNext]_(Promise!promiseVars)
    <2>1. UNCHANGED <<call, responses, updates, promise>>
      BY <1>3 DEF NodeStartStep, StartStep, SetTestnetMode, get_transactions, get_token,
                  jsVars, taskVars
    <2>2. PICK to \in Stages \ {"idle"} : pc[s] # "idle" /\ pc' = [pc EXCEPT ![s] = to]
      BY <1>3 DEF NodeStartStep, StartStep, SetTestnetMode, get_transactions, get_token,
                  Step, Stages
    <2>3. \A other \in Starts : pc'[other] = "idle" <=> pc[other] = "idle"
      BY <2>2 DEF Sound, LInv, TypeOK
    <2> QED BY <2>1, <2>3, Unseen, SameUnseen DEF Promise!promiseVars
  <1>4. ASSUME NEW s \in Starts, NodeTask(s)
        PROVE  [Promise!PromiseNext]_(Promise!promiseVars)
    BY <1>4, NodeTaskPromise
  <1>5. ASSUME NEW s \in Starts, NEW k \in Kinds, Then(k, s) \/ Catch(k, s) \/ Leave(k, s)
        PROVE  [Promise!PromiseNext]_(Promise!promiseVars)
    <2>1. UNCHANGED <<call, responses, updates, pc, promise>>
      BY <1>5 DEF Then, Catch, Leave, Enter, on_success, on_network_error, Answer,
                  startVars, vars
    <2> QED BY <2>1, Unseen, SameUnseen DEF Promise!promiseVars
  <1> QED BY <1>1, <1>2, <1>3, <1>4, <1>5 DEF NodeNext

\* For any number of calls: a promise is settled once, as its own call is answered;
\* its observer, and no other, is shown the list it was resolved with, afterwards;
\* only an error without a message leaves it pending (index.js 79-101 over
\* transaction_list_vm.cpp 21-70 and client.cpp 27-127).
THEOREM NodeKeepsPromise == NodeSpec => KeepsPromise
  <1>1. PromiseInv => NodeInv /\ PromisesKnown
    BY DEF PromiseInv, PromisesKnown
  <1> QED BY <1>1, InitPromise, NextPromise, NodeSound, PromiseInvHolds, PTL
          DEF NodeSpec, KeepsPromise, Promise!PromiseSpec
=============================================================================
