------------------------- MODULE LedgerClientProofs -------------------------
(***************************************************************************)
(* Proofs about LedgerClient for every value of its constants, in this     *)
(* order: a call is in one place and unanswered there (LInv); what it      *)
(* carries is its own (DataInv); to which network its requests go          *)
(* (NetworkInv); the core implements FetchContract; no call is forgotten.  *)
(***************************************************************************)
EXTENDS LedgerClientInv, TLAPS

\* What the answer to a request of either kind can be.
LEMMA ResponseFacts ==
    ASSUME NEW k \in Kinds, NEW resp \in HttpResponses(k)
    PROVE  /\ resp.error \in BOOLEAN
           /\ Failed(resp) <=> resp.json \in {"none", "invalid"}
           /\ k = "token" => resp.json # "other"
           /\ k = "token" /\ resp.json = "object" => resp.value \in Tokens
           /\ k = "txs" /\ resp.json = "object" => resp.value \in Urls
           /\ resp.json \in {"none", "invalid", "object", "other"}
           /\ ErrorOf(resp) \in {"", "parse error"}
  <1>1. CASE resp = NetworkError
    BY <1>1 DEF NetworkError, Failed, ErrorOf
  <1>2. CASE resp = Body("invalid", Nothing)
    BY <1>2 DEF Body, Failed, ErrorOf
  <1>3. CASE k = "token" /\ resp \in {Body("object", t) : t \in Tokens}
    <2>1. PICK t \in Tokens : resp = Body("object", t)
      BY <1>3
    <2> QED BY <1>3, <2>1 DEF Body, Failed, ErrorOf
  <1>4. CASE k = "txs" /\ resp = Body("other", Nothing)
    BY <1>4 DEF Body, Failed, ErrorOf
  <1>5. CASE k = "txs" /\ resp \in {Body("object", u) : u \in Urls}
    <2>1. PICK u \in Urls : resp = Body("object", u)
      BY <1>5
    <2> QED BY <1>5, <2>1 DEF Body, Failed, ErrorOf
  <1>6. CASE k = "token"
    BY <1>1, <1>2, <1>3, <1>6 DEF HttpResponses
  <1>7. CASE k = "txs"
    BY <1>1, <1>2, <1>4, <1>5, <1>7 DEF HttpResponses
  <1> QED
    BY <1>6, <1>7 DEF Kinds

\* The parts of a task of the queue.
LEMMA TaskFacts ==
    ASSUME NEW task \in Tasks
    PROVE  /\ task.start \in Starts
           /\ task.kind \in {"token", "txs", "inject", "update"}
           /\ task.kind \in Kinds => task.resp \in HttpResponses(task.kind)
           /\ task.kind = "inject" => task.token \in Tokens
           /\ task.kind = "update" => task.update \in Updates
  <1>1. CASE task \in [kind : {"token"}, start : Starts, resp : HttpResponses("token")]
    BY <1>1 DEF Kinds
  <1>2. CASE task \in [kind : {"txs"}, start : Starts, resp : HttpResponses("txs")]
    BY <1>2 DEF Kinds
  <1>3. CASE task \in [kind : {"inject"}, start : Starts, token : Tokens]
    BY <1>3 DEF Kinds
  <1>4. CASE task \in [kind : {"update"}, start : Starts, update : Updates]
    BY <1>4 DEF Kinds
  <1> QED BY <1>1, <1>2, <1>3, <1>4 DEF Tasks

\* The tasks the actions build are tasks.
LEMMA TasksBuilt ==
    ASSUME NEW s \in Starts
    PROVE  /\ \A k \in Kinds : \A resp \in HttpResponses(k) :
                [kind |-> k, start |-> s, resp |-> resp] \in Tasks
           /\ \A token \in Tokens :
                [kind |-> "inject", start |-> s, token |-> token] \in Tasks
           /\ \A update \in Updates :
                [kind |-> "update", start |-> s, update |-> update] \in Tasks
  <1>1. ASSUME NEW k \in Kinds, NEW resp \in HttpResponses(k)
        PROVE  [kind |-> k, start |-> s, resp |-> resp] \in Tasks
    BY DEF Tasks, Kinds
  <1>2. ASSUME NEW token \in Tokens
        PROVE  [kind |-> "inject", start |-> s, token |-> token] \in Tasks
    BY DEF Tasks
  <1>3. ASSUME NEW update \in Updates
        PROVE  [kind |-> "update", start |-> s, update |-> update] \in Tasks
    BY DEF Tasks
  <1> QED BY <1>1, <1>2, <1>3

THEOREM InitLInv == Init => LInv
  <1> SUFFICES ASSUME Init PROVE LInv
    OBVIOUS
  <1>1. TypeOK
    <2>1. queue \in Seq(Tasks) /\ begun \in Seq(Starts)
      BY DEF Init
    <2>2. responses \in [Starts -> Seq(Responses)] /\ updates \in [Starts -> Seq(Updates)]
      BY DEF Init
    <2> QED BY <2>1, <2>2 DEF Init, TypeOK, Stages, Kinds
  <1>2. CallsBound /\ UrlsBuilt /\ RequestsInOrder
    BY DEF Init, CallsBound, UrlsBuilt, RequestsInOrder, Kinds
  <1>3. TasksInOrder /\ OneTaskPerCall /\ TasksUnanswered
    BY DEF Init, TasksInOrder, OneTaskPerCall, TasksUnanswered
  <1>4. WaitingUnanswered /\ AnsweredAtMostOnce /\ UpdateFollowsAnswer
    BY DEF Init, WaitingUnanswered, Unanswered, AnsweredAtMostOnce,
           UpdateFollowsAnswer
  <1> QED BY <1>1, <1>2, <1>3, <1>4 DEF LInv

(***************************************************************************)
(* The synchronous part of start().                                        *)
(***************************************************************************)

LEMMA StartCallLInv ==
    ASSUME LInv, NEW t \in Threads, NEW s \in Starts, NEW c \in Calls,
           StartCall(t, s, c)
    PROVE  LInv'
  <1>1. TypeOK'
    <2>1. begun' \in Seq(Starts)
      BY DEF LInv, TypeOK, StartCall
    <2> QED
      BY <2>1 DEF LInv, TypeOK, StartCall, BindObserver, Step, taskVars, Stages, Calls
  <1>2. CallsBound'
    BY DEF LInv, TypeOK, CallsBound, StartCall, BindObserver, Step, Calls
  <1>3. UrlsBuilt' /\ RequestsInOrder'
    BY DEF LInv, TypeOK, UrlsBuilt, RequestsInOrder, Waiting, StartCall, BindObserver, Step, Kinds
  <1>4. TasksInOrder' /\ OneTaskPerCall' /\ TasksUnanswered'
    BY DEF LInv, TasksInOrder, TaskInOrder, OneTaskPerCall, TasksUnanswered,
           TaskUnanswered, Unanswered, Waiting, StartCall, taskVars
  <1>5. WaitingUnanswered' /\ AnsweredAtMostOnce' /\ UpdateFollowsAnswer'
    BY DEF LInv, TypeOK, WaitingUnanswered, Unanswered, Waiting, AnsweredAtMostOnce,
           UpdateFollowsAnswer, StartCall, BindObserver, Step, taskVars
  <1> QED BY <1>1, <1>2, <1>3, <1>4, <1>5 DEF LInv

LEMMA SetTestnetModeLInv ==
    ASSUME LInv, NEW s \in Starts, SetTestnetMode(s)
    PROVE  LInv'
  <1>1. TypeOK'
    BY DEF LInv, TypeOK, SetTestnetMode, TestnetModeOf, Step, taskVars, Stages
  <1>2. CallsBound' /\ UrlsBuilt' /\ RequestsInOrder'
    BY DEF LInv, TypeOK, CallsBound, UrlsBuilt, RequestsInOrder, Waiting,
           SetTestnetMode, Step, Kinds
  <1>3. TasksInOrder' /\ OneTaskPerCall' /\ TasksUnanswered'
    BY DEF LInv, TasksInOrder, TaskInOrder, OneTaskPerCall, TasksUnanswered,
           TaskUnanswered, Unanswered, Waiting, SetTestnetMode, taskVars
  <1>4. WaitingUnanswered' /\ AnsweredAtMostOnce' /\ UpdateFollowsAnswer'
    BY DEF LInv, TypeOK, WaitingUnanswered, Unanswered, Waiting, AnsweredAtMostOnce,
           UpdateFollowsAnswer, SetTestnetMode, Step, taskVars
  <1> QED BY <1>1, <1>2, <1>3, <1>4 DEF LInv

LEMMA get_transactionsLInv ==
    ASSUME LInv, NEW s \in Starts, get_transactions(s)
    PROVE  LInv'
  <1>1. UrlFor(call[s].addresses) \in Urls
    BY DEF LInv, TypeOK, CallsBound, get_transactions, Step, UrlFor, Urls, Calls
  <1>2. TypeOK'
    BY <1>1 DEF LInv, TypeOK, get_transactions, Step, taskVars, Stages
  <1>3. UrlsBuilt'
    BY <1>1 DEF LInv, TypeOK, UrlsBuilt, get_transactions, Step
  <1>4. CallsBound' /\ RequestsInOrder'
    BY DEF LInv, TypeOK, CallsBound, RequestsInOrder, Waiting, get_transactions,
           Step, Kinds
  <1>5. TasksInOrder' /\ OneTaskPerCall' /\ TasksUnanswered'
    BY DEF LInv, TasksInOrder, TaskInOrder, OneTaskPerCall, TasksUnanswered,
           TaskUnanswered, Unanswered, Waiting, get_transactions, taskVars
  <1>6. WaitingUnanswered' /\ AnsweredAtMostOnce' /\ UpdateFollowsAnswer'
    BY DEF LInv, TypeOK, WaitingUnanswered, Unanswered, Waiting, AnsweredAtMostOnce,
           UpdateFollowsAnswer, get_transactions, Step, taskVars
  <1> QED BY <1>2, <1>3, <1>4, <1>5, <1>6 DEF LInv

LEMMA get_tokenLInv ==
    ASSUME LInv, NEW s \in Starts, get_token(s)
    PROVE  LInv'
  <1> DEFINE request == [url |-> UrlFor(Nothing), header |-> Nothing, reply |-> Nothing]
  <1>1. request \in Requests
    BY DEF LInv, TypeOK, UrlFor, Urls, Requests
  <1>2. /\ req' = [req EXCEPT !["token"][s] = request]
        /\ pc[s] = "url" /\ pc' = [pc EXCEPT ![s] = "returned"]
    BY DEF get_token, Http_get, Step
  <1>3. /\ req'["token"][s] = request /\ req'["txs"] = req["txs"]
        /\ \A other \in Starts \ {s} : req'["token"][other] = req["token"][other]
    BY <1>2 DEF LInv, TypeOK, Kinds
  <1>4. req["token"][s] = Nothing /\ req["txs"][s] = Nothing
    BY <1>2 DEF LInv, RequestsInOrder
  <1>5. \A i \in 1..Len(queue) : queue[i].start \in Starts \ {s}
    <2> SUFFICES ASSUME NEW i \in 1..Len(queue) PROVE queue[i].start \in Starts \ {s}
      OBVIOUS
    <2>1. queue[i] \in Tasks
      BY DEF LInv, TypeOK
    <2> QED BY <1>4, <2>1, TaskFacts DEF LInv, TasksInOrder, TaskInOrder
  <1>6. TypeOK'
    BY <1>1, <1>2 DEF LInv, TypeOK, get_token, taskVars, Stages, Kinds
  <1>7. CallsBound' /\ UrlsBuilt'
    BY <1>2 DEF LInv, TypeOK, CallsBound, UrlsBuilt, get_token
  <1>8. RequestsInOrder'
    BY <1>2, <1>3, <1>4 DEF LInv, TypeOK, RequestsInOrder, Waiting
  <1>9. TasksInOrder' /\ OneTaskPerCall' /\ TasksUnanswered'
    BY <1>3, <1>5 DEF LInv, TasksInOrder, TaskInOrder, OneTaskPerCall, TasksUnanswered,
           TaskUnanswered, Unanswered, Waiting, get_token, taskVars
  <1>10. WaitingUnanswered' /\ AnsweredAtMostOnce' /\ UpdateFollowsAnswer'
    BY <1>2, <1>3 DEF LInv, TypeOK, WaitingUnanswered, Unanswered, Waiting,
           AnsweredAtMostOnce, UpdateFollowsAnswer, get_token, taskVars
  <1> QED BY <1>6, <1>7, <1>8, <1>9, <1>10 DEF LInv

(***************************************************************************)
(* The answer to a request.                                                *)
(***************************************************************************)

LEMMA AnswerLInv ==
    ASSUME LInv, NEW k \in Kinds, NEW s \in Starts, NEW resp \in HttpResponses(k),
           Answer(k, s, resp)
    PROVE  LInv'
  <1> DEFINE task == [kind |-> k, start |-> s, resp |-> resp]
  <1>1. task \in Tasks
    BY TasksBuilt
  <1>2. /\ queue \in Seq(Tasks) /\ queue' = Append(queue, task)
        /\ Waiting(k, s)
        /\ req' = [req EXCEPT ![k][s].reply = resp]
    BY DEF LInv, TypeOK, Answer, cb_with
  <1>3. /\ Len(queue') = Len(queue) + 1
        /\ \A i \in 1..Len(queue) : queue'[i] = queue[i]
        /\ queue'[Len(queue) + 1] = task
        /\ queue' \in Seq(Tasks)
    BY <1>1, <1>2
  <1>4. /\ req[k][s] \in Requests
        /\ req'[k][s] = [req[k][s] EXCEPT !.reply = resp]
        /\ req'[k][s] \in Requests
        /\ resp # Nothing
        /\ \A j \in Kinds, other \in Starts :
              j # k \/ other # s => req'[j][other] = req[j][other]
    <2>1. resp # Nothing
      BY NothingAssumption DEF Kinds
    <2>2. req[k][s] \in Requests
      BY <1>2 DEF LInv, TypeOK, Waiting
    <2>3. resp \in HttpResponses("token") \cup HttpResponses("txs") \cup {Nothing}
      BY DEF Kinds
    <2>4. req'[k][s] = [req[k][s] EXCEPT !.reply = resp]
      BY <1>2 DEF LInv, TypeOK
    <2>5. req'[k][s] \in Requests
      BY <2>2, <2>3, <2>4 DEF Requests
    <2>6. \A j \in Kinds, other \in Starts :
              j # k \/ other # s => req'[j][other] = req[j][other]
      BY <1>2 DEF LInv, TypeOK
    <2> QED BY <2>1, <2>2, <2>4, <2>5, <2>6
  <1>5. req'[k][s] # Nothing /\ req'[k][s].reply = resp /\ ~Waiting(k, s)'
    BY <1>4, NothingAssumption DEF Requests, Waiting
  <1>6. \A i \in 1..Len(queue) : queue[i].start \in Starts \ {s}
    <2> SUFFICES ASSUME NEW i \in 1..Len(queue) PROVE queue[i].start \in Starts \ {s}
      OBVIOUS
    <2>1. queue[i] \in Tasks
      BY <1>2
    <2> QED
      BY <1>2, <2>1, TaskFacts DEF LInv, TasksInOrder, TaskInOrder, Kinds, Waiting
  <1>7. TypeOK'
    BY <1>2, <1>3, <1>4 DEF LInv, TypeOK, Answer, startVars
  <1>8. CallsBound' /\ UrlsBuilt'
    BY DEF LInv, CallsBound, UrlsBuilt, Answer, startVars
  <1>9. RequestsInOrder'
    BY <1>2, <1>4, <1>5 DEF LInv, RequestsInOrder, Waiting, Kinds, Answer, startVars
  <1>10. TasksInOrder'
    BY <1>2, <1>3, <1>4, <1>5, <1>6
       DEF LInv, RequestsInOrder, TasksInOrder, TaskInOrder, Waiting, Kinds
  <1>11. OneTaskPerCall'
    BY <1>2, <1>3, <1>6 DEF LInv, OneTaskPerCall
  <1>12. Unanswered(s)
    BY <1>2 DEF LInv, WaitingUnanswered, Kinds
  <1>13. TasksUnanswered'
    <2>1. responses' = responses /\ updates' = updates
      BY DEF Answer
    <2>2. task.kind # "update" /\ task.start = s
      BY DEF Kinds
    <2>3. ASSUME NEW i \in 1..Len(queue') PROVE TaskUnanswered(queue[i])'
      <3>1. CASE i \in 1..Len(queue)
        BY <1>3, <2>1, <3>1 DEF LInv, TasksUnanswered, TaskUnanswered, Unanswered
      <3>2. CASE i = Len(queue) + 1
        BY <1>3, <1>12, <2>1, <2>2, <3>2 DEF TaskUnanswered, Unanswered
      <3> QED BY <1>2, <1>3, <3>1, <3>2
    <2> QED BY <2>3 DEF TasksUnanswered
  <1>14. WaitingUnanswered'
    BY <1>4, <1>5, <1>12 DEF LInv, WaitingUnanswered, Waiting, Unanswered, Answer,
       startVars, Kinds
  <1>15. AnsweredAtMostOnce' /\ UpdateFollowsAnswer'
    BY DEF LInv, AnsweredAtMostOnce, UpdateFollowsAnswer, Answer
  <1> QED
    BY <1>7, <1>8, <1>9, <1>10, <1>11, <1>13, <1>14, <1>15 DEF LInv

(***************************************************************************)
(* The tasks.                                                              *)
(***************************************************************************)

\* The task that runs is the only one of its call.
LEMMA RunsFacts ==
    ASSUME LInv, NEW kind, NEW s \in Starts, Runs(kind, s)
    PROVE  /\ Head(queue) \in Tasks
           /\ Head(queue).kind = kind /\ Head(queue).start = s
           /\ TaskInOrder(Head(queue)) /\ TaskUnanswered(Head(queue))
           /\ pc[s] = "returned"
           /\ Tail(queue) \in Seq(Tasks)
           /\ Len(Tail(queue)) = Len(queue) - 1
           /\ \A i \in 1..Len(Tail(queue)) :
                /\ i + 1 \in 1..Len(queue)
                /\ Tail(queue)[i] = queue[i + 1]
                /\ Tail(queue)[i].start \in Starts \ {s}
  <1>1. /\ queue \in Seq(Tasks) /\ queue # <<>>
        /\ Head(queue).kind = kind /\ Head(queue).start = s
    BY DEF LInv, TypeOK, Runs
  <1>2. /\ Len(queue) \in Nat /\ 1 \in 1..Len(queue) /\ Head(queue) = queue[1]
        /\ Head(queue) \in Tasks
        /\ Tail(queue) \in Seq(Tasks)
        /\ Len(Tail(queue)) = Len(queue) - 1
    BY <1>1
  <1>3. TaskInOrder(Head(queue)) /\ TaskUnanswered(Head(queue))
    BY <1>2 DEF LInv, TasksInOrder, TasksUnanswered
  <1>4. pc[s] = "returned"
    BY <1>1, <1>3 DEF LInv, RequestsInOrder, TaskInOrder
  <1>5. ASSUME NEW i \in 1..Len(Tail(queue))
        PROVE  /\ i + 1 \in 1..Len(queue)
               /\ Tail(queue)[i] = queue[i + 1]
               /\ Tail(queue)[i].start \in Starts \ {s}
    <2>1. i + 1 \in 1..Len(queue) /\ i + 1 # 1 /\ Tail(queue)[i] = queue[i + 1]
      BY <1>1, <1>2
    <2>2. queue[i + 1] \in Tasks
      BY <1>1, <2>1
    <2>3. queue[i + 1].start # s
      BY <1>1, <1>2, <2>1 DEF LInv, OneTaskPerCall
    <2> QED BY <2>1, <2>2, <2>3, TaskFacts
  <1> QED BY <1>1, <1>2, <1>3, <1>4, <1>5

\* A step that concerns the call s only.
Elsewhere(s) ==
    \A other \in Starts \ {s} :
        /\ \A k \in Kinds : req'[k][other] = req[k][other]
        /\ responses'[other] = responses[other]
        /\ updates'[other] = updates[other]

\* A task that runs and leaves none behind.
LEMMA TaskEnds ==
    ASSUME LInv, NEW kind, NEW s \in Starts, Runs(kind, s),
           queue' = Tail(queue), Elsewhere(s)
    PROVE  TasksInOrder' /\ OneTaskPerCall' /\ TasksUnanswered'
  <1>1. ASSUME NEW i \in 1..Len(queue')
        PROVE  /\ i + 1 \in 1..Len(queue) /\ queue'[i] = queue[i + 1]
               /\ queue[i + 1].start \in Starts \ {s}
    BY RunsFacts
  <1>2. ASSUME NEW i \in 1..Len(queue') PROVE TaskInOrder(queue[i])'
    <2>1. TaskInOrder(queue[i + 1])
      BY <1>1 DEF LInv, TasksInOrder
    <2>2. /\ queue'[i] = queue[i + 1]
          /\ \A k \in Kinds : req'[k][queue[i + 1].start] = req[k][queue[i + 1].start]
      BY <1>1 DEF Elsewhere
    <2> QED BY <2>1, <2>2 DEF TaskInOrder, Waiting, Kinds
  <1>3. ASSUME NEW i \in 1..Len(queue') PROVE TaskUnanswered(queue[i])'
    <2>1. TaskUnanswered(queue[i + 1])
      BY <1>1 DEF LInv, TasksUnanswered
    <2>2. /\ queue'[i] = queue[i + 1]
          /\ responses'[queue[i + 1].start] = responses[queue[i + 1].start]
          /\ updates'[queue[i + 1].start] = updates[queue[i + 1].start]
      BY <1>1 DEF Elsewhere
    <2> QED BY <2>1, <2>2 DEF TaskUnanswered, Unanswered
  <1>4. ASSUME NEW i \in 1..Len(queue'), NEW j \in 1..Len(queue'),
               queue'[i].start = queue'[j].start
        PROVE  i = j
    <2>1. i + 1 = j + 1
      BY <1>1, <1>4 DEF LInv, OneTaskPerCall
    <2> QED BY <2>1
  <1> QED BY <1>2, <1>3, <1>4 DEF TasksInOrder, TasksUnanswered, OneTaskPerCall

\* A task that runs and hands another one of its call to a context.
LEMMA TaskContinues ==
    ASSUME LInv, NEW kind, NEW s \in Starts, Runs(kind, s),
           NEW task \in Tasks, task.start = s, execute(task), Elsewhere(s),
           TaskInOrder(task)', TaskUnanswered(task)'
    PROVE  /\ queue' \in Seq(Tasks)
           /\ TasksInOrder' /\ OneTaskPerCall' /\ TasksUnanswered'
  <1>1. /\ queue' \in Seq(Tasks)
        /\ Len(queue') = Len(queue) /\ Len(queue) \in Nat
        /\ queue'[Len(queue)] = task
        /\ \A i \in 1..Len(queue) - 1 : queue'[i] = Tail(queue)[i]
        /\ Len(Tail(queue)) = Len(queue) - 1
    BY RunsFacts DEF LInv, TypeOK, execute
  <1>2. ASSUME NEW i \in 1..Len(queue') - 1
        PROVE  /\ i + 1 \in 1..Len(queue) /\ queue'[i] = queue[i + 1]
               /\ queue[i + 1].start \in Starts \ {s}
    BY <1>1, RunsFacts
  <1>3. ASSUME NEW i \in 1..Len(queue') - 1
        PROVE  TaskInOrder(queue[i])' /\ TaskUnanswered(queue[i])'
    <2>1. TaskInOrder(queue[i + 1]) /\ TaskUnanswered(queue[i + 1])
      BY <1>2 DEF LInv, TasksInOrder, TasksUnanswered
    <2>2. /\ queue'[i] = queue[i + 1]
          /\ \A k \in Kinds : req'[k][queue[i + 1].start] = req[k][queue[i + 1].start]
          /\ responses'[queue[i + 1].start] = responses[queue[i + 1].start]
          /\ updates'[queue[i + 1].start] = updates[queue[i + 1].start]
      BY <1>2 DEF Elsewhere
    <2>3. TaskInOrder(queue[i])'
      BY <2>1, <2>2 DEF TaskInOrder, Waiting, Kinds
    <2>4. TaskUnanswered(queue[i])'
      BY <2>1, <2>2 DEF TaskUnanswered, Unanswered
    <2> QED BY <2>3, <2>4
  <1>4. OneTaskPerCall'
    BY <1>1, <1>2 DEF LInv, OneTaskPerCall
  <1>5. \A i \in 1..Len(queue') : i \in 1..Len(queue') - 1 \/ queue'[i] = task
    BY <1>1
  <1>6. TasksInOrder'
    BY <1>1, <1>3, <1>5 DEF TasksInOrder
  <1>7. TasksUnanswered'
    BY <1>1, <1>3, <1>5 DEF TasksUnanswered
  <1> QED BY <1>1, <1>4, <1>6, <1>7

LEMMA AppendToEmpty ==
    ASSUME NEW S, NEW e \in S, NEW q \in Seq(S), q = <<>>
    PROVE  /\ Append(q, e) \in Seq(S)
           /\ Len(Append(q, e)) = 1
           /\ Append(q, e)[1] = e
  OBVIOUS

LEMMA LengthOne ==
    ASSUME NEW S, NEW q \in Seq(S), Len(q) = 1
    PROVE  q # <<>>
  OBVIOUS

\* respond() for a call without an answer gives it one.
LEMMA RespondFacts ==
    ASSUME LInv, NEW s \in Starts, Unanswered(s),
           NEW error \in {"", "parse error"}, NEW result \in Urls \cup {Nothing},
           respond(s, error, result)
    PROVE  /\ responses' \in [Starts -> Seq(Responses)]
           /\ Len(responses'[s]) = 1
           /\ responses'[s][1] = [error |-> error, result |-> result]
           /\ \A other \in Starts \ {s} : responses'[other] = responses[other]
  <1>1. [error |-> error, result |-> result] \in Responses
    BY DEF Responses
  <1>2. responses \in [Starts -> Seq(Responses)] /\ responses[s] = <<>>
    BY DEF LInv, TypeOK, Unanswered
  <1> DEFINE response == [error |-> error, result |-> result]
  <1> HIDE DEF response
  <1>3. /\ Append(responses[s], response) \in Seq(Responses)
        /\ Len(Append(responses[s], response)) = 1
        /\ Append(responses[s], response)[1] = response
    BY <1>1, <1>2, AppendToEmpty DEF response
  <1>4. responses' = [responses EXCEPT ![s] = Append(responses[s], response)]
    BY <1>2 DEF respond, response
  <1>5. /\ responses' \in [Starts -> Seq(Responses)]
        /\ responses'[s] = Append(responses[s], response)
        /\ \A other \in Starts \ {s} : responses'[other] = responses[other]
    BY <1>2, <1>3, <1>4
  <1> QED BY <1>3, <1>5 DEF response

LEMMA FirstAnswer ==
    ASSUME LInv, NEW s \in Starts, Unanswered(s), updates' = updates,
           Len(responses'[s]) = 1,
           \A other \in Starts \ {s} : responses'[other] = responses[other]
    PROVE  AnsweredAtMostOnce' /\ UpdateFollowsAnswer'
  <1>1. updates[s] = <<>> /\ Len(updates[s]) <= 1
    BY DEF LInv, AnsweredAtMostOnce, Unanswered
  <1>2. ASSUME NEW other \in Starts
        PROVE  Len(responses'[other]) <= 1 /\ Len(updates'[other]) <= 1
    <2>1. CASE other = s
      <3>1. Len(responses'[s]) <= 1
        OBVIOUS
      <3>2. Len(updates'[s]) <= 1
        BY <1>1
      <3> QED BY <2>1, <3>1, <3>2
    <2>2. CASE other # s
      <3>1. responses'[other] = responses[other]
        BY <2>2
      <3>2. Len(responses[other]) <= 1 /\ Len(updates[other]) <= 1
        BY DEF LInv, AnsweredAtMostOnce
      <3> QED BY <3>1, <3>2
    <2> QED BY <2>1, <2>2
  <1>3. AnsweredAtMostOnce'
    BY <1>2 DEF AnsweredAtMostOnce
  <1>4. UpdateFollowsAnswer'
    BY <1>1 DEF LInv, UpdateFollowsAnswer
  <1> QED BY <1>3, <1>4

\* Once a call waits for nothing, answering it leaves the others as they were.
LEMMA OthersUnanswered ==
    ASSUME LInv, NEW s \in Starts, pc[s] = "returned",
           ~Waiting("token", s), ~Waiting("txs", s),
           pc' = pc, req' = req, updates' = updates,
           \A other \in Starts \ {s} : responses'[other] = responses[other]
    PROVE  WaitingUnanswered'
  <1> SUFFICES ASSUME NEW other \in Starts,
                      pc[other] # "returned" \/ Waiting("token", other)
                                             \/ Waiting("txs", other)
               PROVE  responses'[other] = <<>> /\ updates'[other] = <<>>
    BY DEF WaitingUnanswered, Unanswered, Waiting
  <1>1. other # s
    OBVIOUS
  <1>2. responses[other] = <<>> /\ updates[other] = <<>>
    BY DEF LInv, WaitingUnanswered, Unanswered
  <1> QED BY <1>1, <1>2

LEMMA TokenFailureLInv ==
    ASSUME LInv, NEW s \in Starts, TokenFailure(s)
    PROVE  LInv'
  <1>1. Runs("token", s) /\ queue' = Tail(queue) /\ req' = req /\ updates' = updates
    BY DEF TokenFailure
  <1>2. Unanswered(s) /\ ~Waiting("token", s) /\ ~Waiting("txs", s)
    <2>1. /\ Head(queue).kind = "token" /\ Head(queue).start = s
          /\ TaskInOrder(Head(queue)) /\ TaskUnanswered(Head(queue))
      BY <1>1, RunsFacts
    <2> QED BY <2>1 DEF TaskUnanswered, TaskInOrder, Waiting
  <1>3. ErrorOf(Head(queue).resp) \in {"", "parse error"}
    BY DEF ErrorOf
  <1>4. /\ responses' \in [Starts -> Seq(Responses)]
        /\ Len(responses'[s]) = 1
        /\ \A other \in Starts \ {s} : responses'[other] = responses[other]
    BY <1>2, <1>3, RespondFacts DEF TokenFailure, respondByCopy
  <1>5. TasksInOrder' /\ OneTaskPerCall' /\ TasksUnanswered'
    BY <1>1, <1>4, TaskEnds DEF Elsewhere
  <1>6. TypeOK'
    BY <1>1, <1>4, RunsFacts DEF LInv, TypeOK, TokenFailure, respondByCopy, startVars
  <1>7. CallsBound' /\ UrlsBuilt' /\ RequestsInOrder'
    BY <1>1 DEF LInv, CallsBound, UrlsBuilt, RequestsInOrder, Waiting, TokenFailure,
                startVars
  <1>8. WaitingUnanswered'
    <2>1. pc' = pc /\ pc[s] = "returned"
      BY <1>1, RunsFacts DEF TokenFailure, startVars
    <2> QED BY <1>1, <1>2, <1>4, <2>1, OthersUnanswered
  <1>9. AnsweredAtMostOnce' /\ UpdateFollowsAnswer'
    BY <1>1, <1>2, <1>4, FirstAnswer
  <1> QED BY <1>5, <1>6, <1>7, <1>8, <1>9 DEF LInv

LEMMA TokenReceivedLInv ==
    ASSUME LInv, NEW s \in Starts, TokenReceived(s)
    PROVE  LInv'
  <1>1. PICK token \in Tokens : token = Head(queue).resp.value
    <2>1. Head(queue).resp \in HttpResponses("token")
      BY RunsFacts, TaskFacts DEF TokenReceived, Kinds
    <2>2. Head(queue).resp.value \in Tokens
      BY <2>1, ResponseFacts DEF TokenReceived, Kinds
    <2> QED BY <2>2
  <1> DEFINE task == [kind |-> "inject", start |-> s, token |-> token]
  <1>2. /\ Runs("token", s) /\ execute(task) /\ req' = req
        /\ updates' = updates /\ responses' = responses
    BY <1>1 DEF TokenReceived
  <1>3. task \in Tasks
    BY TasksBuilt
  <1>4. TaskInOrder(task)' /\ TaskUnanswered(task)'
    BY <1>2, RunsFacts DEF TaskInOrder, TaskUnanswered, Unanswered, Waiting
  <1>5. queue' \in Seq(Tasks) /\ TasksInOrder' /\ OneTaskPerCall' /\ TasksUnanswered'
    <2>1. Elsewhere(s) /\ task.start = s
      BY <1>2 DEF Elsewhere
    <2> HIDE DEF task
    <2> QED BY <1>2, <1>3, <1>4, <2>1, TaskContinues
  <1>6. TypeOK'
    BY <1>2, <1>5 DEF LInv, TypeOK, TokenReceived, startVars
  <1>7. CallsBound' /\ UrlsBuilt' /\ RequestsInOrder'
    BY <1>2 DEF LInv, CallsBound, UrlsBuilt, RequestsInOrder, Waiting, TokenReceived,
                startVars
  <1>8. WaitingUnanswered' /\ AnsweredAtMostOnce' /\ UpdateFollowsAnswer'
    BY <1>2 DEF LInv, WaitingUnanswered, Unanswered, Waiting, AnsweredAtMostOnce,
                UpdateFollowsAnswer, TokenReceived, startVars
  <1> QED BY <1>5, <1>6, <1>7, <1>8 DEF LInv

LEMMA tx_taskLInv ==
    ASSUME LInv, NEW s \in Starts, tx_task(s)
    PROVE  LInv'
  <1> DEFINE request == [url |-> url[s], header |-> Head(queue).token, reply |-> Nothing]
  <1>1. /\ Runs("inject", s) /\ queue' = Tail(queue)
        /\ req' = [req EXCEPT !["txs"][s] = request]
        /\ updates' = updates /\ responses' = responses
    BY DEF tx_task, Http_get, CapturedUrl
  <1>2. /\ Head(queue) \in Tasks /\ Head(queue).kind = "inject" /\ Head(queue).start = s
        /\ TaskInOrder(Head(queue)) /\ TaskUnanswered(Head(queue))
        /\ pc[s] = "returned"
    BY <1>1, RunsFacts
  <1>3. Unanswered(s)
    BY <1>2 DEF TaskUnanswered
  <1>4. request \in Requests
    <2>1. Head(queue).token \in Tokens
      BY <1>2, TaskFacts
    <2>2. url[s] \in Urls
      BY <1>2 DEF LInv, UrlsBuilt
    <2> QED BY <2>1, <2>2 DEF Requests
  <1>5. /\ req'["txs"][s] = request /\ req'["token"] = req["token"]
        /\ \A other \in Starts \ {s} : req'["txs"][other] = req["txs"][other]
        /\ req' \in [Kinds -> [Starts -> Requests \cup {Nothing}]]
    BY <1>1, <1>4 DEF LInv, TypeOK, Kinds
  <1>6. Elsewhere(s)
    BY <1>1, <1>5 DEF Elsewhere, Kinds
  <1>7. TasksInOrder' /\ OneTaskPerCall' /\ TasksUnanswered'
    BY <1>1, <1>6, TaskEnds
  <1>8. TypeOK'
    BY <1>1, <1>5, RunsFacts DEF LInv, TypeOK, tx_task, RunnableAfterRun, startVars
  <1>9. CallsBound' /\ UrlsBuilt'
    BY DEF LInv, CallsBound, UrlsBuilt, tx_task, startVars
  <1>10. RequestsInOrder'
    BY <1>2, <1>5 DEF LInv, RequestsInOrder, TaskInOrder, Waiting, tx_task, startVars
  <1>11. WaitingUnanswered' /\ AnsweredAtMostOnce' /\ UpdateFollowsAnswer'
    BY <1>1, <1>3, <1>5 DEF LInv, WaitingUnanswered, Unanswered, Waiting,
       AnsweredAtMostOnce, UpdateFollowsAnswer, tx_task, startVars
  <1> QED BY <1>7, <1>8, <1>9, <1>10, <1>11 DEF LInv

LEMMA TxsFailureLInv ==
    ASSUME LInv, NEW s \in Starts, TxsFailure(s)
    PROVE  LInv'
  <1>1. Runs("txs", s) /\ queue' = Tail(queue) /\ req' = req /\ updates' = updates
    BY DEF TxsFailure
  <1>2. Unanswered(s) /\ ~Waiting("token", s) /\ ~Waiting("txs", s)
    <2>1. /\ Head(queue).kind = "txs" /\ Head(queue).start = s
          /\ TaskInOrder(Head(queue)) /\ TaskUnanswered(Head(queue))
      BY <1>1, RunsFacts
    <2> QED BY <2>1 DEF TaskUnanswered, TaskInOrder
  <1>3. CASE responses' = responses /\ crashed' = TRUE
    <2>1. TasksInOrder' /\ OneTaskPerCall' /\ TasksUnanswered'
      BY <1>1, <1>3, TaskEnds DEF Elsewhere
    <2>2. TypeOK'
      BY <1>1, <1>3, RunsFacts DEF LInv, TypeOK, TxsFailure, startVars
    <2>3. CallsBound' /\ UrlsBuilt' /\ RequestsInOrder'
      BY <1>1 DEF LInv, CallsBound, UrlsBuilt, RequestsInOrder, Waiting, TxsFailure,
                  startVars
    <2>4. WaitingUnanswered' /\ AnsweredAtMostOnce' /\ UpdateFollowsAnswer'
      BY <1>1, <1>3 DEF LInv, WaitingUnanswered, Unanswered, Waiting,
         AnsweredAtMostOnce, UpdateFollowsAnswer, TxsFailure, startVars
    <2> QED BY <2>1, <2>2, <2>3, <2>4 DEF LInv
  <1>4. CASE respond(s, ErrorOf(Head(queue).resp), Nothing) /\ crashed' = crashed
    <2>1. ErrorOf(Head(queue).resp) \in {"", "parse error"}
      BY DEF ErrorOf
    <2>2. /\ responses' \in [Starts -> Seq(Responses)]
          /\ Len(responses'[s]) = 1
          /\ \A other \in Starts \ {s} : responses'[other] = responses[other]
      BY <1>2, <1>4, <2>1, RespondFacts
    <2>3. TasksInOrder' /\ OneTaskPerCall' /\ TasksUnanswered'
      BY <1>1, <2>2, TaskEnds DEF Elsewhere
    <2>4. TypeOK'
      BY <1>1, <1>4, <2>2, RunsFacts DEF LInv, TypeOK, TxsFailure, startVars
    <2>5. CallsBound' /\ UrlsBuilt' /\ RequestsInOrder'
      BY <1>1 DEF LInv, CallsBound, UrlsBuilt, RequestsInOrder, Waiting, TxsFailure,
                  startVars
    <2>6. WaitingUnanswered'
      <3>1. pc' = pc /\ pc[s] = "returned"
        BY <1>1, RunsFacts DEF TxsFailure, startVars
      <3> QED
        BY <1>1, <1>2, <2>2, <3>1, OthersUnanswered
    <2>7. AnsweredAtMostOnce' /\ UpdateFollowsAnswer'
      BY <1>1, <1>2, <2>2, FirstAnswer
    <2> QED BY <2>3, <2>4, <2>5, <2>6, <2>7 DEF LInv
  <1>5. respondByReference(s, ErrorOf(Head(queue).resp), Nothing)
    BY DEF TxsFailure
  <1> QED BY <1>3, <1>4, <1>5 DEF respondByReference

LEMMA TxsNotObjectLInv ==
    ASSUME LInv, NEW s \in Starts, TxsNotObject(s)
    PROVE  LInv'
  <1>1. /\ Runs("txs", s) /\ queue' = Tail(queue) /\ req' = req
        /\ updates' = updates /\ responses' = responses
    BY DEF TxsNotObject
  <1>2. TasksInOrder' /\ OneTaskPerCall' /\ TasksUnanswered'
    BY <1>1, TaskEnds DEF Elsewhere
  <1>3. TypeOK'
    BY <1>1, RunsFacts DEF LInv, TypeOK, TxsNotObject, startVars
  <1>4. CallsBound' /\ UrlsBuilt' /\ RequestsInOrder'
    BY <1>1 DEF LInv, CallsBound, UrlsBuilt, RequestsInOrder, Waiting, TxsNotObject,
                startVars
  <1>5. WaitingUnanswered' /\ AnsweredAtMostOnce' /\ UpdateFollowsAnswer'
    BY <1>1 DEF LInv, WaitingUnanswered, Unanswered, Waiting, AnsweredAtMostOnce,
                UpdateFollowsAnswer, TxsNotObject, startVars
  <1> QED BY <1>2, <1>3, <1>4, <1>5 DEF LInv

LEMMA TxsReceivedLInv ==
    ASSUME LInv, NEW s \in Starts, TxsReceived(s)
    PROVE  LInv'
  <1>1. /\ Runs("txs", s) /\ req' = req /\ updates' = updates
        /\ Head(queue) \in Tasks /\ Head(queue).kind = "txs" /\ Head(queue).start = s
        /\ TaskInOrder(Head(queue)) /\ TaskUnanswered(Head(queue))
        /\ pc[s] = "returned"
    BY RunsFacts DEF TxsReceived
  <1>2. Unanswered(s) /\ ~Waiting("token", s) /\ ~Waiting("txs", s)
    BY <1>1 DEF TaskUnanswered, TaskInOrder
  <1>3. PICK txs \in Urls : txs = Head(queue).resp.value
    <2>1. Head(queue).resp \in HttpResponses("txs")
      BY <1>1, TaskFacts DEF Kinds
    <2> QED BY <2>1, ResponseFacts DEF TxsReceived, Kinds
  <1>4. PICK observer \in Observers : observer = m_observer[call[s].handle]
    BY <1>1 DEF LInv, CallsBound
  <1> DEFINE update == [observer |-> observer, txs |-> txs]
  <1> DEFINE task == [kind |-> "update", start |-> s, update |-> update]
  <1>5. respond(s, "", txs) /\ execute(task)
    BY <1>3, <1>4 DEF TxsReceived, respondByCopy, Notify
  <1>6. task \in Tasks
    <2>1. update \in Updates
      BY DEF Updates
    <2> QED BY <2>1, TasksBuilt
  <1>7. /\ responses' \in [Starts -> Seq(Responses)]
        /\ Len(responses'[s]) = 1
        /\ responses'[s][1] = [error |-> "", result |-> txs]
        /\ \A other \in Starts \ {s} : responses'[other] = responses[other]
    BY <1>2, <1>5, RespondFacts
  <1>8. TaskInOrder(task)'
    BY <1>1 DEF TaskInOrder, Waiting
  <1>9. TaskUnanswered(task)'
    BY <1>1, <1>2, <1>7 DEF TaskUnanswered, Unanswered
  <1>10. queue' \in Seq(Tasks) /\ TasksInOrder' /\ OneTaskPerCall' /\ TasksUnanswered'
    <2>1. Elsewhere(s) /\ task.start = s
      BY <1>1, <1>7 DEF Elsewhere
    <2> HIDE DEF task
    <2> QED BY <1>1, <1>5, <1>6, <1>8, <1>9, <2>1, TaskContinues
  <1>11. TypeOK'
    BY <1>1, <1>7, <1>10 DEF LInv, TypeOK, TxsReceived, respondByCopy, startVars
  <1>12. CallsBound' /\ UrlsBuilt' /\ RequestsInOrder'
    BY <1>1 DEF LInv, CallsBound, UrlsBuilt, RequestsInOrder, Waiting, TxsReceived,
                startVars
  <1>13. WaitingUnanswered'
    <2>1. pc' = pc
      BY DEF TxsReceived, startVars
    <2> QED BY <1>1, <1>2, <1>7, <2>1, OthersUnanswered
  <1>14. AnsweredAtMostOnce' /\ UpdateFollowsAnswer'
    BY <1>1, <1>2, <1>7, FirstAnswer
  <1> QED BY <1>10, <1>11, <1>12, <1>13, <1>14 DEF LInv

LEMMA on_updateLInv ==
    ASSUME LInv, NEW s \in Starts, on_update(s)
    PROVE  LInv'
  <1>1. /\ Runs("update", s) /\ queue' = Tail(queue) /\ req' = req
        /\ responses' = responses
        /\ Head(queue) \in Tasks /\ Head(queue).kind = "update" /\ Head(queue).start = s
        /\ TaskInOrder(Head(queue)) /\ TaskUnanswered(Head(queue))
        /\ pc[s] = "returned"
    BY RunsFacts DEF on_update
  <1>2. PICK update \in Updates : update = Head(queue).update
    BY <1>1, TaskFacts
  <1>3. /\ ~Waiting("token", s) /\ ~Waiting("txs", s)
        /\ updates[s] = <<>> /\ Len(responses[s]) = 1
        /\ responses[s][1] = [error |-> "", result |-> update.txs]
    BY <1>1, <1>2 DEF TaskUnanswered, TaskInOrder
  <1>4. /\ updates' \in [Starts -> Seq(Updates)]
        /\ Len(updates'[s]) = 1 /\ updates'[s][1] = update
        /\ \A other \in Starts \ {s} : updates'[other] = updates[other]
    <2>1. updates \in [Starts -> Seq(Updates)]
      BY DEF LInv, TypeOK
    <2>2. updates' = [updates EXCEPT ![s] = Append(updates[s], update)]
      BY <1>2 DEF on_update
    <2>3. /\ Append(updates[s], update) \in Seq(Updates)
          /\ Len(Append(updates[s], update)) = 1
          /\ Append(updates[s], update)[1] = update
      BY <1>3, <2>1, AppendToEmpty
    <2> QED BY <2>1, <2>2, <2>3
  <1>5. TasksInOrder' /\ OneTaskPerCall' /\ TasksUnanswered'
    BY <1>1, <1>4, TaskEnds DEF Elsewhere
  <1>6. TypeOK'
    BY <1>1, <1>4, RunsFacts DEF LInv, TypeOK, on_update, startVars
  <1>7. CallsBound' /\ UrlsBuilt' /\ RequestsInOrder'
    BY <1>1 DEF LInv, CallsBound, UrlsBuilt, RequestsInOrder, Waiting, on_update,
                startVars
  <1>8. WaitingUnanswered'
    <2>1. pc' = pc /\ \A k \in Kinds, other \in Starts : Waiting(k, other)' <=> Waiting(k, other)
      BY <1>1 DEF Waiting, on_update, startVars
    <2>2. ASSUME NEW other \in Starts,
                 pc[other] # "returned" \/ Waiting("token", other) \/ Waiting("txs", other)
          PROVE  responses'[other] = <<>> /\ updates'[other] = <<>>
      <3>1. other # s
        BY <1>1, <1>3, <2>2
      <3>2. Unanswered(other)
        BY <2>2 DEF LInv, WaitingUnanswered
      <3> QED BY <1>1, <1>4, <3>1, <3>2 DEF Unanswered
    <2> QED BY <2>1, <2>2 DEF WaitingUnanswered, Unanswered, Kinds
  <1>9. AnsweredAtMostOnce' /\ UpdateFollowsAnswer'
    <2>1. ASSUME NEW other \in Starts
          PROVE  /\ Len(responses'[other]) <= 1 /\ Len(updates'[other]) <= 1
                 /\ updates'[other] # <<>> =>
                      /\ responses'[other] # <<>>
                      /\ responses'[other][1] =
                            [error |-> "", result |-> updates'[other][1].txs]
      <3>1. CASE other = s
        <4>1. responses[s] # <<>>
          BY <1>3, LengthOne DEF LInv, TypeOK
        <4>2. Len(responses'[s]) <= 1 /\ Len(updates'[s]) <= 1
          <5>1. Len(responses'[s]) = 1 /\ Len(updates'[s]) = 1
            BY <1>1, <1>3, <1>4
          <5> QED BY <5>1
        <4>3. /\ responses'[s] # <<>>
              /\ responses'[s][1] = [error |-> "", result |-> updates'[s][1].txs]
          BY <1>1, <1>3, <1>4, <4>1
        <4> QED BY <3>1, <4>2, <4>3
      <3>2. CASE other # s
        <4>1. updates'[other] = updates[other]
          BY <1>4, <3>2
        <4> QED
          BY <1>1, <4>1 DEF LInv, AnsweredAtMostOnce, UpdateFollowsAnswer
      <3> QED BY <3>1, <3>2
    <2> QED BY <2>1 DEF AnsweredAtMostOnce, UpdateFollowsAnswer
  <1> QED BY <1>5, <1>6, <1>7, <1>8, <1>9 DEF LInv

(***************************************************************************)
(* The theorems.                                                           *)
(***************************************************************************)

LEMMA NextLInv == LInv /\ [Next]_vars => LInv'
  <1> SUFFICES ASSUME LInv, [Next]_vars PROVE LInv'
    OBVIOUS
  <1>1. CASE UNCHANGED vars
    BY <1>1 DEF vars, LInv, TypeOK, CallsBound, UrlsBuilt, RequestsInOrder,
       TasksInOrder, TaskInOrder, OneTaskPerCall, WaitingUnanswered, Unanswered,
       Waiting, TasksUnanswered, TaskUnanswered, AnsweredAtMostOnce,
       UpdateFollowsAnswer
  <1>2. ASSUME NEW s \in Starts, NEW t \in Threads, NEW c \in Calls, StartCall(t, s, c)
        PROVE  LInv'
    BY <1>2, StartCallLInv
  <1>3. ASSUME NEW s \in Starts, StartStep(s) PROVE LInv'
    BY <1>3, SetTestnetModeLInv, get_transactionsLInv, get_tokenLInv DEF StartStep
  <1>4. ASSUME NEW s \in Starts, NEW k \in Kinds, NetworkStep(k, s) PROVE LInv'
    <2>1. ASSUME on_network_error(k, s) PROVE LInv'
      <3>1. NetworkError \in HttpResponses(k)
        BY DEF HttpResponses
      <3> QED BY <2>1, <3>1, AnswerLInv DEF on_network_error
    <2>2. ASSUME on_success(k, s) PROVE LInv'
      BY <2>2, AnswerLInv DEF on_success, Bodies
    <2> QED BY <1>4, <2>1, <2>2 DEF NetworkStep
  <1>5. ASSUME NEW s \in Starts, RunTask(s) PROVE LInv'
    BY <1>5, TokenFailureLInv, TokenReceivedLInv, tx_taskLInv, TxsFailureLInv,
       TxsNotObjectLInv, TxsReceivedLInv, on_updateLInv DEF RunTask
  <1> QED BY <1>1, <1>2, <1>3, <1>4, <1>5 DEF Next

THEOREM LInvHolds == Spec => []LInv
  <1> QED BY InitLInv, NextLInv, PTL DEF Spec

\* Every variable always holds values of its kind.
THEOREM TypeCorrect == Spec => []TypeOK
  <1>1. LInv => TypeOK
    BY DEF LInv
  <1> QED BY <1>1, LInvHolds, PTL

\* Whatever the platform, the number of calls, handles and threads, and however
\* the answers and the tasks interleave, a call of start() is answered at most
\* once and leads to at most one on_update (client.cpp 27-127).
THEOREM AnswersOnce == Spec => []AnsweredAtMostOnce
  <1>1. LInv => AnsweredAtMostOnce
    BY DEF LInv
  <1> QED BY <1>1, LInvHolds, PTL

\* An observer is shown a list only after the HandleResponse of the same call was
\* given the same list (transaction_list_vm.cpp 52-66).
THEOREM UpdatesFollowAnswers == Spec => []UpdateFollowsAnswer
  <1>1. LInv => UpdateFollowsAnswer
    BY DEF LInv
  <1> QED BY <1>1, LInvHolds, PTL

(***************************************************************************)
(* What the calls carry is their own: DataInv, which relies on LInv.       *)
(***************************************************************************)


\* The initial state: no call, no request, no task.
LEMMA InitDataInv == Init => DataInv
  <1> SUFFICES ASSUME Init PROVE DataInv
    OBVIOUS
  <1> USE DEF Init
  <1>1. Queued = {}
    BY DEF Queued
  <1>2. UrlsOwn /\ RequestsOwn /\ AnswersOwn /\ OwnToken
    BY DEF UrlsOwn, RequestsOwn, AnswersOwn, OwnToken, Kinds
  <1>3. TasksOwn
    BY <1>1 DEF TasksOwn
  <1>4. ObserversCurrent /\ ObserverNotOutdated /\ HandlesFresh
    BY DEF ObserversCurrent, ObserverNotOutdated, HandlesFresh
  <1>5. FreedOnlyIfUnpinned /\ CrashOnlyOnTxsFailure
    BY DEF FreedOnlyIfUnpinned, CrashOnlyOnTxsFailure
  <1> QED BY <1>2, <1>3, <1>4, <1>5 DEF DataInv

(***************************************************************************)
(* The queue as a set of tasks.                                            *)
(***************************************************************************)

\* Every task of the queue continues a call that start() has returned from.
LEMMA QueuedFacts ==
    ASSUME LInv, NEW task \in Queued
    PROVE  /\ task \in Tasks /\ task.start \in Starts
           /\ TaskInOrder(task)
           /\ pc[task.start] = "returned"
           /\ \A k \in Kinds : ~Waiting(k, task.start)
  <1>1. PICK i \in 1..Len(queue) : task = queue[i]
    BY DEF Queued
  <1>2. task \in Tasks /\ task.start \in Starts
    BY <1>1, TaskFacts DEF LInv, TypeOK
  <1>3. TaskInOrder(task)
    BY <1>1 DEF LInv, TasksInOrder
  <1>4. pc[task.start] = "returned"
    BY <1>2, <1>3 DEF LInv, RequestsInOrder, TaskInOrder
  <1>5. ~Waiting("token", task.start) /\ ~Waiting("txs", task.start)
    BY <1>2, <1>3, TaskFacts DEF TaskInOrder, Kinds, Waiting
  <1> QED BY <1>2, <1>3, <1>4, <1>5 DEF Kinds

\* The task that runs leaves the queue, alone of its call.
LEMMA QueueEnds ==
    ASSUME LInv, NEW kind, NEW s \in Starts, Runs(kind, s), queue' = Tail(queue)
    PROVE  /\ Head(queue) \in Queued
           /\ Queued' \subseteq {task \in Queued : task.start # s}
  <1>1. Head(queue) \in Queued
    BY DEF Queued, Runs, LInv, TypeOK
  <1>2. ASSUME NEW i \in 1..Len(queue')
        PROVE  queue'[i] \in Queued /\ queue'[i].start # s
    BY RunsFacts DEF Queued
  <1> QED BY <1>1, <1>2 DEF Queued

\* ... or is replaced by another one of its call.
LEMMA QueueContinues ==
    ASSUME LInv, NEW kind, NEW s \in Starts, Runs(kind, s), NEW task, execute(task)
    PROVE  /\ Head(queue) \in Queued
           /\ Queued' \subseteq {t \in Queued : t.start # s} \cup {task}
  <1>1. Head(queue) \in Queued
    BY DEF Queued, Runs, LInv, TypeOK
  <1>2. queue \in Seq(Tasks) /\ Tail(queue) \in Seq(Tasks)
    BY RunsFacts DEF LInv, TypeOK
  <1>3. Len(queue') = Len(Tail(queue)) + 1
    BY <1>2 DEF execute
  <1>4. ASSUME NEW i \in 1..Len(queue')
        PROVE  queue'[i] = task \/ (queue'[i] \in Queued /\ queue'[i].start # s)
    <2>1. CASE i = Len(Tail(queue)) + 1
      BY <1>2, <2>1 DEF execute
    <2>2. CASE i \in 1..Len(Tail(queue))
      <3>1. queue'[i] = Tail(queue)[i]
        BY <1>2, <2>2 DEF execute
      <3> QED BY <2>2, <3>1, RunsFacts DEF Queued
    <2> QED BY <1>2, <1>3, <2>1, <2>2
  <1> QED BY <1>1, <1>4 DEF Queued

\* An answer adds a task.
LEMMA QueueGrows ==
    ASSUME LInv, NEW task, queue' = Append(queue, task)
    PROVE  Queued' \subseteq Queued \cup {task}
  <1>1. queue \in Seq(Tasks)
    BY DEF LInv, TypeOK
  <1>2. ASSUME NEW i \in 1..Len(queue')
        PROVE  queue'[i] = task \/ queue'[i] \in Queued
    BY <1>1 DEF Queued
  <1> QED BY <1>2 DEF Queued

(***************************************************************************)
(* What a step leaves alone.                                               *)
(***************************************************************************)

\* Only start() changes who observes a handle.
LEMMA StartsKept ==
    ASSUME DataInv, UNCHANGED startVars
    PROVE  /\ UrlsOwn' /\ ObserversCurrent' /\ HandlesFresh'
           /\ \A s, o : NotOutdated(s, o) => NotOutdated(s, o)'
  <1>1. UrlsOwn' /\ HandlesFresh'
    BY DEF DataInv, startVars, UrlsOwn, HandlesFresh
  <1>2. \A s, o : NotOutdated(s, o) => NotOutdated(s, o)'
    BY DEF startVars, NotOutdated
  <1>3. ObserversCurrent'
    BY <1>2 DEF DataInv, startVars, ObserversCurrent
  <1> QED BY <1>1, <1>2, <1>3

\* A step that sends and answers no request keeps what the tasks carry.
LEMMA RequestsKept ==
    ASSUME LInv, DataInv, UNCHANGED startVars, UNCHANGED req
    PROVE  /\ RequestsOwn' /\ OwnToken'
           /\ \A task \in Queued : TaskOwn(task)'
  <1>1. RequestsOwn' /\ OwnToken'
    BY DEF DataInv, startVars, RequestsOwn, ReplyOf, OwnToken
  <1>2. ASSUME NEW task \in Queued PROVE TaskOwn(task)'
    <2>1. TaskOwn(task)
      BY DEF DataInv, TasksOwn
    <2> QED BY <2>1, StartsKept DEF TaskOwn, ReplyOf, startVars
  <1> QED BY <1>1, <1>2

\* No task runs after the process has ended, and only a failure of the second
\* request ends it.
LEMMA NotCrashed ==
    ASSUME DataInv, UNCHANGED crashed, ~crashed,
           WrappersPinned => \A s \in Starts : runnable'[s] = "freed" => runnable[s] = "freed"
    PROVE  FreedOnlyIfUnpinned' /\ CrashOnlyOnTxsFailure'
BY DEF DataInv, FreedOnlyIfUnpinned, CrashOnlyOnTxsFailure

\* A call without an answer gets its first one.
LEMMA FirstAnswerOwn ==
    ASSUME LInv, DataInv, NEW s \in Starts, Unanswered(s), pc[s] = "returned",
           UNCHANGED startVars,
           NEW error \in {"", "parse error"}, NEW result \in Urls \cup {Nothing},
           respond(s, error, result), result = Nothing \/ (error = "" /\ result = url[s])
    PROVE  AnswersOwn'
  <1>1. /\ responses'[s][1] = [error |-> error, result |-> result]
        /\ \A other \in Starts \ {s} : responses'[other] = responses[other]
    BY RespondFacts
  <1>2. responses'[s][1].result = Nothing
          \/ responses'[s][1] = [error |-> "", result |-> url[s]]
    <2>1. [error |-> error, result |-> result].result = result
      OBVIOUS
    <2> QED BY <1>1, <2>1
  <1>3. pc' = pc /\ url' = url
    BY DEF startVars
  <1>4. ASSUME NEW other \in Starts, responses'[other] # <<>>
        PROVE  /\ pc[other] = "returned"
               /\ \/ responses'[other][1].result = Nothing
                  \/ responses'[other][1] = [error |-> "", result |-> url[other]]
    <2>1. CASE other = s
      BY <1>2, <2>1
    <2>2. CASE other # s
      BY <1>1, <1>4, <2>2 DEF DataInv, AnswersOwn
    <2> QED BY <2>1, <2>2
  <1> QED BY <1>3, <1>4 DEF AnswersOwn

(***************************************************************************)
(* One lemma per action.                                                   *)
(***************************************************************************)

\* The call that a task other than on_update's continues has no answer yet.
LEMMA NoAnswerYet ==
    ASSUME LInv, NEW kind \in {"token", "inject", "txs"}, NEW s \in Starts, Runs(kind, s)
    PROVE  Unanswered(s) /\ pc[s] = "returned"
  <1>1. /\ Head(queue).kind = kind /\ Head(queue).start = s
        /\ TaskUnanswered(Head(queue)) /\ pc[s] = "returned"
    BY RunsFacts
  <1> QED BY <1>1 DEF TaskUnanswered

LEMMA TokenFailureDataInv ==
    ASSUME LInv, DataInv, NEW s \in Starts, TokenFailure(s)
    PROVE  DataInv'
  <1>1. /\ Runs("token", s) /\ queue' = Tail(queue)
        /\ UNCHANGED startVars /\ UNCHANGED <<req, runnable, updates>>
        /\ respond(s, ErrorOf(Head(queue).resp), Nothing)
        /\ UNCHANGED crashed /\ ~crashed
    BY DEF TokenFailure, respondByCopy, Runs
  <1>2. Unanswered(s) /\ pc[s] = "returned"
    BY <1>1, NoAnswerYet
  <1>3. AnswersOwn'
    BY <1>1, <1>2, FirstAnswerOwn DEF ErrorOf
  <1>4. TasksOwn'
    BY <1>1, RequestsKept, QueueEnds DEF TasksOwn
  <1>5. RequestsOwn' /\ OwnToken'
    BY <1>1, RequestsKept
  <1>6. UrlsOwn' /\ ObserversCurrent' /\ HandlesFresh' /\ ObserverNotOutdated'
    BY <1>1, StartsKept DEF DataInv, ObserverNotOutdated
  <1>7. FreedOnlyIfUnpinned' /\ CrashOnlyOnTxsFailure'
    BY <1>1, NotCrashed
  <1> QED BY <1>3, <1>4, <1>5, <1>6, <1>7 DEF DataInv

LEMMA TokenReceivedDataInv ==
    ASSUME LInv, DataInv, NEW s \in Starts, TokenReceived(s)
    PROVE  DataInv'
  <1>0. PICK token : token = Head(queue).resp.value
    OBVIOUS
  <1> DEFINE task == [kind |-> "inject", start |-> s, token |-> token]
  <1>1. /\ Runs("token", s) /\ execute(task) /\ ~Failed(Head(queue).resp)
        /\ UNCHANGED startVars /\ UNCHANGED <<req, responses, updates, crashed>>
        /\ runnable' = [runnable EXCEPT ![s] = "live"] /\ ~crashed
    BY <1>0 DEF TokenReceived, Runs
  <1>2. /\ Head(queue) \in Queued
        /\ Queued' \subseteq {t \in Queued : t.start # s} \cup {task}
    <2> HIDE DEF task
    <2> QED BY <1>1, QueueContinues
  <1>3. Head(queue).resp = ReplyOf("token", s)
    <2>1. TaskOwn(Head(queue)) /\ Head(queue).kind = "token" /\ Head(queue).start = s
      BY <1>1, <1>2, RunsFacts DEF DataInv, TasksOwn
    <2> QED BY <2>1 DEF TaskOwn, Kinds
  <1>4. TasksOwn'
    <2>1. TaskOwn(task)'
      BY <1>0, <1>1, <1>3 DEF TaskOwn, ReplyOf, Kinds
    <2>2. \A t \in Queued : TaskOwn(t)'
      BY <1>1, RequestsKept
    <2> HIDE DEF task
    <2> QED BY <1>2, <2>1, <2>2 DEF TasksOwn
  <1>5. RequestsOwn' /\ OwnToken'
    BY <1>1, RequestsKept
  <1>6. UrlsOwn' /\ ObserversCurrent' /\ HandlesFresh' /\ ObserverNotOutdated' /\ AnswersOwn'
    BY <1>1, StartsKept DEF DataInv, ObserverNotOutdated, AnswersOwn, startVars
  <1>7. FreedOnlyIfUnpinned' /\ CrashOnlyOnTxsFailure'
    BY <1>1, NotCrashed DEF LInv, TypeOK
  <1> QED BY <1>4, <1>5, <1>6, <1>7 DEF DataInv

LEMMA tx_taskDataInv ==
    ASSUME LInv, DataInv, NEW s \in Starts, tx_task(s)
    PROVE  DataInv'
  <1> DEFINE request == [url |-> url[s], header |-> Head(queue).token, reply |-> Nothing]
  <1>1. /\ Runs("inject", s) /\ queue' = Tail(queue)
        /\ req' = [req EXCEPT !["txs"][s] = request]
        /\ UNCHANGED startVars /\ UNCHANGED <<responses, updates, crashed>>
        /\ runnable' = [runnable EXCEPT ![s] = RunnableAfterRun] /\ ~crashed
    BY DEF tx_task, Http_get, CapturedUrl, Runs
  <1>2. /\ Head(queue) \in Queued /\ Head(queue).kind = "inject" /\ Head(queue).start = s
        /\ TaskInOrder(Head(queue)) /\ TaskOwn(Head(queue))
        /\ Queued' \subseteq {t \in Queued : t.start # s}
    BY <1>1, QueueEnds, RunsFacts DEF DataInv, TasksOwn
  <1>3. /\ req["token"][s] # Nothing /\ req["token"][s].reply # Nothing
        /\ req["txs"][s] = Nothing
        /\ ~Failed(ReplyOf("token", s))
        /\ Head(queue).token = ReplyOf("token", s).value
    BY <1>2 DEF TaskInOrder, TaskOwn, Waiting
  <1>4. /\ req'["txs"][s] = request /\ req'["token"] = req["token"]
        /\ \A other \in Starts \ {s} : req'["txs"][other] = req["txs"][other]
    BY <1>1 DEF LInv, TypeOK, Kinds
  <1>5. url' = url /\ pc' = pc
    BY <1>1 DEF startVars
  <1>6. RequestsOwn'
    <2> SUFFICES ASSUME NEW other \in Starts, req'["txs"][other] # Nothing
                 PROVE  /\ req'["txs"][other].url = url[other]
                        /\ req'["txs"][other].reply # Nothing
                             /\ req'["txs"][other].reply.json = "object"
                             => req'["txs"][other].reply.value = url[other]
      BY <1>5 DEF RequestsOwn, ReplyOf
    <2>1. CASE other = s
      BY <1>4, <2>1
    <2>2. CASE other # s
      BY <1>4, <2>2 DEF DataInv, RequestsOwn, ReplyOf
    <2> QED BY <2>1, <2>2
  <1>7. OwnToken'
    <2> SUFFICES ASSUME NEW other \in Starts, req'["txs"][other] # Nothing
                 PROVE  /\ req["token"][other] # Nothing
                        /\ req["token"][other].reply # Nothing
                        /\ ~Failed(req["token"][other].reply)
                        /\ req'["txs"][other].header = req["token"][other].reply.value
      BY <1>4 DEF OwnToken
    <2>1. CASE other = s
      BY <1>3, <1>4, <2>1 DEF ReplyOf
    <2>2. CASE other # s
      BY <1>4, <2>2 DEF DataInv, OwnToken
    <2> QED BY <2>1, <2>2
  <1>8. TasksOwn'
    <2> SUFFICES ASSUME NEW task \in Queued, task.start # s PROVE TaskOwn(task)'
      BY <1>2 DEF TasksOwn
    <2>1. TaskOwn(task) /\ task.start \in Starts \ {s}
      BY QueuedFacts DEF DataInv, TasksOwn
    <2>2. \A k \in Kinds : ReplyOf(k, task.start)' = ReplyOf(k, task.start)
      BY <1>4, <2>1 DEF ReplyOf, Kinds
    <2>3. \A o : NotOutdated(task.start, o) => NotOutdated(task.start, o)'
      BY <1>1, StartsKept
    <2> QED BY <1>5, <2>1, <2>2, <2>3 DEF TaskOwn, Kinds
  <1>9. UrlsOwn' /\ ObserversCurrent' /\ HandlesFresh' /\ ObserverNotOutdated' /\ AnswersOwn'
    BY <1>1, StartsKept DEF DataInv, ObserverNotOutdated, AnswersOwn, startVars
  <1>10. FreedOnlyIfUnpinned' /\ CrashOnlyOnTxsFailure'
    BY <1>1, NotCrashed DEF LInv, TypeOK, RunnableAfterRun
  <1> QED BY <1>6, <1>7, <1>8, <1>9, <1>10 DEF DataInv

LEMMA TxsFailureDataInv ==
    ASSUME LInv, DataInv, NEW s \in Starts, TxsFailure(s)
    PROVE  DataInv'
  <1>1. /\ Runs("txs", s) /\ queue' = Tail(queue) /\ Failed(Head(queue).resp)
        /\ UNCHANGED startVars /\ UNCHANGED <<req, runnable, updates>>
        /\ respondByReference(s, ErrorOf(Head(queue).resp), Nothing)
        /\ ~crashed
    BY DEF TxsFailure, Runs
  <1>2. TasksOwn'
    BY <1>1, RequestsKept, QueueEnds DEF TasksOwn
  <1>3. RequestsOwn' /\ OwnToken'
    BY <1>1, RequestsKept
  <1>4. UrlsOwn' /\ ObserversCurrent' /\ HandlesFresh' /\ ObserverNotOutdated'
    BY <1>1, StartsKept DEF DataInv, ObserverNotOutdated
  <1>5. CASE respond(s, ErrorOf(Head(queue).resp), Nothing) /\ UNCHANGED crashed
    <2>1. Unanswered(s) /\ pc[s] = "returned"
      BY <1>1, NoAnswerYet
    <2>2. AnswersOwn'
      BY <1>1, <1>5, <2>1, FirstAnswerOwn DEF ErrorOf
    <2>3. FreedOnlyIfUnpinned' /\ CrashOnlyOnTxsFailure'
      BY <1>1, <1>5, NotCrashed
    <2> QED BY <1>2, <1>3, <1>4, <2>2, <2>3 DEF DataInv
  <1>6. CASE runnable[s] = "freed" /\ crashed' = TRUE /\ UNCHANGED responses
    <2>1. AnswersOwn'
      BY <1>1, <1>6 DEF DataInv, AnswersOwn, startVars
    <2>2. FreedOnlyIfUnpinned'
      BY <1>6 DEF DataInv, FreedOnlyIfUnpinned
    <2>3. /\ Head(queue).kind = "txs" /\ Head(queue).start = s
          /\ TaskInOrder(Head(queue)) /\ TaskOwn(Head(queue))
      BY <1>1, RunsFacts, QueueEnds DEF DataInv, TasksOwn
    <2>4. /\ req["txs"][s] # Nothing /\ req["txs"][s].reply # Nothing
          /\ Head(queue).resp = req["txs"][s].reply
      BY <2>3 DEF TaskInOrder, TaskOwn, Waiting, ReplyOf, Kinds
    <2>5. CrashOnlyOnTxsFailure'
      BY <1>1, <2>4 DEF CrashOnlyOnTxsFailure
    <2> QED BY <1>2, <1>3, <1>4, <2>1, <2>2, <2>5 DEF DataInv
  <1> QED BY <1>1, <1>5, <1>6 DEF respondByReference

LEMMA TxsNotObjectDataInv ==
    ASSUME LInv, DataInv, NEW s \in Starts, TxsNotObject(s)
    PROVE  DataInv'
  <1>1. /\ Runs("txs", s) /\ queue' = Tail(queue)
        /\ UNCHANGED startVars /\ UNCHANGED <<req, runnable, responses, updates, crashed>>
        /\ ~crashed
    BY DEF TxsNotObject, Runs
  <1>2. TasksOwn'
    BY <1>1, RequestsKept, QueueEnds DEF TasksOwn
  <1>3. RequestsOwn' /\ OwnToken'
    BY <1>1, RequestsKept
  <1>4. UrlsOwn' /\ ObserversCurrent' /\ HandlesFresh' /\ ObserverNotOutdated' /\ AnswersOwn'
    BY <1>1, StartsKept DEF DataInv, ObserverNotOutdated, AnswersOwn, startVars
  <1>5. FreedOnlyIfUnpinned' /\ CrashOnlyOnTxsFailure'
    BY <1>1, NotCrashed
  <1> QED BY <1>2, <1>3, <1>4, <1>5 DEF DataInv

LEMMA TxsReceivedDataInv ==
    ASSUME LInv, DataInv, NEW s \in Starts, TxsReceived(s)
    PROVE  DataInv'
  <1>1. PICK txs : txs = Head(queue).resp.value
    OBVIOUS
  <1>2. PICK observer : observer = m_observer[call[s].handle]
    OBVIOUS
  <1> DEFINE task == [kind |-> "update", start |-> s,
                      update |-> [observer |-> observer, txs |-> txs]]
  <1>3. /\ Runs("txs", s) /\ execute(task) /\ Head(queue).resp.json = "object"
        /\ UNCHANGED startVars /\ UNCHANGED <<req, runnable, updates, crashed>>
        /\ respond(s, "", txs) /\ ~crashed
    BY <1>1, <1>2 DEF TxsReceived, Notify, respondByCopy, Runs
  <1>4. /\ Head(queue) \in Queued
        /\ Queued' \subseteq {t \in Queued : t.start # s} \cup {task}
    <2> HIDE DEF task
    <2> QED BY <1>3, QueueContinues
  <1>5. Unanswered(s) /\ pc[s] = "returned"
    BY <1>3, NoAnswerYet
  <1>6. txs = url[s]
    <2>1. /\ Head(queue).kind = "txs" /\ Head(queue).start = s
          /\ TaskInOrder(Head(queue)) /\ TaskOwn(Head(queue))
      BY <1>3, <1>4, RunsFacts DEF DataInv, TasksOwn
    <2>2. /\ req["txs"][s] # Nothing /\ req["txs"][s].reply # Nothing
          /\ Head(queue).resp = req["txs"][s].reply
      BY <2>1 DEF TaskInOrder, TaskOwn, Waiting, ReplyOf, Kinds
    <2> QED BY <1>1, <1>3, <2>2 DEF DataInv, RequestsOwn, ReplyOf
  <1>7. txs \in Urls
    BY <1>5, <1>6 DEF LInv, UrlsBuilt
  <1>8. AnswersOwn'
    BY <1>3, <1>5, <1>6, <1>7, FirstAnswerOwn
  <1>9. TasksOwn'
    <2>1. NotOutdated(s, observer)
      BY <1>2, <1>5 DEF DataInv, ObserversCurrent
    <2>2. NotOutdated(s, observer)' /\ url' = url
      BY <1>3, <2>1, StartsKept DEF startVars
    <2>3. TaskOwn(task)'
      BY <1>6, <2>2 DEF TaskOwn, Kinds
    <2>4. \A t \in Queued : TaskOwn(t)'
      BY <1>3, RequestsKept
    <2> HIDE DEF task
    <2> QED BY <1>4, <2>3, <2>4 DEF TasksOwn
  <1>10. RequestsOwn' /\ OwnToken'
    BY <1>3, RequestsKept
  <1>11. UrlsOwn' /\ ObserversCurrent' /\ HandlesFresh' /\ ObserverNotOutdated'
    BY <1>3, StartsKept DEF DataInv, ObserverNotOutdated
  <1>12. FreedOnlyIfUnpinned' /\ CrashOnlyOnTxsFailure'
    BY <1>3, NotCrashed
  <1> QED BY <1>8, <1>9, <1>10, <1>11, <1>12 DEF DataInv

LEMMA on_updateDataInv ==
    ASSUME LInv, DataInv, NEW s \in Starts, on_update(s)
    PROVE  DataInv'
  <1>1. PICK update : update = Head(queue).update
    OBVIOUS
  <1>2. /\ Runs("update", s) /\ queue' = Tail(queue)
        /\ UNCHANGED startVars /\ UNCHANGED <<req, runnable, responses, crashed>>
        /\ updates' = [updates EXCEPT ![s] = Append(@, update)] /\ ~crashed
    BY <1>1 DEF on_update, Runs
  <1>3. /\ Head(queue) \in Queued /\ Head(queue).kind = "update" /\ Head(queue).start = s
        /\ TaskOwn(Head(queue)) /\ TaskUnanswered(Head(queue))
        /\ update \in Updates
    BY <1>1, <1>2, QueueEnds, RunsFacts, TaskFacts DEF DataInv, TasksOwn
  <1>4. updates[s] = <<>> /\ NotOutdated(s, update.observer)
    BY <1>1, <1>3 DEF TaskUnanswered, TaskOwn
  <1>5. /\ updates'[s][1] = update
        /\ \A other \in Starts \ {s} : updates'[other] = updates[other]
    <2>1. Append(updates[s], update)[1] = update
      BY <1>3, <1>4, AppendToEmpty DEF LInv, TypeOK
    <2> QED BY <1>2, <2>1 DEF LInv, TypeOK
  <1>6. ObserverNotOutdated'
    <2> SUFFICES ASSUME NEW other \in Starts, (updates[other] # <<>>)'
                 PROVE  NotOutdated(other, updates[other][1].observer)'
      BY DEF ObserverNotOutdated
    <2>1. PICK observer : observer = (updates[other][1].observer)'
      OBVIOUS
    <2>2. NotOutdated(other, observer)
      <3>1. CASE other = s
        BY <1>4, <1>5, <2>1, <3>1
      <3>2. CASE other # s
        BY <1>5, <2>1, <3>2 DEF DataInv, ObserverNotOutdated
      <3> QED BY <3>1, <3>2
    <2>3. NotOutdated(other, observer)'
      BY <1>2, <2>2, StartsKept
    <2> QED BY <2>1, <2>3 DEF NotOutdated
  <1>7. TasksOwn'
    BY <1>2, RequestsKept, QueueEnds DEF TasksOwn
  <1>8. RequestsOwn' /\ OwnToken'
    BY <1>2, RequestsKept
  <1>9. UrlsOwn' /\ ObserversCurrent' /\ HandlesFresh' /\ AnswersOwn'
    BY <1>2, StartsKept DEF DataInv, AnswersOwn, startVars
  <1>10. FreedOnlyIfUnpinned' /\ CrashOnlyOnTxsFailure'
    BY <1>2, NotCrashed
  <1> QED BY <1>6, <1>7, <1>8, <1>9, <1>10 DEF DataInv

LEMMA AnswerDataInv ==
    ASSUME LInv, DataInv, NEW k \in Kinds, NEW s \in Starts,
           NEW resp \in HttpResponses(k), Answer(k, s, resp),
           k = "txs" /\ resp.json = "object" => resp.value = req[k][s].url
    PROVE  DataInv'
  <1> DEFINE task == [kind |-> k, start |-> s, resp |-> resp]
  <1>1. /\ queue' = Append(queue, task) /\ Waiting(k, s)
        /\ req' = [req EXCEPT ![k][s].reply = resp]
        /\ UNCHANGED startVars /\ UNCHANGED <<runnable, responses, updates, crashed>>
        /\ ~crashed
    BY DEF Answer, cb_with
  <1>2. /\ req[k][s] \in Requests
        /\ req'[k][s] = [req[k][s] EXCEPT !.reply = resp]
        /\ \A l \in Kinds, other \in Starts :
              l # k \/ other # s => req'[l][other] = req[l][other]
    <2>1. /\ req \in [Kinds -> [Starts -> Requests \cup {Nothing}]]
          /\ req[k][s] # Nothing
      BY <1>1 DEF LInv, TypeOK, Waiting
    <2> QED BY <1>1, <2>1
  <1>3. /\ req'[k][s].url = req[k][s].url /\ req'[k][s].header = req[k][s].header
        /\ req'[k][s].reply = resp /\ req'[k][s] # Nothing
    <2>1. req[k][s] # Nothing
      BY <1>1 DEF Waiting
    <2>2. /\ req'[k][s].url = req[k][s].url /\ req'[k][s].header = req[k][s].header
          /\ req'[k][s].reply = resp
      BY <1>2 DEF Requests
    <2>3. req'[k][s] \in Requests
      BY <1>2 DEF Requests, Kinds
    <2> QED BY <2>2, <2>3, NothingAssumption
  <1>4. url' = url /\ pc' = pc
    BY <1>1 DEF startVars
  <1>5. RequestsOwn'
    <2> SUFFICES ASSUME NEW other \in Starts, req'["txs"][other] # Nothing
                 PROVE  /\ req'["txs"][other].url = url[other]
                        /\ req'["txs"][other].reply # Nothing
                             /\ req'["txs"][other].reply.json = "object"
                             => req'["txs"][other].reply.value = url[other]
      BY <1>4 DEF RequestsOwn, ReplyOf
    <2>1. CASE other = s /\ k = "txs"
      BY <1>1, <1>3, <2>1 DEF DataInv, RequestsOwn, Waiting
    <2>2. CASE other # s \/ k # "txs"
      BY <1>2, <2>2 DEF DataInv, RequestsOwn, ReplyOf, Kinds
    <2> QED BY <2>1, <2>2
  <1>6. OwnToken'
    <2> SUFFICES ASSUME NEW other \in Starts, req'["txs"][other] # Nothing
                 PROVE  /\ req'["token"][other] # Nothing
                        /\ req'["token"][other].reply # Nothing
                        /\ ~Failed(req'["token"][other].reply)
                        /\ req'["txs"][other].header = req'["token"][other].reply.value
      BY DEF OwnToken
    <2>1. CASE other # s
      BY <1>2, <2>1 DEF DataInv, OwnToken, Kinds
    <2>2. CASE other = s /\ k = "txs"
      <3>1. req'["token"][s] = req["token"][s] /\ req["txs"][s] # Nothing
        BY <1>1, <1>2, <2>2 DEF Kinds, Waiting
      <3> QED BY <1>3, <2>2, <3>1 DEF DataInv, OwnToken
    <2>3. CASE other = s /\ k = "token"
      <3>1. req["txs"][s] # Nothing
        BY <1>2, <2>3 DEF Kinds
      <3> QED BY <1>1, <2>3, <3>1 DEF DataInv, OwnToken, Waiting
    <2> QED BY <2>1, <2>2, <2>3 DEF Kinds
  <1>7. TasksOwn'
    <2>1. TaskOwn(task)'
      BY <1>3 DEF TaskOwn, ReplyOf, Kinds
    <2>2. ASSUME NEW t \in Queued PROVE TaskOwn(t)'
      <3>1. TaskOwn(t) /\ t.start \in Starts \ {s}
        BY <1>1, QueuedFacts DEF DataInv, TasksOwn
      <3>2. \A l \in Kinds : ReplyOf(l, t.start)' = ReplyOf(l, t.start)
        BY <1>2, <3>1 DEF ReplyOf
      <3>3. \A o : NotOutdated(t.start, o) => NotOutdated(t.start, o)'
        BY <1>1, StartsKept
      <3> QED BY <1>4, <3>1, <3>2, <3>3 DEF TaskOwn, Kinds
    <2> HIDE DEF task
    <2>3. Queued' \subseteq Queued \cup {task}
      BY <1>1, QueueGrows
    <2> QED BY <2>1, <2>2, <2>3 DEF TasksOwn
  <1>8. UrlsOwn' /\ ObserversCurrent' /\ HandlesFresh' /\ ObserverNotOutdated' /\ AnswersOwn'
    BY <1>1, StartsKept DEF DataInv, ObserverNotOutdated, AnswersOwn, startVars
  <1>9. FreedOnlyIfUnpinned' /\ CrashOnlyOnTxsFailure'
    BY <1>1, NotCrashed
  <1> QED BY <1>5, <1>6, <1>7, <1>8, <1>9 DEF DataInv

\* A call still inside start() has neither tasks nor answers that its steps could
\* disturb, and the other calls do not see them.
LEMMA StartKeepsOthers ==
    ASSUME LInv, DataInv, NEW s \in Starts, pc[s] # "returned",
           NEW to, pc' = [pc EXCEPT ![s] = to],
           UNCHANGED taskVars, ~crashed,
           \A other \in Starts \ {s} : url'[other] = url[other],
           \A k \in Kinds, other \in Starts \ {s} : req'[k][other] = req[k][other],
           req'["txs"][s] = req["txs"][s],
           \A other \in Starts \ {s} :
              \A o : NotOutdated(other, o) => NotOutdated(other, o)'
    PROVE  /\ TasksOwn' /\ RequestsOwn' /\ OwnToken' /\ AnswersOwn'
           /\ ObserverNotOutdated' /\ FreedOnlyIfUnpinned' /\ CrashOnlyOnTxsFailure'
  <1>1. Unanswered(s) /\ req["txs"][s] = Nothing
    BY DEF LInv, WaitingUnanswered, RequestsInOrder
  <1>2. UNCHANGED <<queue, runnable, responses, updates, crashed>>
    BY DEF taskVars
  <1>3. TasksOwn'
    <2> SUFFICES ASSUME NEW task \in Queued PROVE TaskOwn(task)'
      BY <1>2 DEF TasksOwn, Queued
    <2>1. TaskOwn(task) /\ task.start \in Starts \ {s}
      BY QueuedFacts DEF DataInv, TasksOwn
    <2>2. \A k \in Kinds : ReplyOf(k, task.start)' = ReplyOf(k, task.start)
      BY <2>1 DEF ReplyOf
    <2>3. url'[task.start] = url[task.start]
      BY <2>1
    <2>4. \A o : NotOutdated(task.start, o) => NotOutdated(task.start, o)'
      BY <2>1
    <2> QED BY <2>1, <2>2, <2>3, <2>4 DEF TaskOwn, Kinds
  <1>4. RequestsOwn' /\ OwnToken'
    <2>1. ASSUME NEW other \in Starts, req'["txs"][other] # Nothing
          PROVE  /\ other # s
                 /\ req'["txs"][other] = req["txs"][other]
                 /\ req'["token"][other] = req["token"][other]
                 /\ url'[other] = url[other]
      BY <1>1, <2>1 DEF Kinds
    <2> QED BY <2>1 DEF DataInv, RequestsOwn, ReplyOf, OwnToken
  <1>5. AnswersOwn'
    <2>1. ASSUME NEW other \in Starts, responses[other] # <<>>
          PROVE  url'[other] = url[other] /\ pc'[other] = "returned"
      <3>1. other # s /\ pc[other] = "returned"
        BY <1>1, <2>1 DEF Unanswered, DataInv, AnswersOwn
      <3> QED BY <3>1 DEF LInv, TypeOK
    <2> QED BY <1>2, <2>1 DEF DataInv, AnswersOwn
  <1>6. ObserverNotOutdated'
    <2> SUFFICES ASSUME NEW other \in Starts, updates[other] # <<>>
                 PROVE  NotOutdated(other, updates[other][1].observer)'
      BY <1>2 DEF ObserverNotOutdated
    <2>1. PICK observer : observer = updates[other][1].observer
      OBVIOUS
    <2>2. NotOutdated(other, observer) /\ other # s
      BY <1>1, <2>1 DEF DataInv, ObserverNotOutdated, Unanswered
    <2>3. NotOutdated(other, observer)'
      BY <2>2
    <2> QED BY <1>2, <2>1, <2>3 DEF NotOutdated
  <1>7. FreedOnlyIfUnpinned' /\ CrashOnlyOnTxsFailure'
    BY <1>2, NotCrashed
  <1> QED BY <1>3, <1>4, <1>5, <1>6, <1>7

LEMMA StartCallDataInv ==
    ASSUME LInv, DataInv, NEW t \in Threads, NEW s \in Starts, NEW c \in Calls,
           StartCall(t, s, c)
    PROVE  DataInv'
  <1>1. /\ pc[s] = "idle" /\ pc' = [pc EXCEPT ![s] = "bound"]
        /\ call' = [call EXCEPT ![s] = c]
        /\ m_observer' = [m_observer EXCEPT ![c.handle] = c.observer]
        /\ begun' = Append(begun, s)
        /\ UNCHANGED <<url, req>> /\ UNCHANGED taskVars /\ ~crashed
        /\ ~RestartAllowed =>
              \A i \in 1..Len(begun) : call[begun[i]].handle # c.handle
    BY DEF StartCall, Step, BindObserver
  <1>2. /\ begun \in Seq(Starts) /\ Len(begun) \in Nat
        /\ Len(begun') = Len(begun) + 1
        /\ begun'[Len(begun) + 1] = s
        /\ \A i \in 1..Len(begun) : begun'[i] = begun[i] /\ begun[i] \in Starts
    BY <1>1 DEF LInv, TypeOK
  <1>3. \A i \in 1..Len(begun) : begun[i] # s /\ pc[begun[i]] # "idle"
    BY <1>1 DEF DataInv, ObserversCurrent
  <1>4. /\ call'[s] = c /\ pc'[s] = "bound"
        /\ \A other \in Starts \ {s} : call'[other] = call[other] /\ pc'[other] = pc[other]
    BY <1>1 DEF LInv, TypeOK
  <1>5. ASSUME NEW other \in Starts \ {s}, NEW o, NotOutdated(other, o)
        PROVE  NotOutdated(other, o)'
    <2>1. PICK i \in 1..Len(begun), j \in 1..Len(begun) :
              /\ begun[i] = other /\ i <= j
              /\ call[begun[j]].handle = call[other].handle
              /\ call[begun[j]].observer = o
      BY <1>5 DEF NotOutdated
    <2>2. i \in 1..Len(begun') /\ j \in 1..Len(begun')
      BY <1>2
    <2>3. /\ begun'[i] = other /\ call'[begun'[j]] = call[begun[j]]
          /\ call'[other] = call[other]
      BY <1>2, <1>3, <1>4, <2>1
    <2> QED BY <2>1, <2>2, <2>3 DEF NotOutdated
  <1>6. /\ TasksOwn' /\ RequestsOwn' /\ OwnToken' /\ AnswersOwn'
        /\ ObserverNotOutdated' /\ FreedOnlyIfUnpinned' /\ CrashOnlyOnTxsFailure'
    BY <1>1, <1>5, StartKeepsOthers
  <1>7. UrlsOwn'
    BY <1>1, <1>4 DEF DataInv, UrlsOwn
  <1>8. HandlesFresh'
    <2> SUFFICES ASSUME ~RestartAllowed,
                        NEW i \in 1..Len(begun'), NEW j \in 1..Len(begun'),
                        call'[begun'[i]].handle = call'[begun'[j]].handle
                 PROVE  i = j
      BY DEF HandlesFresh
    <2>1. \A n \in 1..Len(begun) :
              call'[begun'[n]].handle = call[begun[n]].handle
                /\ call[begun[n]].handle # c.handle
      BY <1>1, <1>2, <1>3, <1>4
    <2>2. call'[begun'[Len(begun) + 1]].handle = c.handle
      BY <1>2, <1>4
    <2>3. \A n \in 1..Len(begun') : n \in 1..Len(begun) \/ n = Len(begun) + 1
      BY <1>2
    <2> QED BY <2>1, <2>2, <2>3 DEF DataInv, HandlesFresh
  <1>9. ObserversCurrent'
    <2>1. ASSUME NEW i \in 1..Len(begun') PROVE pc'[begun'[i]] # "idle"
      BY <1>2, <1>3, <1>4
    <2>2. c.handle \in Handles
      BY DEF Calls
    <2>3. /\ m_observer'[c.handle] = c.observer
          /\ \A h \in Handles \ {c.handle} : m_observer'[h] = m_observer[h]
      BY <1>1, <2>2 DEF LInv, TypeOK
    <2>4. ASSUME NEW other \in Starts, (pc[other] # "idle")'
          PROVE  NotOutdated(other, m_observer[call[other].handle])'
      <3> DEFINE n == Len(begun) + 1
      <3>1. n \in 1..Len(begun') /\ begun'[n] = s
        BY <1>2
      <3>2. CASE other = s
        <4>1. m_observer'[call'[s].handle] = c.observer
          BY <1>4, <2>3
        <4> QED BY <1>4, <3>1, <3>2, <4>1 DEF NotOutdated
      <3>3. CASE other # s
        <4>1. pc[other] # "idle" /\ call'[other] = call[other]
          BY <1>4, <2>4, <3>3
        <4>2. NotOutdated(other, m_observer[call[other].handle])
          BY <4>1 DEF DataInv, ObserversCurrent
        <4>3. CASE call[other].handle = c.handle
          <5>1. PICK i \in 1..Len(begun) : begun[i] = other
            BY <4>2 DEF NotOutdated
          <5>2. i \in 1..Len(begun') /\ begun'[i] = other /\ i <= n
            BY <1>2, <5>1
          <5>3. m_observer'[call'[other].handle] = c.observer
            BY <2>3, <4>1, <4>3
          <5> HIDE DEF n
          <5> QED BY <1>4, <3>1, <4>1, <4>3, <5>2, <5>3 DEF NotOutdated
        <4>4. CASE call[other].handle # c.handle
          <5>1. call[other].handle \in Handles
            BY <4>1 DEF LInv, CallsBound, Calls
          <5>2. PICK observer : observer = m_observer[call[other].handle]
            OBVIOUS
          <5>3. m_observer'[call'[other].handle] = observer
            BY <2>3, <4>1, <4>4, <5>1, <5>2
          <5>4. NotOutdated(other, observer)'
            BY <1>5, <3>3, <4>2, <5>2
          <5> QED BY <5>3, <5>4 DEF NotOutdated
        <4> QED BY <4>3, <4>4
      <3> QED BY <3>2, <3>3
    <2> QED BY <2>1, <2>4 DEF ObserversCurrent
  <1> QED BY <1>6, <1>7, <1>8, <1>9 DEF DataInv

\* The rest of start() changes neither the arguments of calls nor their order.
LEMMA BegunKept ==
    ASSUME DataInv, NEW s \in Starts, NEW to \in Stages \ {"idle"},
           pc[s] # "idle", pc \in [Starts -> Stages], pc' = [pc EXCEPT ![s] = to],
           UNCHANGED <<m_observer, call, begun>>
    PROVE  /\ ObserversCurrent' /\ HandlesFresh'
           /\ \A other, o : NotOutdated(other, o) => NotOutdated(other, o)'
  <1>1. \A other, o : NotOutdated(other, o) => NotOutdated(other, o)'
    BY DEF NotOutdated
  <1>2. HandlesFresh'
    BY DEF DataInv, HandlesFresh
  <1>3. \A other \in Starts : pc'[other] # "idle" <=> pc[other] # "idle"
    OBVIOUS
  <1>4. \A i \in 1..Len(begun) : pc'[begun[i]] # "idle"
    BY DEF DataInv, ObserversCurrent
  <1>5. ObserversCurrent'
    BY <1>1, <1>3, <1>4 DEF DataInv, ObserversCurrent
  <1> QED BY <1>1, <1>2, <1>5

LEMMA SetTestnetModeDataInv ==
    ASSUME LInv, DataInv, NEW s \in Starts, SetTestnetMode(s)
    PROVE  DataInv'
  <1>1. /\ pc[s] = "bound" /\ pc' = [pc EXCEPT ![s] = "network"] /\ ~crashed
        /\ UNCHANGED <<m_observer, call, begun, url, req>> /\ UNCHANGED taskVars
        /\ pc \in [Starts -> Stages]
    BY DEF SetTestnetMode, Step, LInv, TypeOK
  <1>2. /\ ObserversCurrent' /\ HandlesFresh'
        /\ \A other, o : NotOutdated(other, o) => NotOutdated(other, o)'
    BY <1>1, BegunKept DEF Stages
  <1>3. UrlsOwn'
    BY <1>1 DEF DataInv, UrlsOwn
  <1> QED BY <1>1, <1>2, <1>3, StartKeepsOthers DEF DataInv

LEMMA get_transactionsDataInv ==
    ASSUME LInv, DataInv, NEW s \in Starts, get_transactions(s)
    PROVE  DataInv'
  <1>1. /\ pc[s] = "network" /\ pc' = [pc EXCEPT ![s] = "url"] /\ ~crashed
        /\ url' = [url EXCEPT ![s] = UrlFor(call[s].addresses)]
        /\ UNCHANGED <<m_observer, call, begun, req>> /\ UNCHANGED taskVars
        /\ pc \in [Starts -> Stages]
    BY DEF get_transactions, Step, LInv, TypeOK
  <1>2. /\ ObserversCurrent' /\ HandlesFresh'
        /\ \A other, o : NotOutdated(other, o) => NotOutdated(other, o)'
    BY <1>1, BegunKept DEF Stages
  <1>3. /\ url'[s].addresses = call[s].addresses
        /\ \A other \in Starts \ {s} : url'[other] = url[other]
    BY <1>1 DEF LInv, TypeOK, UrlFor
  <1>4. UrlsOwn'
    BY <1>1, <1>3 DEF DataInv, UrlsOwn
  <1> QED BY <1>1, <1>2, <1>3, <1>4, StartKeepsOthers DEF DataInv

LEMMA get_tokenDataInv ==
    ASSUME LInv, DataInv, NEW s \in Starts, get_token(s)
    PROVE  DataInv'
  <1>1. /\ pc[s] = "url" /\ pc' = [pc EXCEPT ![s] = "returned"] /\ ~crashed
        /\ UNCHANGED <<m_observer, call, begun, url>> /\ UNCHANGED taskVars
        /\ pc \in [Starts -> Stages]
    BY DEF get_token, Step, LInv, TypeOK
  <1>2. /\ \A k \in Kinds, other \in Starts \ {s} : req'[k][other] = req[k][other]
        /\ req'["txs"][s] = req["txs"][s]
    BY DEF get_token, Http_get, LInv, TypeOK, Kinds
  <1>3. /\ ObserversCurrent' /\ HandlesFresh'
        /\ \A other, o : NotOutdated(other, o) => NotOutdated(other, o)'
    BY <1>1, BegunKept DEF Stages
  <1>4. UrlsOwn'
    BY <1>1 DEF DataInv, UrlsOwn
  <1> QED BY <1>1, <1>2, <1>3, <1>4, StartKeepsOthers DEF DataInv

(***************************************************************************)
(* The theorems.                                                           *)
(***************************************************************************)

LEMMA NextDataInv == LInv /\ DataInv /\ [Next]_vars => DataInv'
  <1> SUFFICES ASSUME LInv, DataInv, [Next]_vars PROVE DataInv'
    OBVIOUS
  <1>1. CASE UNCHANGED vars
    <2>1. UrlsOwn' /\ RequestsOwn' /\ TasksOwn'
      BY <1>1 DEF vars, DataInv, UrlsOwn, RequestsOwn, ReplyOf, TasksOwn, TaskOwn, Queued,
         NotOutdated
    <2>2. AnswersOwn' /\ OwnToken'
      BY <1>1 DEF vars, DataInv, AnswersOwn, OwnToken
    <2>3. ObserversCurrent' /\ ObserverNotOutdated' /\ HandlesFresh'
      BY <1>1 DEF vars, DataInv, ObserversCurrent, ObserverNotOutdated, NotOutdated,
         HandlesFresh
    <2>4. FreedOnlyIfUnpinned' /\ CrashOnlyOnTxsFailure'
      BY <1>1 DEF vars, DataInv, FreedOnlyIfUnpinned, CrashOnlyOnTxsFailure
    <2> QED BY <2>1, <2>2, <2>3, <2>4 DEF DataInv
  <1>2. ASSUME NEW s \in Starts, NEW t \in Threads, NEW c \in Calls, StartCall(t, s, c)
        PROVE  DataInv'
    BY <1>2, StartCallDataInv
  <1>3. ASSUME NEW s \in Starts, StartStep(s) PROVE DataInv'
    BY <1>3, SetTestnetModeDataInv, get_transactionsDataInv, get_tokenDataInv DEF StartStep
  <1>4. ASSUME NEW s \in Starts, NEW k \in Kinds, NetworkStep(k, s) PROVE DataInv'
    <2>1. ASSUME on_network_error(k, s) PROVE DataInv'
      <3>1. NetworkError \in HttpResponses(k) /\ NetworkError.json # "object"
        BY DEF HttpResponses, NetworkError
      <3> QED BY <2>1, <3>1, AnswerDataInv DEF on_network_error
    <2>2. ASSUME on_success(k, s) PROVE DataInv'
      BY <2>2, AnswerDataInv DEF on_success, Bodies
    <2> QED BY <1>4, <2>1, <2>2 DEF NetworkStep
  <1>5. ASSUME NEW s \in Starts, RunTask(s) PROVE DataInv'
    BY <1>5, TokenFailureDataInv, TokenReceivedDataInv, tx_taskDataInv, TxsFailureDataInv,
       TxsNotObjectDataInv, TxsReceivedDataInv, on_updateDataInv DEF RunTask
  <1> QED BY <1>1, <1>2, <1>3, <1>4, <1>5 DEF Next

\* A call carries only its own data from one continuation to the next, on every
\* platform and however calls, answers and tasks interleave (client.cpp 27-127).
THEOREM DataInvHolds == Spec => []DataInv
  <1> QED BY InitDataInv, NextDataInv, LInvHolds, PTL DEF Spec

\* The second request of a call carries the token that call was given, although
\* other calls are given theirs in between (client.cpp 87-93).
THEOREM TokensOwn == Spec => []OwnToken
  <1>1. DataInv => OwnToken
    BY DEF DataInv
  <1> QED BY <1>1, DataInvHolds, PTL

\* A call is answered with, and its observer shown, the transactions of its own
\* addresses (client.cpp 66-79, transaction_list_vm.cpp 34-62).
THEOREM AddressesOwn == Spec => []OwnAddresses
  <1>1. LInv /\ DataInv => OwnAddresses
    <2> SUFFICES ASSUME LInv, DataInv, NEW s \in Starts
                 PROVE  /\ \A i \in 1..Len(responses[s]) :
                             responses[s][i].result # Nothing =>
                               responses[s][i].result.addresses = call[s].addresses
                        /\ \A i \in 1..Len(updates[s]) :
                             updates[s][i].txs.addresses = call[s].addresses
      BY DEF OwnAddresses
    <2>1. /\ responses[s] \in Seq(Responses) /\ updates[s] \in Seq(Updates)
          /\ Len(responses[s]) <= 1 /\ Len(updates[s]) <= 1
      BY DEF LInv, TypeOK, AnsweredAtMostOnce
    <2>2. ASSUME responses[s] # <<>>, responses[s][1].result # Nothing
          PROVE  responses[s][1].result.addresses = call[s].addresses
      <3>1. pc[s] = "returned" /\ responses[s][1] = [error |-> "", result |-> url[s]]
        BY <2>2 DEF DataInv, AnswersOwn
      <3>2. responses[s][1].result = url[s]
        <4>1. \A txs : [error |-> "", result |-> txs].result = txs
          OBVIOUS
        <4> QED BY <3>1, <4>1
      <3> QED BY <3>1, <3>2 DEF DataInv, UrlsOwn
    <2>3. ASSUME NEW i \in 1..Len(responses[s]), responses[s][i].result # Nothing
          PROVE  responses[s][i].result.addresses = call[s].addresses
      <3>1. i = 1 /\ responses[s] # <<>>
        BY <2>1
      <3> QED BY <2>2, <2>3, <3>1
    <2>4. ASSUME NEW i \in 1..Len(updates[s])
          PROVE  updates[s][i].txs.addresses = call[s].addresses
      <3>1. i = 1 /\ updates[s] # <<>> /\ 1 \in 1..Len(updates[s])
        BY <2>1
      <3>2. responses[s] # <<>> /\ responses[s][1] = [error |-> "", result |-> updates[s][1].txs]
        BY <3>1 DEF LInv, UpdateFollowsAnswer
      <3>3. responses[s][1].result = updates[s][1].txs
        <4>1. \A txs : [error |-> "", result |-> txs].result = txs
          OBVIOUS
        <4> QED BY <3>2, <4>1
      <3>4. updates[s][1].txs # Nothing
        <4>1. updates[s][1] \in Updates
          BY <2>1, <3>1
        <4> QED BY <4>1, NothingAssumption DEF Updates
      <3> QED BY <2>2, <3>1, <3>2, <3>3, <3>4
    <2> QED BY <2>3, <2>4
  <1> QED BY <1>1, LInvHolds, DataInvHolds, PTL

\* A list never goes to an observer that had been replaced before its call, even
\* when other threads start the handle again (transaction_list_vm.cpp 25 and 57).
THEOREM ObserversNotOutdated == Spec => []ObserverNotOutdated
  <1>1. DataInv => ObserverNotOutdated
    BY DEF DataInv
  <1> QED BY <1>1, DataInvHolds, PTL

\* Where each call has a handle of its own, the list goes to the observer of the
\* call (index.js 79-99).
THEOREM ObserversOwn == ~RestartAllowed => (Spec => []OwnObserver)
  <1> SUFFICES ASSUME ~RestartAllowed PROVE Spec => []OwnObserver
    OBVIOUS
  <1>1. DataInv => OwnObserver
    BY DEF DataInv, ObserverNotOutdated, NotOutdated, HandlesFresh, OwnObserver
  <1> QED BY <1>1, DataInvHolds, PTL

\* The binding that keeps every Runnable it was given never lets the core use the
\* dangling reference (client.cpp 93-107, NJSItfRunnable.cpp 47-69).
THEOREM ReferencesLive == WrappersPinned => (Spec => []NoDanglingUse)
  <1> SUFFICES ASSUME WrappersPinned PROVE Spec => []NoDanglingUse
    OBVIOUS
  <1>1. DataInv => NoDanglingUse
    BY DEF DataInv, FreedOnlyIfUnpinned, NoDanglingUse
  <1> QED BY <1>1, DataInvHolds, PTL

\* Elsewhere only a failure of the second request can use it (client.cpp 91-107).
THEOREM CrashesOnlyOnTxsFailure == Spec => []CrashOnlyOnTxsFailure
  <1>1. DataInv => CrashOnlyOnTxsFailure
    BY DEF DataInv
  <1> QED BY <1>1, DataInvHolds, PTL
(***************************************************************************)
(* Which network the requests go to.                                       *)
(***************************************************************************)

\* The initial state: no call has been made.
LEMMA InitNetworkInv == Init => NetworkInv
BY DEF Init, NetworkInv, NetworkSet, NetworkOwn, InStart, Kinds

\* Only start() sends first requests.
LEMMA NetworkKept ==
    ASSUME NetworkInv, UNCHANGED startVars,
           \A s \in Starts : req'["token"][s] # Nothing =>
              req["token"][s] # Nothing /\ req'["token"][s].url = req["token"][s].url
    PROVE  NetworkInv'
  <1>1. UNCHANGED <<testnetMode, call, thread, pc, url>>
    BY DEF startVars
  <1>2. \A b : SomeCall(b) => SomeCall(b)'
    BY <1>1 DEF SomeCall
  <1>3. ASSUME NEW s \in Starts, (req["token"][s] # Nothing)'
        PROVE  /\ SomeCall(req["token"][s].url.testnet)'
               /\ Threads = {Main} => OwnTestnet(s, req["token"][s].url.testnet)'
    <2>1. PICK b : b = (req["token"][s].url.testnet)'
      OBVIOUS
    <2>2. b = req["token"][s].url.testnet /\ req["token"][s] # Nothing
      BY <1>3, <2>1
    <2>3. SomeCall(b) /\ (Threads = {Main} => OwnTestnet(s, b))
      BY <2>2 DEF NetworkInv, NetworkSet, NetworkOwn
    <2>4. SomeCall(b)' /\ (Threads = {Main} => OwnTestnet(s, b)')
      BY <1>1, <1>2, <2>3 DEF OwnTestnet
    <2> QED BY <2>1, <2>4 DEF SomeCall, OwnTestnet
  <1>4. NetworkSet'
    BY <1>1, <1>3 DEF NetworkInv, NetworkSet, SomeCall
  <1>5. NetworkOwn'
    BY <1>1, <1>3 DEF NetworkInv, NetworkOwn, InStart, OwnTestnet
  <1> QED BY <1>4, <1>5 DEF NetworkInv

\* start() begins: with one thread, no other call is inside it.
LEMMA StartCallNetworkInv ==
    ASSUME LInv, NetworkInv, NEW t \in Threads, NEW s \in Starts, NEW c \in Calls,
           StartCall(t, s, c)
    PROVE  NetworkInv'
  <1>1. /\ pc[s] = "idle" /\ pc' = [pc EXCEPT ![s] = "bound"]
        /\ call' = [call EXCEPT ![s] = c] /\ thread' = [thread EXCEPT ![s] = t]
        /\ UNCHANGED <<testnetMode, url, req>> /\ ~Busy(t)
    BY DEF StartCall, Step
  <1>2. /\ call'[s] = c /\ pc'[s] = "bound" /\ thread'[s] = t
        /\ \A other \in Starts \ {s} :
              /\ call'[other] = call[other] /\ pc'[other] = pc[other]
              /\ thread'[other] = thread[other]
    BY <1>1 DEF LInv, TypeOK
  <1>3. \A b : SomeCall(b) => SomeCall(b)'
    BY <1>1, <1>2 DEF SomeCall
  <1>4. req["token"][s] = Nothing
    BY <1>1 DEF LInv, RequestsInOrder
  <1>5. NetworkSet'
    <2> SUFFICES ASSUME NEW other \in Starts
                 PROVE  /\ pc'[other] \in {"network", "url", "returned"} => SomeCall(testnetMode)'
                        /\ pc'[other] \in {"url", "returned"} => SomeCall(url[other].testnet)'
                        /\ req'["token"][other] # Nothing =>
                              SomeCall(req["token"][other].url.testnet)'
      BY DEF NetworkSet
    <2>1. CASE other = s
      BY <1>1, <1>2, <1>4, <2>1
    <2>2. CASE other # s
      <3>1. /\ pc[other] \in {"network", "url", "returned"} => SomeCall(testnetMode)
            /\ pc[other] \in {"url", "returned"} => SomeCall(url[other].testnet)
            /\ req["token"][other] # Nothing => SomeCall(req["token"][other].url.testnet)
        BY DEF NetworkInv, NetworkSet
      <3>2. /\ SomeCall(testnetMode) => SomeCall(testnetMode)'
            /\ SomeCall(url[other].testnet) => SomeCall(url[other].testnet)'
            /\ SomeCall(req["token"][other].url.testnet)
                  => SomeCall(req["token"][other].url.testnet)'
        BY <1>1, <1>3 DEF SomeCall
      <3> QED BY <1>1, <1>2, <2>2, <3>1, <3>2
    <2> QED BY <2>1, <2>2
  <1>6. NetworkOwn'
    <2> SUFFICES ASSUME Threads = {Main} PROVE NetworkOwn'
      BY DEF NetworkOwn
    <2>1. \A other \in Starts : ~InStart(other)
      BY <1>1 DEF Busy, InStart, NetworkInv, NetworkOwn
    <2>2. t = Main
      OBVIOUS
    <2>3. \A other \in Starts : InStart(other)' => other = s
      BY <1>2, <2>1 DEF InStart
    <2>4. \A other \in Starts : (pc[other] # "idle")' => thread'[other] = Main
      BY <1>2, <2>2 DEF NetworkInv, NetworkOwn
    <2>5. ASSUME NEW other \in Starts
          PROVE  /\ ~(pc'[other] \in {"network", "url"})
                 /\ pc'[other] \in {"url", "returned"} => OwnTestnet(other, url[other].testnet)'
                 /\ req'["token"][other] # Nothing =>
                       OwnTestnet(other, req["token"][other].url.testnet)'
      <3>1. CASE other = s
        BY <1>1, <1>2, <1>4, <3>1
      <3>2. CASE other # s
        <4>1. pc'[other] = pc[other] /\ call'[other] = call[other]
          BY <1>2, <3>2
        <4> QED BY <1>1, <2>1, <4>1 DEF NetworkInv, NetworkOwn, OwnTestnet, InStart
      <3> QED BY <3>1, <3>2
    <2> QED BY <2>3, <2>4, <2>5 DEF NetworkOwn
  <1> QED BY <1>5, <1>6 DEF NetworkInv

\* A step of start() that leaves the URLs and requests of the other calls alone.
LEMMA StartStepNetwork ==
    ASSUME LInv, NetworkInv, NEW s \in Starts, InStart(s),
           NEW to \in {"network", "url", "returned"}, pc' = [pc EXCEPT ![s] = to],
           UNCHANGED <<call, thread>>,
           SomeCall(testnetMode)',
           \A other \in Starts \ {s} : url'[other] = url[other]
              /\ req'["token"][other] = req["token"][other],
           to \in {"url", "returned"} => SomeCall(url[s].testnet)',
           req'["token"][s] # Nothing => SomeCall(req["token"][s].url.testnet)',
           Threads = {Main} =>
              /\ to \in {"network", "url"} => OwnTestnet(s, testnetMode)'
              /\ to \in {"url", "returned"} => OwnTestnet(s, url[s].testnet)'
              /\ req'["token"][s] # Nothing => OwnTestnet(s, req["token"][s].url.testnet)'
    PROVE  NetworkInv'
  <1>1. /\ pc'[s] = to /\ pc[s] # "idle"
        /\ \A other \in Starts \ {s} : pc'[other] = pc[other]
    BY DEF LInv, TypeOK, InStart
  <1>2. \A b : SomeCall(b) => SomeCall(b)'
    BY <1>1 DEF SomeCall
  <1>3. NetworkSet'
    <2>1. ASSUME NEW other \in Starts \ {s}
          PROVE  /\ pc'[other] \in {"url", "returned"} => SomeCall(url[other].testnet)'
                 /\ req'["token"][other] # Nothing =>
                       SomeCall(req["token"][other].url.testnet)'
      <3>1. /\ pc[other] \in {"url", "returned"} => SomeCall(url[other].testnet)
            /\ req["token"][other] # Nothing => SomeCall(req["token"][other].url.testnet)
        BY DEF NetworkInv, NetworkSet
      <3>2. /\ SomeCall(url[other].testnet) => SomeCall(url[other].testnet)'
            /\ SomeCall(req["token"][other].url.testnet)
                  => SomeCall(req["token"][other].url.testnet)'
        <4>1. /\ (url[other].testnet)' = url[other].testnet
              /\ (req["token"][other].url.testnet)' = req["token"][other].url.testnet
          OBVIOUS
        <4> QED BY <1>2, <4>1 DEF SomeCall
      <3> QED BY <1>1, <3>1, <3>2
    <2>2. ASSUME NEW other \in Starts
          PROVE  /\ pc'[other] \in {"url", "returned"} => SomeCall(url[other].testnet)'
                 /\ req'["token"][other] # Nothing =>
                       SomeCall(req["token"][other].url.testnet)'
      <3>1. CASE other = s
        BY <1>1, <3>1
      <3>2. CASE other # s
        BY <2>1, <3>2
      <3> QED BY <3>1, <3>2
    <2> QED BY <2>2 DEF NetworkSet
  <1>4. NetworkOwn'
    <2> SUFFICES ASSUME Threads = {Main} PROVE NetworkOwn'
      BY DEF NetworkOwn
    <2>1. \A other \in Starts : (pc[other] # "idle")' => thread'[other] = Main
      BY <1>1 DEF NetworkInv, NetworkOwn
    <2>2. \A other \in Starts \ {s} : ~InStart(other) /\ ~InStart(other)'
      BY <1>1 DEF NetworkInv, NetworkOwn, InStart
    <2>3. ASSUME NEW other \in Starts
          PROVE  /\ pc'[other] \in {"network", "url"} => OwnTestnet(other, testnetMode)'
                 /\ pc'[other] \in {"url", "returned"} => OwnTestnet(other, url[other].testnet)'
                 /\ req'["token"][other] # Nothing =>
                       OwnTestnet(other, req["token"][other].url.testnet)'
      <3>1. CASE other = s
        BY <1>1, <3>1
      <3>2. CASE other # s
        <4>1. pc'[other] = pc[other] /\ ~(pc[other] \in {"network", "url"})
          BY <1>1, <2>2, <3>2 DEF InStart
        <4> QED BY <3>2, <4>1 DEF NetworkInv, NetworkOwn, OwnTestnet
      <3> QED BY <3>1, <3>2
    <2> QED BY <2>1, <2>2, <2>3 DEF NetworkOwn
  <1> QED BY <1>3, <1>4 DEF NetworkInv

LEMMA SetTestnetModeNetworkInv ==
    ASSUME LInv, NetworkInv, NEW s \in Starts, SetTestnetMode(s)
    PROVE  NetworkInv'
  <1>1. /\ InStart(s) /\ pc' = [pc EXCEPT ![s] = "network"]
        /\ UNCHANGED <<call, thread, url, req>>
        /\ testnetMode' = (call[s].coin_type = 1)
    BY DEF SetTestnetMode, Step, TestnetModeOf, InStart
  <1>2. pc'[s] = "network" /\ call'[s] = call[s] /\ req["token"][s] = Nothing
    BY <1>1 DEF LInv, TypeOK, RequestsInOrder, SetTestnetMode, Step
  <1>3. SomeCall(testnetMode)' /\ OwnTestnet(s, testnetMode)'
    BY <1>1, <1>2 DEF SomeCall, OwnTestnet
  <1> QED BY <1>1, <1>2, <1>3, StartStepNetwork

LEMMA get_transactionsNetworkInv ==
    ASSUME LInv, NetworkInv, NEW s \in Starts, get_transactions(s)
    PROVE  NetworkInv'
  <1>1. /\ InStart(s) /\ pc' = [pc EXCEPT ![s] = "url"] /\ pc[s] = "network"
        /\ url' = [url EXCEPT ![s] = UrlFor(call[s].addresses)]
        /\ UNCHANGED <<testnetMode, call, thread, req>>
    BY DEF get_transactions, Step, InStart
  <1>2. /\ pc'[s] = "url" /\ req["token"][s] = Nothing
        /\ url'[s].testnet = testnetMode
        /\ \A other \in Starts \ {s} : url'[other] = url[other]
        /\ \A other \in Starts : pc[other] # "idle" => pc'[other] # "idle"
    BY <1>1 DEF LInv, TypeOK, RequestsInOrder, UrlFor
  <1>3. /\ SomeCall(testnetMode)
        /\ Threads = {Main} => OwnTestnet(s, testnetMode)
    BY <1>1 DEF NetworkInv, NetworkSet, NetworkOwn
  <1>4. SomeCall(testnetMode)' /\ SomeCall(url[s].testnet)'
    BY <1>1, <1>2, <1>3 DEF SomeCall
  <1>5. Threads = {Main} => OwnTestnet(s, testnetMode)' /\ OwnTestnet(s, url[s].testnet)'
    BY <1>1, <1>2, <1>3 DEF OwnTestnet
  <1> QED BY <1>1, <1>2, <1>4, <1>5, StartStepNetwork

LEMMA get_tokenNetworkInv ==
    ASSUME LInv, NetworkInv, NEW s \in Starts, get_token(s)
    PROVE  NetworkInv'
  <1>1. /\ InStart(s) /\ pc' = [pc EXCEPT ![s] = "returned"] /\ pc[s] = "url"
        /\ req' = [req EXCEPT !["token"][s] =
              [url |-> UrlFor(Nothing), header |-> Nothing, reply |-> Nothing]]
        /\ UNCHANGED <<testnetMode, call, thread, url>>
    BY DEF get_token, Http_get, Step, InStart
  <1>2. /\ req'["token"][s].url.testnet = testnetMode
        /\ \A other \in Starts \ {s} : req'["token"][other] = req["token"][other]
        /\ \A other \in Starts : pc[other] # "idle" => pc'[other] # "idle"
    BY <1>1 DEF LInv, TypeOK, UrlFor, Kinds
  <1>3. /\ SomeCall(testnetMode) /\ SomeCall(url[s].testnet)
        /\ Threads = {Main} => OwnTestnet(s, testnetMode) /\ OwnTestnet(s, url[s].testnet)
    BY <1>1 DEF NetworkInv, NetworkSet, NetworkOwn
  <1>4. /\ SomeCall(testnetMode)' /\ SomeCall(url[s].testnet)'
        /\ SomeCall(req["token"][s].url.testnet)'
    BY <1>1, <1>2, <1>3 DEF SomeCall
  <1>5. Threads = {Main} =>
          OwnTestnet(s, url[s].testnet)' /\ OwnTestnet(s, req["token"][s].url.testnet)'
    BY <1>1, <1>2, <1>3 DEF OwnTestnet
  <1> QED BY <1>1, <1>2, <1>4, <1>5, StartStepNetwork

(***************************************************************************)
(* The theorems.                                                           *)
(***************************************************************************)

LEMMA NextNetworkInv == LInv /\ NetworkInv /\ [Next]_vars => NetworkInv'
  <1> SUFFICES ASSUME LInv, NetworkInv, [Next]_vars PROVE NetworkInv'
    OBVIOUS
  <1>1. CASE UNCHANGED vars
    BY <1>1, NetworkKept DEF vars, startVars
  <1>2. ASSUME NEW s \in Starts, NEW t \in Threads, NEW c \in Calls, StartCall(t, s, c)
        PROVE  NetworkInv'
    BY <1>2, StartCallNetworkInv
  <1>3. ASSUME NEW s \in Starts, StartStep(s) PROVE NetworkInv'
    BY <1>3, SetTestnetModeNetworkInv, get_transactionsNetworkInv, get_tokenNetworkInv
       DEF StartStep
  <1>4. ASSUME NEW s \in Starts, NEW k \in Kinds, NEW resp, Answer(k, s, resp)
        PROVE  NetworkInv'
    <2>1. /\ UNCHANGED startVars /\ req[k][s] # Nothing
          /\ req' = [req EXCEPT ![k][s].reply = resp]
          /\ req \in [Kinds -> [Starts -> Requests \cup {Nothing}]]
      BY <1>4 DEF Answer, Waiting, LInv, TypeOK
    <2>2. req[k][s] \in Requests
      BY <2>1
    <2>3. /\ req'[k][s].url = req[k][s].url
          /\ \A other \in Starts : other # s \/ k # "token" =>
                req'["token"][other] = req["token"][other]
      BY <2>1, <2>2 DEF Requests, Kinds
    <2> QED BY <2>1, <2>3, NetworkKept
  <1>5. ASSUME NEW s \in Starts, NEW k \in Kinds, NetworkStep(k, s) PROVE NetworkInv'
    BY <1>4, <1>5 DEF NetworkStep, on_network_error, on_success
  <1>6. ASSUME NEW s \in Starts, RunTask(s) PROVE NetworkInv'
    <2>1. UNCHANGED startVars
      BY <1>6 DEF RunTask, TokenFailure, TokenReceived, tx_task, TxsFailure,
         TxsNotObject, TxsReceived, on_update
    <2>2. req'["token"] = req["token"]
      BY <1>6 DEF RunTask, TokenFailure, TokenReceived, tx_task, TxsFailure,
         TxsNotObject, TxsReceived, on_update, Http_get, LInv, TypeOK, Kinds
    <2> QED BY <2>1, <2>2, NetworkKept
  <1> QED BY <1>1, <1>2, <1>3, <1>5, <1>6 DEF Next

\* The global of the core always names the network of some call
\* (client.cpp 16, transaction_list_vm.cpp 32).
THEOREM NetworkInvHolds == Spec => []NetworkInv
  <1> QED BY InitNetworkInv, NextNetworkInv, LInvHolds, PTL DEF Spec

\* However many calls, handles and threads there are: at any time a call is in one
\* place, unanswered there, and carries only its own data (client.cpp 27-127).
THEOREM SoundHolds == Spec => []Sound
  <1>1. LInv /\ DataInv /\ NetworkInv => Sound
    BY DEF Sound
  <1> QED BY <1>1, LInvHolds, DataInvHolds, NetworkInvHolds, PTL

\* Even when several threads call start(), every request goes to a network that
\* some call named (client.cpp 16, 33, 66).
THEOREM NetworksOfSomeCall == Spec => []NetworkOfSomeCall
  <1>1. LInv /\ DataInv /\ NetworkInv => NetworkOfSomeCall
    <2> SUFFICES ASSUME LInv, DataInv, NetworkInv, NEW k \in Kinds, NEW s \in Starts,
                        req[k][s] # Nothing
                 PROVE  \E other \in Starts :
                          /\ call[other] # Nothing
                          /\ req[k][s].url.testnet <=> call[other].coin_type = 1
      BY DEF NetworkOfSomeCall
    <2>1. \A other \in Starts : pc[other] # "idle" => call[other] # Nothing
      BY NothingAssumption DEF LInv, CallsBound
    <2>2. SomeCall(req[k][s].url.testnet)
      <3>1. CASE k = "token"
        BY <3>1 DEF NetworkInv, NetworkSet
      <3>2. CASE k = "txs"
        <4>1. req["txs"][s].url = url[s] /\ pc[s] = "returned"
          BY <3>2 DEF LInv, RequestsInOrder, DataInv, RequestsOwn
        <4> QED BY <3>2, <4>1 DEF NetworkInv, NetworkSet
      <3> QED BY <3>1, <3>2 DEF Kinds
    <2> QED BY <2>1, <2>2 DEF SomeCall
  <1> QED BY <1>1, LInvHolds, DataInvHolds, NetworkInvHolds, PTL

\* With one thread that calls start(), both requests of a call go to the network
\* its own options name (transaction_list_vm.cpp 32, client.cpp 33, 66).
THEOREM NetworksOwn == Threads = {Main} => (Spec => []OwnNetwork)
  <1> SUFFICES ASSUME Threads = {Main} PROVE Spec => []OwnNetwork
    OBVIOUS
  <1>1. LInv /\ DataInv /\ NetworkInv => OwnNetwork
    <2> SUFFICES ASSUME LInv, DataInv, NetworkInv, NEW k \in Kinds, NEW s \in Starts,
                        req[k][s] # Nothing
                 PROVE  OwnTestnet(s, req[k][s].url.testnet)
      BY DEF OwnNetwork, OwnTestnet
    <2>1. CASE k = "token"
      BY <2>1 DEF NetworkInv, NetworkOwn
    <2>2. CASE k = "txs"
      <3>1. req["txs"][s].url = url[s] /\ pc[s] = "returned"
        BY <2>2 DEF LInv, RequestsInOrder, DataInv, RequestsOwn
      <3> QED BY <2>2, <3>1 DEF NetworkInv, NetworkOwn
    <2> QED BY <2>1, <2>2 DEF Kinds
  <1> QED BY <1>1, LInvHolds, DataInvHolds, NetworkInvHolds, PTL

(***************************************************************************)
(* LedgerClient implements FetchContract where one thread calls start():   *)
(* every step of the core is a step of the contract or leaves what a       *)
(* caller can see of it unchanged.                                         *)
(***************************************************************************)

\* What a caller sees of a call, case by case: no answer is a wrong one.
Seen(s) ==
    /\ pc[s] = "idle" => StatusOf(s) = "idle" /\ Unanswered(s)
    /\ pc[s] # "idle" /\ responses[s] = <<>> => StatusOf(s) = "pending"
    /\ responses[s] # <<>> /\ responses[s][1].result = Nothing
          => StatusOf(s) = "refused"
    /\ responses[s] # <<>> /\ responses[s][1].result # Nothing
          => StatusOf(s) = IF updates[s] = <<>> THEN "satisfied" ELSE "shown"

AllSeen == \A s \in Starts : Seen(s)

LEMMA StatusFacts == Threads = {Main} /\ Sound => AllSeen
  <1> SUFFICES ASSUME Threads = {Main}, Sound, NEW s \in Starts PROVE Seen(s)
    BY DEF AllSeen
  <1>1. pc[s] = "idle" => Unanswered(s)
    BY DEF Sound, LInv, WaitingUnanswered
  <1>2. responses[s] # <<>> => pc[s] # "idle"
    BY DEF Sound, DataInv, AnswersOwn
  <1>3. ASSUME responses[s] # <<>>, responses[s][1].result # Nothing
        PROVE  responses[s][1] = [error |-> "", result |-> Wanted(call[s])]
    <2>1. /\ pc[s] = "returned"
          /\ responses[s][1] = [error |-> "", result |-> url[s]]
      BY <1>3 DEF Sound, DataInv, AnswersOwn
    <2>2. url[s] \in Urls /\ url[s].addresses = call[s].addresses
      BY <2>1 DEF Sound, LInv, UrlsBuilt, DataInv, UrlsOwn
    <2>3. url[s].testnet <=> call[s].coin_type = 1
      BY <2>1 DEF Sound, NetworkInv, NetworkOwn, OwnTestnet
    <2>4. url[s] = Wanted(call[s])
      BY <2>2, <2>3 DEF Urls, Wanted
    <2> QED BY <2>1, <2>4
  <1> QED BY <1>1, <1>2, <1>3 DEF Seen, StatusOf, Unanswered

\* The initial state of the core is one of the contract.
LEMMA InitContract == Init => Contract!Init
BY DEF Init, Contract!Init, StatusOf

\* A step that gives no answer and shows no list changes nothing a caller sees.
LEMMA Unseen ==
    ASSUME UNCHANGED <<call, responses, updates>>,
           \A s \in Starts : pc'[s] = "idle" <=> pc[s] = "idle"
    PROVE  UNCHANGED Contract!vars
  <1>1. ASSUME NEW s \in Starts PROVE StatusOf(s)' = StatusOf(s)
    BY DEF StatusOf
  <1> QED BY <1>1 DEF Contract!vars

\* start() is the first step of the contract.
LEMMA StartCallAsks ==
    ASSUME Threads = {Main}, Sound, NEW t \in Threads, NEW s \in Starts, NEW c \in Calls,
           StartCall(t, s, c)
    PROVE  Contract!Ask(s, c)
  <1>1. /\ pc[s] = "idle" /\ pc' = [pc EXCEPT ![s] = "bound"]
        /\ call' = [call EXCEPT ![s] = c]
        /\ UNCHANGED <<responses, updates>>
    BY DEF StartCall, Step, taskVars
  <1>2. Unanswered(s) /\ StatusOf(s) = "idle"
    BY <1>1, StatusFacts DEF AllSeen, Seen
  <1>3. /\ pc'[s] = "bound"
        /\ \A other \in Starts \ {s} : pc'[other] = pc[other] /\ call'[other] = call[other]
    BY <1>1 DEF Sound, LInv, TypeOK
  <1>4. StatusOf(s)' = "pending"
    BY <1>1, <1>2, <1>3 DEF StatusOf, Unanswered
  <1>5. \A other \in Starts \ {s} : StatusOf(other)' = StatusOf(other)
    BY <1>1, <1>3 DEF StatusOf
  <1> QED BY <1>1, <1>2, <1>4, <1>5 DEF Contract!Ask, Contract!Move

\* The facts above hold again after a step.
LEMMA SeenNext == Threads = {Main} /\ Sound' => AllSeen'
  <1> SUFFICES ASSUME Threads = {Main} PROVE Sound' => AllSeen'
    OBVIOUS
  <1>1. Sound => AllSeen
    BY StatusFacts
  <1> QED BY <1>1, PTL

\* The first answer of a call with a task moves it on from "pending", and no other.
LEMMA AnswerMoves ==
    ASSUME Threads = {Main}, Sound, Sound', NEW s \in Starts,
           UNCHANGED startVars, UNCHANGED updates,
           pc[s] = "returned", Unanswered(s),
           NEW error \in {"", "parse error"}, NEW result \in Urls \cup {Nothing},
           respond(s, error, result)
    PROVE  /\ StatusOf(s) = "pending"
           /\ result = Nothing => StatusOf(s)' = "refused"
           /\ result # Nothing => StatusOf(s)' = "satisfied"
           /\ \A other \in Starts \ {s} : StatusOf(other)' = StatusOf(other)
  <1>1. LInv
    BY DEF Sound
  <1>2. /\ responses' \in [Starts -> Seq(Responses)]
        /\ Len(responses'[s]) = 1
        /\ responses'[s][1] = [error |-> error, result |-> result]
        /\ \A other \in Starts \ {s} : responses'[other] = responses[other]
    BY <1>1, RespondFacts
  <1>3. responses'[s] # <<>>
    BY <1>2, LengthOne
  <1>4. responses'[s][1].result = result
    <2>1. [error |-> error, result |-> result].result = result
      OBVIOUS
    <2> QED BY <1>2, <2>1
  <1>5. pc' = pc /\ call' = call
    BY DEF startVars
  <1>6. Seen(s) /\ Seen(s)'
    BY StatusFacts, SeenNext DEF AllSeen
  <1>7. StatusOf(s) = "pending"
    BY <1>6 DEF Seen, Unanswered
  <1>8. /\ result = Nothing => StatusOf(s)' = "refused"
        /\ result # Nothing => StatusOf(s)' = "satisfied"
    BY <1>3, <1>4, <1>6 DEF Seen, Unanswered
  <1>9. \A other \in Starts \ {s} : StatusOf(other)' = StatusOf(other)
    BY <1>2, <1>5 DEF StatusOf
  <1> QED BY <1>7, <1>8, <1>9

\* An error is a refusal.
LEMMA FailureRefuses ==
    ASSUME Threads = {Main}, Sound, Sound', NEW kind \in {"token", "txs"}, NEW s \in Starts,
           Runs(kind, s), UNCHANGED startVars, UNCHANGED updates,
           NEW error \in {"", "parse error"}, respond(s, error, Nothing)
    PROVE  Contract!Refuse(s)
  <1>1. Unanswered(s) /\ pc[s] = "returned"
    BY NoAnswerYet DEF Sound
  <1>2. /\ StatusOf(s) = "pending" /\ StatusOf(s)' = "refused"
        /\ \A other \in Starts \ {s} : StatusOf(other)' = StatusOf(other)
    BY <1>1, AnswerMoves
  <1>3. call' = call
    BY DEF startVars
  <1> QED BY <1>2, <1>3 DEF Contract!Refuse, Contract!Move

\* The list satisfies the call.
LEMMA TxsReceivedSatisfies ==
    ASSUME Threads = {Main}, Sound, Sound', NEW s \in Starts, TxsReceived(s)
    PROVE  Contract!Satisfy(s)
  <1>1. /\ Runs("txs", s) /\ UNCHANGED startVars /\ UNCHANGED updates
        /\ Head(queue).resp.json = "object"
        /\ respond(s, "", Head(queue).resp.value)
    BY DEF TxsReceived, respondByCopy
  <1>2. Unanswered(s) /\ pc[s] = "returned"
    BY <1>1, NoAnswerYet DEF Sound
  <1>3. PICK txs \in Urls : txs = Head(queue).resp.value
    <2>1. Head(queue).resp \in HttpResponses("txs")
      BY <1>1, RunsFacts, TaskFacts DEF Sound, Kinds
    <2> QED BY <1>1, <2>1, ResponseFacts DEF Kinds
  <1>4. txs # Nothing
    BY NothingAssumption
  <1>5. respond(s, "", txs)
    BY <1>1, <1>3
  <1>6. /\ StatusOf(s) = "pending" /\ StatusOf(s)' = "satisfied"
        /\ \A other \in Starts \ {s} : StatusOf(other)' = StatusOf(other)
    <2>1. "" \in {"", "parse error"} /\ txs \in Urls \cup {Nothing}
      OBVIOUS
    <2> QED BY <1>1, <1>2, <1>4, <1>5, <2>1, AnswerMoves
  <1>7. call' = call
    BY <1>1 DEF startVars
  <1> QED BY <1>1, <1>6, <1>7 DEF Contract!Satisfy, Contract!Move

\* on_update shows the list the call was answered, to an observer of its handle.
LEMMA on_updateShows ==
    ASSUME Threads = {Main}, Sound, Sound', NEW s \in Starts, on_update(s)
    PROVE  \E other \in Starts : Contract!Show(s, other)
  <1>0. LInv /\ DataInv
    BY DEF Sound
  <1>1. PICK update : update = Head(queue).update
    OBVIOUS
  <1>2. /\ Runs("update", s) /\ queue' = Tail(queue)
        /\ UNCHANGED startVars /\ UNCHANGED responses
        /\ updates' = [updates EXCEPT ![s] = Append(@, update)]
    BY <1>1 DEF on_update
  <1>3. /\ Head(queue).kind = "update" /\ Head(queue).start = s /\ pc[s] = "returned"
        /\ TaskOwn(Head(queue)) /\ TaskUnanswered(Head(queue))
        /\ update \in Updates
    BY <1>0, <1>1, <1>2, QueueEnds, RunsFacts, TaskFacts DEF DataInv, TasksOwn
  <1>4. /\ updates[s] = <<>> /\ update.txs = url[s] /\ NotOutdated(s, update.observer)
        /\ Len(responses[s]) = 1
        /\ responses[s][1] = [error |-> "", result |-> update.txs]
    BY <1>1, <1>3 DEF TaskUnanswered, TaskOwn
  <1>5. /\ updates'[s] # <<>> /\ updates'[s][1] = update
        /\ \A other \in Starts \ {s} : updates'[other] = updates[other]
    <2>1. updates \in [Starts -> Seq(Updates)]
      BY <1>0 DEF LInv, TypeOK
    <2>2. /\ Append(updates[s], update) \in Seq(Updates)
          /\ Len(Append(updates[s], update)) = 1
          /\ Append(updates[s], update)[1] = update
      <3>1. updates[s] = <<>> /\ updates[s] \in Seq(Updates) /\ update \in Updates
        BY <1>3, <1>4, <2>1
      <3> QED BY <3>1, AppendToEmpty
    <2>3. Append(updates[s], update) # <<>>
      BY <2>2, LengthOne
    <2> QED BY <1>2, <2>1, <2>2, <2>3
  <1>6. responses[s] # <<>> /\ responses[s][1].result # Nothing
    <2>1. responses[s] # <<>>
      BY <1>0, <1>4, LengthOne DEF LInv, TypeOK
    <2>2. update.txs # Nothing
      BY <1>3, NothingAssumption DEF Updates
    <2>3. \A txs : [error |-> "", result |-> txs].result = txs
      OBVIOUS
    <2> QED BY <1>4, <2>1, <2>2, <2>3
  <1>7. StatusOf(s) = "satisfied" /\ StatusOf(s)' = "shown"
    <2>1. Seen(s) /\ Seen(s)'
      BY StatusFacts, SeenNext DEF AllSeen
    <2> QED BY <1>2, <1>4, <1>5, <1>6, <2>1 DEF Seen
  <1>8. pc' = pc /\ call' = call
    BY <1>2 DEF startVars
  <1>9. \A other \in Starts \ {s} : StatusOf(other)' = StatusOf(other)
    BY <1>2, <1>5, <1>8 DEF StatusOf
  <1>10. PICK j \in 1..Len(begun) :
            /\ call[begun[j]].handle = call[s].handle
            /\ call[begun[j]].observer = update.observer
    BY <1>4 DEF NotOutdated
  <1>11. begun[j] \in Starts /\ call[begun[j]] # Nothing
    <2>1. begun[j] \in Starts /\ pc[begun[j]] # "idle"
      BY <1>0 DEF LInv, TypeOK, DataInv, ObserversCurrent
    <2> QED BY <1>0, <2>1, NothingAssumption DEF LInv, CallsBound
  <1>12. update = [observer |-> call[begun[j]].observer, txs |-> Wanted(call[s])]
    <2>1. url[s] \in Urls /\ url[s].addresses = call[s].addresses
      BY <1>0, <1>3 DEF LInv, UrlsBuilt, DataInv, UrlsOwn
    <2>2. url[s].testnet <=> call[s].coin_type = 1
      BY <1>3 DEF Sound, NetworkInv, NetworkOwn, OwnTestnet
    <2>3. url[s] = Wanted(call[s])
      BY <2>1, <2>2 DEF Urls, Wanted
    <2> QED BY <1>3, <1>4, <1>10, <2>3 DEF Updates
  <1> QED
    BY <1>5, <1>7, <1>8, <1>9, <1>10, <1>11, <1>12
    DEF Contract!Show, Contract!Move, Contract!Wanted, Wanted

\* The other steps of a task: it sends a request, hands on, or drops the call.
LEMMA RunTaskContract ==
    ASSUME Threads = {Main}, Sound, Sound', NEW s \in Starts, RunTask(s)
    PROVE  [Contract!Next]_(Contract!vars)
  <1>1. CASE TokenFailure(s)
    <2>1. /\ Runs("token", s) /\ UNCHANGED startVars /\ UNCHANGED updates
          /\ respond(s, ErrorOf(Head(queue).resp), Nothing)
          /\ ErrorOf(Head(queue).resp) \in {"", "parse error"}
      BY <1>1 DEF TokenFailure, respondByCopy, ErrorOf
    <2>2. Contract!Refuse(s)
      BY <2>1, FailureRefuses
    <2> QED BY <2>2 DEF Contract!Next
  <1>2. CASE TxsFailure(s)
    <2>1. /\ Runs("txs", s) /\ UNCHANGED startVars /\ UNCHANGED updates
          /\ ErrorOf(Head(queue).resp) \in {"", "parse error"}
          /\ respond(s, ErrorOf(Head(queue).resp), Nothing) \/ UNCHANGED responses
      BY <1>2 DEF TxsFailure, respondByReference, ErrorOf
    <2>2. CASE respond(s, ErrorOf(Head(queue).resp), Nothing)
      <3>1. Contract!Refuse(s)
        BY <2>1, <2>2, FailureRefuses
      <3> QED BY <3>1 DEF Contract!Next
    <2>3. CASE UNCHANGED responses
      BY <2>1, <2>3, Unseen DEF startVars
    <2> QED BY <2>1, <2>2, <2>3
  <1>3. CASE TxsReceived(s)
    BY <1>3, TxsReceivedSatisfies DEF Contract!Next
  <1>4. CASE on_update(s)
    BY <1>4, on_updateShows DEF Contract!Next
  <1>5. CASE TokenReceived(s) \/ tx_task(s) \/ TxsNotObject(s)
    <2>1. UNCHANGED startVars /\ UNCHANGED <<responses, updates>>
      BY <1>5 DEF TokenReceived, tx_task, TxsNotObject
    <2> QED BY <2>1, Unseen DEF startVars
  <1> QED BY <1>1, <1>2, <1>3, <1>4, <1>5 DEF RunTask

(***************************************************************************)
(* The theorem.                                                            *)
(***************************************************************************)

LEMMA NextContract ==
    Threads = {Main} /\ Sound /\ Sound' /\ [Next]_vars => [Contract!Next]_(Contract!vars)
  <1> SUFFICES ASSUME Threads = {Main}, Sound, Sound', [Next]_vars
               PROVE  [Contract!Next]_(Contract!vars)
    OBVIOUS
  <1>1. CASE UNCHANGED vars
    BY <1>1, Unseen DEF vars
  <1>2. ASSUME NEW s \in Starts, NEW t \in Threads, NEW c \in Calls, StartCall(t, s, c)
        PROVE  [Contract!Next]_(Contract!vars)
    <2>1. Contract!Ask(s, c)
      BY <1>2, StartCallAsks
    <2> QED BY <2>1 DEF Contract!Next, Contract!Calls, Calls
  <1>3. ASSUME NEW s \in Starts, StartStep(s) PROVE [Contract!Next]_(Contract!vars)
    <2>1. PICK to \in Stages \ {"idle"} : pc[s] # "idle" /\ pc' = [pc EXCEPT ![s] = to]
      BY <1>3 DEF StartStep, SetTestnetMode, get_transactions, get_token, Step, Stages
    <2>2. UNCHANGED <<call, responses, updates>>
      BY <1>3 DEF StartStep, SetTestnetMode, get_transactions, get_token, taskVars
    <2>3. \A other \in Starts : pc'[other] = "idle" <=> pc[other] = "idle"
      BY <2>1 DEF Sound, LInv, TypeOK
    <2> QED BY <2>2, <2>3, Unseen
  <1>4. ASSUME NEW s \in Starts, NEW k \in Kinds, NetworkStep(k, s)
        PROVE  [Contract!Next]_(Contract!vars)
    <2>1. UNCHANGED startVars /\ UNCHANGED <<responses, updates>>
      BY <1>4 DEF NetworkStep, on_network_error, on_success, Answer
    <2> QED BY <2>1, Unseen DEF startVars
  <1>5. ASSUME NEW s \in Starts, RunTask(s) PROVE [Contract!Next]_(Contract!vars)
    BY <1>5, RunTaskContract
  <1> QED BY <1>1, <1>2, <1>3, <1>4, <1>5 DEF Next

\* With one thread that calls start(), the core keeps the contract of start()
\* for any number of calls, handles and observers: an answer that is no error is
\* the caller's own list, and only that list is then shown, once, to an observer
\* of the same handle (transaction_list_vm.cpp 21-70, client.cpp 27-127).
THEOREM ContractKept == Threads = {Main} => (Spec => KeepsContract)
  <1> SUFFICES ASSUME Threads = {Main} PROVE Spec => KeepsContract
    OBVIOUS
  <1>1. Sound /\ Sound' /\ [Next]_vars => [Contract!Next]_(Contract!vars)
    BY NextContract
  <1> QED BY <1>1, SoundHolds, InitContract, PTL DEF Spec, KeepsContract, Contract!Spec

(***************************************************************************)
(* No call is forgotten: the part of liveness that each step must keep.    *)
(***************************************************************************)

\* The tasks of the other calls stay when one leaves the queue ...
LEMMA OthersStay ==
    ASSUME LInv, NEW kind, NEW s \in Starts, Runs(kind, s), queue' = Tail(queue)
    PROVE  \A task \in Queued : task.start # s => task \in Queued'
  <1>1. /\ queue \in Seq(Tasks) /\ Head(queue) = queue[1] /\ Len(queue) \in Nat
        /\ Len(Tail(queue)) = Len(queue) - 1
        /\ \A i \in 1..Len(Tail(queue)) : Tail(queue)[i] = queue[i + 1]
    BY DEF Runs, LInv, TypeOK
  <1>2. ASSUME NEW i \in 1..Len(queue), queue[i].start # s
        PROVE  queue[i] \in Queued'
    <2>1. i # 1
      BY <1>1, <1>2 DEF Runs
    <2>2. i - 1 \in 1..Len(Tail(queue)) /\ (i - 1) + 1 = i
      BY <1>1, <2>1
    <2> QED BY <1>1, <2>2 DEF Queued
  <1> QED BY <1>2 DEF Queued

\* ... when another one takes its place ...
LEMMA SuccessorQueued ==
    ASSUME LInv, NEW kind, NEW s \in Starts, Runs(kind, s), NEW task, execute(task)
    PROVE  /\ task \in Queued'
           /\ \A t \in Queued : t.start # s => t \in Queued'
  <1>1. /\ queue \in Seq(Tasks) /\ Head(queue) = queue[1] /\ Len(queue) \in Nat
        /\ Tail(queue) \in Seq(Tasks)
        /\ Len(Tail(queue)) = Len(queue) - 1
        /\ \A i \in 1..Len(Tail(queue)) : Tail(queue)[i] = queue[i + 1]
    BY DEF Runs, LInv, TypeOK
  <1>2. /\ Len(queue') = Len(Tail(queue)) + 1
        /\ queue'[Len(Tail(queue)) + 1] = task
        /\ \A i \in 1..Len(Tail(queue)) : queue'[i] = Tail(queue)[i]
    BY <1>1 DEF execute
  <1>3. task \in Queued'
    <2>1. Len(Tail(queue)) + 1 \in 1..Len(queue')
      BY <1>1, <1>2
    <2> QED BY <1>2, <2>1 DEF Queued
  <1>4. ASSUME NEW i \in 1..Len(queue), queue[i].start # s
        PROVE  queue[i] \in Queued'
    <2>1. i # 1
      BY <1>1, <1>4 DEF Runs
    <2>2. i - 1 \in 1..Len(Tail(queue)) /\ i - 1 \in 1..Len(queue') /\ (i - 1) + 1 = i
      BY <1>1, <1>2, <2>1
    <2> QED BY <1>1, <1>2, <2>2 DEF Queued
  <1> QED BY <1>3, <1>4 DEF Queued

\* ... and when an answer adds one.
LEMMA AnswerQueued ==
    ASSUME LInv, NEW task, queue' = Append(queue, task)
    PROVE  task \in Queued' /\ Queued \subseteq Queued'
  <1>1. /\ queue \in Seq(Tasks) /\ Len(queue) \in Nat
        /\ Len(queue') = Len(queue) + 1 /\ queue'[Len(queue) + 1] = task
        /\ \A i \in 1..Len(queue) : queue'[i] = queue[i]
    BY DEF LInv, TypeOK
  <1>2. Len(queue) + 1 \in 1..Len(queue') /\ 1..Len(queue) \subseteq 1..Len(queue')
    BY <1>1
  <1> QED BY <1>1, <1>2 DEF Queued

\* A step of another call does not touch a call.
LEMMA OtherRemembered ==
    ASSUME NEW s \in Starts, Remembered(s),
           pc'[s] = pc[s], \A k \in Kinds : req'[k][s] = req[k][s],
           responses'[s] = responses[s], updates'[s] = updates[s],
           \A task \in Queued : task.start = s => task \in Queued'
    PROVE  Remembered(s)'
  <1>1. InHand(s) => InHand(s)'
    BY DEF InHand, InStart, Waiting
  <1>2. Dropped(s) => Dropped(s)'
    BY DEF Dropped, Kinds
  <1>3. ListInHand(s) => ListInHand(s)'
    BY DEF ListInHand
  <1> QED BY <1>1, <1>2, <1>3 DEF Remembered

\* start() goes on until the first request is out.
LEMMA StartRemembered ==
    ASSUME LInv, NEW s \in Starts, Remembered(s), pc[s] # "returned",
           UNCHANGED <<responses, updates>>, InStart(s)' \/ Waiting("token", s)'
    PROVE  Remembered(s)'
  <1>1. responses'[s] = <<>>
    BY DEF LInv, WaitingUnanswered, Unanswered
  <1>2. InHand(s)'
    BY DEF InHand, Kinds
  <1> QED BY <1>1, <1>2 DEF Remembered

\* A step of start() keeps the calls in hand.
LEMMA StartNeverForgotten ==
    ASSUME LInv, NeverForgotten, ~crashed, NEW s \in Starts,
           NEW to \in Stages, pc' = [pc EXCEPT ![s] = to], pc[s] # "returned",
           \A k \in Kinds, other \in Starts \ {s} : req'[k][other] = req[k][other],
           UNCHANGED taskVars, InStart(s)' \/ Waiting("token", s)'
    PROVE  NeverForgotten'
  <1>1. /\ UNCHANGED <<responses, updates>> /\ Queued' = Queued
        /\ \A other \in Starts \ {s} : pc'[other] = pc[other]
    BY DEF taskVars, Queued, LInv, TypeOK
  <1>2. ASSUME NEW other \in Starts PROVE Remembered(other)'
    <2>1. Remembered(other)
      BY DEF NeverForgotten
    <2>2. CASE other = s
      BY <1>1, <2>1, <2>2, StartRemembered
    <2>3. CASE other # s
      BY <1>1, <2>1, <2>3, OtherRemembered
    <2> QED BY <2>2, <2>3
  <1> QED BY <1>2 DEF NeverForgotten

LEMMA AnswerNeverForgotten ==
    ASSUME LInv, NeverForgotten, NEW k \in Kinds, NEW s \in Starts, NEW resp,
           Answer(k, s, resp)
    PROVE  NeverForgotten'
  <1> DEFINE task == [kind |-> k, start |-> s, resp |-> resp]
  <1>1. /\ ~crashed /\ Waiting(k, s) /\ queue' = Append(queue, task)
        /\ UNCHANGED startVars /\ UNCHANGED <<responses, updates>>
        /\ req' = [req EXCEPT ![k][s].reply = resp]
    BY DEF Answer, cb_with
  <1>2. /\ pc' = pc
        /\ \A j \in Kinds, other \in Starts \ {s} : req'[j][other] = req[j][other]
    BY <1>1 DEF startVars, LInv, TypeOK, Kinds
  <1>3. task \in Queued' /\ Queued \subseteq Queued'
    <2> HIDE DEF task
    <2> QED BY <1>1, AnswerQueued
  <1>4. responses'[s] = <<>>
    BY <1>1 DEF LInv, WaitingUnanswered, Unanswered, Kinds
  <1>5. InHand(s)'
    BY <1>3 DEF InHand
  <1>6. ASSUME NEW other \in Starts PROVE Remembered(other)'
    <2>1. CASE other = s
      BY <1>4, <1>5, <2>1 DEF Remembered
    <2>2. CASE other # s
      <3>1. Remembered(other)
        BY <1>1 DEF NeverForgotten
      <3> HIDE DEF task
      <3> QED BY <1>1, <1>2, <1>3, <2>2, <3>1, OtherRemembered
    <2> QED BY <2>1, <2>2
  <1> QED BY <1>6 DEF NeverForgotten

\* What a task may leave its call with: an answer or a drop, a list that is shown or
\* to be shown, a request or a next task.
LEMMA TaskNeverForgotten ==
    ASSUME NeverForgotten, ~crashed, NEW s \in Starts, UNCHANGED startVars,
           \A task \in Queued : task.start # s => task \in Queued',
           \A other \in Starts \ {s} :
              /\ responses'[other] = responses[other] /\ updates'[other] = updates[other]
              /\ \A k \in Kinds : req'[k][other] = req[k][other],
           Remembered(s)'
    PROVE  NeverForgotten'
  <1>1. pc' = pc
    BY DEF startVars
  <1>2. ASSUME NEW other \in Starts \ {s} PROVE Remembered(other)'
    <2>1. Remembered(other)
      BY DEF NeverForgotten
    <2> QED BY <1>1, <2>1, OtherRemembered
  <1> QED BY <1>2 DEF NeverForgotten

\* An error answers the call for good.
LEMMA FailureNeverForgotten ==
    ASSUME LInv, NeverForgotten, ~crashed, NEW kind \in {"token", "txs"}, NEW s \in Starts,
           Runs(kind, s), queue' = Tail(queue), UNCHANGED startVars,
           UNCHANGED <<req, updates>>,
           NEW error \in {"", "parse error"}, respond(s, error, Nothing)
    PROVE  NeverForgotten'
  <1>1. Unanswered(s)
    BY NoAnswerYet
  <1>2. Nothing \in Urls \cup {Nothing}
    OBVIOUS
  <1>3. /\ responses' \in [Starts -> Seq(Responses)]
        /\ Len(responses'[s]) = 1
        /\ responses'[s][1] = [error |-> error, result |-> Nothing]
        /\ \A other \in Starts \ {s} : responses'[other] = responses[other]
    BY <1>1, <1>2, RespondFacts
  <1>4. responses'[s] # <<>>
    BY <1>3, LengthOne
  <1>5. responses'[s][1].result = Nothing
    <2>1. [error |-> error, result |-> Nothing].result = Nothing
      OBVIOUS
    <2> QED BY <1>3, <2>1
  <1>6. Remembered(s)'
    BY <1>4, <1>5 DEF Remembered
  <1> QED BY <1>3, <1>6, OthersStay, TaskNeverForgotten

LEMMA TokenReceivedNeverForgotten ==
    ASSUME LInv, NeverForgotten, NEW s \in Starts, TokenReceived(s)
    PROVE  NeverForgotten'
  <1> DEFINE task == [kind |-> "inject", start |-> s, token |-> Head(queue).resp.value]
  <1>1. /\ Runs("token", s) /\ execute(task) /\ ~crashed
        /\ UNCHANGED startVars /\ UNCHANGED <<req, responses, updates>>
    BY DEF TokenReceived, Runs
  <1>2. /\ task \in Queued'
        /\ \A t \in Queued : t.start # s => t \in Queued'
    <2> HIDE DEF task
    <2> QED BY <1>1, SuccessorQueued
  <1>3. responses'[s] = <<>>
    BY <1>1, NoAnswerYet DEF Unanswered
  <1>4. Remembered(s)'
    BY <1>2, <1>3 DEF Remembered, InHand
  <1> HIDE DEF task
  <1> QED BY <1>1, <1>2, <1>4, TaskNeverForgotten

LEMMA tx_taskNeverForgotten ==
    ASSUME LInv, NeverForgotten, NEW s \in Starts, tx_task(s)
    PROVE  NeverForgotten'
  <1> DEFINE request == [url |-> url[s], header |-> Head(queue).token, reply |-> Nothing]
  <1>1. /\ Runs("inject", s) /\ queue' = Tail(queue) /\ ~crashed
        /\ req' = [req EXCEPT !["txs"][s] = request]
        /\ UNCHANGED startVars /\ UNCHANGED <<responses, updates>>
    BY DEF tx_task, Http_get, CapturedUrl, Runs
  <1>2. /\ req'["txs"][s] = request
        /\ \A k \in Kinds, other \in Starts \ {s} : req'[k][other] = req[k][other]
    BY <1>1 DEF LInv, TypeOK, Kinds
  <1>3. request # Nothing /\ request.reply = Nothing
    <2>1. Head(queue).token \in Tokens /\ pc[s] = "returned"
      BY <1>1, RunsFacts, TaskFacts
    <2>2. request \in Requests
      BY <2>1 DEF Requests, LInv, UrlsBuilt
    <2> QED BY <2>2, NothingAssumption
  <1>4. responses'[s] = <<>>
    BY <1>1, NoAnswerYet DEF Unanswered
  <1>5. Waiting("txs", s)'
    BY <1>2, <1>3 DEF Waiting
  <1>6. Remembered(s)'
    BY <1>4, <1>5 DEF Remembered, InHand, Kinds
  <1> HIDE DEF request
  <1> QED BY <1>1, <1>2, <1>6, OthersStay, TaskNeverForgotten

LEMMA TxsFailureNeverForgotten ==
    ASSUME LInv, NeverForgotten, NEW s \in Starts, TxsFailure(s)
    PROVE  NeverForgotten'
  <1>1. /\ Runs("txs", s) /\ queue' = Tail(queue) /\ ~crashed
        /\ UNCHANGED startVars /\ UNCHANGED <<req, updates>>
        /\ ErrorOf(Head(queue).resp) \in {"", "parse error"}
        /\ respond(s, ErrorOf(Head(queue).resp), Nothing) \/ crashed' = TRUE
    BY DEF TxsFailure, respondByReference, ErrorOf, Runs
  <1>2. CASE respond(s, ErrorOf(Head(queue).resp), Nothing)
    BY <1>1, <1>2, FailureNeverForgotten
  <1>3. CASE crashed' = TRUE
    BY <1>3 DEF NeverForgotten
  <1> QED BY <1>1, <1>2, <1>3

LEMMA TxsNotObjectNeverForgotten ==
    ASSUME LInv, DataInv, NeverForgotten, NEW s \in Starts, TxsNotObject(s)
    PROVE  NeverForgotten'
  <1>1. /\ Runs("txs", s) /\ queue' = Tail(queue) /\ ~crashed
        /\ Head(queue).resp.json = "other"
        /\ UNCHANGED startVars /\ UNCHANGED <<req, responses, updates>>
    BY DEF TxsNotObject, Runs
  <1>2. /\ Head(queue).kind = "txs" /\ Head(queue).start = s
        /\ TaskInOrder(Head(queue)) /\ TaskOwn(Head(queue))
    BY <1>1, QueueEnds, RunsFacts DEF DataInv, TasksOwn
  <1>3. Dropped(s)
    BY <1>1, <1>2 DEF TaskInOrder, TaskOwn, Waiting, ReplyOf, Kinds, Dropped
  <1>4. responses'[s] = <<>>
    BY <1>1, NoAnswerYet DEF Unanswered
  <1>5. Remembered(s)'
    BY <1>1, <1>3, <1>4 DEF Remembered, Dropped
  <1> QED BY <1>1, <1>5, OthersStay, TaskNeverForgotten

LEMMA TxsReceivedNeverForgotten ==
    ASSUME LInv, NeverForgotten, NEW s \in Starts, TxsReceived(s)
    PROVE  NeverForgotten'
  <1>1. PICK txs : txs = Head(queue).resp.value
    OBVIOUS
  <1> DEFINE task == [kind |-> "update", start |-> s,
                      update |-> [observer |-> m_observer[call[s].handle], txs |-> txs]]
  <1>2. /\ Runs("txs", s) /\ execute(task) /\ ~crashed
        /\ Head(queue).resp.json = "object" /\ respond(s, "", txs)
        /\ UNCHANGED startVars /\ UNCHANGED <<req, updates>>
    BY <1>1 DEF TxsReceived, Notify, respondByCopy, Runs
  <1>3. /\ task \in Queued'
        /\ \A t \in Queued : t.start # s => t \in Queued'
    <2> HIDE DEF task
    <2> QED BY <1>2, SuccessorQueued
  <1>4. Unanswered(s)
    BY <1>2, NoAnswerYet
  <1>5. txs \in Urls \cup {Nothing}
    <2>1. Head(queue).resp \in HttpResponses("txs")
      BY <1>2, RunsFacts, TaskFacts DEF Kinds
    <2> QED BY <1>1, <1>2, <2>1, ResponseFacts DEF Kinds
  <1>6. /\ responses' \in [Starts -> Seq(Responses)] /\ Len(responses'[s]) = 1
        /\ \A other \in Starts \ {s} : responses'[other] = responses[other]
    <2> HIDE DEF task
    <2> QED BY <1>2, <1>4, <1>5, RespondFacts
  <1>7. responses'[s] # <<>>
    BY <1>6, LengthOne
  <1>8. ListInHand(s)'
    BY <1>3 DEF ListInHand
  <1>9. Remembered(s)'
    BY <1>7, <1>8 DEF Remembered
  <1> HIDE DEF task
  <1> QED BY <1>2, <1>3, <1>6, <1>9, TaskNeverForgotten

LEMMA on_updateNeverForgotten ==
    ASSUME LInv, NeverForgotten, NEW s \in Starts, on_update(s)
    PROVE  NeverForgotten'
  <1>1. PICK update : update = Head(queue).update
    OBVIOUS
  <1>2. /\ Runs("update", s) /\ queue' = Tail(queue) /\ ~crashed
        /\ UNCHANGED startVars /\ UNCHANGED <<req, responses>>
        /\ updates' = [updates EXCEPT ![s] = Append(@, update)]
    BY <1>1 DEF on_update, Runs
  <1>3. update \in Updates /\ updates[s] = <<>> /\ Len(responses[s]) = 1
    <2>1. /\ Head(queue) \in Tasks
          /\ Head(queue).kind = "update" /\ Head(queue).start = s
          /\ TaskUnanswered(Head(queue))
      BY <1>2, RunsFacts
    <2>2. update \in Updates
      BY <1>1, <2>1, TaskFacts
    <2> QED BY <2>1, <2>2 DEF TaskUnanswered
  <1>4. responses'[s] # <<>>
    BY <1>2, <1>3, LengthOne DEF LInv, TypeOK
  <1>5. /\ updates'[s] # <<>>
        /\ \A other \in Starts \ {s} : updates'[other] = updates[other]
    <2>1. updates \in [Starts -> Seq(Updates)]
      BY DEF LInv, TypeOK
    <2>2. Append(updates[s], update) # <<>>
      <3>1. /\ Append(updates[s], update) \in Seq(Updates)
            /\ Len(Append(updates[s], update)) = 1
        BY <1>3, <2>1, AppendToEmpty
      <3> QED BY <3>1, LengthOne
    <2> QED BY <1>2, <2>1, <2>2
  <1>6. Remembered(s)'
    BY <1>4, <1>5 DEF Remembered
  <1> QED BY <1>2, <1>5, <1>6, OthersStay, TaskNeverForgotten

LEMMA NextNeverForgotten ==
    LInv /\ DataInv /\ NeverForgotten /\ [Next]_vars => NeverForgotten'
  <1> SUFFICES ASSUME LInv, DataInv, NeverForgotten, [Next]_vars PROVE NeverForgotten'
    OBVIOUS
  <1>1. CASE UNCHANGED vars
    BY <1>1 DEF vars, NeverForgotten, Remembered, Dropped, InHand, ListInHand, InStart,
                Waiting, Queued
  <1>2. ASSUME NEW s \in Starts, NEW t \in Threads, NEW c \in Calls, StartCall(t, s, c)
        PROVE  NeverForgotten'
    <2>1. /\ ~crashed /\ pc[s] = "idle" /\ pc' = [pc EXCEPT ![s] = "bound"]
          /\ UNCHANGED req /\ UNCHANGED taskVars
      BY <1>2 DEF StartCall, Step
    <2>2. InStart(s)'
      BY <2>1 DEF InStart, LInv, TypeOK
    <2> QED BY <2>1, <2>2, StartNeverForgotten DEF Stages
  <1>3. ASSUME NEW s \in Starts, SetTestnetMode(s) \/ get_transactions(s)
        PROVE  NeverForgotten'
    <2>1. PICK to \in {"network", "url"} : pc' = [pc EXCEPT ![s] = to]
      BY <1>3 DEF SetTestnetMode, get_transactions, Step
    <2>2. ~crashed /\ pc[s] # "returned" /\ UNCHANGED req /\ UNCHANGED taskVars
      BY <1>3 DEF SetTestnetMode, get_transactions, Step
    <2>3. InStart(s)'
      BY <2>1 DEF InStart, LInv, TypeOK
    <2> QED BY <2>1, <2>2, <2>3, StartNeverForgotten DEF Stages
  <1>4. ASSUME NEW s \in Starts, get_token(s)
        PROVE  NeverForgotten'
    <2> DEFINE request == [url |-> UrlFor(Nothing), header |-> Nothing, reply |-> Nothing]
    <2>1. /\ ~crashed /\ pc[s] = "url" /\ pc' = [pc EXCEPT ![s] = "returned"]
          /\ req' = [req EXCEPT !["token"][s] = request] /\ UNCHANGED taskVars
      BY <1>4 DEF get_token, Http_get, Step
    <2>2. /\ req'["token"][s] = request
          /\ \A k \in Kinds, other \in Starts \ {s} : req'[k][other] = req[k][other]
      BY <2>1 DEF LInv, TypeOK, Kinds
    <2>3. request # Nothing /\ request.reply = Nothing
      <3>1. request \in Requests
        BY DEF UrlFor, Requests, Urls, LInv, TypeOK
      <3> QED BY <3>1, NothingAssumption
    <2>4. Waiting("token", s)'
      BY <2>2, <2>3 DEF Waiting
    <2> HIDE DEF request
    <2> QED BY <2>1, <2>2, <2>4, StartNeverForgotten DEF Stages
  <1>5. ASSUME NEW s \in Starts, NEW k \in Kinds, NetworkStep(k, s)
        PROVE  NeverForgotten'
    BY <1>5, AnswerNeverForgotten DEF NetworkStep, on_network_error, on_success
  <1>6. ASSUME NEW s \in Starts, TokenFailure(s)
        PROVE  NeverForgotten'
    <2>1. /\ Runs("token", s) /\ queue' = Tail(queue) /\ ~crashed
          /\ UNCHANGED startVars /\ UNCHANGED <<req, updates>>
          /\ ErrorOf(Head(queue).resp) \in {"", "parse error"}
          /\ respond(s, ErrorOf(Head(queue).resp), Nothing)
      BY <1>6 DEF TokenFailure, respondByCopy, ErrorOf, Runs
    <2> QED BY <2>1, FailureNeverForgotten
  <1>7. ASSUME NEW s \in Starts, RunTask(s), ~TokenFailure(s)
        PROVE  NeverForgotten'
    BY <1>7, TokenReceivedNeverForgotten, tx_taskNeverForgotten, TxsFailureNeverForgotten,
       TxsNotObjectNeverForgotten, TxsReceivedNeverForgotten, on_updateNeverForgotten
    DEF RunTask
  <1> QED BY <1>1, <1>2, <1>3, <1>4, <1>5, <1>6, <1>7 DEF Next, StartStep

\* Whatever the number of calls and threads, no call is ever forgotten: until it is
\* answered and its list shown, something is under way that goes on with it, or its
\* answer was dropped for not being a JSON object (client.cpp 27-127,
\* transaction_list_vm.cpp 53-67).
THEOREM CallsNeverForgotten == Spec => []NeverForgotten
  <1>1. Init => NeverForgotten
    BY DEF Init, NeverForgotten, Remembered
  <1> QED BY <1>1, NextNeverForgotten, LInvHolds, DataInvHolds, PTL DEF Spec
=============================================================================
