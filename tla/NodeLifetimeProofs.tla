------------------------- MODULE NodeLifetimeProofs -------------------------
(***************************************************************************)
(* Proofs about NodeLifetime for any number of calls, handles and          *)
(* observers.  Its steps are steps of the core, of which LInv and DataInv  *)
(* say what a call is doing; LifeInv says what that keeps alive.           *)
(***************************************************************************)
EXTENDS NodeLifetime, LedgerClientProofs

LEMMA InitLifeInv == LifeInit => LifeInv
  <1> SUFFICES ASSUME LifeInit PROVE LifeInv
    OBVIOUS
  <1>1. LifeTypeOK
    BY InitLInv DEF LifeInit, LifeTypeOK, LInv
  <1>2. LatestKnown /\ ObserversFresh /\ CallbackPinned
    BY DEF LifeInit, Init, LatestKnown, ObserversFresh, CallbackPinned
  <1>3. UpdatePinned /\ DeletedUnheld
    BY DEF LifeInit, Init, UpdatePinned, DeletedUnheld
  <1>4. ObserversTracked
    BY DEF LifeInit, Init, ObserversTracked
  <1> QED BY <1>1, <1>2, <1>3, <1>4 DEF LifeInv

(***************************************************************************)
(* The latest call of a handle.                                            *)
(***************************************************************************)

\* Latest is where the last of the calls of a handle is in begun.
LEMMA LatestIsLast ==
    ASSUME LatestKnown, NEW s \in Starts, pc[s] # "idle"
    PROVE  /\ call[s].handle = call[Latest(call[s].handle)].handle
           /\ \E i \in 1..Len(begun) :
                IsLast(i, call[s].handle) /\ Latest(call[s].handle) = begun[i]
  <1> DEFINE last == CHOOSE i \in StartsOf(call[s].handle) : IsLast(i, call[s].handle)
  <1>1. \E i \in StartsOf(call[s].handle) : IsLast(i, call[s].handle)
    BY DEF LatestKnown, IsLast
  <1>2. last \in StartsOf(call[s].handle) /\ IsLast(last, call[s].handle)
    BY <1>1
  <1>3. Latest(call[s].handle) = begun[last]
    BY DEF Latest
  <1> QED BY <1>2, <1>3 DEF StartsOf

\* Where begun and the calls stay as they are, so does the latest call.
LEMMA LatestKept ==
    ASSUME UNCHANGED <<begun, call>>, NEW h
    PROVE  /\ Latest(h)' = Latest(h)
           /\ StartsOf(h)' = StartsOf(h)
           /\ \A i : IsLast(i, h)' = IsLast(i, h)
  <1>1. StartsOf(h)' = StartsOf(h)
    BY DEF StartsOf
  <1>2. \A i : IsLast(i, h)' = IsLast(i, h)
    BY <1>1 DEF IsLast
  <1> QED BY <1>1, <1>2 DEF Latest

\* Where there is one last call, that is the latest.
OnlyLast ==
    \A h, i : IsLast(i, h) /\ (\A j : IsLast(j, h) => j = i) => Latest(h) = begun[i]

LEMMA OnlyLastHolds == OnlyLast /\ OnlyLast'
  <1>1. OnlyLast
    <2> SUFFICES ASSUME NEW h, NEW i, IsLast(i, h), \A j : IsLast(j, h) => j = i
                 PROVE  Latest(h) = begun[i]
      BY DEF OnlyLast
    <2>1. i \in StartsOf(h)
      BY DEF IsLast
    <2>2. (CHOOSE j \in StartsOf(h) : IsLast(j, h)) = i
      BY <2>1
    <2> QED BY <2>2 DEF Latest
  <1> QED BY <1>1, PTL

\* A call of start() is the latest of its handle from now on, and leaves those of
\* the other handles.
LEMMA LatestNext ==
    ASSUME LInv, DataInv, LatestKnown, NEW s \in Starts, NEW c \in Calls,
           StartCall(Main, s, c)
    PROVE  /\ IsLast(Len(begun), c.handle)' /\ begun'[Len(begun')] = s
           /\ Latest(c.handle)' = s
           /\ \A i \in 1..Len(begun) : begun'[i] = begun[i]
           /\ Len(begun') = Len(begun) + 1
           /\ \A h : h # c.handle =>
                 \A i \in 1..Len(begun) : IsLast(i, h) =>
                    IsLast(i, h)' /\ Latest(h)' = Latest(h)
  <1>1. /\ begun' = Append(begun, s) /\ call' = [call EXCEPT ![s] = c] /\ pc[s] = "idle"
        /\ begun \in Seq(Starts) /\ call \in [Starts -> Calls \cup {Nothing}]
    BY DEF StartCall, Step, LInv, TypeOK
  <1>2. /\ Len(begun) \in Nat /\ Len(begun') = Len(begun) + 1
        /\ \A i \in 1..Len(begun) : begun'[i] = begun[i]
        /\ begun'[Len(begun')] = s
    BY <1>1
  <1>3. \A i \in 1..Len(begun) : begun[i] \in Starts /\ begun[i] # s
    BY <1>1 DEF DataInv, ObserversCurrent
  <1>4. /\ call'[s] = c
        /\ \A i \in 1..Len(begun) : call'[begun'[i]] = call[begun[i]]
    BY <1>1, <1>2, <1>3
  <1>5. Len(begun') \in StartsOf(c.handle)'
    BY <1>2, <1>4 DEF StartsOf
  <1>6. IsLast(Len(begun), c.handle)'
    <2>1. \A j \in StartsOf(c.handle)' : j \in 1..Len(begun')
      BY DEF StartsOf
    <2>2. \A j \in StartsOf(c.handle)' : j <= Len(begun')
      BY <1>2, <2>1
    <2> QED BY <1>5, <2>2 DEF IsLast
  <1>7. Latest(c.handle)' = s
    <2>1. \A i : IsLast(i, c.handle)' => i = Len(begun')
      BY <1>2, <1>5 DEF IsLast, StartsOf
    <2>2. Latest(c.handle)' = begun'[Len(begun')]
      BY <1>6, <2>1, OnlyLastHolds DEF OnlyLast
    <2> QED BY <1>2, <2>2
  <1>8. ASSUME NEW h, h # c.handle
        PROVE  \A i \in 1..Len(begun) : IsLast(i, h) =>
                  IsLast(i, h)' /\ Latest(h)' = Latest(h)
    <2>1. StartsOf(h)' = StartsOf(h)
      BY <1>2, <1>4, <1>8 DEF StartsOf
    <2>2. \A i : IsLast(i, h)' = IsLast(i, h)
      BY <2>1 DEF IsLast
    <2>3. ASSUME NEW i \in 1..Len(begun), IsLast(i, h)
          PROVE  Latest(h)' = Latest(h)
      <3>1. \A j : IsLast(j, h) => j = i
        <4>1. \A j : j \in StartsOf(h) => j \in Nat
          BY <1>2 DEF StartsOf
        <4> QED BY <2>3, <4>1 DEF IsLast
      <3>2. Latest(h) = begun[i] /\ Latest(h)' = begun'[i]
        BY <2>2, <2>3, <3>1, OnlyLastHolds DEF OnlyLast
      <3> QED BY <1>2, <3>2
    <2> QED BY <2>2, <2>3
  <1> QED BY <1>2, <1>6, <1>7, <1>8

(***************************************************************************)
(* What a step of the core changes for the binding.                        *)
(***************************************************************************)

\* Only start() starts a call, and only get_token returns from it, when its
\* request is on its way.
LEMMA StartedStays ==
    ASSUME LInv, [Next]_vars, NEW s \in Starts, pc[s] # "idle"
    PROVE  /\ call'[s] = call[s] /\ pc'[s] # "idle"
           /\ pc[s] = "returned" => pc'[s] = "returned"
  <1>1. CASE UNCHANGED vars
    BY <1>1 DEF vars
  <1>2. ASSUME NEW other \in Starts, NEW t \in Threads, NEW c \in Calls,
               StartCall(t, other, c)
        PROVE  call'[s] = call[s] /\ pc'[s] = pc[s]
    BY <1>2 DEF StartCall, Step, LInv, TypeOK
  <1>3. ASSUME NEW other \in Starts, StartStep(other)
        PROVE  /\ call'[s] = call[s] /\ pc'[s] # "idle"
               /\ pc[s] = "returned" => pc'[s] = "returned"
    BY <1>3 DEF StartStep, SetTestnetMode, get_transactions, get_token, Step, LInv, TypeOK
  <1>4. ASSUME NEW other \in Starts, RunTask(other) \/ \E k \in Kinds : NetworkStep(k, other)
        PROVE  call'[s] = call[s] /\ pc'[s] = pc[s]
    BY <1>4 DEF RunTask, TokenFailure, TokenReceived, tx_task, TxsFailure, TxsNotObject,
       TxsReceived, on_update, NetworkStep, on_network_error, on_success, Answer, startVars
  <1> QED BY <1>1, <1>2, <1>3, <1>4 DEF Next

\* A call that returns waits for its first request.
LEMMA ReturnsWaiting ==
    ASSUME LInv, [Next]_vars, NEW s \in Starts, pc[s] # "returned", pc'[s] = "returned"
    PROVE  Waiting("token", s)'
  <1>1. CASE UNCHANGED vars
    BY <1>1 DEF vars
  <1>2. ASSUME NEW other \in Starts, NEW t \in Threads, NEW c \in Calls,
               StartCall(t, other, c)
        PROVE  FALSE
    BY <1>2 DEF StartCall, Step, LInv, TypeOK
  <1>3. ASSUME NEW other \in Starts, SetTestnetMode(other) \/ get_transactions(other)
        PROVE  FALSE
    BY <1>3 DEF SetTestnetMode, get_transactions, Step, LInv, TypeOK
  <1>4. ASSUME NEW other \in Starts, get_token(other)
        PROVE  Waiting("token", s)'
    <2>1. other = s
      BY <1>4 DEF get_token, Step, LInv, TypeOK
    <2> DEFINE request == [url |-> UrlFor(Nothing), header |-> Nothing, reply |-> Nothing]
    <2>2. req' = [req EXCEPT !["token"][s] = request]
      BY <1>4, <2>1 DEF get_token, Http_get
    <2>3. request \in Requests
      BY DEF Requests, UrlFor, Urls, LInv, TypeOK
    <2>4. request.reply = Nothing
      OBVIOUS
    <2> HIDE DEF request
    <2>5. req'["token"][s] = request
      BY <2>2 DEF LInv, TypeOK, Kinds
    <2> QED BY <2>3, <2>4, <2>5, NothingAssumption DEF Waiting
  <1>5. ASSUME NEW other \in Starts, RunTask(other) \/ \E k \in Kinds : NetworkStep(k, other)
        PROVE  FALSE
    BY <1>5 DEF RunTask, TokenFailure, TokenReceived, tx_task, TxsFailure, TxsNotObject,
       TxsReceived, on_update, NetworkStep, on_network_error, on_success, Answer, startVars
  <1> QED BY <1>1, <1>2, <1>3, <1>4, <1>5 DEF Next, StartStep

\* Does the call have its list?
Listed(s) == responses[s] # <<>> /\ responses[s][1].result # Nothing

\* A refusal has no list.
LEMMA RefusalFacts ==
    ASSUME LInv, NEW s \in Starts, Unanswered(s),
           NEW error \in {"", "parse error"}, respond(s, error, Nothing)
    PROVE  /\ responses'[s][1].result = Nothing
           /\ \A other \in Starts \ {s} : responses'[other] = responses[other]
  <1>1. Nothing \in Urls \cup {Nothing}
    OBVIOUS
  <1>2. /\ responses'[s][1] = [error |-> error, result |-> Nothing]
        /\ \A other \in Starts \ {s} : responses'[other] = responses[other]
    BY <1>1, RespondFacts
  <1>3. [error |-> error, result |-> Nothing].result = Nothing
    OBVIOUS
  <1> QED BY <1>2, <1>3

\* A list is given to a call that has returned, with the update task.
LEMMA ListQueuesUpdate ==
    ASSUME LInv, [Next]_vars, NEW s \in Starts, ~Listed(s), Listed(s)'
    PROVE  /\ pc[s] = "returned"
           /\ \E i \in 1..Len(queue') : queue'[i].kind = "update" /\ queue'[i].start = s
  <1>1. CASE UNCHANGED responses
    BY <1>1 DEF Listed
  <1>2. ASSUME NEW other \in Starts, TokenFailure(other) \/ TxsFailure(other),
               ~UNCHANGED responses
        PROVE  FALSE
    <2>1. /\ \E kind \in {"token", "txs"} : Runs(kind, other)
          /\ respond(other, ErrorOf(Head(queue).resp), Nothing)
      BY <1>2 DEF TokenFailure, TxsFailure, respondByCopy, respondByReference
    <2>2. Unanswered(other)
      BY <2>1, NoAnswerYet
    <2>3. ErrorOf(Head(queue).resp) \in {"", "parse error"}
      BY DEF ErrorOf
    <2>4. /\ responses'[other][1].result = Nothing
          /\ \A another \in Starts \ {other} : responses'[another] = responses[another]
      BY <2>1, <2>2, <2>3, RefusalFacts
    <2> QED BY <2>4 DEF Listed
  <1>3. ASSUME NEW other \in Starts, TxsReceived(other)
        PROVE  /\ pc[s] = "returned"
               /\ \E i \in 1..Len(queue') : queue'[i].kind = "update" /\ queue'[i].start = s
    <2>1. Runs("txs", other) /\ respond(other, "", Head(queue).resp.value)
      BY <1>3 DEF TxsReceived, respondByCopy
    <2>2. pc[other] = "returned"
      BY <2>1, NoAnswerYet
    <2>3. other = s
      <3>1. other # s => responses'[s] = responses[s]
        BY <2>1 DEF respond, LInv, TypeOK
      <3> QED BY <3>1 DEF Listed
    <2> DEFINE task == [kind |-> "update", start |-> s,
                        update |-> [observer |-> m_observer[call[s].handle],
                                    txs |-> Head(queue).resp.value]]
    <2>4. queue' = Append(Tail(queue), task)
      BY <1>3, <2>3 DEF TxsReceived, Notify, execute
    <2>5. task.kind = "update" /\ task.start = s
      OBVIOUS
    <2> HIDE DEF task
    <2>6. queue # <<>> /\ queue \in Seq(Tasks)
      BY <2>1 DEF Runs, LInv, TypeOK
    <2>7. Len(queue') \in 1..Len(queue') /\ queue'[Len(queue')] = task
      BY <2>4, <2>6
    <2> QED BY <2>2, <2>3, <2>5, <2>7
  <1>4. ASSUME NEW other \in Starts, ~TokenFailure(other), ~TxsFailure(other),
               ~TxsReceived(other), RunTask(other)
        PROVE  UNCHANGED responses
    BY <1>4 DEF RunTask, TokenReceived, tx_task, TxsNotObject, on_update
  <1>5. ASSUME NEW other \in Starts,
               \/ \E t \in Threads, c \in Calls : StartCall(t, other, c)
               \/ StartStep(other)
               \/ \E k \in Kinds : NetworkStep(k, other)
        PROVE  UNCHANGED responses
    BY <1>5 DEF StartCall, StartStep, SetTestnetMode, get_transactions, get_token,
       NetworkStep, on_network_error, on_success, Answer, taskVars
  <1>6. CASE UNCHANGED vars
    BY <1>1, <1>6 DEF vars
  <1>7. CASE Next
    <2>1. PICK other \in Starts :
             \/ \E t \in Threads, c \in Calls : StartCall(t, other, c)
             \/ StartStep(other)
             \/ \E k \in Kinds : NetworkStep(k, other)
             \/ RunTask(other)
      BY <1>7 DEF Next
    <2> QED BY <1>1, <1>2, <1>3, <1>4, <1>5, <2>1
  <1> QED BY <1>6, <1>7

(***************************************************************************)
(* One lemma per part of the invariant.                                    *)
(***************************************************************************)

\* Every step is one of the core.
LEMMA LifeNextIsNext == [LifeNext]_lifeVars => [Next]_vars
  <1>1. UNCHANGED lifeVars => UNCHANGED vars
    BY DEF lifeVars
  <1>2. LifeNext => Next
    BY ThreadAssumption DEF LifeNext, Next
  <1> QED BY <1>1, <1>2

\* Either a call of start() with a new observer, or the calls stay as they are.
LEMMA CallsOrNot ==
    ASSUME LInv, LifeNext
    PROVE  \/ \E s \in Starts, c \in Calls :
                 FreshObserver(c.observer) /\ StartCall(Main, s, c)
           \/ /\ UNCHANGED <<begun, call>>
              /\ \A s \in Starts : pc'[s] = "idle" <=> pc[s] = "idle"
  <1>1. ASSUME NEW s \in Starts, StartStep(s)
        PROVE  /\ UNCHANGED <<begun, call>>
               /\ \A other \in Starts : pc'[other] = "idle" <=> pc[other] = "idle"
    BY <1>1 DEF StartStep, SetTestnetMode, get_transactions, get_token, Step, LInv, TypeOK
  <1>2. ASSUME NEW s \in Starts, RunTask(s) \/ \E k \in Kinds : NetworkStep(k, s)
        PROVE  UNCHANGED <<begun, call, pc>>
    BY <1>2 DEF RunTask, TokenFailure, TokenReceived, tx_task, TxsFailure, TxsNotObject,
       TxsReceived, on_update, NetworkStep, on_network_error, on_success, Answer, startVars
  <1> QED BY <1>1, <1>2 DEF LifeNext

LEMMA LatestKnownNext ==
    ASSUME LInv, DataInv, LifeInv, LifeNext
    PROVE  LatestKnown'
  <1>1. LatestKnown
    BY DEF LifeInv
  <1>2. ASSUME NEW s \in Starts, NEW c \in Calls, StartCall(Main, s, c)
        PROVE  LatestKnown'
    <2>1. /\ pc' = [pc EXCEPT ![s] = "bound"] /\ call' = [call EXCEPT ![s] = c]
          /\ pc \in [Starts -> Stages] /\ call \in [Starts -> Calls \cup {Nothing}]
          /\ Len(begun) \in Nat
      BY <1>2 DEF StartCall, Step, LInv, TypeOK
    <2>2. /\ IsLast(Len(begun), c.handle)' /\ begun'[Len(begun')] = s
          /\ \A i \in 1..Len(begun) : begun'[i] = begun[i]
          /\ Len(begun') = Len(begun) + 1
          /\ \A h : h # c.handle =>
                \A i \in 1..Len(begun) : IsLast(i, h) => IsLast(i, h)'
      BY <1>1, <1>2, LatestNext
    <2>3. \A i \in 1..Len(begun) : i \in 1..Len(begun')
      BY <2>1, <2>2
    <2>4. Len(begun') \in 1..Len(begun')
      BY <2>1, <2>2
    <2>5. \E i \in 1..Len(begun') : IsLast(i, c.handle)'
      BY <2>2, <2>4 DEF IsLast
    <2>6. ASSUME NEW other \in Starts, pc'[other] # "idle"
          PROVE  /\ \E i \in 1..Len(begun') : begun'[i] = other
                 /\ \E i \in 1..Len(begun') : IsLast(i, call[other].handle)'
      <3>1. CASE other = s
        BY <2>1, <2>2, <2>4, <2>5, <3>1
      <3>2. CASE other # s
        <4>1. pc[other] # "idle" /\ call'[other] = call[other]
          BY <2>1, <2>6, <3>2
        <4>2. \E i \in 1..Len(begun) : begun[i] = other
          BY <1>1, <4>1 DEF LatestKnown
        <4>3. \E i \in 1..Len(begun) : IsLast(i, call[other].handle)
          BY <1>1, <4>1 DEF LatestKnown
        <4>4. CASE call[other].handle = c.handle
          BY <2>2, <2>3, <2>5, <4>1, <4>2, <4>4
        <4>5. CASE call[other].handle # c.handle
          BY <2>2, <2>3, <4>1, <4>2, <4>3, <4>5
        <4> QED BY <4>4, <4>5
      <3> QED BY <3>1, <3>2
    <2> QED BY <2>6 DEF LatestKnown
  <1>3. ASSUME UNCHANGED <<begun, call>>,
               \A s \in Starts : pc'[s] = "idle" <=> pc[s] = "idle"
        PROVE  LatestKnown'
    <2>1. \A h, i : IsLast(i, h)' = IsLast(i, h)
      BY <1>3, LatestKept
    <2> QED BY <1>1, <1>3, <2>1 DEF LatestKnown
  <1> QED BY <1>2, <1>3, CallsOrNot

LEMMA ObserversFreshNext ==
    ASSUME LInv, LifeInv, LifeNext
    PROVE  ObserversFresh'
  <1>1. ObserversFresh
    BY DEF LifeInv
  <1>2. ASSUME NEW s \in Starts, NEW c \in Calls,
               FreshObserver(c.observer), StartCall(Main, s, c)
        PROVE  ObserversFresh'
    <2>1. /\ pc' = [pc EXCEPT ![s] = "bound"] /\ call' = [call EXCEPT ![s] = c]
          /\ pc \in [Starts -> Stages] /\ call \in [Starts -> Calls \cup {Nothing}]
      BY <1>2 DEF StartCall, Step, LInv, TypeOK
    <2>2. ASSUME NEW other \in Starts \ {s}, pc'[other] # "idle"
          PROVE  /\ pc[other] # "idle" /\ call'[other] = call[other]
                 /\ call[other].observer # c.observer
      <3>1. pc[other] # "idle" /\ call'[other] = call[other]
        BY <2>1, <2>2
      <3>2. call[other] # Nothing
        BY <3>1, NothingAssumption DEF LInv, CallsBound
      <3> QED BY <1>2, <3>1, <3>2 DEF FreshObserver
    <2>3. call'[s] = c
      BY <2>1
    <2> QED BY <1>1, <2>2, <2>3 DEF ObserversFresh
  <1>3. ASSUME UNCHANGED <<begun, call>>,
               \A s \in Starts : pc'[s] = "idle" <=> pc[s] = "idle"
        PROVE  ObserversFresh'
    BY <1>1, <1>3 DEF ObserversFresh
  <1> QED BY <1>2, <1>3, CallsOrNot

LEMMA CallbackPinnedNext ==
    ASSUME LInv, LifeInv, LifeNext
    PROVE  CallbackPinned'
  <1> SUFFICES ASSUME NEW s \in Starts, pc'[s] = "returned"
               PROVE  [wrapper |-> "HttpCallback", kind |-> "token", start |-> s] \in wrappers'
    BY DEF CallbackPinned
  <1> DEFINE closure == [wrapper |-> "HttpCallback", kind |-> "token", start |-> s]
  <1>1. wrappers' = wrappers \cup CallbacksInUse' \cup RunnablesInUse'
    BY DEF LifeNext, Pin
  <1>2. CASE pc[s] = "returned"
    BY <1>1, <1>2 DEF LifeInv, CallbackPinned
  <1>3. CASE pc[s] # "returned"
    <2>1. Waiting("token", s)'
      BY <1>3, LifeNextIsNext, ReturnsWaiting
    <2>2. /\ closure \in Closures /\ closure.wrapper = "HttpCallback"
          /\ closure.kind = "token" /\ closure.start = s
      BY DEF Closures
    <2> HIDE DEF closure
    <2>3. closure \in CallbacksInUse'
      BY <2>1, <2>2 DEF CallbacksInUse, Kinds
    <2> QED BY <1>1, <2>3 DEF closure
  <1> QED BY <1>2, <1>3

LEMMA UpdatePinnedNext ==
    ASSUME LInv, LInv', DataInv', LifeInv, LifeNext
    PROVE  UpdatePinned'
  <1>1. /\ wrappers' = wrappers \cup CallbacksInUse' \cup RunnablesInUse'
        /\ captured' = [s \in Starts |->
             IF captured[s] = Nothing /\ responses'[s] # <<>>
                   /\ responses'[s][1].result # Nothing
             THEN Latest(call[s].handle) ELSE captured[s]]
    BY DEF LifeNext, Pin, CaptureObserver
  <1>2. ASSUME NEW s \in Starts, captured[s] # Nothing
        PROVE  captured'[s] # Nothing
    BY <1>1, <1>2
  <1>3. ASSUME NEW s \in Starts, captured[s] = Nothing, Listed(s)'
        PROVE  /\ captured'[s] # Nothing
               /\ [wrapper |-> "Runnable", kind |-> "update", start |-> s] \in wrappers'
    <2> DEFINE closure == [wrapper |-> "Runnable", kind |-> "update", start |-> s]
    <2>1. ~Listed(s)
      BY <1>3 DEF LifeInv, UpdatePinned, Listed
    <2>2. /\ pc[s] = "returned"
          /\ \E i \in 1..Len(queue') : queue'[i].kind = "update" /\ queue'[i].start = s
      BY <1>3, <2>1, LifeNextIsNext, ListQueuesUpdate
    <2>3. Latest(call[s].handle) \in Starts
      <3>1. \E i \in 1..Len(begun) : Latest(call[s].handle) = begun[i]
        BY <2>2, LatestIsLast DEF LifeInv
      <3> QED BY <3>1 DEF LInv, TypeOK
    <2>4. captured'[s] # Nothing
      BY <1>1, <1>3, <2>3, ProxyAssumption DEF Listed
    <2>5. /\ closure \in Closures /\ closure.wrapper = "Runnable"
          /\ closure.kind = "update" /\ closure.start = s
      BY DEF Closures
    <2> HIDE DEF closure
    <2>6. closure \in RunnablesInUse'
      BY <2>2, <2>5 DEF RunnablesInUse
    <2> QED BY <1>1, <2>4, <2>6 DEF closure
  <1>4. ASSUME NEW s \in Starts, captured'[s] # Nothing
        PROVE  [wrapper |-> "Runnable", kind |-> "update", start |-> s] \in wrappers'
    <2>1. captured[s] # Nothing \/ Listed(s)'
      BY <1>1, <1>4 DEF Listed
    <2> QED BY <1>1, <1>3, <2>1 DEF LifeInv, UpdatePinned
  <1> QED BY <1>2, <1>3, <1>4 DEF UpdatePinned, Listed

\* What holds an observer, once the wrappers of update tasks are there to stay.
LEMMA HeldFacts ==
    ASSUME LifeInv, NEW s \in Starts, pc[s] # "idle"
    PROVE  ObserverHeld(s) <=>
              \/ InStart(s)
              \/ Latest(call[s].handle) = s
              \/ \E other \in Starts : captured[other] = s
  <1>1. ASSUME NEW other \in Starts, captured[other] = s
        PROVE  Captures(other, {"update"})
    <2> DEFINE closure == [wrapper |-> "Runnable", kind |-> "update", start |-> other]
    <2>1. closure \in wrappers
      BY <1>1, ProxyAssumption DEF LifeInv, UpdatePinned
    <2>2. closure.start = other /\ closure.kind = "update"
      OBVIOUS
    <2> HIDE DEF closure
    <2> QED BY <2>1, <2>2 DEF Captures
  <1> QED BY <1>1 DEF ObserverHeld

\* An observer without a holder is never held again: its handle has another, and
\* no update task will capture it.
LEMMA UnheldStays ==
    ASSUME LInv, DataInv, LifeInv, LifeNext,
           NEW s \in Starts, pc[s] # "idle", ~ObserverHeld(s)
    PROVE  /\ pc'[s] # "idle" /\ call'[s] = call[s]
           /\ ~ObserverHeld(s)'
  <1>1. /\ ~InStart(s) /\ Latest(call[s].handle) # s
        /\ \A other \in Starts : captured[other] # s
    BY HeldFacts
  <1>2. pc[s] = "returned"
    BY <1>1 DEF InStart, LInv, TypeOK, Stages
  <1>3. /\ call'[s] = call[s] /\ pc'[s] = "returned"
    BY <1>2, LifeNextIsNext, StartedStays
  <1>4. Latest(call[s].handle)' # s
    <2>1. ASSUME NEW new \in Starts, NEW c \in Calls, StartCall(Main, new, c)
          PROVE  Latest(call[s].handle)' # s
      <3>1. LatestKnown
        BY DEF LifeInv
      <3>2. /\ Latest(c.handle)' = new
            /\ \A h : h # c.handle => \A i \in 1..Len(begun) : IsLast(i, h) =>
                  Latest(h)' = Latest(h)
        BY <2>1, <3>1, LatestNext
      <3>3. new # s
        BY <1>2, <2>1 DEF StartCall, Step
      <3>4. \E i \in 1..Len(begun) : IsLast(i, call[s].handle)
        BY <1>2, <3>1 DEF LatestKnown
      <3>5. CASE call[s].handle = c.handle
        BY <1>3, <3>2, <3>3, <3>5
      <3>6. CASE call[s].handle # c.handle
        BY <1>1, <1>3, <3>2, <3>4, <3>6
      <3> QED BY <3>5, <3>6
    <2>2. CASE UNCHANGED <<begun, call>>
      BY <1>1, <2>2, LatestKept
    <2> QED BY <2>1, <2>2, CallsOrNot
  <1>5. ASSUME NEW other \in Starts, captured'[other] = s
        PROVE  FALSE
    <2>1. /\ captured[other] = Nothing /\ Listed(other)'
          /\ Latest(call[other].handle) = s
      <3>1. captured' = [r \in Starts |->
               IF captured[r] = Nothing /\ responses'[r] # <<>>
                     /\ responses'[r][1].result # Nothing
               THEN Latest(call[r].handle) ELSE captured[r]]
        BY DEF LifeNext, CaptureObserver
      <3> QED BY <1>1, <1>5, <3>1 DEF Listed
    <2>2. ~Listed(other)
      BY <2>1 DEF LifeInv, UpdatePinned, Listed
    <2>3. pc[other] = "returned"
      BY <2>1, <2>2, LifeNextIsNext, ListQueuesUpdate
    <2>4. call[other].handle = call[s].handle
      BY <2>1, <2>3, LatestIsLast DEF LifeInv
    <2> QED BY <1>1, <2>1, <2>4
  <1>6. ~InStart(s)'
    BY <1>3 DEF InStart
  <1> QED BY <1>3, <1>4, <1>5, <1>6 DEF ObserverHeld

\* Of what a step leaves without a holder there are only observers.
ReleasedUnheld ==
    \A proxy \in Released : \E s \in Starts :
        pc[s] # "idle" /\ ~ObserverHeld(s) /\ call[s].observer = proxy

LEMMA OnlyObserversReleased ==
    LInv' /\ CallbackPinned' => ReleasedUnheld'
  <1>1. LInv /\ CallbackPinned => ReleasedUnheld
    <2> SUFFICES ASSUME LInv, CallbackPinned PROVE ReleasedUnheld
      OBVIOUS
    <2>1. ASSUME NEW s \in Starts, pc[s] # "idle"
          PROVE  ResponseHeld(s) /\ MainContextHeld(s) /\ BackContextHeld(s)
      <3> DEFINE closure == [wrapper |-> "HttpCallback", kind |-> "token", start |-> s]
      <3>1. closure.start = s /\ closure.kind = "token"
        OBVIOUS
      <3>2. pc[s] = "returned" => closure \in wrappers
        BY DEF CallbackPinned
      <3>3. pc[s] # "returned" => InStart(s)
        BY <2>1 DEF InStart, LInv, TypeOK, Stages
      <3> HIDE DEF closure
      <3> QED BY <3>1, <3>2, <3>3 DEF ResponseHeld, MainContextHeld, BackContextHeld, Captures
    <2> QED BY <2>1 DEF ReleasedUnheld, Released
  <1> QED BY <1>1, PTL

LEMMA DeletedUnheldNext ==
    ASSUME LInv, LInv', DataInv, LifeInv, LifeNext, CallbackPinned'
    PROVE  DeletedUnheld'
  <1> SUFFICES ASSUME NEW proxy \in deleted'
               PROVE  \E s \in Starts :
                         pc'[s] # "idle" /\ ~ObserverHeld(s)' /\ call'[s].observer = proxy
    BY DEF DeletedUnheld
  <1>1. CASE proxy \in deleted
    <2>1. PICK s \in Starts : pc[s] # "idle" /\ ~ObserverHeld(s) /\ call[s].observer = proxy
      BY <1>1 DEF LifeInv, DeletedUnheld
    <2>2. pc'[s] # "idle" /\ call'[s] = call[s] /\ ~ObserverHeld(s)'
      BY <2>1, UnheldStays
    <2> QED BY <2>1, <2>2
  <1>2. CASE proxy \in Released'
    BY <1>2, OnlyObserversReleased DEF ReleasedUnheld
  <1> QED BY <1>1, <1>2 DEF LifeNext

\* A list answers its call for the first time, and its task names the observer that
\* the handle has.
LEMMA TxsReceivedLists ==
    ASSUME LInv, NEW s \in Starts, TxsReceived(s)
    PROVE  /\ Listed(s)' /\ Unanswered(s) /\ pc[s] = "returned"
           /\ \A task \in Queued' : task.kind = "update" =>
                 \/ task \in Queued
                 \/ task.start = s /\ task.update.observer = m_observer[call[s].handle]
  <1>1. PICK txs : txs = Head(queue).resp.value
    OBVIOUS
  <1>2. PICK observer : observer = m_observer[call[s].handle]
    OBVIOUS
  <1> DEFINE task == [kind |-> "update", start |-> s,
                      update |-> [observer |-> observer, txs |-> txs]]
  <1>3. /\ Runs("txs", s) /\ execute(task)
        /\ Head(queue).resp.json = "object" /\ respond(s, "", txs)
    BY <1>1, <1>2 DEF TxsReceived, Notify, respondByCopy, Runs
  <1>4. Unanswered(s) /\ pc[s] = "returned"
    BY <1>3, NoAnswerYet
  <1>5. txs \in Urls
    <2>1. Head(queue).resp \in HttpResponses("txs")
      BY <1>3, RunsFacts, TaskFacts DEF Kinds
    <2> QED BY <1>1, <1>3, <2>1, ResponseFacts DEF Kinds
  <1>6. Listed(s)'
    <2>1. txs \in Urls \cup {Nothing} /\ txs # Nothing
      BY <1>5, NothingAssumption
    <2>2. /\ responses' \in [Starts -> Seq(Responses)]
          /\ Len(responses'[s]) = 1
          /\ responses'[s][1] = [error |-> "", result |-> txs]
          /\ \A other \in Starts \ {s} : responses'[other] = responses[other]
      <3> HIDE DEF task
      <3> QED BY <1>3, <1>4, <2>1, RespondFacts
    <2>3. responses'[s] # <<>>
      BY <2>2, LengthOne
    <2>4. [error |-> "", result |-> txs].result = txs
      OBVIOUS
    <2> QED BY <2>1, <2>2, <2>3, <2>4 DEF Listed
  <1>7. Queued' \subseteq {t \in Queued : t.start # s} \cup {task}
    <2> HIDE DEF task
    <2> QED BY <1>3, QueueContinues
  <1>8. task.start = s /\ task.update.observer = m_observer[call[s].handle]
    BY <1>2
  <1> HIDE DEF task
  <1> QED BY <1>4, <1>6, <1>7, <1>8

\* No other step makes an update task.
LEMMA NoUpdateMade ==
    ASSUME LInv, NEW s \in Starts,
           \/ StartStep(s)
           \/ \E k \in Kinds : NetworkStep(k, s)
           \/ RunTask(s) /\ ~TxsReceived(s)
    PROVE  \A task \in Queued' : task.kind = "update" => task \in Queued
  <1>1. CASE StartStep(s)
    <2>1. UNCHANGED queue
      BY <1>1 DEF StartStep, SetTestnetMode, get_transactions, get_token, taskVars
    <2> QED BY <2>1 DEF Queued
  <1>2. CASE \E k \in Kinds : NetworkStep(k, s)
    <2>1. PICK k \in Kinds : NetworkStep(k, s)
      BY <1>2
    <2>2. PICK resp : Answer(k, s, resp)
      BY <2>1 DEF NetworkStep, on_network_error, on_success
    <2> DEFINE task == [kind |-> k, start |-> s, resp |-> resp]
    <2>3. queue' = Append(queue, task)
      BY <2>2 DEF Answer, cb_with
    <2>4. task.kind # "update"
      BY DEF Kinds
    <2> HIDE DEF task
    <2> QED BY <2>3, <2>4, QueueGrows
  <1>3. CASE TokenReceived(s)
    <2> DEFINE task == [kind |-> "inject", start |-> s, token |-> Head(queue).resp.value]
    <2>1. Runs("token", s) /\ execute(task)
      BY <1>3 DEF TokenReceived
    <2>2. task.kind # "update"
      OBVIOUS
    <2> HIDE DEF task
    <2> QED BY <2>1, <2>2, QueueContinues
  <1>4. CASE TokenFailure(s) \/ tx_task(s) \/ TxsFailure(s) \/ TxsNotObject(s)
                \/ on_update(s)
    <2>1. (\E kind : Runs(kind, s)) /\ queue' = Tail(queue)
      BY <1>4 DEF TokenFailure, tx_task, TxsFailure, TxsNotObject, on_update
    <2> QED BY <2>1, QueueEnds
  <1> QED BY <1>1, <1>2, <1>3, <1>4 DEF RunTask

\* An answer is for good.
LEMMA AnswersStay ==
    ASSUME LInv, [Next]_vars, NEW s \in Starts, responses[s] # <<>>
    PROVE  responses'[s] # <<>>
  <1>1. CASE UNCHANGED responses
    BY <1>1
  <1>2. ASSUME NEW other \in Starts, NEW error, NEW result, respond(other, error, result)
        PROVE  responses'[s] # <<>>
    <2>1. CASE s # other
      BY <1>2, <2>1 DEF respond, LInv, TypeOK
    <2>2. CASE s = other
      <3>1. PICK response : response = [error |-> error, result |-> result]
        OBVIOUS
      <3>2. responses'[s] = Append(responses[s], response)
        BY <1>2, <2>2, <3>1 DEF respond, LInv, TypeOK
      <3>3. responses[s] \in Seq(Responses)
        BY DEF LInv, TypeOK
      <3> QED BY <3>2, <3>3
    <2> QED BY <2>1, <2>2
  <1>3. ASSUME NEW other \in Starts, RunTask(other)
        PROVE  UNCHANGED responses \/ \E error, result : respond(other, error, result)
    BY <1>3 DEF RunTask, TokenFailure, TokenReceived, tx_task, TxsFailure, TxsNotObject,
       TxsReceived, on_update, respondByCopy, respondByReference
  <1>4. ASSUME NEW other \in Starts,
               \/ \E t \in Threads, c \in Calls : StartCall(t, other, c)
               \/ StartStep(other)
               \/ \E k \in Kinds : NetworkStep(k, other)
        PROVE  UNCHANGED responses
    BY <1>4 DEF StartCall, StartStep, SetTestnetMode, get_transactions, get_token,
       NetworkStep, on_network_error, on_success, Answer, taskVars
  <1>5. CASE UNCHANGED vars
    BY <1>1, <1>5 DEF vars
  <1> QED BY <1>1, <1>2, <1>3, <1>4, <1>5 DEF Next

LEMMA ObserversTrackedNext ==
    ASSUME LInv, DataInv, LifeInv, LifeNext
    PROVE  ObserversTracked'
  <1>1. captured' = [s \in Starts |->
             IF captured[s] = Nothing /\ responses'[s] # <<>>
                   /\ responses'[s][1].result # Nothing
             THEN Latest(call[s].handle) ELSE captured[s]]
    BY DEF LifeNext, CaptureObserver
  <1>2. /\ LatestKnown /\ ObserversTracked
        /\ \A s \in Starts : captured[s] # Nothing => captured'[s] = captured[s]
    BY <1>1 DEF LifeInv
  <1>3. \A s \in Starts : pc[s] # "idle" => pc'[s] # "idle" /\ call'[s] = call[s]
    BY LifeNextIsNext, StartedStays
  <1>4. \A s \in Starts : captured'[s] # Nothing => responses'[s] # <<>>
    <2>1. \A s \in Starts : responses[s] # <<>> => responses'[s] # <<>>
      BY LifeNextIsNext, AnswersStay
    <2> QED BY <1>1, <1>2, <2>1 DEF ObserversTracked
  <1>5. ASSUME NEW task \in Queued, task.kind = "update"
        PROVE  \E s \in Starts : /\ captured'[task.start] = s /\ pc'[s] # "idle"
                                /\ call'[s].observer = task.update.observer
    <2>1. PICK s \in Starts : /\ captured[task.start] = s /\ pc[s] # "idle"
                             /\ call[s].observer = task.update.observer
      BY <1>2, <1>5 DEF ObserversTracked, Queued
    <2>2. s # Nothing /\ task.start \in Starts
      BY ProxyAssumption, QueuedFacts
    <2> QED BY <1>2, <1>3, <2>1, <2>2
  <1>6. ASSUME NEW new \in Starts, NEW c \in Calls, StartCall(Main, new, c)
        PROVE  ObserversTracked'
    <2>1. /\ pc[new] = "idle" /\ pc'[new] = "bound" /\ call'[new] = c
          /\ m_observer' = [m_observer EXCEPT ![c.handle] = c.observer]
          /\ m_observer \in [Handles -> Observers \cup {Nothing}]
          /\ UNCHANGED queue
      BY <1>6 DEF StartCall, Step, BindObserver, taskVars, LInv, TypeOK
    <2>2. /\ Latest(c.handle)' = new
          /\ \A h : h # c.handle => \A i \in 1..Len(begun) : IsLast(i, h) =>
                Latest(h)' = Latest(h)
      BY <1>2, <1>6, LatestNext
    <2>3. ASSUME NEW h \in Handles, m_observer'[h] # Nothing
          PROVE  \E s \in Starts : /\ pc'[s] # "idle" /\ call'[s].handle = h
                                  /\ Latest(h)' = s /\ call'[s].observer = m_observer'[h]
      <3>1. CASE h = c.handle
        BY <2>1, <2>2, <3>1
      <3>2. CASE h # c.handle
        <4>1. PICK s \in Starts : /\ pc[s] # "idle" /\ call[s].handle = h
                                 /\ Latest(h) = s /\ call[s].observer = m_observer[h]
          BY <1>2, <2>1, <2>3, <3>2 DEF ObserversTracked
        <4>2. \E i \in 1..Len(begun) : IsLast(i, h)
          BY <1>2, <4>1 DEF LatestKnown
        <4> QED BY <1>3, <2>1, <2>2, <3>2, <4>1, <4>2
      <3> QED BY <3>1, <3>2
    <2>4. Queued' = Queued
      BY <2>1 DEF Queued
    <2>5. \A i \in 1..Len(queue') : queue'[i] \in Queued
      BY <2>4 DEF Queued
    <2> QED BY <1>4, <1>5, <2>3, <2>5 DEF ObserversTracked
  <1>7. ASSUME UNCHANGED <<m_observer, begun, call>>,
               \A task \in Queued' : task.kind = "update" =>
                  \/ task \in Queued
                  \/ /\ task.start \in Starts /\ TxsReceived(task.start)
                     /\ task.update.observer = m_observer[call[task.start].handle]
        PROVE  ObserversTracked'
    <2>1. \A h : Latest(h)' = Latest(h)
      BY <1>7, LatestKept
    <2>2. ASSUME NEW h \in Handles, m_observer'[h] # Nothing
          PROVE  \E s \in Starts : /\ pc'[s] # "idle" /\ call'[s].handle = h
                                  /\ Latest(h)' = s /\ call'[s].observer = m_observer'[h]
      BY <1>2, <1>3, <1>7, <2>1, <2>2 DEF ObserversTracked
    <2>3. ASSUME NEW task \in Queued', task.kind = "update"
          PROVE  \E s \in Starts : /\ captured'[task.start] = s /\ pc'[s] # "idle"
                                  /\ call'[s].observer = task.update.observer
      <3>1. CASE task \in Queued
        BY <1>5, <2>3, <3>1
      <3>2. CASE task \notin Queued
        <4>1. PICK r \in Starts :
                 /\ r = task.start /\ TxsReceived(r)
                 /\ task.update.observer = m_observer[call[r].handle]
          BY <1>7, <2>3, <3>2
        <4>2. Listed(r)' /\ Unanswered(r) /\ pc[r] = "returned"
          BY <4>1, TxsReceivedLists
        <4>3. captured[r] = Nothing
          BY <1>2, <4>2 DEF ObserversTracked, Unanswered
        <4>4. captured'[r] = Latest(call[r].handle)
          BY <1>1, <4>2, <4>3 DEF Listed
        <4>5. call[r].handle \in Handles /\ m_observer[call[r].handle] # Nothing
          <5>1. call[r] \in Calls /\ m_observer[call[r].handle] \in Observers
            BY <4>2 DEF LInv, CallsBound
          <5> QED BY <5>1, NothingAssumption DEF Calls
        <4>6. PICK s \in Starts :
                 /\ pc[s] # "idle" /\ Latest(call[r].handle) = s
                 /\ call[s].observer = m_observer[call[r].handle]
          BY <1>2, <4>5 DEF ObserversTracked
        <4> QED BY <1>3, <4>1, <4>4, <4>6
      <3> QED BY <3>1, <3>2
    <2>4. \A i \in 1..Len(queue') : queue'[i] \in Queued'
      BY DEF Queued
    <2> QED BY <1>4, <2>2, <2>3, <2>4 DEF ObserversTracked
  <1>8. ASSUME NEW s \in Starts,
               StartStep(s) \/ (\E k \in Kinds : NetworkStep(k, s)) \/ RunTask(s)
        PROVE  ObserversTracked'
    <2>1. UNCHANGED <<m_observer, begun, call>>
      BY <1>8 DEF StartStep, SetTestnetMode, get_transactions, get_token, RunTask,
         TokenFailure, TokenReceived, tx_task, TxsFailure, TxsNotObject, TxsReceived,
         on_update, NetworkStep, on_network_error, on_success, Answer, startVars
    <2>2. CASE TxsReceived(s)
      <3>1. \A task \in Queued' : task.kind = "update" =>
                 \/ task \in Queued
                 \/ task.start = s /\ task.update.observer = m_observer[call[s].handle]
        BY <2>2, TxsReceivedLists
      <3> QED BY <1>7, <2>1, <2>2, <3>1
    <2>3. CASE ~TxsReceived(s)
      <3>1. \A task \in Queued' : task.kind = "update" => task \in Queued
        BY <1>8, <2>3, NoUpdateMade
      <3> QED BY <1>7, <2>1, <3>1
    <2> QED BY <2>2, <2>3
  <1> QED BY <1>6, <1>8 DEF LifeNext

LEMMA LifeTypeOKNext ==
    ASSUME LInv, LInv', LifeInv, LifeNext, LatestKnown', DeletedUnheld', DataInv'
    PROVE  LifeTypeOK'
  <1>1. TypeOK'
    BY DEF LInv
  <1>2. wrappers' \subseteq Closures
    BY DEF LifeNext, Pin, CallbacksInUse, RunnablesInUse, LifeInv, LifeTypeOK
  <1>3. captured' \in [Starts -> Starts \cup {Nothing}]
    <2>1. captured' = [r \in Starts |->
             IF captured[r] = Nothing /\ responses'[r] # <<>>
                   /\ responses'[r][1].result # Nothing
             THEN Latest(call[r].handle) ELSE captured[r]]
      BY DEF LifeNext, CaptureObserver
    <2>2. ASSUME NEW s \in Starts, captured[s] = Nothing, Listed(s)'
          PROVE  Latest(call[s].handle) \in Starts
      <3>1. ~Listed(s)
        BY <2>2 DEF LifeInv, UpdatePinned, Listed
      <3>2. pc[s] = "returned"
        BY <2>2, <3>1, LifeNextIsNext, ListQueuesUpdate
      <3>3. \E i \in 1..Len(begun) : Latest(call[s].handle) = begun[i]
        BY <3>2, LatestIsLast DEF LifeInv
      <3> QED BY <3>3 DEF LInv, TypeOK
    <2> QED BY <2>1, <2>2 DEF LifeInv, LifeTypeOK, Listed
  <1>4. deleted' \subseteq Observers \cup Contexts \cup Starts
    <2> SUFFICES ASSUME NEW proxy \in deleted' PROVE proxy \in Observers
      OBVIOUS
    <2>1. PICK s \in Starts : pc'[s] # "idle" /\ call'[s].observer = proxy
      BY DEF DeletedUnheld
    <2>2. call'[s] \in Calls
      BY <2>1 DEF LInv, CallsBound
    <2> QED BY <2>1, <2>2 DEF Calls
  <1> QED BY <1>1, <1>2, <1>3, <1>4 DEF LifeTypeOK

(***************************************************************************)
(* The invariant and what follows from it.                                 *)
(***************************************************************************)

LEMMA NextLifeInv ==
    ASSUME LInv, DataInv, LInv', DataInv', LifeInv, [LifeNext]_lifeVars
    PROVE  LifeInv'
  <1>1. CASE LifeNext
    BY <1>1, LatestKnownNext, ObserversFreshNext, CallbackPinnedNext, UpdatePinnedNext,
       DeletedUnheldNext, LifeTypeOKNext, ObserversTrackedNext DEF LifeInv
  <1>2. CASE UNCHANGED lifeVars
    <2>1. UNCHANGED <<vars, wrappers, captured, deleted, pc, call, begun, responses>>
      BY <1>2 DEF lifeVars, vars
    <2>2. \A h, i : IsLast(i, h)' = IsLast(i, h)
      BY <2>1, LatestKept
    <2>3. \A s \in Starts : ObserverHeld(s)' = ObserverHeld(s)
      BY <2>1 DEF ObserverHeld, InStart, Captures, Latest, IsLast, StartsOf
    <2>4. LifeTypeOK'
      BY <2>1 DEF LifeInv, LifeTypeOK, LInv
    <2>5. LatestKnown'
      BY <2>1, <2>2 DEF LifeInv, LatestKnown
    <2>6. DeletedUnheld'
      BY <2>1, <2>3 DEF LifeInv, DeletedUnheld
    <2>7. ObserversTracked'
      <3>1. \A h : Latest(h)' = Latest(h)
        BY <2>1, LatestKept
      <3>2. UNCHANGED <<m_observer, queue>>
        BY <1>2 DEF lifeVars, vars
      <3> QED BY <2>1, <3>1, <3>2 DEF LifeInv, ObserversTracked
    <2> QED
      BY <2>1, <2>4, <2>5, <2>6, <2>7
      DEF LifeInv, ObserversFresh, CallbackPinned, UpdatePinned
  <1> QED BY <1>1, <1>2

\* Under the binding the core is as it always is.
LEMMA LifeSound == LifeSpec => [](LInv /\ DataInv)
  <1>1. LifeInit => LInv /\ DataInv
    BY InitLInv, InitDataInv DEF LifeInit
  <1>2. LInv /\ DataInv /\ [LifeNext]_lifeVars => LInv' /\ DataInv'
    BY LifeNextIsNext, NextLInv, NextDataInv
  <1> QED BY <1>1, <1>2, PTL DEF LifeSpec

\* Whatever the number of calls, handles and observers: what the binding has
\* deleted nobody holds (NJSItfTransactionListVmHandleCpp.cpp 22-24,
\* NJSItfHttpCallbackCpp.cpp 80-86).
THEOREM LifeInvHolds == LifeSpec => []LifeInv
  <1>1. LInv /\ DataInv /\ LInv' /\ DataInv' /\ LifeInv /\ [LifeNext]_lifeVars => LifeInv'
    BY NextLifeInv
  <1>2. LifeSpec => LifeInit /\ [][LifeNext]_lifeVars
    BY DEF LifeSpec
  <1> QED BY InitLifeInv, LifeSound, <1>1, <1>2, PTL

\* A handle never keeps an observer that another control block has deleted
\* (NJSItfTransactionListVmHandleCpp.cpp 22-24).
THEOREM ObserversAlive == LifeSpec => []ObserverAlive
  <1>1. LifeInv => ObserverAlive
    BY DEF LifeInv, ObserversFresh, DeletedUnheld, ObserverAlive
  <1> QED BY <1>1, LifeInvHolds, PTL

\* No deleted observer is ever called, by a continuation that reads the handle or by
\* an update task that waits to run (transaction_list_vm.cpp 25 and 57).
THEOREM ObserversStayLive == LifeSpec => []ObserversLive
  <1>1. LInv /\ LifeInv => ObserversLive
    <2> SUFFICES ASSUME LInv, LifeInv PROVE ObserversLive
      OBVIOUS
    <2>1. \A s \in Starts : pc[s] # "idle" /\ ObserverHeld(s) => call[s].observer \notin deleted
      BY DEF LifeInv, ObserversFresh, DeletedUnheld
    <2>2. ASSUME NEW h \in Handles PROVE m_observer[h] \notin deleted
      <3>1. CASE m_observer[h] = Nothing
        <4>1. \A s \in Starts : pc[s] # "idle" => call[s].observer # Nothing
          BY NothingAssumption DEF LInv, CallsBound, Calls
        <4> QED BY <3>1, <4>1 DEF LifeInv, DeletedUnheld
      <3>2. CASE m_observer[h] # Nothing
        <4>1. PICK s \in Starts : /\ pc[s] # "idle" /\ call[s].handle = h
                                 /\ Latest(h) = s /\ call[s].observer = m_observer[h]
          BY <3>2 DEF LifeInv, ObserversTracked
        <4>2. ObserverHeld(s)
          BY <4>1 DEF ObserverHeld
        <4> QED BY <2>1, <4>1, <4>2
      <3> QED BY <3>1, <3>2
    <2>3. ASSUME NEW i \in 1..Len(queue), queue[i].kind = "update"
          PROVE  queue[i].update.observer \notin deleted
      <3>1. PICK s \in Starts : /\ captured[queue[i].start] = s /\ pc[s] # "idle"
                               /\ call[s].observer = queue[i].update.observer
        BY <2>3 DEF LifeInv, ObserversTracked
      <3>2. queue[i].start \in Starts
        BY QueuedFacts DEF Queued
      <3>3. ObserverHeld(s)
        BY <3>1, <3>2, HeldFacts
      <3> QED BY <2>1, <3>1, <3>3
    <2> QED BY <2>2, <2>3 DEF ObserversLive
  <1>2. LifeSpec => []LInv
    BY LifeSound, PTL
  <1> QED BY <1>1, <1>2, LifeInvHolds, PTL

\* Only the observer of an earlier call of the same handle is ever deleted
\* (NJSItfThreadDispatcher.cpp 32-33, transaction_list_vm.cpp 25).
THEOREM ReplacedDeleted == LifeSpec => []OnlyReplacedDeleted
  <1>1. LInv /\ LifeInv => OnlyReplacedDeleted
    <2> SUFFICES ASSUME LInv, LifeInv, NEW proxy \in deleted
                 PROVE  \E i, j \in 1..Len(begun) :
                           /\ i < j
                           /\ call[begun[i]].handle = call[begun[j]].handle
                           /\ call[begun[i]].observer = proxy
      BY DEF OnlyReplacedDeleted
    <2>1. PICK s \in Starts :
             pc[s] # "idle" /\ ~ObserverHeld(s) /\ call[s].observer = proxy
      BY DEF LifeInv, DeletedUnheld
    <2>2. Latest(call[s].handle) # s
      BY <2>1, HeldFacts
    <2>3. PICK i \in 1..Len(begun) : begun[i] = s
      BY <2>1 DEF LifeInv, LatestKnown
    <2>4. PICK j \in 1..Len(begun) :
             IsLast(j, call[s].handle) /\ Latest(call[s].handle) = begun[j]
      BY <2>1, LatestIsLast DEF LifeInv
    <2>5. i \in StartsOf(call[s].handle)
      BY <2>3 DEF StartsOf
    <2>6. Len(begun) \in Nat
      BY DEF LInv, TypeOK
    <2>7. i <= j /\ call[begun[j]].handle = call[s].handle
      BY <2>4, <2>5 DEF IsLast, StartsOf
    <2>8. i < j
      BY <2>2, <2>3, <2>4, <2>6, <2>7
    <2> QED BY <2>1, <2>3, <2>7, <2>8
  <1>2. LifeSpec => []LInv
    BY LifeSound, PTL
  <1> QED BY <1>1, <1>2, LifeInvHolds, PTL

(***************************************************************************)
(* The core under the binding.                                             *)
(***************************************************************************)

\* Any program that drives the core through the binding drives it as its own
\* specification allows (NJSItfTransactionListVmHandleCpp.cpp 22-24).
THEOREM LifeIsCore == LifeSpec => Spec
  <1>1. LifeInit => Init
    BY DEF LifeInit
  <1> QED BY <1>1, LifeNextIsNext, PTL DEF LifeSpec, Spec

\* So the core keeps its contract under any program that uses the binding, and
\* restarts its handles as it likes (transaction_list_vm.cpp 21-70).
THEOREM LifeKeepsContract == LifeSpec => KeepsContract
  <1>1. Threads = {Main}
    BY ThreadAssumption, BindingAssumption
  <1>2. Spec => KeepsContract
    BY <1>1, ContractKept
  <1> QED BY <1>2, LifeIsCore, PTL
=============================================================================
