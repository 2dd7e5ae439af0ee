-------------------------- MODULE LedgerClientInv --------------------------
(***************************************************************************)
(* The inductive invariant behind the safety properties of LedgerClient:   *)
(* a call of start() is, at any time, in exactly one place, inside start(),*)
(* waiting for one of its two requests, or in one task of the queue; it is *)
(* unanswered there, except in the task that shows an answered list.       *)
(***************************************************************************)
EXTENDS LedgerClient

\* A call that was made has its arguments, and its handle an observer.
CallsBound ==
    \A s \in Starts : pc[s] # "idle" =>
        call[s] \in Calls /\ m_observer[call[s].handle] \in Observers

UrlsBuilt == \A s \in Starts : pc[s] \in {"url", "returned"} => url[s] \in Urls

\* The first request is sent as start() returns, the second after its answer.
RequestsInOrder ==
    \A s \in Starts :
        /\ req["token"][s] # Nothing => pc[s] = "returned"
        /\ req["txs"][s] # Nothing =>
              req["token"][s] # Nothing /\ ~Waiting("token", s)

\* The call a task continues has the answer that led to the task.
TaskInOrder(task) ==
    /\ req["token"][task.start] # Nothing
    /\ ~Waiting("token", task.start)
    /\ task.kind \in {"token", "inject"} => req["txs"][task.start] = Nothing
    /\ task.kind \in {"txs", "update"} =>
          req["txs"][task.start] # Nothing /\ ~Waiting("txs", task.start)

TasksInOrder == \A i \in 1..Len(queue) : TaskInOrder(queue[i])

OneTaskPerCall ==
    \A i, j \in 1..Len(queue) : queue[i].start = queue[j].start => i = j

Unanswered(s) == responses[s] = <<>> /\ updates[s] = <<>>

\* No answer before both requests are through ...
WaitingUnanswered ==
    \A s \in Starts :
        pc[s] # "returned" \/ Waiting("token", s) \/ Waiting("txs", s)
            => Unanswered(s)

\* ... nor before the last task that could give one has run.
TaskUnanswered(task) ==
    /\ task.kind # "update" => Unanswered(task.start)
    /\ task.kind = "update" =>
          /\ Len(responses[task.start]) = 1
          /\ responses[task.start][1] =
                [error |-> "", result |-> task.update.txs]
          /\ updates[task.start] = <<>>

TasksUnanswered == \A i \in 1..Len(queue) : TaskUnanswered(queue[i])

\* The inductive invariant.
LInv ==
    /\ TypeOK
    /\ CallsBound
    /\ UrlsBuilt
    /\ RequestsInOrder
    /\ TasksInOrder
    /\ OneTaskPerCall
    /\ WaitingUnanswered
    /\ TasksUnanswered
    /\ AnsweredAtMostOnce
    /\ UpdateFollowsAnswer

(***************************************************************************)
(* What a call carries from one continuation to the next is its own.       *)
(***************************************************************************)

Queued == {queue[i] : i \in 1..Len(queue)}

UrlsOwn ==
    \A s \in Starts : pc[s] \in {"url", "returned"} =>
        url[s].addresses = call[s].addresses

ReplyOf(k, s) == req[k][s].reply

\* The second request asks for the URL of the call and is answered for it.
RequestsOwn ==
    \A s \in Starts : req["txs"][s] # Nothing =>
        /\ req["txs"][s].url = url[s]
        /\ ReplyOf("txs", s) # Nothing /\ ReplyOf("txs", s).json = "object"
              => ReplyOf("txs", s).value = url[s]

\* A task carries what the requests of its call were answered.
TaskOwn(task) ==
    /\ task.kind \in Kinds => task.resp = ReplyOf(task.kind, task.start)
    /\ task.kind = "inject" =>
          /\ ~Failed(ReplyOf("token", task.start))
          /\ task.token = ReplyOf("token", task.start).value
    /\ task.kind = "update" =>
          /\ task.update.txs = url[task.start]
          /\ NotOutdated(task.start, task.update.observer)

TasksOwn == \A task \in Queued : TaskOwn(task)

\* A call is refused with no list, or given its own without an error.
AnswersOwn ==
    \A s \in Starts : responses[s] # <<>> =>
        /\ pc[s] = "returned"
        /\ \/ responses[s][1].result = Nothing
           \/ responses[s][1] = [error |-> "", result |-> url[s]]

\* A handle has the observer of its latest start.
ObserversCurrent ==
    /\ \A i \in 1..Len(begun) : pc[begun[i]] # "idle"
    /\ \A s \in Starts : pc[s] # "idle" =>
          NotOutdated(s, m_observer[call[s].handle])

\* A binding that keeps Runnables never lets the reference dangle.
FreedOnlyIfUnpinned ==
    WrappersPinned => ~crashed /\ \A s \in Starts : runnable[s] # "freed"

\* Each handle is started once where the caller makes a fresh one each time.
HandlesFresh ==
    ~RestartAllowed =>
        \A i, j \in 1..Len(begun) :
            call[begun[i]].handle = call[begun[j]].handle => i = j

\* The second inductive invariant, which relies on the first.
DataInv ==
    /\ UrlsOwn
    /\ RequestsOwn
    /\ TasksOwn
    /\ AnswersOwn
    /\ OwnToken
    /\ ObserversCurrent
    /\ ObserverNotOutdated
    /\ FreedOnlyIfUnpinned
    /\ CrashOnlyOnTxsFailure
    /\ HandlesFresh

(***************************************************************************)
(* Which network a request goes to.                                        *)
(***************************************************************************)

SomeCall(testnet) ==
    \E s \in Starts : pc[s] # "idle" /\ (testnet <=> call[s].coin_type = 1)

\* Once a call has set it, the global names the network of some call, and so does
\* every URL built from it.
NetworkSet ==
    \A s \in Starts :
        /\ pc[s] \in {"network", "url", "returned"} => SomeCall(testnetMode)
        /\ pc[s] \in {"url", "returned"} => SomeCall(url[s].testnet)
        /\ req["token"][s] # Nothing => SomeCall(req["token"][s].url.testnet)

OwnTestnet(s, testnet) == testnet <=> call[s].coin_type = 1

\* With one thread, no other start() comes between the steps of one.
NetworkOwn ==
    Threads = {Main} =>
        /\ \A s \in Starts : pc[s] # "idle" => thread[s] = Main
        /\ \A s, other \in Starts : InStart(s) /\ InStart(other) => s = other
        /\ \A s \in Starts :
              /\ pc[s] \in {"network", "url"} => OwnTestnet(s, testnetMode)
              /\ pc[s] \in {"url", "returned"} => OwnTestnet(s, url[s].testnet)
              /\ req["token"][s] # Nothing =>
                    OwnTestnet(s, req["token"][s].url.testnet)

\* The third one.
NetworkInv == NetworkSet /\ NetworkOwn

\* At any time a call of start() is in one place, unanswered there, and carries
\* only its own data: the three inductive invariants (client.cpp 27-127,
\* transaction_list_vm.cpp 21-70).
Sound == LInv /\ DataInv /\ NetworkInv

(***************************************************************************)
(* What liveness rests on.                                                 *)
(***************************************************************************)

\* Something is left that brings the call on.
InHand(s) ==
    \/ InStart(s)
    \/ \E k \in Kinds : Waiting(k, s)
    \/ \E task \in Queued : task.start = s

ListInHand(s) == \E task \in Queued : task.start = s /\ task.kind = "update"

Remembered(s) ==
    /\ pc[s] # "idle" /\ responses[s] = <<>> => Dropped(s) \/ InHand(s)
    /\ responses[s] # <<>> /\ responses[s][1].result # Nothing =>
          updates[s] # <<>> \/ ListInHand(s)

\* No call is forgotten: until it is answered, start() goes on, a request is out or
\* a Runnable is queued for it, and after a list a Runnable still has to show it;
\* unless the list was no JSON object or a dangling reference ended the process
\* (client.cpp 27-127, transaction_list_vm.cpp 53-67, http_callback.cpp 29-39).
NeverForgotten == ~crashed => \A s \in Starts : Remembered(s)
=============================================================================
