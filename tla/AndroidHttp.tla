---------------------------- MODULE AndroidHttp ----------------------------
(***************************************************************************)
(* AndroidHttp.get gives each request to a ThreadPoolExecutor with one core*)
(* thread, at most MaxPool threads, and an unbounded queue.  That executor *)
(* (external) adds a thread to the core only when its queue refuses a task *)
(* and replaces a thread that an exception ended, so that what counts is   *)
(* which requests run and which wait.  Since the requests are given to     *)
(* execute(), the exception goes on to the default handler of Android,     *)
(* which ends the process, while the new thread may already be at work.    *)
(* A request has no timeout.                                               *)
(***************************************************************************)
EXTENDS Integers, Sequences, FiniteSets

CONSTANTS
    Requests,   \* calls of get(), each made at most once
    CorePool,   \* 1 in the code
    MaxPool     \* 20 in the code

ASSUME PoolAssumption ==
    CorePool \in Nat \ {0} /\ MaxPool \in Nat /\ CorePool <= MaxPool

\* How a request may end: a callback, or an exception that run() does not catch
\* (a URL that is not HTTP fails in a cast).
Callbacks == {"onSuccess", "onNetworkError"}
Outcomes == Callbacks \cup {"thrown"}

VARIABLES
    order,      \* the requests in the order of their get()
    workQueue,  \* those that wait for a thread
    running,    \* those that a thread is in
    stalled,    \* those of them whose server will never answer
    ended,      \* the others in the order they ended, with their outcome
    process     \* "alive", "dying" of an exception, or "dead"

vars == <<order, workQueue, running, stalled, ended, process>>

Init ==
    /\ order = <<>>
    /\ workQueue = <<>>
    /\ running = {}
    /\ stalled = {}
    /\ ended = <<>>
    /\ process = "alive"

\* How many requests run at a time.  Variant: a queue that takes no task.
PoolOfBoundedQueue == MaxPool
PoolOfUnboundedQueue == CorePool

get(r) ==
    /\ process # "dead"
    /\ \A i \in 1..Len(order) : order[i] # r
    /\ order' = Append(order, r)
    /\ IF Cardinality(running) < PoolOfUnboundedQueue
       THEN running' = running \cup {r} /\ UNCHANGED workQueue
       ELSE workQueue' = Append(workQueue, r) /\ UNCHANGED running
    /\ UNCHANGED <<stalled, ended, process>>

\* The server of a request will never answer.
Stall(r) ==
    /\ process # "dead"
    /\ r \in running \ stalled
    /\ stalled' = stalled \cup {r}
    /\ UNCHANGED <<order, workQueue, running, ended, process>>

\* Does the exception get to the default handler?  Variant: the request is given
\* to submit(), which keeps it in a Future that nobody asks.
KeptInFuture(outcome) == FALSE
Escapes(outcome) == outcome = "thrown"

\* run() ends; its thread, or the one that replaces it, takes the next request.
run(r, outcome) ==
    LET next == IF workQueue = <<>> THEN <<>> ELSE SubSeq(workQueue, 1, 1)
    IN  /\ process # "dead"
        /\ r \in running \ stalled
        /\ running' = (running \ {r}) \cup {next[i] : i \in DOMAIN next}
        /\ workQueue' = SubSeq(workQueue, Len(next) + 1, Len(workQueue))
        /\ ended' = Append(ended, [request |-> r, outcome |-> outcome])
        /\ process' = IF Escapes(outcome) THEN "dying" ELSE process
        /\ UNCHANGED <<order, stalled>>

RunEnds(r) == \E outcome \in Outcomes : run(r, outcome)

\* The default handler ends the process.
Die ==
    /\ process = "dying"
    /\ process' = "dead"
    /\ UNCHANGED <<order, workQueue, running, stalled, ended>>

Next ==
    \/ \E r \in Requests : get(r) \/ Stall(r) \/ RunEnds(r)
    \/ Die

\* A server answers in the end unless it stalls, and the handler does its work.
Spec ==
    /\ Init /\ [][Next]_vars
    /\ \A r \in Requests : WF_vars(RunEnds(r))
    /\ WF_vars(Die)

(***************************************************************************)
(* Properties.                                                             *)
(***************************************************************************)

\* The requests end in the order they were made, although the executor may have
\* twenty threads: the core, whose calls interleave, sees no reordered answer on
\* Android (AndroidHttp.java 23-30).
EndInOrder == \A i \in 1..Len(ended) : ended[i].request = order[i]

CalledBack(r) ==
    \E i \in 1..Len(ended) : ended[i].request = r /\ ended[i].outcome \in Callbacks

\* As long as the process lives no request is lost without a word: its callback is
\* called unless it, or one made before it, stalls; what run() does not catch ends
\* the process rather than one request in silence (AndroidHttp.java 28-52).
CalledBackUnlessStalled ==
    \A r \in Requests :
        r \in running \cup {workQueue[i] : i \in 1..Len(workQueue)}
            ~> \/ CalledBack(r)
               \/ process = "dead"
               \/ \E i, j \in 1..Len(order) :
                     i <= j /\ order[j] = r /\ order[i] \in stalled
=============================================================================
