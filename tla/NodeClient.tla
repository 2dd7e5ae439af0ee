----------------------------- MODULE NodeClient -----------------------------
(***************************************************************************)
(* index.js over the core: getTransactions() makes a fresh handle, calls   *)
(* start() and returns a promise that respond() settles.  axios calls      *)
(* on_success from .then and on_network_error from a .catch chained after  *)
(* it, so the .catch also gets what the .then handler throws.  Tasks run   *)
(* inline, hence within the handler; an exception that a callback throws   *)
(* leaves the C++ frames on its way out of the handler.  What the .catch   *)
(* of a throwing .then does is not modelled: NoSecondCallback shows that   *)
(* it never comes to that.                                                 *)
(***************************************************************************)
EXTENDS LedgerClient

ASSUME NodeAssumption == Inline /\ WrappersPinned /\ ~RestartAllowed

VARIABLES
    promise,    \* per start: the promise getTransactions() returned
    handler,    \* the axios handler that is running, if any
    threw,      \* does it have an exception on its way out?
    thenThrew,  \* requests whose .then threw, so that their .catch is due
    unhandled   \* requests whose .catch threw: an unhandled rejection

jsVars == <<promise, handler, threw, thenThrew, unhandled>>
nodeVars == <<vars, jsVars>>

Promises ==
    [state : {"none", "pending", "rejected"}, value : {Nothing}]
        \cup [state : {"resolved"}, value : Urls]

Handlers == [kind : Kinds, start : Starts, clause : {"then", "catch"}]

ASSUME HandlerAssumption == Nothing \notin Handlers

\* Every variable of the JavaScript side holds values of its kind.
NodeTypeOK ==
    /\ TypeOK
    /\ promise \in [Starts -> Promises]
    /\ handler \in Handlers \cup {Nothing}
    /\ threw \in BOOLEAN
    /\ thenThrew \in SUBSET (Kinds \X Starts)
    /\ unhandled \in SUBSET (Kinds \X Starts)

Unsettled(state) == [state |-> state, value |-> Nothing]

NodeInit ==
    /\ Init
    /\ promise = [s \in Starts |-> Unsettled("none")]
    /\ handler = Nothing
    /\ threw = FALSE
    /\ thenThrew = {}
    /\ unhandled = {}

\* getTransactions(): a promise whose executor calls start().
getTransactions(s, c) ==
    /\ handler = Nothing
    /\ StartCall(Main, s, c)
    /\ promise' = [promise EXCEPT ![s] = Unsettled("pending")]
    /\ UNCHANGED <<handler, threw, thenThrew, unhandled>>

NodeStartStep(s) == StartStep(s) /\ UNCHANGED jsVars

\* An axios handler is entered and calls the HttpCallback.
Enter(k, s, clause) ==
    /\ handler = Nothing
    /\ handler' = [kind |-> k, start |-> s, clause |-> clause]
    /\ UNCHANGED <<promise, threw, thenThrew, unhandled>>

Then(k, s) == Enter(k, s, "then") /\ on_success(k, s)

Catch(k, s) == Enter(k, s, "catch") /\ on_network_error(k, s)

Settle(s, outcome) ==
    promise' = [promise EXCEPT ![s] = IF @.state = "pending" THEN outcome ELSE @]

\* respond() of index.js: a truthy error rejects, an empty result makes
\* JSON.parse throw, a list resolves.  Variants: the result is not parsed; every
\* answer throws.
js_respondThrows(s, response) == threw' = TRUE /\ UNCHANGED promise
js_respondUnparsed(s, response) ==
    /\ UNCHANGED threw
    /\ IF response.error # "" THEN Settle(s, Unsettled("rejected"))
       ELSE Settle(s, [state |-> "resolved", value |-> response.result])
js_respond(s, response) ==
    \/ /\ response.error # ""
       /\ Settle(s, Unsettled("rejected"))
       /\ UNCHANGED threw
    \/ /\ response.error = ""
       /\ response.result = Nothing
       /\ threw' = TRUE
       /\ UNCHANGED promise
    \/ /\ response.error = ""
       /\ response.result # Nothing
       /\ Settle(s, [state |-> "resolved", value |-> response.result])
       /\ UNCHANGED threw

\* A task runs inside the handler, and calls respond() when the core does.
NodeTask(s) ==
    /\ RunTask(s)
    /\ IF Len(responses'[s]) > Len(responses[s])
       THEN js_respond(s, responses'[s][Len(responses'[s])])
       ELSE UNCHANGED <<promise, threw>>
    /\ UNCHANGED <<handler, thenThrew, unhandled>>

\* The handler returns or throws.
Leave(k, s) ==
    LET thrownBy(clause) == threw /\ handler.clause = clause
    IN  /\ handler # Nothing
        /\ handler.kind = k /\ handler.start = s
        /\ queue = <<>>
        /\ handler' = Nothing
        /\ threw' = FALSE
        /\ thenThrew' = IF thrownBy("then") THEN thenThrew \cup {<<k, s>>}
                        ELSE thenThrew
        /\ unhandled' = IF thrownBy("catch") THEN unhandled \cup {<<k, s>>}
                        ELSE unhandled
        /\ UNCHANGED <<vars, promise>>

NodeNext ==
    \E s \in Starts :
        \/ \E c \in Calls : getTransactions(s, c)
        \/ NodeStartStep(s)
        \/ NodeTask(s)
        \/ \E k \in Kinds : Then(k, s) \/ Catch(k, s) \/ Leave(k, s)

NodeSpec == NodeInit /\ [][NodeNext]_nodeVars

\* The event loop goes on with what it has begun.  Nothing makes a server answer:
\* axios is given no timeout and has none of its own.
NodeFairness ==
    \A s \in Starts :
        /\ WF_nodeVars(NodeStartStep(s))
        /\ WF_nodeVars(NodeTask(s))
        /\ \A k \in Kinds : WF_nodeVars(Leave(k, s))

NodeFairSpec == NodeSpec /\ NodeFairness

(***************************************************************************)
(* Properties.                                                             *)
(***************************************************************************)

\* No .then handler ever throws, so axios's .catch never calls an HttpCallback
\* that .then has called: the core, which does not guard against it, would send
\* or answer twice (index.js 27-29, 87-92; http_callback.cpp 29-39).
NoSecondCallback == thenThrew = {}

\* A promise is resolved with the list its own call was answered with and asked
\* for, and rejected only after an error that has a message (index.js 87-92).
SettledAsAnswered ==
    \A s \in Starts :
        /\ promise[s].state = "resolved" =>
              /\ responses[s] = <<[error |-> "", result |-> promise[s].value]>>
              /\ promise[s].value = Wanted(call[s])
        /\ promise[s].state = "rejected" =>
              responses[s] = <<[error |-> "parse error", result |-> Nothing]>>

\* Once respond() has thrown, the core runs no further Runnable, whose JavaScript
\* would be called with an exception pending: it returns from every failure, and
\* shows a list only after an answer that does not throw (client.cpp 40-50 and
\* 95-106, transaction_list_vm.cpp 52-66, NJSItfHandleResponse.cpp 25-31).
NothingRunsAfterThrow == threw => queue = <<>>

\* The one Runnable there may be runs in the handler that led to it: the .catch
\* only for the failure it brought, and only there something throws.
TaskInHandler ==
    /\ handler = Nothing => queue = <<>> /\ ~threw
    /\ Len(queue) <= 1
    /\ threw => queue = <<>> /\ handler.clause = "catch"
    /\ queue # <<>> =>
          (handler.clause = "catch"
              <=> Head(queue).kind \in Kinds /\ Head(queue).resp.error)

\* Whatever is still to come, no handler that runs can be called again, nor settle
\* a promise twice or with another's answer: the inductive invariant of the three
\* properties above (index.js 19-31 and 79-101).
NodeInv ==
    /\ NodeTypeOK
    /\ TaskInHandler
    /\ NoSecondCallback
    /\ SettledAsAnswered

\* The answer of a call decides its promise, and nothing else does: a message
\* rejects it, a list resolves it, and neither leaves it pending (index.js 87-92).
PromiseKnown(s) ==
    /\ pc[s] = "idle" => promise[s] = Unsettled("none")
    /\ pc[s] # "idle" /\ responses[s] = <<>> => promise[s] = Unsettled("pending")
    /\ responses[s] # <<>> =>
          LET answer == responses[s][1]
          IN  /\ answer.error # "" => promise[s] = Unsettled("rejected")
              /\ answer.error = "" /\ answer.result = Nothing =>
                    promise[s] = Unsettled("pending")
              /\ answer.error = "" /\ answer.result # Nothing =>
                    promise[s] = [state |-> "resolved", value |-> answer.result]

\* With what a promise is, the inductive invariant of the refinement below
\* (index.js 79-101).
PromiseInv == NodeInv /\ \A s \in Starts : PromiseKnown(s)

\* What a JavaScript program sees of its calls is what getTransactions() promises:
\* no promise is settled twice or withdrawn, none before its own call is answered,
\* and the observer of a call, no other, is shown the list that has resolved its
\* promise, and nothing before (index.js 79-101, transaction_list_vm.cpp 52-66).
Promise == INSTANCE PromiseContract WITH
    asked  <- call,
    status <- [s \in Starts |-> StatusOf(s)],
    shown  <- [s \in Starts |->
                 IF updates[s] = <<>> THEN Nothing ELSE updates[s][1]]

KeepsPromise == Promise!PromiseSpec

Replied(k, s) == req[k][s] # Nothing /\ req[k][s].reply # Nothing

NetworkFailed(s) == \E k \in Kinds : Replied(k, s) /\ req[k][s].reply.error

Settled(s) == promise[s].state \in {"resolved", "rejected"}

Received(k, s, json) == Replied(k, s) /\ req[k][s].reply.json = json

\* A promise waits for nothing but the server: its call sends the first request,
\* a token body the second one, invalid JSON rejects, and an object resolves with
\* the call's own list, whatever becomes of the other calls (index.js 19-31 and
\* 79-101, client.cpp 27-127).
AnswersSettle ==
    \A s \in Starts :
        /\ promise[s].state = "pending" ~> Sent("token", s)
        /\ Received("token", s, "object") ~> Sent("txs", s)
        /\ (\E k \in Kinds : Received(k, s, "invalid"))
              ~> promise[s] = Unsettled("rejected")
        /\ Received("txs", s, "object")
              ~> promise[s].state = "resolved" /\ promise[s].value = Wanted(call[s])

\* test.js ends a call with .then or .catch: a network error rejects.
NetworkErrorRejects ==
    \A s \in Starts : NetworkFailed(s) ~> promise[s].state = "rejected"

\* test.js ends a call with .then or .catch: once both requests have succeeded
\* the promise is settled.
RepliesSettle ==
    \A s \in Starts :
        (Replied("txs", s) /\ ~req["txs"][s].reply.error) ~> Settled(s)
=============================================================================
