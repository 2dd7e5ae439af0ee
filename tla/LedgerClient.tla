---------------------------- MODULE LedgerClient ----------------------------
(***************************************************************************)
(* The C++ core: one call of TransactionListVmHandle::start fetches a sync *)
(* token, then the transactions of its addresses, answers the caller's     *)
(* HandleResponse and hands the list to an observer.  The two HTTP answers *)
(* come back on a network thread; every continuation is a Runnable given   *)
(* to an execution context, which the platforms implement differently:     *)
(*   Inline = TRUE   index.js runs a Runnable inside execute();            *)
(*   Inline = FALSE  LGExecutionContextObjc appends it to the main queue.  *)
(* Each execute() of the core is the last thing its caller does, so running*)
(* inline is the same as running the queued task before anything else.     *)
(*                                                                         *)
(* Abstractions: a list of addresses is a value of Addresses, a token one  *)
(* of Tokens, and the transactions the server returns for a URL are named  *)
(* by that URL.  Each member of Starts stands for one call of start().     *)
(***************************************************************************)
EXTENDS Integers, Sequences

CONSTANTS
    Starts,          \* calls of start(), each made at most once
    Handles,         \* TransactionListVmHandle objects
    Observers,       \* TransactionListVmObserver objects
    Addresses,       \* address lists
    CoinTypes,       \* values of ApiOptions.coin_type
    Tokens,          \* sync tokens, the empty string among them
    Nothing,         \* null, and the empty string where a payload may stand
    Threads, Main,   \* threads that may call start(); Main runs the tasks
    Inline,          \* does execute() run the Runnable at once?
    WrappersPinned,  \* does the binding keep every Runnable it was given?
    RestartAllowed   \* may a handle be started again?

Urls == [testnet : BOOLEAN, addresses : Addresses \cup {Nothing}]

ASSUME CoinTypesAssumption == CoinTypes \subseteq Int
ASSUME ThreadAssumption == Main \in Threads /\ (Inline => Threads = {Main})
ASSUME PlatformAssumption ==
    {Inline, WrappersPinned, RestartAllowed} \subseteq BOOLEAN

(***************************************************************************)
(* Values.                                                                 *)
(***************************************************************************)

\* The arguments of a call of start(), as its closures keep them.
Calls == [handle : Handles, observer : Observers,
          addresses : Addresses, coin_type : CoinTypes]

Kinds == {"token", "txs"}

\* What HttpCallback gives the continuation: a network error carries nothing
\* (its message is dropped), and the status code of a body is never looked at.
NetworkError == [error |-> TRUE, json |-> "none", value |-> Nothing]
Body(json, value) == [error |-> FALSE, json |-> json, value |-> value]

\* A body may be "invalid" JSON, an "object", or "other" JSON.  A token body
\* that holds no token string, object or not, reads as the empty token.
HttpResponses(k) ==
    {NetworkError, Body("invalid", Nothing)} \cup
        IF k = "token" THEN {Body("object", t) : t \in Tokens}
        ELSE {Body("other", Nothing)} \cup {Body("object", u) : u \in Urls}

\* What HandleResponse::respond is given.
Responses == [error : {"", "parse error"}, result : Urls \cup {Nothing}]

Requests == [url : Urls, header : Tokens \cup {Nothing},
             reply : HttpResponses("token") \cup HttpResponses("txs")
                        \cup {Nothing}]

Updates == [observer : Observers, txs : Urls]

\* Null is none of the values that stand where it may.
ASSUME NothingAssumption ==
    /\ Nothing \notin Addresses \cup Tokens \cup Handles \cup Observers \cup Threads
    /\ Nothing \notin Urls \cup Calls \cup Requests \cup Updates
    /\ Nothing \notin HttpResponses("token") \cup HttpResponses("txs")

\* The tasks the core wraps in a Runnable: the continuation of an HTTP answer,
\* tx_task that sends the second request, and the task that calls on_update.
Tasks ==
    [kind : {"token"}, start : Starts, resp : HttpResponses("token")]
        \cup [kind : {"txs"}, start : Starts, resp : HttpResponses("txs")]
        \cup [kind : {"inject"}, start : Starts, token : Tokens]
        \cup [kind : {"update"}, start : Starts, update : Updates]

VARIABLES
    m_observer,   \* per handle: the observer of the last start()
    testnetMode,  \* the global of client.cpp
    call,         \* per start: its arguments
    thread,       \* per start: the thread that made the call
    pc,           \* per start: how far the synchronous part of start() is
    url,          \* per start: the transactions URL its closures captured
    req,          \* per kind and start: the HTTP request and its answer
    runnable,     \* per start: the Runnable that owns tx_task
    queue,        \* Runnables given to execute() and not yet run
    responses,    \* per start: the calls of respond()
    updates,      \* per start: the calls of on_update() it led to
    begun,        \* the starts in the order of their m_observer assignments
    crashed       \* has a dangling reference been used, with that outcome?

startVars == <<m_observer, testnetMode, call, thread, pc, url, begun>>
taskVars == <<queue, runnable, responses, updates, crashed>>
vars == <<m_observer, testnetMode, call, thread, pc, url, req, runnable,
          queue, responses, updates, begun, crashed>>

Stages == {"idle", "bound", "network", "url", "returned"}

\* Every variable holds values of its kind.
TypeOK ==
    /\ m_observer \in [Handles -> Observers \cup {Nothing}]
    /\ testnetMode \in BOOLEAN
    /\ call \in [Starts -> Calls \cup {Nothing}]
    /\ thread \in [Starts -> Threads \cup {Nothing}]
    /\ pc \in [Starts -> Stages]
    /\ url \in [Starts -> Urls \cup {Nothing}]
    /\ req \in [Kinds -> [Starts -> Requests \cup {Nothing}]]
    /\ runnable \in [Starts -> {"none", "live", "freed"}]
    /\ queue \in Seq(Tasks)
    /\ responses \in [Starts -> Seq(Responses)]
    /\ updates \in [Starts -> Seq(Updates)]
    /\ begun \in Seq(Starts)
    /\ crashed \in BOOLEAN

Init ==
    /\ m_observer = [h \in Handles |-> Nothing]
    /\ testnetMode = FALSE
    /\ call = [s \in Starts |-> Nothing]
    /\ thread = [s \in Starts |-> Nothing]
    /\ pc = [s \in Starts |-> "idle"]
    /\ url = [s \in Starts |-> Nothing]
    /\ req = [k \in Kinds |-> [s \in Starts |-> Nothing]]
    /\ runnable = [s \in Starts |-> "none"]
    /\ queue = <<>>
    /\ responses = [s \in Starts |-> <<>>]
    /\ updates = [s \in Starts |-> <<>>]
    /\ begun = <<>>
    /\ crashed = FALSE

(***************************************************************************)
(* Scheduling.                                                             *)
(***************************************************************************)

InStart(s) == pc[s] \in {"bound", "network", "url"}

Busy(t) == \E s \in Starts : InStart(s) /\ thread[s] = t

\* No native frame of the core is left on the one JavaScript stack.
StackEmpty == Inline => queue = <<>> /\ ~Busy(Main)

\* The thread goes on with the call of start() it is in.
Step(s, from, to) ==
    /\ ~crashed
    /\ pc[s] = from
    /\ pc' = [pc EXCEPT ![s] = to]

(***************************************************************************)
(* start(), split where another thread could interfere: it writes          *)
(* m_observer and the global testnetMode, which get_transactions and       *)
(* get_token each read again.                                              *)
(***************************************************************************)

\* The URL of a request under the current testnetMode.
UrlFor(addresses) == [testnet |-> testnetMode, addresses |-> addresses]

\* Http::get on a fresh HttpCallback: the request is on its way.  Variant: the
\* headers are left out.
HeaderlessGet(k, s, u, header) ==
    req' = [req EXCEPT ![k][s] = [url |-> u, header |-> Nothing, reply |-> Nothing]]
Http_get(k, s, u, header) ==
    req' = [req EXCEPT ![k][s] = [url |-> u, header |-> header, reply |-> Nothing]]

\* A handle keeps one observer, the last it was given.  Variants: it keeps the
\* first one; all handles share one.
BindFirstObserver(h, o) ==
    m_observer' = [m_observer EXCEPT ![h] = IF @ = Nothing THEN o ELSE @]
BindEveryHandle(h, o) == m_observer' = [any \in Handles |-> o]
BindNoObserver(h, o) == UNCHANGED m_observer
BindObserver(h, o) == m_observer' = [m_observer EXCEPT ![h] = o]

\* The network of a call.  Variants: testnetMode is never reset; it is inverted.
StickyTestnetMode(s) == testnetMode \/ call[s].coin_type = 1
InvertedTestnetMode(s) == call[s].coin_type # 1
TestnetModeOf(s) == call[s].coin_type = 1

\* A thread calls start(): line 25.
StartCall(t, s, c) ==
    /\ ~Busy(t)
    /\ t = Main => StackEmpty
    /\ ~RestartAllowed =>
          \A i \in 1..Len(begun) : call[begun[i]].handle # c.handle
    /\ Step(s, "idle", "bound")
    /\ call' = [call EXCEPT ![s] = c]
    /\ thread' = [thread EXCEPT ![s] = t]
    /\ BindObserver(c.handle, c.observer)
    /\ begun' = Append(begun, s)
    /\ UNCHANGED <<testnetMode, url, req, taskVars>>

\* Line 32.
SetTestnetMode(s) ==
    /\ Step(s, "bound", "network")
    /\ testnetMode' = TestnetModeOf(s)
    /\ UNCHANGED <<m_observer, call, thread, url, begun, req, taskVars>>

\* get_transactions builds the URL its continuation will use.
get_transactions(s) ==
    /\ Step(s, "network", "url")
    /\ url' = [url EXCEPT ![s] = UrlFor(call[s].addresses)]
    /\ UNCHANGED <<m_observer, testnetMode, call, thread, begun, req, taskVars>>

\* get_token sends the first request, and start() returns.
get_token(s) ==
    /\ Step(s, "url", "returned")
    /\ Http_get("token", s, UrlFor(Nothing), Nothing)
    /\ UNCHANGED <<m_observer, testnetMode, call, thread, url, begun, taskVars>>

(***************************************************************************)
(* The HTTP implementation answers a request (on a network thread, or from *)
(* the event loop), once.                                                  *)
(***************************************************************************)

\* What the server may send: the transactions are those of the URL asked.
Bodies(k, s) ==
    {resp \in HttpResponses(k) :
        /\ ~resp.error
        /\ k = "txs" /\ resp.json = "object" => resp.value = req[k][s].url}

\* HttpCallback::_cb_with: the continuation goes to the main context.
cb_with(k, s, resp) ==
    queue' = Append(queue, [kind |-> k, start |-> s, resp |-> resp])

\* The request has not been answered.  Variant: it may be answered again.
Sent(k, s) == req[k][s] # Nothing
Waiting(k, s) == req[k][s] # Nothing /\ req[k][s].reply = Nothing

Answer(k, s, resp) ==
    /\ ~crashed
    /\ StackEmpty
    /\ Waiting(k, s)
    /\ req' = [req EXCEPT ![k][s].reply = resp]
    /\ cb_with(k, s, resp)
    /\ UNCHANGED <<startVars, runnable, responses, updates, crashed>>

on_network_error(k, s) == Answer(k, s, NetworkError)

on_success(k, s) ==
    Waiting(k, s) /\ \E body \in Bodies(k, s) : Answer(k, s, body)

(***************************************************************************)
(* The main thread runs the oldest task.                                   *)
(***************************************************************************)

\* The head of the queue is a task of this kind for s, and Main may run it.
Runs(kind, s) ==
    /\ ~crashed
    /\ ~Busy(Main)
    /\ queue # <<>>
    /\ Head(queue).kind = kind
    /\ Head(queue).start = s

\* ExecutionContext::execute, the last thing the running task does.
execute(task) == queue' = Append(Tail(queue), task)

respond(s, error, result) ==
    responses' = [responses EXCEPT ![s] =
                    Append(@, [error |-> error, result |-> result])]

\* The continuation of the first answer owns its HandleResponse, that of the
\* second one an error only refers to: once tx_task's Runnable is freed, using
\* it may work by luck or end the process.  Variants: the answer is left out; a
\* missing return gives it twice.
respondNever(s, error, result) == UNCHANGED <<responses, crashed>>
respondTwice(s, error, result) ==
    /\ responses' = [responses EXCEPT ![s] =
            @ \o <<[error |-> error, result |-> result],
                   [error |-> error, result |-> result]>>]
    /\ UNCHANGED crashed
respondByReference(s, error, result) ==
    \/ /\ respond(s, error, result)
       /\ UNCHANGED crashed
    \/ /\ runnable[s] = "freed"
       /\ crashed' = TRUE
       /\ UNCHANGED responses
respondByCopy(s, error, result) ==
    respond(s, error, result) /\ UNCHANGED crashed

\* HttpResponse::error_message is never set: a network error is answered "".
\* Variant: the parser's message is not passed on either.
NoErrorOf(resp) == ""
ErrorOf(resp) == IF resp.error THEN "" ELSE "parse error"

Failed(resp) == resp.error \/ resp.json = "invalid"

\* get_token's continuation cannot use the answer.
TokenFailure(s) ==
    /\ Runs("token", s)
    /\ Failed(Head(queue).resp)
    /\ respondByCopy(s, ErrorOf(Head(queue).resp), Nothing)
    /\ queue' = Tail(queue)
    /\ UNCHANGED <<startVars, req, runnable, updates>>

\* get_token's continuation hands tx_task to the background context.
TokenReceived(s) ==
    /\ Runs("token", s)
    /\ ~Failed(Head(queue).resp)
    /\ execute([kind |-> "inject", start |-> s, token |-> Head(queue).resp.value])
    /\ runnable' = [runnable EXCEPT ![s] = "live"]
    /\ UNCHANGED <<startVars, req, responses, updates, crashed>>

\* What becomes of a Runnable once it ran.  Variant: no binding keeps it.
RunnableCollected == "freed"
RunnableAfterRun == IF WrappersPinned THEN "live" ELSE "freed"

\* The URL that tx_task captured.  Variant: that of the latest start().
LatestUrl(s) == url[begun[Len(begun)]]
CapturedUrl(s) == url[s]

\* tx_task sends the second request; its own Runnable, with the HandleResponse
\* the next continuation refers to, then lives on only if the binding keeps it.
tx_task(s) ==
    /\ Runs("inject", s)
    /\ Http_get("txs", s, CapturedUrl(s), Head(queue).token)
    /\ runnable' = [runnable EXCEPT ![s] = RunnableAfterRun]
    /\ queue' = Tail(queue)
    /\ UNCHANGED <<startVars, responses, updates, crashed>>

\* The second continuation cannot use the answer.
TxsFailure(s) ==
    /\ Runs("txs", s)
    /\ Failed(Head(queue).resp)
    /\ respondByReference(s, ErrorOf(Head(queue).resp), Nothing)
    /\ queue' = Tail(queue)
    /\ UNCHANGED <<startVars, req, runnable, updates>>

\* JSON that is not an object is dropped without an answer.
TxsNotObject(s) ==
    /\ Runs("txs", s)
    /\ Head(queue).resp.json = "other"
    /\ queue' = Tail(queue)
    /\ UNCHANGED <<startVars, req, runnable, responses, updates, crashed>>

\* The observer gets the list in a task of its own.  Variant: the test for the
\* main context is inverted.
NotifyNobody(s, observer, txs) == queue' = Tail(queue)
Notify(s, observer, txs) ==
    execute([kind |-> "update", start |-> s,
             update |-> [observer |-> observer, txs |-> txs]])

\* The list answers the HandleResponse, then goes to the observer that the
\* handle has by now.
TxsReceived(s) ==
    /\ Runs("txs", s)
    /\ Head(queue).resp.json = "object"
    /\ respondByCopy(s, "", Head(queue).resp.value)
    /\ Notify(s, m_observer[call[s].handle], Head(queue).resp.value)
    /\ UNCHANGED <<startVars, req, runnable, updates>>

on_update(s) ==
    /\ Runs("update", s)
    /\ updates' = [updates EXCEPT ![s] = Append(@, Head(queue).update)]
    /\ queue' = Tail(queue)
    /\ UNCHANGED <<startVars, req, runnable, responses, crashed>>

(***************************************************************************)
(* The specification.                                                      *)
(***************************************************************************)

StartStep(s) == SetTestnetMode(s) \/ get_transactions(s) \/ get_token(s)

RunTask(s) ==
    TokenFailure(s) \/ TokenReceived(s) \/ tx_task(s) \/ TxsFailure(s)
        \/ TxsNotObject(s) \/ TxsReceived(s) \/ on_update(s)

NetworkStep(k, s) == on_network_error(k, s) \/ on_success(k, s)

Next ==
    \E s \in Starts :
        \/ \E t \in Threads, c \in Calls : StartCall(t, s, c)
        \/ StartStep(s)
        \/ \E k \in Kinds : NetworkStep(k, s)
        \/ RunTask(s)

Spec == Init /\ [][Next]_vars

(***************************************************************************)
(* Safety.                                                                 *)
(***************************************************************************)

\* A call of start() is answered at most once, and leads to at most one
\* on_update, whatever the order in which the two requests of every call and
\* the tasks of the main loop interleave (client.cpp 38-54 and 93-122).
AnsweredAtMostOnce ==
    \A s \in Starts : Len(responses[s]) <= 1 /\ Len(updates[s]) <= 1

\* The observer is shown only what the HandleResponse of the same call was
\* given before as a result, and nothing after an error
\* (transaction_list_vm.cpp 52-66).
UpdateFollowsAnswer ==
    \A s \in Starts : updates[s] # <<>> =>
        responses[s] # <<>>
            /\ responses[s][1] = [error |-> "", result |-> updates[s][1].txs]

\* The second request carries the token this call was given, although other
\* calls were given theirs in between (client.cpp 87-93).
OwnToken ==
    \A s \in Starts : req["txs"][s] # Nothing =>
        /\ req["token"][s] # Nothing
        /\ req["token"][s].reply # Nothing
        /\ ~Failed(req["token"][s].reply)
        /\ req["txs"][s].header = req["token"][s].reply.value

\* A call is answered with, and its observer shown, the transactions of its own
\* addresses (client.cpp 66-79, transaction_list_vm.cpp 34-62).
OwnAddresses ==
    \A s \in Starts :
        /\ \A i \in 1..Len(responses[s]) : responses[s][i].result # Nothing =>
              responses[s][i].result.addresses = call[s].addresses
        /\ \A i \in 1..Len(updates[s]) :
              updates[s][i].txs.addresses = call[s].addresses

\* Both requests of a call go to the network its options name, although the
\* network is a global that every start() overwrites.  Holds when start() is
\* called from one thread only (transaction_list_vm.cpp 32, client.cpp 33, 66).
OwnNetwork ==
    \A k \in Kinds, s \in Starts : req[k][s] # Nothing =>
        (req[k][s].url.testnet <=> call[s].coin_type = 1)

\* Even when several threads call start(), a request goes to a network that some
\* call named: callers that agree on one all get it (client.cpp 16, 33, 66).
NetworkOfSomeCall ==
    \A k \in Kinds, s \in Starts : req[k][s] # Nothing =>
        \E other \in Starts :
            /\ call[other] # Nothing
            /\ req[k][s].url.testnet <=> call[other].coin_type = 1

\* The observer is that of the call s, or of a later start() of its handle.
NotOutdated(s, observer) ==
    \E i, j \in 1..Len(begun) :
        /\ begun[i] = s
        /\ i <= j
        /\ call[begun[j]].handle = call[s].handle
        /\ call[begun[j]].observer = observer

\* A list never goes to an observer that had been replaced before its call: it
\* goes to that of the call itself or of a later start() of the same handle
\* (transaction_list_vm.cpp 25 and 57).
ObserverNotOutdated ==
    \A s \in Starts : updates[s] # <<>> => NotOutdated(s, updates[s][1].observer)

\* With a fresh handle for each call, as index.js has, the list goes to the
\* observer of the call (index.js 79-99).
OwnObserver ==
    \A s \in Starts : updates[s] # <<>> =>
        updates[s][1].observer = call[s].observer

\* The reference to the HandleResponse that the second continuation captured is
\* valid whenever it is used (client.cpp 93-107 and the binding's wrap()).
NoDanglingUse == ~crashed

\* Where the binding frees a Runnable once it ran, only a failure of the second
\* request can use the dangling reference (client.cpp 91-107).
CrashOnlyOnTxsFailure ==
    crashed => \E s \in Starts :
        /\ req["txs"][s] # Nothing
        /\ req["txs"][s].reply # Nothing
        /\ Failed(req["txs"][s].reply)

(***************************************************************************)
(* Liveness.                                                               *)
(***************************************************************************)

\* The second answer was JSON but not an object: the core drops the call.
Dropped(s) ==
    /\ req["txs"][s] # Nothing
    /\ req["txs"][s].reply # Nothing
    /\ req["txs"][s].reply.json = "other"

\* Every call of start() is answered, unless its list was no JSON object
\* (client.cpp 27-127).
EveryCallAnswered ==
    \A s \in Starts :
        pc[s] # "idle" ~> responses[s] # <<>> \/ Dropped(s) \/ crashed

\* Every call answered with a list also leads to an on_update
\* (transaction_list_vm.cpp 53-67).
EveryListShown ==
    \A s \in Starts :
        (responses[s] # <<>> /\ responses[s][1].result # Nothing)
            ~> (updates[s] # <<>> \/ crashed)

(***************************************************************************)
(* Refinement.                                                             *)
(***************************************************************************)

Wanted(c) == [testnet |-> c.coin_type = 1, addresses |-> c.addresses]

\* A caller sees of a start its answer, provided it is the list it asked for.
StatusOf(s) ==
    CASE pc[s] = "idle" -> "idle"
      [] pc[s] # "idle" /\ responses[s] = <<>> -> "pending"
      [] responses[s] # <<>> /\ responses[s][1].result = Nothing -> "refused"
      [] OTHER -> IF responses[s][1] # [error |-> "", result |-> Wanted(call[s])]
                  THEN "wrong answer"
                  ELSE IF updates[s] = <<>> THEN "satisfied" ELSE "shown"

Contract == INSTANCE FetchContract WITH
    asked  <- call,
    status <- [s \in Starts |-> StatusOf(s)],
    shown  <- [s \in Starts |->
                 IF updates[s] = <<>> THEN Nothing ELSE updates[s][1]]

\* The core keeps the promise of start(): one answer, an error or the caller's
\* own list, and then at most one on_update with that list
\* (transaction_list_vm.cpp 21-70 over client.cpp 27-127).
KeepsContract == Contract!Spec
=============================================================================
