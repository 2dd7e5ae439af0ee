# Verification of the Ledger test library

The repository is a small C++ client that fetches the transactions of a list of
bitcoin addresses, with bindings that let it run under Node.js (`index.js`,
`nodejs/gen`), iOS (`objc`, `example_ios`) and, in part, Android. The C++ core
owns no thread and no socket: it asks the platform for an HTTP client and for
execution contexts, and is a chain of callbacks that the platforms call, each
with its own idea of when and on which thread.

This directory holds TLA+ models of that chain and of what surrounds it, the
TLC configurations that check them, and proofs that TLAPS checks.

## Inventory

| Component | State it keeps | Operations | Talks to |
|---|---|---|---|
| Core: `client.cpp`, `transaction_list_vm.cpp`, `http_callback.cpp`, `http.cpp` | `testnetMode` (a global), `m_observer` of each handle, what closures captured | `start`, `get_transactions`, `get_token`, `on_success`, `on_network_error`, `tx_task`, the task that calls `on_update` | HTTP client, execution contexts, `HandleResponse`, observer |
| `index.js` | the promise of each call, the cache of contexts | `getTransactions`, `respond`, the axios handlers | core through the binding, axios |
| Node.js binding: `nodejs/gen` | per object its JavaScript half, its references and whether C++ implements it; control blocks over the JavaScript implementations | `New`, `addRef`, `removeRef`, `wrap`, one method per interface method | core, `index.js` |
| iOS: `LGExecutionContextObjc`, `LGThreadDispatcherObjc`, `LGLockObjc` | delayed Runnables, `isRunning`, the lock, cached contexts | `execute:`, `delay:`, `waitUntilStopped`, `getSerialExecutionContext:` | main dispatch queue |
| iOS: `LGHttpObjc` | none | `get:` | NSURLSession |
| Android: `AndroidHttp` | a thread pool and its queue | `get` | HttpURLConnection |
| iOS example: `LGSampleDataTableViewController`, `ViewController` | the handle, the list shown | `viewWillAppear:`, `viewWillDisappear:`, `onUpdate:`, the table's data source | core through the Djinni bridge, UIKit |
| `TransactionListVm` | an immutable vector | `count`, `getTransaction`, which checks nothing | the table, a JavaScript program |
| `Api` | HTTP client and dispatcher, set once | `observer_transaction_list` makes a handle | core |
| Records, JSON parser, build files | none that changes | construction, parsing | |

A call goes like this. `start()` stores the observer in the handle, sets the
global `testnetMode` from the options, builds the URL of the transactions and
sends a first request for a sync token. The answer comes back on a thread of the
HTTP client; `HttpCallback` puts the continuation in a Runnable and gives it to
the main context. The continuation either answers the caller's `HandleResponse`
with an error, or gives `tx_task` to the background context, which sends the
second request with the token in its header. That answer takes the same way
back; it answers the `HandleResponse` and, after a list, a last Runnable calls
`on_update` of the observer the handle has by then.

What is hard about it:

* any number of calls overlap, on one handle (the iOS example restarts its
  handle) or several, and every answer may come at any time, fail, be invalid
  JSON, or be JSON of the wrong shape;
* what was captured by value, by reference, or is read again when a continuation
  runs, decides which call it serves: `testnetMode` and `m_observer` are read
  late, and the second continuation refers to a `HandleResponse` inside a closure
  that its Runnable owns;
* the platforms differ: `index.js` runs a Runnable inside `execute`, iOS appends
  it to the main queue; the Node.js binding keeps every closure it ever wrapped,
  the Djinni bridge of iOS frees a Runnable once it ran;
* exceptions thrown by JavaScript callbacks leave through C++ frames into an
  axios handler;
* a JavaScript implementation passed to C++ twice is owned by two control blocks
  that know nothing of each other, and the program can give back the reference
  that keeps it alive;
* a list replaces another while a table that has counted its rows is on the
  screen, and nothing checks an index; a stopped handle goes on.

Correctness, per component: every call is answered exactly once, with its own list
or an error, and shown a list only after it was answered with it (core); a promise
is settled accordingly (`index.js`); nothing that is still reachable is deleted as
long as the program keeps to rules that can be named (binding); a delayed Runnable
runs once and not too early (iOS context); every request is answered (HTTP
clients); the table asks only for rows that exist, and shows one list, of its own
address (iOS example). PROJECT.json lists the hazards line by line.

## Modules

| Module | What it is |
|---|---|
| `LedgerClient` | the core, with the platform as parameters; its properties |
| `FetchContract` | what one call promises its caller: the abstract specification |
| `LedgerClientInv` | the inductive invariants `LInv`, `DataInv` and `NetworkInv` of `LedgerClient`, together `Sound` |
| `LedgerClientProofs` | `LInv` is inductive, and the answer discipline; `DataInv`: tokens, addresses, observers, the dangling reference; `NetworkInv`: `testnetMode`, and with it `Sound`; the core implements `FetchContract`; no call is forgotten |
| `NodeClient`, `NodeClientProofs` | `index.js` over `LedgerClient`: promises, axios handlers, exceptions |
| `PromiseContract` | what `getTransactions` of `index.js` promises a JavaScript program: the abstract specification of `NodeClient` |
| `NodeBinding`, `NodeBindingProofs` | the objects of `nodejs/gen` under any program and any C++ code |
| `NodeLifetime`, `NodeLifetimeProofs` | the control blocks of `nodejs/gen` over `LedgerClient` |
| `ObjcContext`, `ObjcContextProofs` | `delay:` and `waitUntilStopped` of the iOS context, and its lock |
| `ObjcTable`, `ObjcTableProofs` | the controllers and tables of the iOS example over `FetchContract` |
| `ObjcApp`, `ObjcAppProofs` | the same controllers over `LedgerClient` itself, on the main queue |
| `AndroidHttp`, `AndroidHttpProofs` | the Android HTTP client and its executor |
| `MCLedgerClient`, `MCNodeClient`, `MCNodeBinding`, `MCNodeLifetime`, `MCObjcContext`, `MCObjcTable`, `MCObjcApp`, `MCAndroidHttp` | the instances TLC runs |

`NodeClient`, `NodeLifetime` and `ObjcApp` extend the core and take its steps;
`ObjcTable` replaces the core by `FetchContract`, which `ContractKept` justifies.
Three refinements tie the layers: the core implements `FetchContract`, `NodeClient`
implements `PromiseContract`, which extends it, and `ObjcApp` implements
`ObjcTable`.

### LedgerClient

A member of `Starts` is one call of `start()`. The variables are the program's
(`m_observer`, `testnetMode`), what closures captured (`call`, `url`), the
requests with their answers (`req`, per kind and call), the Runnables given to a
context and not yet run (`queue`), and the history that the properties need
(`responses`, `updates`, `begun`).

| Action | Code |
|---|---|
| `StartCall`, `SetTestnetMode`, `get_transactions`, `get_token` | `start()` in the four steps between which another thread could run: it writes the observer, writes `testnetMode`, reads it for one URL, reads it for the other and sends the first request |
| `on_network_error`, `on_success` | the HTTP client answers; `_cb_with` queues the continuation |
| `TokenFailure`, `TokenReceived` | the continuation of the first request |
| `tx_task` | the second request is sent |
| `TxsFailure`, `TxsNotObject`, `TxsReceived` | the continuation of the second request |
| `on_update` | the last task |

`Inline = TRUE` is `index.js`, whose `execute` runs the Runnable at once. Every
`execute` of the core is the last thing its caller does, so running inline is
running the queued task before anything else: `StackEmpty` keeps other events out
until the queue is empty. `Inline = FALSE` is the main queue of iOS, which has
more than one task and whose HTTP answers come on other threads. A reentrant
`start()` from within `respond()` has the effect of one just before or after it.

`WrappersPinned` says whether the binding keeps a Runnable that ran. If not, the
closure of `tx_task` is freed, and the second continuation's use of `response`,
captured by reference, is undefined: `respondByReference` lets it work by luck or
end the process (`crashed`).

Data is abstracted to what the properties tell apart: a list of addresses and a
token are model values, the list the server returns is named by the URL that was
asked, a body is invalid JSON, an object or other JSON. The status code is left
out because no code looks at it. The HTTP client and the contexts are never null
(`index.js` and the iOS example always pass them), nor is the observer.

### NodeClient

Adds the promise of each call and the axios handler that is running. A task runs
within the handler; if `respond()` throws (`JSON.parse` of an empty result) the
exception leaves with the handler: out of a `.then` it would reach the `.catch`
behind it, out of the `.catch` it is an unhandled rejection. What the `.catch`
would do after a throwing `.then` is not modelled, since `NoSecondCallback` shows
that it never comes to that. The binding does not look at an exception: it returns
into the core with the exception pending, and any further call into JavaScript
would be made with it. `NothingRunsAfterThrow` says that no Runnable is left to run
then: what throws is the last thing its handler does.

`PromiseContract` is what is left of it for a JavaScript program: it asks, the
promise is resolved with the list of its own call, or rejected, or the error has no
message and it stays pending for ever (`LoseError`); then the observer of the call
is shown the list. `KeepsPromise` says that `NodeClient` does nothing else.

### NodeBinding

The objects of the eleven classes of `nodejs/gen`, apart from the core: any program
may make them, pass them, use them and lose them, and C++ code that was given one
may call any of its methods and let go of it. A proxy is a JavaScript
implementation of an interface, a wrapper stands for a C++ one. `Class` is a
sample of the objects a program has: the module is about every sample, and each
object has its own references (`refs`), control blocks (`blocks`) and two ways to
end: `freed` when its C++ half is deleted, by a control block or by the garbage
collector, `collected` when the program cannot reach it any more.

Each method of the generated files is an action named for it; methods that do the
same with the objects share `Method`, `CallVoid`, `CallWith`, `CallForValue` and
`CallForProxy`. A process ends `undefined` when a deleted half is used, and
`aborted` when a method with a result throws or `Unref` finds no reference.

`breaches` records what a program did that the generated code does not allow for:
it passed a proxy a second time (`shared`), left one that C++ holds without a
reference (`weak`), touched one after C++ had got it (`touched`), gave back a
reference it did not have (`unbalanced`), or asked for a row that does not exist
(`index`). `UndefinedOnlyAfterBreach` says that a program without any of these
never meets undefined behaviour; that is not to say that each of them leads there.
`index.js` commits one of them: its dispatcher caches a context and returns it for
every call. `NodeLifetime` is about whether that does harm: it does not, since the
closures that hold those control blocks are wrapped and never released.
`WrappersLive`, that no wrapper with an implementation is ever collected, is what
`WrappersPinned = TRUE` and `NodeLifetime` rest on.

### NodeLifetime

Adds the closures whose wrappers live, and the proxies that a control block
deleted. Who holds a block follows from the state of the core: `m_observer`, the
frames of `start()`, and the closures in `wrappers`. The steps are those of the
core, and after each of them a block without a holder deletes its proxy. Its
caller is any user of the binding: it makes a new observer for each call, as
`index.js` does, but may restart a handle, as the iOS example does. `ObserversLive`
is about the calls that are still to come: neither an observer that a handle names
nor one that a queued update task captured may have been deleted.

### ObjcContext

The other half of `LGExecutionContextObjc`; its `execute:` is the queue of
`LedgerClient`. Nothing in the repository calls `delay:` or `waitUntilStopped`
yet, but `delay:` is part of the interface that the core gets and
`waitUntilStopped` is public, so the model lets any number of threads call them.
Each `lock`, each `unlock` and what lies between them are actions of their own, as
is the count that is read without the lock. An array of the dictionary is an
object of its own, named by the Runnable it was created for, because `delay:` may
hold one that `waitUntilStopped` has just removed.

The block of every timer unlocks a lock that the main thread does not hold. For
an `NSLock` that is undefined; `Unlock` lets it do nothing, or free the lock under
whoever holds it. The history variable `broken` says that the latter happened, and
the safety properties say what holds until then: without that escape TLC refutes
`NothingLost`, `RunsOnce` and `CrashOnlyIfBroken`. `late` remembers what was added
after a waiter read the count. The clock counts nanoseconds and passes only while
a timer waits for it.

### ObjcTable

Controllers of the iOS example, each with the handle that
`observer_transaction_list` makes for it and itself as the observer. The user opens
a history, leaves it and comes back, and each time the view appears the handle is
started again; `stop()` is empty, so that calls go on behind a view that has gone.
A call is a member of `Starts`, and a list is named by the call that brought it;
its length is chosen anew for each. `Contract!Ask`, `Refuse`, `Satisfy` and `Show`
are the steps of the core. The contract asks for one thread that calls `start()`,
which here is the main thread.

UIKit is external: after `reloadData` the table
forgets its cells, asks for the number of rows at once or when it lays itself out,
and then for any row below that number, in any order and again. What
`getTransaction` yields behind the end of a list is `"undefined"`.

The example still calls `start()` with the two arguments of an earlier interface.
The model calls today's, with any coin type, since the properties are about what
happens to the list.

### ObjcApp

`ObjcTable` trusts the contract; `ObjcApp` puts the same controllers over the core:
`viewWillAppear` is a `StartCall`, and the update task of the core calls `Receive`.
The main thread is one thread: while it is in `start()`, or after the dangling
reference ended the process (`crashed`), the user, UIKit and the queue wait
(`MainFree`, and the guards of the core). `ImplementsTable` is the refinement: what
the controllers see of the core through `StatusOf` is a behaviour of `ObjcTable`.

### AndroidHttp

A `ThreadPoolExecutor` with an unbounded queue never grows beyond its core, here
one thread, whatever its maximum; so a request runs or waits, and the thread that
ends one takes the next. `run()` catches two exceptions and calls
`onNetworkError`; any other, as of a URL that is not HTTP, leaves the thread,
since the request was given to `execute()`, and the default handler of Android
ends the process (`Die`). The executor replaces the thread meanwhile, so that
between the exception and the end (`dying`) the next request may still run.
`CalledBackUnlessStalled` therefore counts a request as done only when its
callback was called. The executor is modelled from the arguments `AndroidHttp`
gives it. The Android binding has no generated classes and no execution context in the
repository, so the module stands alone.

## Runs

| Run | Instance | Shows |
|---|---|---|
| `Node` | `NodeClient`: inline, pinned, one thread, a fresh handle per call, fair | `KeepsPromise`: `index.js` implements `PromiseContract`, observers included; `OwnNetwork`, `NoDanglingUse`: overlapping calls do not mix and no reference dangles; `EveryListShown`; `AnswersSettle`: a promise waits for nothing but the server, and every answer takes its call on, except those of the two violated runs; `NoSecondCallback`, `NothingRunsAfterThrow`: what becomes of exceptions; `PromiseInv`, the inductive invariant |
| `NodeNetworkError` | `NodeClient`, fair | violated: a network error does not reject the promise |
| `NodeNotObject` | `NodeClient`, fair | violated: two successful requests need not settle it |
| `ClientThreads` | main queue, Runnables freed, restarts, two threads call `start()` | `Sound`: the inductive invariants of the proofs; `NeverForgotten`: something that is still to happen goes on with every unanswered call and every unshown list; `AnsweredAtMostOnce`, `UpdateFollowsAnswer`; `ObserverNotOutdated`: a list never goes to an observer replaced before its call; `CrashOnlyOnTxsFailure`: the dangling reference is used only if the second request fails; `OwnToken`, `OwnAddresses`; of the network only `NetworkOfSomeCall` |
| `ObjcApp` | `ObjcApp`: main queue, Runnables freed, two controllers, one thread, fair | `EveryCallAnswered`, here unless the process crashed; `KeepsContract`: the core implements `FetchContract`; `ImplementsTable`: the example over the core implements `ObjcTable`; `ListReachesTable`: a list that was answered becomes that of its own controller, also after an earlier one, and its rows are counted while the view is on the screen |
| `NodeBinding` | one object of each class that takes part in a call, and a lock | `BInv`, `DanglingOnlyIfSharedOrWeak`, `UndefinedOnlyAfterBreach`, `WrappersLive` |
| `NodeLifetime` | three calls on two handles | `ObserversLive`: no observer that is still to be called was deleted; `OnlyReplacedDeleted`; `LifeInv`, the inductive invariant |
| `ObjcDelay` | two Runnables, two threads in `delay:`, one in `waitUntilStopped`, fair | `CrashOnlyIfBroken`, `WaitReturns`, `SeenRunnablesRun` |
| `ObjcWaiters` | two Runnables, two threads in `delay:`, two in `waitUntilStopped` | `ContextInv`, the inductive invariant; `NothingLost`, `RunsOnce`, `LeavesOnlyLate` |
| `ObjcTooEarly` | one Runnable | violated: a delayed Runnable runs too early |
| `ObjcTable` | two controllers, two calls, lists of up to two rows | `TableInv`; `CellsCurrent`: no cell from behind the end of a list or from a replaced one; `OwnList` |
| `AndroidHttp` | four requests, fair | `EndInOrder`; `CalledBackUnlessStalled`: the callback of a request is called unless it or an earlier one stalls, or the process ends |

Three disagreements with what the repository says were met:

* A network error leaves the promise pending. `HttpCallback::on_network_error`
  drops its message, so `respond()` gets an empty error and an empty result,
  takes it for a success, and throws in `JSON.parse`; the handler it throws out of
  is axios's `.catch`. `test.js` ends its call with `.catch(err => {`.
* A list that is JSON but no object is dropped at `client.cpp:108`, and the
  promise stays pending as well.
* `waitUntilStopped` divides the milliseconds by 1000 and hands the quotient to
  `dispatch_time` as nanoseconds, where `async.djinni` says `millis`.

### Bounds

Two calls suffice for the core: a property relates a call to at most one other
(whose token, URL, observer or network it could get), and two calls already give
all interleavings of their eight continuations. Two handles and two observers let
the calls share both, one, or neither; two lists of addresses and two coin types
let them differ or agree; in `ClientThreads` two tokens are a real one and the
empty one that a body without a token reads as, while `Node`, whose properties are
not about tokens, has one. The proofs lift these bounds. `NodeBinding` has
`MaxRefs = 1`, since all that matters of references is whether there is one,
`MaxBlocks = 2`, so that a proxy can be shared, and `MaxBreaches = 2`, so that two
breaches can combine. `ObjcTable` has two controllers, so that a list could go to
the wrong one, two calls, so that one can replace the list of the other, and
`MaxRows = 2`, so that the second list can be shorter than the first and not
empty. `ObjcApp` has the same controllers and calls, which may both be of one
controller or one of each, and lists of at most one row; its address, coin type and
token are single, since `ObjcTable`, `Node` and `ClientThreads` vary them and what
it asks is what the queue, the network and a crash do to the controllers. `NodeLifetime` has three calls and three observers, so that a handle can be
restarted twice or a third call interfere. `ObjcContext` needs two Runnables in
one array, one in each of two, or one that is enumerated and one that comes late;
`ObjcWaiters` uses delays that are both due at once, which still allows every
order, since a timer may fire any time later. `WaitReturns` is checked with one
waiter: a second that calls `waitUntilStopped` over and over sets `isRunning`
again and can keep the first from returning. Elsewhere no counter had to be
bounded: each call is made once, and its chain is finite. That is also why
`CHECK_DEADLOCK` is `FALSE` everywhere: when all calls are through, and in
`NodeBinding` when the process has ended, the model stops.

Symmetry is used in the runs of invariants only, over sets whose members nothing
in the code distinguishes.

### Fairness

Weak fairness, per call, of: a thread inside `start()` goes on; the main loop runs
its next task (a dispatch queue and the event loop do). In `ObjcApp` also: the HTTP
client answers each request, if only with an error, since `LGHttpObjc` uses an
NSURLSession, whose requests time out by default; and UIKit lays out a table that
is on the screen. In `NodeClient` nothing is assumed of an answer: `index.js` gives
axios no timeout and axios has none of its own, so that a server that accepts a
request and is silent leaves the promise pending for good, and the two handlers,
`Then` and `Catch`, may never run. `AnswersSettle` begins at the answers
that came. In `ObjcContext` a thread inside a method goes on, time passes and the
main queue runs the timers that are due; in `AndroidHttp` a request ends unless its
server stalls, for which the code sets no timeout, and the handler of an exception
ends the process. Nothing is assumed about the caller, which need not make any
call, or about which answer comes.

## Proofs

TLC checks the instances above; the theorems hold for every value of the constants
that satisfies the assumptions the modules name (TLC evaluates those too).

| Module | Theorem | Statement | Condition |
|---|---|---|---|
| `LedgerClientProofs` | `LInvHolds` | `Spec => []LInv` | |
| | `AnswersOnce` | `[]AnsweredAtMostOnce` | |
| | `UpdatesFollowAnswers` | `[]UpdateFollowsAnswer` | |
| | `TokensOwn`, `AddressesOwn` | `[]OwnToken`, `[]OwnAddresses` | |
| | `ObserversNotOutdated` | `[]ObserverNotOutdated` | |
| | `CrashesOnlyOnTxsFailure` | `[]CrashOnlyOnTxsFailure` | |
| | `ObserversOwn` | `[]OwnObserver` | no restarts: a handle per call |
| | `ReferencesLive` | `[]NoDanglingUse` | `WrappersPinned`: the binding keeps Runnables |
| | `SoundHolds` | `[]Sound` | |
| | `NetworksOfSomeCall` | `[]NetworkOfSomeCall` | |
| | `NetworksOwn` | `[]OwnNetwork` | one thread calls `start()` |
| | `ContractKept` | `Spec => KeepsContract` | one thread calls `start()` |
| | `CallsNeverForgotten` | `[]NeverForgotten` | |
| `NodeClientProofs` | `NodeInvHolds`, `ThenNeverThrows`, `PromisesAsAnswered`, `NothingAfterThrow` | `NodeSpec => []NodeInv`, `[]NoSecondCallback`, `[]SettledAsAnswered`, `[]NothingRunsAfterThrow` | |
| | `NodeIsCore`; with it `NodeNetworks`, `NodeReferences`, `NodeObservers` | `NodeSpec => Spec`; `[]OwnNetwork`, `[]NoDanglingUse`, `[]OwnObserver` | |
| | `PromiseInvHolds`, `NodeKeepsPromise` | `[]PromiseInv`, `NodeSpec => KeepsPromise` | |
| `NodeBindingProofs` | `BInvHolds`, `DanglingNeedsBreach`, `RulesSuffice`, `WrappersStay` | `[]BInv`, `[]DanglingOnlyIfSharedOrWeak`, `[]UndefinedOnlyAfterBreach`, `[]WrappersLive` | |
| `NodeLifetimeProofs` | `LifeInvHolds`, `ObserversAlive`, `ObserversStayLive`, `ReplacedDeleted` | `LifeSpec => []LifeInv`, `[]ObserverAlive`, `[]ObserversLive`, `[]OnlyReplacedDeleted` | |
| | `LifeIsCore`, `LifeKeepsContract` | `LifeSpec => Spec`, `LifeSpec => KeepsContract` | |
| `ObjcContextProofs` | `ContextInvHolds`, `NothingIsLost`, `RunOnce`, `OnlyLateLeft`, `CrashNeedsBroken` | `[]ContextInv`, `[]NothingLost`, `[]RunsOnce`, `[]LeavesOnlyLate`, `[]CrashOnlyIfBroken` | some thread may call `waitUntilStopped` |
| `ObjcTableProofs` | `TableInvHolds`, `CellsStayCurrent`, `ListsOwn` | `[]TableInv`, `[]CellsCurrent`, `[]OwnList` | |
| `ObjcAppProofs` | `AppIsCore`, `TableImplemented` | `AppSpec => Spec`, `AppSpec => ImplementsTable` | |
| `AndroidHttpProofs` | `RequestsEndInOrder` | `[]EndInOrder` | `CorePool = 1`, as in the code |

In every module one lemma per action says that it preserves the inductive invariant,
and a last one combines them; the theorems follow from that and from what the
invariant implies.

*The core.* `AnsweredAtMostOnce` is not inductive: it does not know that a
continuation that is about to answer has not answered yet. `LInv` adds where a call
is. It is in `start()`, waiting for one request, or in exactly one task of the
queue (`OneTaskPerCall`); the requests were sent in order (`RequestsInOrder`), and a
task stands for a request that was answered (`TasksInOrder`); a call in any of
these places is unanswered (`WaitingUnanswered`, `TasksUnanswered`), except in the
task that shows the list it was answered with. `TaskEnds` and `TaskContinues` carry
what all tasks have in common, that the head of the queue is the only task of its
call. `DataInv` adds what a call has in its hands in each place, and from when its
handle's observer is; `NetworkInv` what the writes of `testnetMode` can leave in a
URL. With one thread a call is between the write and the two reads alone, which
gives `OwnNetwork`. For the refinement every step of the core maps to one step of the
contract or to none; `Sound` says that the URL of a list is the one of its call.

`NeverForgotten` is what liveness needs of safety: unless the process ended, a call
that is not answered is in a step of `start()`, has a request that waits for its
answer, or a task in the queue, and a list that was answered is in its update task
until it is shown. Each action of `AppFairSpec` that such a call enables takes it one
place further; a chain that lost a call, as a dropped Runnable or a missing branch
would, leaves a state without any of them. The one exit that loses a call is named:
`Dropped`, a list that is no JSON object. The proof needs `LInv` and, to know
that the answer which is dropped is the one its request got, `DataInv`: a step of
one call leaves what the others have in hand alone (`OtherRemembered`), and of its own
call it removes one thing and adds the next (`SuccessorQueued`, `AnswerQueued`).

*`index.js`.* A step of `NodeClient` is a step of the core or leaves it alone, so
`Sound` holds there too, and `NodeInv` only adds the handler: at most one Runnable
is queued while one runs, in a `.catch` exactly the failure that it brought
(`TaskInHandler`). A failure is answered and queues nothing more, so what throws is
the last thing of a `.catch`, and no `.then` throws. A call without an answer has an
unsettled promise, and `Sound` says that the list it is answered with is its own.

For the refinement, `NodeInv` is too weak: it says what a settled promise has, but
not that an answer settles it, nor that a call without one is pending. `PromiseInv`
adds `PromiseKnown`, which ties the promise of each call to its `responses` in both
directions. Then a step that answers a call is `Resolve`, `Reject` or `LoseError`,
one that shows a list is `ShowOwn`, since without restarts a handle belongs to one
call, and every other step leaves the mapped variables alone. That `NodeSpec`
implements `Spec` (`NodeIsCore`) carries the theorems about the core over.

*The binding.* `BInv` says that whatever C++ owns was passed to it, and still has a
reference unless the program gave it back, that whatever a control block deleted was
passed, and that a wrapper keeps the reference it was made with; two control blocks
on one proxy, or one on a proxy without a reference, need a breach.

*The lifetimes.* `LifeInv` says that an observer which was deleted is held by nobody,
and the step that matters is that it will never be held again: its handle has a
later call (`LatestKnown`: there is a last one, which a new call only replaces), so
no answer captures it any more, and an update task that did capture it is pinned
for good (`UpdatePinned`). Since no observer is passed twice (`ObserversFresh`), an
observer stands for one call. The HandleResponses and contexts are safe because the
wrapper of the first HttpCallback never dies (`CallbackPinned`). `ObserversLive`
speaks of names where `LifeInv` spoke of holders, so `ObserversTracked` says whose
observer a name is: that of a handle belongs to its latest call, that of an update
task to the call whose block the task captured. Both are held, hence not deleted.

*The iOS context.* The first half of `ContextInv` holds whatever becomes of the lock:
an array begins with the Runnable it is named by, and no Runnable is in two arrays.
The second half, `Intact`, holds until an unlock of a timer takes the lock away:
the thread in a critical section holds the lock (`LockExcludes`), hence what it read
of the dictionary is still so (`ReadCurrent`), hence what has left the dictionary or
was passed by the enumeration is exactly what has a timer or ran (`GoneInOrder`).
`NothingLost` and `RunsOnce` follow from the last, and `LateKnown` carries
`LeavesOnlyLate` from the unlocked count to the stop. The condition is there
because with no thread in `waitUntilStopped` there is no `late` to speak of.

*The table.* A controller has its handle to itself, each call names the controller
that made it, and a count that the table holds is that of the list it shows.

*The example over the core.* `TableImplemented` maps each step: `StartCall` by a
controller to `Ask`, an answering task to `Refuse` or `Satisfy`, an update task to
`Show` with the same controller, and the other steps of the core to none. It needs
`Sound` before and after the step, which `AppIsCore` gives. What makes it more than
`ContractKept` again is `onUpdate`: the task of the core captured an observer when
the list was answered, and it has to be that of a call on the same handle. The
prover cannot cite the theorems of an instantiated module, so `TableInv`,
`CellsCurrent` and `OwnList` are not restated for `ObjcApp`: they hold of it because
`ObjcTableProofs` proves them for every behaviour of `ObjcTable`, and `TableAssumed`
shows that its assumptions hold under the substitution.

*Android.* The requests that ended, the one that runs and those that wait are, in
this order, the requests that were made (`OneAtATime`).

Left to TLC: liveness under fairness, which is out of the prover's reach:
`EveryCallAnswered`, `EveryListShown`, `AnswersSettle`, `ListReachesTable`,
`WaitReturns`, `SeenRunnablesRun` and `CalledBackUnlessStalled`. Every invariant and every
refinement that a passing run checks is proved.

## Plan

Done, in this order: the core and its contract; its proofs; `index.js`; the
lifetimes of the binding; the iOS context; the Android client; the binding by
itself; the table of the iOS example; the proofs about each of them; the contract of
`index.js`, the iOS example over the core, and their refinements. Left: for
`waitUntilStopped` and the Android executor, the safety that their liveness needs,
as `NeverForgotten` is for the core.

## Not modelled

* The Android JNI entry, which loads the library; the records and abstract classes
  that Djinni generates, which are declarations; `create_api`, which constructs;
  `Api::get_transactions`, which returns its argument.
* The JSON parser, the Djinni support code, gyp and the build files: vendored or
  configuration. What the core tells apart of a body is a value of the model.
* Of `index.js`, `getThreadPoolExecutionContext` (it calls a method that its class
  does not have), `newLock` (it returns nothing) and `delay`: the core never calls
  them, and no sequence of calls of the core reaches them.
* The cache of `LGThreadDispatcherObjc`, filled without a lock: every context runs
  its Runnables on the main queue, so two of one name behave alike, and what an
  `NSMutableDictionary` does under two writers is not in this code.
* What the Djinni bridge does with the `nil` that `LGHttpObjc` passes for a body
  that is not UTF-8: that bridge is generated code that is not in the repository.
* Of the binding, the conversion of arguments and the calls that only throw.
* In the iOS example, the registration of the cell class and the selection of a
  row, which does nothing.
