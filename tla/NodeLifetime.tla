---------------------------- MODULE NodeLifetime ----------------------------
(***************************************************************************)
(* Who owns what across the Node.js binding (nodejs/gen).  A JavaScript    *)
(* implementation (observer, HandleResponse, execution context) is a C++   *)
(* proxy; each time one is passed to C++ the binding puts the bare pointer *)
(* in a new shared_ptr, that is, in a control block of its own, and the    *)
(* first block that loses its last holder deletes the proxy whatever the   *)
(* others hold.  A C++ closure given to JavaScript (a Runnable, an         *)
(* HttpCallback) is wrapped, and what a wrapper holds lives with it.  The  *)
(* caller is any user of the binding, who may restart a handle.            *)
(***************************************************************************)
EXTENDS LedgerClient

ASSUME BindingAssumption == Inline /\ WrappersPinned

\* index.js keeps one proxy per name of a context and hands it out again.
Contexts == {"__main__", "__background__"}

ASSUME ProxyAssumption ==
    /\ Observers \cap (Contexts \cup Starts) = {}
    /\ Nothing \notin Starts

Closures == [wrapper : {"HttpCallback", "Runnable"},
             kind : {"token", "txs", "inject", "update"}, start : Starts]

VARIABLES
    wrappers,  \* the closures whose wrapper keeps them alive
    captured,  \* per start: the start whose observer its update task captured
    deleted    \* the proxies deleted: observers, contexts, and a start for
               \* the HandleResponse made for it

lifeVars == <<vars, wrappers, captured, deleted>>

\* Every variable of the binding holds values of its kind.
LifeTypeOK ==
    /\ TypeOK
    /\ wrappers \subseteq Closures
    /\ captured \in [Starts -> Starts \cup {Nothing}]
    /\ deleted \subseteq Observers \cup Contexts \cup Starts

LifeInit ==
    /\ Init
    /\ wrappers = {}
    /\ captured = [s \in Starts |-> Nothing]
    /\ deleted = {}

(***************************************************************************)
(* Holders.                                                                *)
(***************************************************************************)

\* HttpCallbacks that the HTTP client has yet to call.
CallbacksInUse ==
    {c \in Closures : /\ c.wrapper = "HttpCallback" /\ c.kind \in Kinds
                      /\ Waiting(c.kind, c.start)}

\* Runnables that have yet to run.
RunnablesInUse ==
    {c \in Closures : /\ c.wrapper = "Runnable"
                      /\ \E i \in 1..Len(queue) : /\ queue[i].kind = c.kind
                                                  /\ queue[i].start = c.start}

\* wrap() takes a reference to the wrapper that nothing gives back.  Variant: it
\* takes none, and the wrapper lives as long as JavaScript uses it.
PinInUse == wrappers' = CallbacksInUse' \cup RunnablesInUse'
Pin == wrappers' = wrappers \cup CallbacksInUse' \cup RunnablesInUse'

\* A closure of one of these kinds lives for s.
Captures(s, kinds) == \E c \in wrappers : c.start = s /\ c.kind \in kinds

StartsOf(h) == {i \in 1..Len(begun) : call[begun[i]].handle = h}

IsLast(i, h) == i \in StartsOf(h) /\ \A j \in StartsOf(h) : j <= i

Latest(h) == begun[CHOOSE i \in StartsOf(h) : IsLast(i, h)]

\* The block that start() makes for its observer: m_observer holds it, and so
\* does each update task that captured it.
ObserverHeld(s) ==
    \/ InStart(s)
    \/ Latest(call[s].handle) = s
    \/ \E other \in Starts :
          captured[other] = s /\ Captures(other, {"update"})

\* The block that start() makes for its HandleResponse: both continuations and
\* tx_task capture the callback of start(), which captures the HandleResponse.
ResponseHeld(s) == InStart(s) \/ Captures(s, {"token", "inject", "txs"})

\* The block that getSerialExecutionContext makes for main_context, which the
\* callback of start() captures as well.
MainContextHeld(s) == ResponseHeld(s)

\* back_context: captured by the continuation of the first request.
BackContextHeld(s) == pc[s] # "returned" \/ Captures(s, {"token"})

\* The proxies that a block without a holder deletes.
Released ==
    LET made == {s \in Starts : pc[s] # "idle"}
    IN  {call[s].observer : s \in {r \in made : ~ObserverHeld(r)}}
            \cup {s \in made : ~ResponseHeld(s)}
            \cup {c \in {"__main__"} : \E s \in made : ~MainContextHeld(s)}
            \cup {c \in {"__background__"} : \E s \in made : ~BackContextHeld(s)}

(***************************************************************************)
(* Steps: those of the core, and what they leave without a holder.         *)
(***************************************************************************)

\* index.js makes an observer for each call.  Variant: it is made once.
AnyObserver(o) == TRUE
FreshObserver(o) ==
    \A s \in Starts : call[s] # Nothing => call[s].observer # o

\* The update task captures the observer that the handle has by then.
CaptureObserver ==
    captured' = [s \in Starts |->
        IF captured[s] = Nothing /\ responses'[s] # <<>>
              /\ responses'[s][1].result # Nothing
        THEN Latest(call[s].handle) ELSE captured[s]]

LifeNext ==
    /\ \/ \E s \in Starts, c \in Calls :
             FreshObserver(c.observer) /\ StartCall(Main, s, c)
       \/ \E s \in Starts : StartStep(s)
       \/ \E s \in Starts, k \in Kinds : NetworkStep(k, s)
       \/ \E s \in Starts : RunTask(s)
    /\ Pin
    /\ CaptureObserver
    /\ deleted' = deleted \cup Released'

LifeSpec == LifeInit /\ [][LifeNext]_lifeVars

(***************************************************************************)
(* Properties.                                                             *)
(***************************************************************************)

\* A handle never keeps an observer that another control block has deleted:
\* on_update reaches a live one, although a restart drops the block of the
\* observer it replaces (NJSItfTransactionListVmHandleCpp.cpp 22-24).
ObserverAlive ==
    \A s \in Starts :
        pc[s] # "idle" /\ ObserverHeld(s) => call[s].observer \notin deleted

\* No deleted observer is ever called: neither one that a handle still names, nor
\* one that an update task captured before a restart replaced it, has been deleted
\* (transaction_list_vm.cpp 25 and 57, NJSItfTransactionListVmObserver.cpp).
ObserversLive ==
    /\ \A h \in Handles : m_observer[h] \notin deleted
    /\ \A i \in 1..Len(queue) : queue[i].kind = "update" =>
          queue[i].update.observer \notin deleted

\* Only an observer that a restart replaced is ever deleted: the contexts in the
\* cache of index.js and the HandleResponses stay, however many control blocks
\* they were given (NJSItfThreadDispatcher.cpp 32-33).
OnlyReplacedDeleted ==
    \A proxy \in deleted :
        \E i, j \in 1..Len(begun) :
            /\ i < j
            /\ call[begun[i]].handle = call[begun[j]].handle
            /\ call[begun[i]].observer = proxy

(***************************************************************************)
(* The inductive invariant behind both.                                    *)
(***************************************************************************)

\* A call that was made is in begun, and each handle has a latest one.
LatestKnown ==
    \A s \in Starts : pc[s] # "idle" =>
        /\ \E i \in 1..Len(begun) : begun[i] = s
        /\ \E i \in 1..Len(begun) : IsLast(i, call[s].handle)

\* The program never passes an observer twice.
ObserversFresh ==
    \A s, other \in Starts :
        /\ pc[s] # "idle" /\ pc[other] # "idle"
        /\ call[s].observer = call[other].observer
        => s = other

\* The wrapper of the first HttpCallback holds the HandleResponse and both
\* contexts for good.
CallbackPinned ==
    \A s \in Starts : pc[s] = "returned" =>
        [wrapper |-> "HttpCallback", kind |-> "token", start |-> s] \in wrappers

\* The wrapper of an update task holds the observer it captured, from the answer
\* on.
UpdatePinned ==
    /\ \A s \in Starts : captured[s] # Nothing =>
          [wrapper |-> "Runnable", kind |-> "update", start |-> s] \in wrappers
    /\ \A s \in Starts :
          responses[s] # <<>> /\ responses[s][1].result # Nothing =>
              captured[s] # Nothing

\* What was deleted is the observer of a call that nobody holds any more.
DeletedUnheld ==
    \A proxy \in deleted : \E s \in Starts :
        pc[s] # "idle" /\ ~ObserverHeld(s) /\ call[s].observer = proxy

\* What a handle names is the observer of its latest call, and what an update task
\* will call that of the start whose block it captured; none captures one before
\* the answer.
ObserversTracked ==
    /\ \A h \in Handles : m_observer[h] # Nothing =>
          \E s \in Starts : /\ pc[s] # "idle" /\ call[s].handle = h
                           /\ Latest(h) = s /\ call[s].observer = m_observer[h]
    /\ \A i \in 1..Len(queue) : queue[i].kind = "update" =>
          \E s \in Starts : /\ captured[queue[i].start] = s /\ pc[s] # "idle"
                           /\ call[s].observer = queue[i].update.observer
    /\ \A s \in Starts : captured[s] # Nothing => responses[s] # <<>>

\* Nothing that was deleted is held, and what is held for good is never deleted:
\* the inductive invariant of the properties above
\* (NJSItfTransactionListVmHandleCpp.cpp 22-24, NJSItfHttpCallbackCpp.cpp 80-86).
LifeInv ==
    /\ LifeTypeOK
    /\ LatestKnown
    /\ ObserversFresh
    /\ CallbackPinned
    /\ UpdatePinned
    /\ DeletedUnheld
    /\ ObserversTracked
=============================================================================
