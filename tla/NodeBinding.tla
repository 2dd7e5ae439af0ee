---------------------------- MODULE NodeBinding ----------------------------
(***************************************************************************)
(* The objects of nodejs/gen, whatever JavaScript program and C++ code use *)
(* them.  A proxy stands for a JavaScript implementation of an interface:  *)
(* it has a C++ half, kept alive by the references of Nan::ObjectWrap      *)
(* (external) and deleted by the first std::shared_ptr that lets go of it. *)
(* Each time a proxy is passed to C++ the binding makes a new shared_ptr,  *)
(* that is, a control block, from the bare pointer.  A wrapper stands for  *)
(* a C++ implementation; the program may also make one with new, which has *)
(* none.  Proxies and Wrappers are a sample of the objects of a program.   *)
(*                                                                         *)
(* Left out: calls that only throw (a wrong number of arguments, a method  *)
(* of a wrapper without an implementation) and arguments of another class  *)
(* than the interface asks for.                                            *)
(***************************************************************************)
EXTENDS Integers, FiniteSets

CONSTANTS
    Proxies, Wrappers,
    Class,        \* the class of each object
    MaxRefs,      \* bound: references of one proxy
    MaxBlocks,    \* bound: control blocks of one proxy at a time
    MaxBreaches   \* bound: what the program does that the binding forbids

Objects == Proxies \cup Wrappers

ProxyClasses == {"Http", "ThreadDispatcher", "ExecutionContext", "Lock",
                 "HandleResponse", "TransactionListVmObserver"}

WrapperClasses == {"Api", "TransactionListVmHandle", "TransactionListVm",
                   "Runnable", "HttpCallback"}

ASSUME ObjectsAssumption ==
    /\ Proxies \cap Wrappers = {}
    /\ \A x \in Proxies : Class[x] \in ProxyClasses
    /\ \A w \in Wrappers : Class[w] \in WrapperClasses
ASSUME BoundsAssumption ==
    MaxRefs \in Nat \ {0} /\ MaxBlocks \in Nat \ {0} /\ MaxBreaches \in Nat

\* What a program can do that the binding does not allow for, and to what.
Breaches == {"shared", "weak", "touched", "unbalanced", "index"} \X Objects

VARIABLES
    made,       \* objects that exist
    refs,       \* per object: the references of its ObjectWrap
    valid,      \* wrappers that have a C++ implementation
    blocks,     \* per proxy: the control blocks that own it
    freed,      \* objects whose C++ half is deleted
    collected,  \* objects that are garbage, which the program lost before
    native,     \* is C++ code on the stack?
    passed,     \* proxies that were ever passed to C++
    breaches,   \* what the program has done
    fault       \* how the process ended, if it did

objectVars == <<made, refs, valid, collected>>
vars == <<made, refs, valid, blocks, freed, collected, native, passed, breaches, fault>>

\* Every variable holds values of its kind.
BindingTypeOK ==
    /\ made \subseteq Objects
    /\ refs \in [Objects -> 0..MaxRefs]
    /\ valid \subseteq Wrappers
    /\ blocks \in [Proxies -> 0..MaxBlocks]
    /\ freed \subseteq Objects
    /\ collected \subseteq Objects
    /\ native \in BOOLEAN
    /\ passed \subseteq Proxies
    /\ breaches \subseteq Breaches
    /\ fault \in {"none", "undefined", "aborted"}

Init ==
    /\ made = {}
    /\ refs = [o \in Objects |-> 0]
    /\ valid = {}
    /\ blocks = [x \in Proxies |-> 0]
    /\ freed = {}
    /\ collected = {}
    /\ native = FALSE
    /\ passed = {}
    /\ breaches = {}
    /\ fault = "none"

\* The program can use a proxy, or a wrapper that has an implementation.
HasProxy(K, x) == fault = "none" /\ Class[x] = K /\ x \in made \ collected
HasImpl(K, w) == fault = "none" /\ Class[w] = K /\ w \in valid \ collected

\* C++ code runs and holds a proxy.  Variant: it keeps a bare pointer.
HoldsPointer(K, x) == fault = "none" /\ native /\ Class[x] = K /\ x \in passed
Holds(K, x) == fault = "none" /\ native /\ Class[x] = K /\ blocks[x] > 0

Breach(kind, S) == {kind} \X S

Commit(B) ==
    /\ breaches' = breaches \cup B
    /\ Cardinality(breaches') <= MaxBreaches

\* What a step does that uses the C++ halves of a set of objects.
Use(S) == fault' = IF S \cap freed = {} THEN "none" ELSE "undefined"

(***************************************************************************)
(* Making objects, and losing them.                                        *)
(***************************************************************************)

\* Wrap() and Ref().  Variant: no reference is taken.
MakeWeak(K, o) ==
    /\ Class[o] = K /\ o \notin made
    /\ made' = made \cup {o}
    /\ UNCHANGED refs
Make(K, o) ==
    /\ Class[o] = K /\ o \notin made
    /\ made' = made \cup {o}
    /\ refs' = [refs EXCEPT ![o] = 1]

\* new: a proxy, or a wrapper without an implementation.
New(K, o) ==
    /\ fault = "none"
    /\ Make(K, o)
    /\ UNCHANGED <<valid, blocks, freed, collected, native, passed, breaches, fault>>

\* C++ gives the program an object of its own.
Wrap(K, w) == Make(K, w) /\ valid' = valid \cup {w}

\* The garbage collector deletes what has no reference once the program, which
\* may do so at any time, has lost it.
Collect(o) ==
    /\ fault = "none"
    /\ o \in made \ freed
    /\ refs[o] = 0
    /\ freed' = freed \cup {o}
    /\ collected' = collected \cup {o}
    /\ UNCHANGED <<made, refs, valid, blocks, native, passed, breaches, fault>>

(***************************************************************************)
(* addRef and removeRef of a proxy.                                        *)
(***************************************************************************)

OnProxy(K, x, kinds) ==
    /\ HasProxy(K, x)
    /\ Commit((kinds \cup IF x \in passed THEN {"touched"} ELSE {}) \X {x})
    /\ UNCHANGED <<made, valid, blocks, freed, collected, native, passed>>

addRef(K, x) ==
    /\ refs[x] < MaxRefs
    /\ OnProxy(K, x, {})
    /\ Use({x})
    /\ refs' = [refs EXCEPT ![x] = @ + 1]

\* Unref() asserts that there is a reference.  Variant: nobody checks.
removeRefUnchecked(K, x) ==
    /\ OnProxy(K, x, {})
    /\ Use({x})
    /\ refs' = [refs EXCEPT ![x] = @ - 1]
removeRef(K, x) ==
    \/ /\ refs[x] > 0
       /\ OnProxy(K, x, IF refs[x] = 1 /\ blocks[x] > 0 THEN {"weak"} ELSE {})
       /\ Use({x})
       /\ refs' = [refs EXCEPT ![x] = @ - 1]
    \/ /\ refs[x] = 0
       /\ OnProxy(K, x, {"unbalanced"})
       /\ fault' = "aborted"
       /\ UNCHANGED refs

(***************************************************************************)
(* Control blocks.                                                         *)
(***************************************************************************)

\* The proxies of a set are passed to C++.
Pass(S) ==
    /\ passed' = passed \cup S
    /\ Commit(Breach("shared", S \cap passed)
                  \cup Breach("weak", {x \in S : refs[x] = 0}))

\* Each of them is owned by a new control block.  Variant: by two.
OwnTwice(S) == blocks' = [x \in Proxies |-> blocks[x] + IF x \in S THEN 2 ELSE 0]
Own(S) ==
    /\ \A x \in S : blocks[x] < MaxBlocks
    /\ blocks' = [x \in Proxies |-> blocks[x] + IF x \in S THEN 1 ELSE 0]

\* A shared_ptr deletes what it owns, which must not be deleted yet.
Delete(S) == freed' = freed \cup S /\ Use(S)

\* The last holder of a control block lets go.
Release(x) ==
    /\ fault = "none" /\ native
    /\ blocks[x] > 0
    /\ blocks' = [blocks EXCEPT ![x] = @ - 1]
    /\ Delete({x})
    /\ UNCHANGED <<objectVars, native, passed, breaches>>

(***************************************************************************)
(* C++ calls a method of a proxy, which the binding hands to JavaScript.   *)
(***************************************************************************)

\* A method without a result: JavaScript returns, or throws, and the C++ code
\* goes on in either case.
CallVoid(K, x) ==
    /\ Holds(K, x)
    /\ Use({x})
    /\ UNCHANGED <<objectVars, blocks, freed, native, passed, breaches>>

\* A method with a C++ object among its arguments, which the binding wraps.
CallWith(K, x, W, w) ==
    /\ Holds(K, x)
    /\ Use({x})
    /\ Wrap(W, w)
    /\ UNCHANGED <<collected, blocks, freed, native, passed, breaches>>

\* A method with a result: if JavaScript throws, its absence ends the process.
CallForValue(K, x) ==
    /\ Holds(K, x)
    /\ Use({x}) \/ fault' = "aborted"
    /\ UNCHANGED <<objectVars, blocks, freed, native, passed, breaches>>

\* The result is a proxy, which is passed to C++; anything else than an object
\* ends the process as well.
CallForProxy(K, x, R, r) ==
    /\ Holds(K, x)
    /\ \/ /\ HasProxy(R, r)
          /\ Use({x})
          /\ Pass({r})
          /\ Own({r})
       \/ /\ fault' = "aborted"
          /\ UNCHANGED <<blocks, passed, breaches>>
    /\ UNCHANGED <<objectVars, freed, native>>

(***************************************************************************)
(* The classes with a JavaScript implementation: what the program may do   *)
(* with one, and its methods.                                              *)
(***************************************************************************)

ProxyStep(K, x) == New(K, x) \/ addRef(K, x) \/ removeRef(K, x)

NJSItfHttp(x) == ProxyStep("Http", x)
NJSItfHttp_get(x, w) == CallWith("Http", x, "HttpCallback", w)

NJSItfThreadDispatcher(x) == ProxyStep("ThreadDispatcher", x)
NJSItfThreadDispatcher_contexts(x, c) ==
    CallForProxy("ThreadDispatcher", x, "ExecutionContext", c)
NJSItfThreadDispatcher_newLock(x, l) == CallForProxy("ThreadDispatcher", x, "Lock", l)

NJSItfExecutionContext(x) == ProxyStep("ExecutionContext", x)
NJSItfExecutionContext_execute_delay(x, w) ==
    CallWith("ExecutionContext", x, "Runnable", w)

NJSItfLock(x) == ProxyStep("Lock", x)
NJSItfLock_lock_unlock(x) == CallVoid("Lock", x)
NJSItfLock_tryLock(x) == CallForValue("Lock", x)

NJSItfHandleResponse(x) == ProxyStep("HandleResponse", x)
NJSItfHandleResponse_respond(x) == CallVoid("HandleResponse", x)

NJSItfTransactionListVmObserver(x) == ProxyStep("TransactionListVmObserver", x)
NJSItfTransactionListVmObserver_on_update(x, w) ==
    CallWith("TransactionListVmObserver", x, "TransactionListVm", w)

(***************************************************************************)
(* The classes with a C++ implementation.                                  *)
(***************************************************************************)

\* A method runs C++ code.
Method(K, w) ==
    /\ HasImpl(K, w)
    /\ native' = TRUE
    /\ UNCHANGED <<objectVars, blocks, freed, passed, breaches, fault>>

NJSItfApi_New(w, x, y) ==
    /\ HasProxy("Http", x)
    /\ HasProxy("ThreadDispatcher", y)
    /\ Wrap("Api", w)
    /\ Pass({x, y})
    /\ Own({x, y})
    /\ native' = TRUE
    /\ UNCHANGED <<freed, collected, fault>>

NJSItfApi_observer_transaction_list(w, h) ==
    /\ HasImpl("Api", w)
    /\ Wrap("TransactionListVmHandle", h)
    /\ UNCHANGED <<blocks, freed, collected, native, passed, breaches, fault>>

NJSItfApi_get_transactions(w) == Method("Api", w)

NJSItfTransactionListVmHandle_New(w) == New("TransactionListVmHandle", w)

\* The control blocks are made before the handle is asked for its implementation:
\* if it has none, they go, and with them what they own.
NJSItfTransactionListVmHandle_start(w, x, y) ==
    /\ Class[w] = "TransactionListVmHandle" /\ w \in made \ collected
    /\ HasProxy("TransactionListVmObserver", x)
    /\ HasProxy("HandleResponse", y)
    /\ Pass({x, y})
    /\ IF w \in valid
       THEN Own({x, y}) /\ native' = TRUE /\ UNCHANGED <<freed, fault>>
       ELSE Delete({x, y}) /\ UNCHANGED <<blocks, native>>
    /\ UNCHANGED objectVars

NJSItfTransactionListVmHandle_stop(w) == Method("TransactionListVmHandle", w)

NJSItfTransactionListVm_New(w) == New("TransactionListVm", w)
NJSItfTransactionListVm_count(w) == Method("TransactionListVm", w)

\* The index is not checked, neither here nor by the list.
NJSItfTransactionListVm_getTransaction(w) ==
    \/ Method("TransactionListVm", w)
    \/ /\ HasImpl("TransactionListVm", w)
       /\ Commit(Breach("index", {w}))
       /\ fault' = "undefined"
       /\ UNCHANGED <<objectVars, blocks, freed, native, passed>>

NJSItfRunnable(w) == New("Runnable", w) \/ Method("Runnable", w)

NJSItfHttpCallback(w) == New("HttpCallback", w) \/ Method("HttpCallback", w)

\* The C++ code returns to the program.
Return ==
    /\ fault = "none" /\ native
    /\ native' = FALSE
    /\ UNCHANGED <<objectVars, blocks, freed, passed, breaches, fault>>

(***************************************************************************)
(* The specification.                                                      *)
(***************************************************************************)

ProgramStep(x) ==
    \/ NJSItfHttp(x) \/ NJSItfThreadDispatcher(x) \/ NJSItfExecutionContext(x)
    \/ NJSItfLock(x) \/ NJSItfHandleResponse(x) \/ NJSItfTransactionListVmObserver(x)

NativeStep(x) ==
    \/ Release(x)
    \/ NJSItfLock_lock_unlock(x) \/ NJSItfLock_tryLock(x)
    \/ NJSItfHandleResponse_respond(x)
    \/ \E r \in Proxies :
          NJSItfThreadDispatcher_contexts(x, r) \/ NJSItfThreadDispatcher_newLock(x, r)
    \/ \E w \in Wrappers :
          \/ NJSItfHttp_get(x, w)
          \/ NJSItfExecutionContext_execute_delay(x, w)
          \/ NJSItfTransactionListVmObserver_on_update(x, w)

WrapperStep(w) ==
    \/ \E x, y \in Proxies :
          NJSItfApi_New(w, x, y) \/ NJSItfTransactionListVmHandle_start(w, x, y)
    \/ \E h \in Wrappers : NJSItfApi_observer_transaction_list(w, h)
    \/ NJSItfApi_get_transactions(w)
    \/ NJSItfTransactionListVmHandle_New(w) \/ NJSItfTransactionListVmHandle_stop(w)
    \/ NJSItfTransactionListVm_New(w) \/ NJSItfTransactionListVm_count(w)
    \/ NJSItfTransactionListVm_getTransaction(w)
    \/ NJSItfRunnable(w) \/ NJSItfHttpCallback(w)

Next ==
    \/ \E x \in Proxies : ProgramStep(x) \/ NativeStep(x)
    \/ \E w \in Wrappers : WrapperStep(w)
    \/ \E o \in Objects : Collect(o)
    \/ Return

Spec == Init /\ [][Next]_vars

(***************************************************************************)
(* Properties.                                                             *)
(***************************************************************************)

\* C++ is left with a pointer to a deleted proxy only if the program passed that
\* proxy more than once, or left it without a reference while C++ holds it: the
\* control blocks of one proxy know nothing of each other, nor of the garbage
\* collector (NJSItfTransactionListVmHandleCpp.cpp 22-24, 43-45).
DanglingOnlyIfSharedOrWeak ==
    \A x \in freed \cap Proxies :
        blocks[x] > 0 => <<"shared", x>> \in breaches \/ <<"weak", x>> \in breaches

\* A program that passes each proxy once, never touches it again, gives back no
\* reference that C++ relies on, and asks only for rows that exist, never meets
\* undefined behaviour (NJSItfThreadDispatcher.cpp 32-33, 120-130;
\* NJSItfTransactionListVmCpp.cpp 45-55).
UndefinedOnlyAfterBreach == fault = "undefined" => breaches # {}

\* A C++ object that was given to JavaScript lives as long as the process:
\* nothing gives back the reference that wrap() takes
\* (NJSItfRunnableCpp.cpp 50-69).
WrappersLive == valid \cap freed = {}

(***************************************************************************)
(* The inductive invariant, in parts.                                      *)
(***************************************************************************)

\* Nothing is known of an object before it is made.
UnmadeUnused ==
    /\ valid \cup passed \cup freed \subseteq made
    /\ collected \subseteq freed

\* Only what was passed is owned, and without a second time by one block.
BlocksPassed ==
    \A x \in Proxies :
        /\ blocks[x] > 0 => x \in passed
        /\ blocks[x] > 1 => <<"shared", x>> \in breaches

\* Without a breach, what C++ owns has a reference.
OwnedReferenced ==
    \A x \in Proxies : blocks[x] > 0 => refs[x] > 0 \/ <<"weak", x>> \in breaches

\* What is deleted was passed, or is garbage.
FreedPassed == freed \subseteq passed \cup collected

\* Nothing gives back the reference of a wrapper.
WrappersReferenced == \A w \in valid : refs[w] > 0 /\ w \notin freed

\* The objects of the binding, and why a program that keeps the rules is safe:
\* a control block stands for one passing of one proxy, which has a reference
\* as long as it is owned (NJSItfTransactionListVmHandleCpp.cpp 10-56).
BInv ==
    /\ BindingTypeOK
    /\ UnmadeUnused
    /\ BlocksPassed
    /\ OwnedReferenced
    /\ FreedPassed
    /\ WrappersReferenced
    /\ DanglingOnlyIfSharedOrWeak
    /\ UndefinedOnlyAfterBreach
=============================================================================
