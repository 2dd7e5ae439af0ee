---------------------------- MODULE ObjcContext ----------------------------
(***************************************************************************)
(* LGExecutionContextObjc: delay: stores a Runnable in a dictionary, under *)
(* its delay, and waitUntilStopped turns what it finds there into timers   *)
(* of the main queue, until it finds nothing.  One LGLockObjc guards the   *)
(* dictionary and the flag isRunning; but the count that decides when to   *)
(* stop is read outside of it, and the block of every timer ends with an   *)
(* unlock that nothing locked.                                             *)
(*                                                                         *)
(* Such an unlock is undefined for an NSLock: it may do nothing, or take   *)
(* the lock from the thread that holds it.  Once it did (broken), the model*)
(* follows the threads into each other's critical sections, but not what   *)
(* two writers at once may do to a dictionary beyond losing an update.     *)
(***************************************************************************)
EXTENDS Integers, Sequences

CONSTANTS
    Runnables,       \* each given to delay: at most once
    Delays,          \* the milliseconds that may be asked for
    Delayers,        \* threads that call delay:
    Waiters,         \* threads that call waitUntilStopped
    Main,            \* the thread of the main queue, which does neither
    Nil

ASSUME DelaysAssumption == Delays \subseteq Nat
ASSUME NilAssumption ==
    /\ Nil \notin Runnables \cup Delayers \cup Waiters \cup {Main}
    /\ Nil \notin [millis : Delays, at : Nat]
ASSUME DistinctThreads ==
    Delayers \cap Waiters = {} /\ Main \notin Delayers \cup Waiters

Threads == Delayers \cup Waiters

MSEC_PER_SEC == 1000
NSEC_PER_MSEC == 1000000

VARIABLES
    queue,      \* the dictionary: per delay an array, named by its first Runnable
    arrays,     \* what each array holds
    isRunning,
    lock,       \* the thread that holds the lock
    pc,         \* per thread: where it is in its method, "idle" outside
    job,        \* per delayer: the Runnable it adds, and the array it found
    scan,       \* per waiter: its enumeration of keys and of one array
    timers,     \* dispatched and not yet run
    clock,      \* nanoseconds
    asked,      \* per Runnable: the delay: it was given to, and when
    runs,       \* per Runnable: when it ran
    late,       \* per waiter: what was added since it last read the count
    broken,     \* has an unlock taken the lock from its holder?
    crashed     \* has a mutated enumeration thrown?

dictVars == <<queue, arrays>>
mainVars == <<timers, clock, runs>>
vars == <<queue, arrays, isRunning, lock, pc, job, scan, timers, clock, asked,
          runs, late, broken, crashed>>

NoJob == [runnable |-> Nil, array |-> Nil]
NoScan == [keys |-> {}, key |-> Nil, array |-> Nil, pos |-> 0, size |-> 0]

Init ==
    /\ queue = [m \in Delays |-> Nil]
    /\ arrays = [r \in Runnables |-> <<>>]
    /\ isRunning = FALSE
    /\ lock = Nil
    /\ pc = [t \in Threads |-> "idle"]
    /\ job = [t \in Delayers |-> NoJob]
    /\ scan = [w \in Waiters |-> NoScan]
    /\ timers = {}
    /\ clock = 0
    /\ asked = [r \in Runnables |-> Nil]
    /\ runs = [r \in Runnables |-> <<>>]
    /\ late = [w \in Waiters |-> {}]
    /\ broken = FALSE
    /\ crashed = FALSE

(***************************************************************************)
(* LGLockObjc.                                                             *)
(***************************************************************************)

Goto(t, from, to) == ~crashed /\ pc[t] = from /\ pc' = [pc EXCEPT ![t] = to]

\* NSLock makes the thread wait.  Variant: tryLock, its result ignored.
TriesLock == TRUE
HasLock == lock = Nil

Lock(t, from, to) ==
    /\ HasLock
    /\ Goto(t, from, to)
    /\ lock' = t
    /\ UNCHANGED broken

\* The unlock of a thread that does not hold the lock may free it all the same.
Unlock(t) ==
    /\ lock' \in IF lock = t THEN {Nil} ELSE {lock, Nil}
    /\ broken' = (broken \/ (lock # t /\ lock' # lock))

LockOnly(t, from, to) ==
    /\ Lock(t, from, to)
    /\ UNCHANGED <<dictVars, mainVars, isRunning, job, scan, asked, late, crashed>>

(***************************************************************************)
(* delay:millis: and appendRunnable:withKey:.                              *)
(***************************************************************************)

delay(t, r, m) ==
    /\ asked[r] = Nil
    /\ Goto(t, "idle", "delay")
    /\ asked' = [asked EXCEPT ![r] = [millis |-> m, at |-> clock]]
    /\ job' = [job EXCEPT ![t].runnable = r]
    /\ UNCHANGED <<dictVars, mainVars, isRunning, lock, scan, late, broken, crashed>>

DelayLock(t) == LockOnly(t, "delay", "find")

KeyOf(t) == asked[job[t].runnable].millis

FindRunnables(t) ==
    /\ Goto(t, "find", "append")
    /\ job' = [job EXCEPT ![t].array = queue[KeyOf(t)]]
    /\ UNCHANGED <<dictVars, mainVars, isRunning, lock, scan, asked, late,
                   broken, crashed>>

\* A new array holds its Runnable.  Variant: it was forgotten.
EmptyArray(r) == <<>>
NewArray(r) == <<r>>

\* addObject to the array that was found, or a new array in the dictionary.
appendRunnable(t) ==
    LET r == job[t].runnable
        found == job[t].array
    IN  /\ Goto(t, "append", "appended")
        /\ \/ /\ found # Nil
              /\ arrays' = [arrays EXCEPT ![found] = Append(@, r)]
              /\ UNCHANGED queue
           \/ /\ found = Nil
              /\ arrays' = [arrays EXCEPT ![r] = NewArray(r)]
              /\ queue' = [queue EXCEPT ![KeyOf(t)] = r]
        /\ late' = [w \in Waiters |-> late[w] \cup {r}]
        /\ UNCHANGED <<mainVars, isRunning, lock, job, scan, asked, broken, crashed>>

DelayUnlock(t) ==
    /\ Goto(t, "appended", "idle")
    /\ Unlock(t)
    /\ job' = [job EXCEPT ![t] = NoJob]
    /\ UNCHANGED <<dictVars, mainVars, isRunning, scan, asked, late, crashed>>

(***************************************************************************)
(* waitUntilStopped.                                                       *)
(***************************************************************************)

waitUntilStopped(w) ==
    /\ Goto(w, "idle", "wait")
    /\ UNCHANGED <<dictVars, mainVars, isRunning, lock, job, scan, asked, late,
                   broken, crashed>>

\* The flag is set with the lock held, which is given back.  Variant: the flag
\* is never cleared.
AlwaysRunning(b) == TRUE
Flag(b) == b

SetRunning(w, from, b) ==
    /\ Goto(w, from, "check")
    /\ isRunning' = Flag(b)
    /\ Unlock(w)
    /\ UNCHANGED <<dictVars, mainVars, job, scan, asked, late, crashed>>

WaitLock(w) == LockOnly(w, "wait", "waiting")
SetStarted(w) == SetRunning(w, "waiting", TRUE)
StopLock(w) == LockOnly(w, "stop", "stopping")
SetStopped(w) == SetRunning(w, "stopping", FALSE)

CheckLock(w) == LockOnly(w, "check", "checking")

IsContextRunning(w) ==
    /\ Goto(w, "checking", IF isRunning THEN "count" ELSE "idle")
    /\ Unlock(w)
    /\ UNCHANGED <<dictVars, mainVars, isRunning, job, scan, asked, late, crashed>>

AllKeys == {m \in Delays : queue[m] # Nil}

\* The test of [queue count].  Variant: off by one.
HasTwoKeys == \E m, n \in AllKeys : m # n
HasKeys == AllKeys # {}

\* The count is read without the lock.
Count(w) ==
    /\ Goto(w, "count", IF HasKeys THEN "drain" ELSE "stop")
    /\ late' = [late EXCEPT ![w] = {}]
    /\ UNCHANGED <<dictVars, mainVars, isRunning, lock, job, scan, asked,
                   broken, crashed>>

DrainLock(w) ==
    /\ Lock(w, "drain", "keys")
    /\ scan' = [scan EXCEPT ![w] = [NoScan EXCEPT !.keys = AllKeys]]
    /\ UNCHANGED <<dictVars, mainVars, isRunning, job, asked, late, crashed>>

\* The next key of the copy that allKeys made, in any order, and its array.
NextKey(w) ==
    \E m \in scan[w].keys :
        /\ Goto(w, "keys", "each")
        /\ scan' = [scan EXCEPT ![w] =
              [keys |-> @.keys \ {m}, key |-> m, array |-> queue[m], pos |-> 0,
               size |-> IF queue[m] = Nil THEN 0 ELSE Len(arrays[queue[m]])]]
        /\ UNCHANGED <<dictVars, mainVars, isRunning, lock, job, asked, late,
                       broken, crashed>>

\* The enumerated array has got another Runnable.
Mutated(s) == s.array # Nil /\ Len(arrays[s.array]) # s.size

\* The delay given to dispatch_time, which takes nanoseconds.
Nanoseconds(millis) == millis \div MSEC_PER_SEC

\* dispatch_after for the next Runnable of the array.
Dispatch(w) ==
    LET s == scan[w]
    IN  /\ Goto(w, "each", "each")
        /\ s.pos < s.size
        /\ ~Mutated(s)
        /\ timers' = timers \cup {[runnable |-> arrays[s.array][s.pos + 1],
                                   due |-> clock + Nanoseconds(s.key), by |-> w]}
        /\ scan' = [scan EXCEPT ![w].pos = @ + 1]
        /\ UNCHANGED <<dictVars, isRunning, lock, job, clock, asked, runs, late,
                       broken, crashed>>

\* Fast enumeration throws when it notices the change.
MutationThrown(w) ==
    /\ Goto(w, "each", "each")
    /\ Mutated(scan[w])
    /\ crashed' = TRUE
    /\ UNCHANGED <<dictVars, mainVars, isRunning, lock, job, scan, asked, late, broken>>

\* Variants of removeObjectForKey: all keys go, or none.
RemoveAll(m) == [n \in Delays |-> Nil]
RemoveNone(m) == queue
RemoveKey(m) == [queue EXCEPT ![m] = Nil]

removeObjectForKey(w) ==
    /\ Goto(w, "each", "keys")
    /\ scan[w].pos = scan[w].size
    /\ queue' = RemoveKey(scan[w].key)
    /\ scan' = [scan EXCEPT ![w] = [NoScan EXCEPT !.keys = scan[w].keys]]
    /\ UNCHANGED <<arrays, mainVars, isRunning, lock, job, asked, late, broken,
                   crashed>>

DrainUnlock(w) ==
    /\ scan[w].keys = {}
    /\ Goto(w, "keys", "check")
    /\ Unlock(w)
    /\ UNCHANGED <<dictVars, mainVars, isRunning, job, scan, asked, late, crashed>>

(***************************************************************************)
(* The main queue runs the block of a timer: the Runnable, then the unlock.*)
(***************************************************************************)

Fire(timer) ==
    /\ ~crashed
    /\ clock >= timer.due
    /\ timers' = timers \ {timer}
    /\ runs' = [runs EXCEPT ![timer.runnable] = Append(@, clock)]
    /\ Unlock(Main)
    /\ UNCHANGED <<dictVars, isRunning, pc, job, scan, clock, asked, late, crashed>>

\* Time is of interest only while a timer waits for it.
Tick ==
    /\ ~crashed
    /\ \E timer \in timers : clock < timer.due
    /\ clock' = clock + 1
    /\ UNCHANGED <<dictVars, isRunning, lock, pc, job, scan, timers, asked, runs,
                   late, broken, crashed>>

DelayStep(t) ==
    DelayLock(t) \/ FindRunnables(t) \/ appendRunnable(t) \/ DelayUnlock(t)

WaitStep(w) ==
    \/ WaitLock(w) \/ SetStarted(w) \/ CheckLock(w) \/ IsContextRunning(w)
    \/ Count(w) \/ DrainLock(w) \/ NextKey(w) \/ Dispatch(w) \/ MutationThrown(w)
    \/ removeObjectForKey(w) \/ DrainUnlock(w) \/ StopLock(w) \/ SetStopped(w)

FireStep == \E timer \in timers : Fire(timer)

Next ==
    \/ \E t \in Delayers :
          DelayStep(t) \/ \E r \in Runnables, m \in Delays : delay(t, r, m)
    \/ \E w \in Waiters : WaitStep(w) \/ waitUntilStopped(w)
    \/ FireStep
    \/ Tick

Spec == Init /\ [][Next]_vars

\* Threads inside a method go on, time passes and the main queue runs the
\* timers that are due; nobody has to call delay: or waitUntilStopped.
FairSpec ==
    /\ Spec
    /\ \A t \in Delayers : WF_vars(DelayStep(t))
    /\ \A w \in Waiters : WF_vars(WaitStep(w))
    /\ \A r \in Runnables : WF_vars(\E timer \in timers :
                                        timer.runnable = r /\ Fire(timer))
    /\ WF_vars(Tick)

(***************************************************************************)
(* Properties.                                                             *)
(***************************************************************************)

Jobs == [runnable : Runnables \cup {Nil}, array : Runnables \cup {Nil}]

Scans == [keys : SUBSET Delays, key : Delays \cup {Nil},
          array : Runnables \cup {Nil}, pos : Nat, size : Nat]

Timers == [runnable : Runnables, due : Nat, by : Waiters]

\* The types, and that an array of the dictionary is never empty, so that the
\* test of its count tells whether there is one (LGExecutionContextObjc.m 48).
ContextTypeOK ==
    /\ queue \in [Delays -> Runnables \cup {Nil}]
    /\ arrays \in [Runnables -> Seq(Runnables)]
    /\ \A m \in Delays : queue[m] # Nil => arrays[queue[m]] # <<>>
    /\ isRunning \in BOOLEAN
    /\ lock \in Threads \cup {Nil}
    /\ job \in [Delayers -> Jobs]
    /\ scan \in [Waiters -> Scans]
    /\ timers \subseteq Timers
    /\ clock \in Nat
    /\ asked \in [Runnables -> [millis : Delays, at : Nat] \cup {Nil}]
    /\ runs \in [Runnables -> Seq(Nat)]
    /\ late \in [Waiters -> SUBSET Runnables]
    /\ {broken, crashed} \subseteq BOOLEAN

Elements(a) == {arrays[a][i] : i \in 1..Len(arrays[a])}

InDictionary == UNION {Elements(queue[m]) : m \in AllKeys}

Dispatched == {timer.runnable : timer \in timers}

\* A delayed Runnable is in the dictionary, waits for its timer, or ran: two
\* delay: of the same milliseconds, or one while waitUntilStopped empties the
\* dictionary, lose nothing before an unlock of a timer takes the lock away
\* (lines 40-55, 73-87).
NothingLost ==
    ~broken => \A r \in Runnables :
        r \in UNION {Elements(a) : a \in Runnables} =>
            r \in InDictionary \cup Dispatched \/ runs[r] # <<>>

\* No Runnable runs twice, not even with two threads in waitUntilStopped, before
\* an unlock of a timer takes the lock away (lines 73-87).
RunsOnce ==
    ~broken => \A r \in Runnables :
        Len(runs[r]) <= 1 /\ (runs[r] # <<>> => r \notin Dispatched)

\* The enumeration of an array meets a mutation only after an unlock of a timer
\* took the lock away (lines 49 and 78).
CrashOnlyIfBroken == crashed => broken

\* When a waitUntilStopped has stopped the context, it leaves behind at most what
\* was added after it had read the count for the last time (lines 70-94).
LeavesOnlyLate ==
    ~broken /\ ~isRunning => \E w \in Waiters : InDictionary \subseteq late[w]

\* waitUntilStopped returns (lines 70-94).
WaitReturns == \A w \in Waiters : pc[w] # "idle" ~> pc[w] = "idle" \/ crashed

\* A Runnable that waitUntilStopped can see when it reads the count will run
\* (lines 71-85).
SeenRunnablesRun ==
    \A r \in Runnables, w \in Waiters :
        (pc[w] = "count" /\ r \in InDictionary) ~> (runs[r] # <<>> \/ broken)

\* delay(runnable, millis) of djinni/async.djinni: a Runnable does not run before
\* its milliseconds are over.
NotBeforeDelay ==
    \A r \in Runnables : \A i \in 1..Len(runs[r]) :
        runs[r][i] >= asked[r].at + asked[r].millis * NSEC_PER_MSEC

(***************************************************************************)
(* The inductive invariant behind the safety properties.  Its first half   *)
(* holds whatever becomes of the lock; the second, Intact, until an unlock *)
(* of a timer takes the lock away.                                         *)
(***************************************************************************)

Critical == {"find", "append", "appended", "waiting", "stopping", "checking",
             "keys", "each"}

DelayPlaces == {"idle", "delay", "find", "append", "appended"}
WaitPlaces == {"idle", "wait", "waiting", "check", "checking", "count", "drain",
               "keys", "each", "stop", "stopping"}

\* Where a thread can be, and what it has in its hands there.
Places ==
    /\ pc \in [Threads -> DelayPlaces \cup WaitPlaces]
    /\ \A t \in Delayers : pc[t] \in DelayPlaces
    /\ \A w \in Waiters : pc[w] \in WaitPlaces
    /\ \A t \in Delayers :
          pc[t] # "idle" => job[t].runnable # Nil /\ asked[job[t].runnable] # Nil
    /\ \A t \in Delayers : pc[t] = "idle" => job[t].runnable = Nil
    /\ \A t, u \in Delayers :
          job[t].runnable # Nil /\ job[t].runnable = job[u].runnable => t = u
    /\ \A t \in Delayers :
          pc[t] = "append" /\ job[t].array # Nil => arrays[job[t].array] # <<>>
    /\ \A w \in Waiters : pc[w] = "each" =>
          scan[w].key \in Delays /\ (scan[w].array = Nil => scan[w].size = 0)

\* A Runnable whose delay: has put it into an array.
Added(r) ==
    /\ asked[r] # Nil
    /\ \A t \in Delayers : job[t].runnable = r => pc[t] = "appended"

Gone(r) == r \in Dispatched \/ runs[r] # <<>>

\* An array begins with the Runnable it is named by; no Runnable is in two
\* places; and an array is in the dictionary under the delay of its first.
ArraysApart ==
    /\ \A a \in Runnables : arrays[a] # <<>> => arrays[a][1] = a
    /\ \A a \in Runnables : \A i \in 1..Len(arrays[a]) : Added(arrays[a][i])
    /\ \A a, b \in Runnables :
          \A i \in 1..Len(arrays[a]), j \in 1..Len(arrays[b]) :
             arrays[a][i] = arrays[b][j] => a = b /\ i = j
    /\ \A m \in Delays : queue[m] # Nil =>
          asked[queue[m]] # Nil /\ asked[queue[m]].millis = m
    /\ \A r \in Runnables : Gone(r) => Added(r)

\* The thread in a critical section holds the lock.
LockExcludes == \A t \in Threads : pc[t] \in Critical <=> lock = t

\* What a thread read of the dictionary is still true while it holds the lock.
ReadCurrent ==
    /\ \A t \in Delayers : pc[t] = "append" => job[t].array = queue[KeyOf(t)]
    /\ \A w \in Waiters : pc[w] \in {"keys", "each"} => scan[w].keys \subseteq AllKeys
    /\ \A w \in Waiters : pc[w] = "each" =>
          LET s == scan[w]
          IN  /\ s.key \in AllKeys \ s.keys
              /\ s.array = queue[s.key]
              /\ s.size = Len(arrays[s.array])
              /\ s.pos <= s.size

InQueue(a) == \E m \in Delays : queue[m] = a

Scanned(a, i) == \E w \in Waiters :
    pc[w] = "each" /\ scan[w].array = a /\ i <= scan[w].pos

\* What left the dictionary, and what the enumeration has passed, has its timer or
\* ran; nothing else did.
GoneInOrder ==
    \A a \in Runnables : \A i \in 1..Len(arrays[a]) :
        Gone(arrays[a][i]) <=> ~InQueue(a) \/ Scanned(a, i)

OneTimerEach ==
    \A timer, other \in timers : timer.runnable = other.runnable => timer = other

RanOnce ==
    \A r \in Runnables :
        Len(runs[r]) <= 1 /\ (runs[r] # <<>> => r \notin Dispatched)

\* A waiter that found no keys, or has stopped the context, knows what came late.
LateKnown ==
    /\ \A w \in Waiters :
          pc[w] \in {"stop", "stopping"} => InDictionary \subseteq late[w]
    /\ ~isRunning => \E w \in Waiters :
          /\ pc[w] \in {"idle", "wait", "waiting", "check", "checking"}
          /\ InDictionary \subseteq late[w]

Intact ==
    /\ LockExcludes
    /\ ReadCurrent
    /\ GoneInOrder
    /\ OneTimerEach
    /\ RanOnce
    /\ LateKnown
    /\ ~crashed

\* Whatever the threads do: the types, places and arrays of lines 37-103, and until
\* an unlock of a timer takes the lock away that the lock guards what it should,
\* that all runs in order and once, and what a stopped context leaves behind.
ContextInv ==
    /\ ContextTypeOK
    /\ Places
    /\ ArraysApart
    /\ ~broken => Intact
=============================================================================
