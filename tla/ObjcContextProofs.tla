-------------------------- MODULE ObjcContextProofs --------------------------
(***************************************************************************)
(* Proofs about ObjcContext for any number of Runnables, of delays and of  *)
(* threads in delay: and waitUntilStopped.                                 *)
(***************************************************************************)
EXTENDS ObjcContext, SequenceTheorems, TLAPS

\* The half of the invariant that the lock has no part in.
Base == ContextTypeOK /\ Places /\ ArraysApart

\* What Intact says of Runnables, which the moves of a thread leave alone.
Kept ==
    /\ ReadCurrent
    /\ GoneInOrder
    /\ OneTimerEach
    /\ RanOnce
    /\ ~crashed

LEMMA InitContextInv == Init /\ Waiters # {} => ContextInv
  <1> SUFFICES ASSUME Init, Waiters # {} PROVE ContextInv
    OBVIOUS
  <1> USE DEF Init
  <1>1. ContextTypeOK
    <2>1. /\ NoJob \in Jobs /\ NoScan \in Scans /\ <<>> \in Seq(Runnables)
          /\ <<>> \in Seq(Nat)
      BY DEF NoJob, NoScan, Jobs, Scans
    <2> QED BY <2>1 DEF ContextTypeOK
  <1>2. Places
    <2>1. \A t \in Threads : pc[t] = "idle"
      OBVIOUS
    <2>2. \A t \in Delayers : pc[t] = "idle" /\ job[t].runnable = Nil
      BY <2>1 DEF Threads, NoJob
    <2>3. \A w \in Waiters : pc[w] = "idle"
      BY <2>1 DEF Threads
    <2>4. pc \in [Threads -> DelayPlaces \cup WaitPlaces]
      BY DEF DelayPlaces
    <2> HIDE DEF Init
    <2> QED BY <2>2, <2>3, <2>4 DEF Places, DelayPlaces, WaitPlaces
  <1>3. ArraysApart
    BY DEF ArraysApart, Gone, Dispatched
  <1>4. LockExcludes
    BY NilAssumption DEF LockExcludes, Critical, Threads
  <1>5. ReadCurrent /\ GoneInOrder /\ OneTimerEach /\ RanOnce
    <2>1. \A t \in Delayers \cup Waiters : pc[t] = "idle"
      BY DEF Threads
    <2>2. \A a \in Runnables : arrays[a] = <<>> /\ runs[a] = <<>>
      OBVIOUS
    <2>3. ReadCurrent
      BY <2>1 DEF ReadCurrent
    <2> QED BY <2>2, <2>3 DEF GoneInOrder, OneTimerEach, RanOnce, Dispatched
  <1>6. InDictionary = {}
    BY DEF InDictionary, AllKeys
  <1>7. LateKnown
    <2>1. \A w \in Waiters : pc[w] = "idle"
      BY DEF Threads
    <2> QED BY <1>6, <2>1 DEF LateKnown
  <1> QED BY <1>1, <1>2, <1>3, <1>4, <1>5, <1>7 DEF ContextInv, Intact

(***************************************************************************)
(* The lock.                                                               *)
(***************************************************************************)

\* A thread that takes the lock found it free, so nobody else is inside.
LEMMA LockTaken ==
    ASSUME Base, LockExcludes, NEW t \in Threads, NEW from, NEW to \in Critical,
           Lock(t, from, to)
    PROVE  LockExcludes'
  <1>1. \A u \in Threads : pc[u] \notin Critical
    BY NilAssumption DEF LockExcludes, Lock, HasLock, Threads
  <1>2. /\ lock' = t /\ pc' = [pc EXCEPT ![t] = to]
        /\ pc \in [Threads -> DelayPlaces \cup WaitPlaces]
    BY DEF Lock, Goto, Base, Places
  <1> QED BY <1>1, <1>2 DEF LockExcludes

\* A thread that moves inside its critical section, or outside.
LEMMA LockKept ==
    ASSUME Base, LockExcludes, NEW t \in Threads, NEW from, NEW to,
           Goto(t, from, to), from \in Critical <=> to \in Critical, UNCHANGED lock
    PROVE  LockExcludes'
BY DEF LockExcludes, Goto, Base, Places

\* A thread that gives back the lock held it, and leaves its critical section.
LEMMA LockGiven ==
    ASSUME Base, LockExcludes, NEW t \in Threads, NEW from \in Critical, NEW to,
           Goto(t, from, to), to \notin Critical, Unlock(t)
    PROVE  LockExcludes'
  <1>1. lock = t /\ lock' = Nil
    BY DEF LockExcludes, Goto, Unlock
  <1>2. /\ pc' = [pc EXCEPT ![t] = to] /\ Nil \notin Threads
        /\ pc \in [Threads -> DelayPlaces \cup WaitPlaces]
    BY NilAssumption DEF Goto, Base, Places, Threads
  <1>3. \A u \in Threads : u # t => pc[u] \notin Critical
    BY <1>1 DEF LockExcludes
  <1> QED BY <1>1, <1>2, <1>3 DEF LockExcludes

\* Either way the lock is held by a thread, or free.
LEMMA LockTyped ==
    ASSUME ContextTypeOK, NEW t \in Threads \cup {Main}, Unlock(t)
    PROVE  lock' \in Threads \cup {Nil} /\ broken' \in BOOLEAN /\ (~broken' => ~broken)
BY DEF ContextTypeOK, Unlock

(***************************************************************************)
(* A waiter that goes on without touching the dictionary.                  *)
(***************************************************************************)

\* The keys a waiter starts from, when it does.
KeysOnly(w) == scan' = [scan EXCEPT ![w] = [NoScan EXCEPT !.keys = AllKeys]]

LEMMA WaiterMovesBase ==
    ASSUME Base, NEW w \in Waiters, NEW from, NEW to \in WaitPlaces \ {"each"},
           Goto(w, from, to), scan' = scan \/ KeysOnly(w),
           UNCHANGED <<dictVars, mainVars, job, asked, crashed>>,
           isRunning' \in BOOLEAN, lock' \in Threads \cup {Nil},
           broken' \in BOOLEAN, late' \in [Waiters -> SUBSET Runnables]
    PROVE  Base'
  <1>1. /\ pc \in [Threads -> DelayPlaces \cup WaitPlaces]
        /\ pc' = [pc EXCEPT ![w] = to] /\ w \in Threads /\ w \notin Delayers
        /\ UNCHANGED <<queue, arrays, timers, clock, runs, job, asked, crashed>>
    BY DistinctThreads DEF Base, Places, Goto, Threads, dictVars, mainVars
  <1>2. scan' \in [Waiters -> Scans] /\ \A u \in Waiters \ {w} : scan'[u] = scan[u]
    <2>1. scan \in [Waiters -> Scans]
      BY DEF Base, ContextTypeOK
    <2>2. [NoScan EXCEPT !.keys = AllKeys] \in Scans
      BY DEF NoScan, Scans, AllKeys
    <2> QED BY <2>1, <2>2 DEF KeysOnly
  <1>3. ContextTypeOK'
    BY <1>1, <1>2 DEF Base, ContextTypeOK
  <1>4. /\ \A t \in Delayers : t \in Threads /\ pc'[t] = pc[t]
        /\ \A u \in Waiters : u \in Threads
    BY <1>1 DEF Threads
  <1>5. Places'
    BY <1>1, <1>2, <1>4 DEF Base, Places
  <1>6. \A r : (Added(r))' <=> Added(r)
    BY <1>1, <1>4 DEF Added
  <1>7. \A r : (Gone(r))' <=> Gone(r)
    BY <1>1 DEF Gone, Dispatched
  <1>8. ArraysApart'
    BY <1>1, <1>6, <1>7 DEF Base, ArraysApart
  <1> QED BY <1>3, <1>5, <1>8 DEF Base

LEMMA WaiterMovesKept ==
    ASSUME Base, Kept, NEW w \in Waiters, NEW from, NEW to \in WaitPlaces \ {"each"},
           Goto(w, from, to), from # "each", scan' = scan \/ KeysOnly(w),
           to = "keys" => KeysOnly(w),
           UNCHANGED <<dictVars, mainVars, job, asked, crashed>>
    PROVE  Kept'
  <1>1. /\ pc \in [Threads -> DelayPlaces \cup WaitPlaces]
        /\ pc' = [pc EXCEPT ![w] = to] /\ w \in Threads /\ w \notin Delayers
        /\ pc[w] # "each" /\ pc'[w] # "each"
        /\ UNCHANGED <<queue, arrays, timers, clock, runs, job, asked, crashed>>
    BY DistinctThreads DEF Base, Places, Goto, Threads, dictVars, mainVars
  <1>2. \A u \in Waiters \ {w} : scan'[u] = scan[u] /\ pc'[u] = pc[u]
    BY <1>1 DEF Base, ContextTypeOK, KeysOnly, Threads
  <1>3. \A t \in Delayers : pc'[t] = pc[t]
    BY <1>1 DEF Threads
  <1>4. UNCHANGED AllKeys
    BY <1>1 DEF AllKeys
  <1>5. pc'[w] = "keys" => scan'[w].keys = AllKeys
    BY <1>1 DEF KeysOnly, NoScan, Base, ContextTypeOK
  <1>6. ReadCurrent'
    BY <1>1, <1>2, <1>3, <1>4, <1>5 DEF Kept, ReadCurrent, KeyOf
  <1>7. \A a, i : (Scanned(a, i))' <=> Scanned(a, i)
    BY <1>1, <1>2 DEF Scanned
  <1>8. \A r : (Gone(r))' <=> Gone(r)
    BY <1>1 DEF Gone, Dispatched
  <1>9. \A a : (InQueue(a))' <=> InQueue(a)
    BY <1>1 DEF InQueue
  <1>10. GoneInOrder'
    BY <1>1, <1>7, <1>8, <1>9 DEF Kept, GoneInOrder
  <1>11. OneTimerEach' /\ RanOnce' /\ ~crashed'
    BY <1>1 DEF Kept, OneTimerEach, RanOnce, Dispatched
  <1> QED BY <1>6, <1>10, <1>11 DEF Kept

(***************************************************************************)
(* What came late.                                                         *)
(***************************************************************************)

Stopped == {"idle", "wait", "waiting", "check", "checking"}

\* A step that changes neither what is in the dictionary nor the flag, and takes
\* no waiter into or out of the places that the count led to.
LEMMA LateKept ==
    ASSUME LateKnown, UNCHANGED <<queue, arrays, isRunning, late>>,
           \A w \in Waiters : pc'[w] # pc[w] =>
              \/ pc[w] \in Stopped /\ pc'[w] \in Stopped
              \/ pc[w] = "stop" /\ pc'[w] = "stopping"
              \/ pc[w] \notin Stopped /\ pc'[w] \notin {"stop", "stopping"}
              \/ isRunning /\ pc'[w] = "count"
    PROVE  LateKnown'
  <1>1. UNCHANGED InDictionary
    BY DEF InDictionary, AllKeys, Elements
  <1> QED BY <1>1 DEF LateKnown, Stopped

(***************************************************************************)
(* The steps of a waiter that leave the dictionary alone.                  *)
(***************************************************************************)

\* It is left to each of them to show what becomes of the lock and of what came late.
LEMMA WaiterMovesInv ==
    ASSUME ContextInv, NEW w \in Waiters, NEW from, NEW to \in WaitPlaces \ {"each"},
           Goto(w, from, to), from # "each", scan' = scan \/ KeysOnly(w),
           to = "keys" => KeysOnly(w),
           UNCHANGED <<dictVars, mainVars, job, asked, crashed>>,
           isRunning' \in BOOLEAN, lock' \in Threads \cup {Nil},
           broken' \in BOOLEAN, late' \in [Waiters -> SUBSET Runnables],
           ~broken' => ~broken,
           ~broken' /\ Intact => LockExcludes' /\ LateKnown'
    PROVE  ContextInv'
  <1>1. Base
    BY DEF ContextInv, Base
  <1>2. Base'
    BY <1>1, WaiterMovesBase
  <1>3. ASSUME ~broken' PROVE Intact'
    <2>1. Intact /\ Kept
      BY <1>3 DEF ContextInv, Intact, Kept
    <2>2. Kept'
      BY <1>1, <2>1, WaiterMovesKept
    <2> QED BY <1>3, <2>1, <2>2 DEF Kept, Intact
  <1> QED BY <1>2, <1>3 DEF Base, ContextInv

LEMMA waitUntilStoppedInv ==
    ASSUME ContextInv, NEW w \in Waiters, waitUntilStopped(w)
    PROVE  ContextInv'
  <1>1. /\ Goto(w, "idle", "wait") /\ "wait" \in WaitPlaces \ {"each"}
        /\ UNCHANGED <<dictVars, mainVars, isRunning, lock, job, scan, asked, late,
                       broken, crashed>>
    BY DEF waitUntilStopped, WaitPlaces
  <1>2. ASSUME Intact PROVE LockExcludes' /\ LateKnown'
    <2>1. LockExcludes'
      BY <1>1, <1>2, LockKept DEF ContextInv, Base, Intact, Critical, Threads
    <2>2. LateKnown'
      BY <1>1, <1>2, LateKept DEF ContextInv, Intact, Goto, Places, dictVars, Stopped, Threads
    <2> QED BY <2>1, <2>2
  <1> QED BY <1>1, <1>2, WaiterMovesInv DEF ContextInv, ContextTypeOK

\* A waiter takes the lock: before it sets the flag, or reads it.
LEMMA WaiterLocksInv ==
    ASSUME ContextInv, NEW w \in Waiters, NEW from, NEW to,
           <<from, to>> \in {<<"wait", "waiting">>, <<"stop", "stopping">>,
                             <<"check", "checking">>},
           LockOnly(w, from, to)
    PROVE  ContextInv'
  <1>1. /\ Goto(w, from, to) /\ Lock(w, from, to) /\ lock' = w /\ UNCHANGED broken
        /\ from # "each" /\ to # "keys" /\ to \in WaitPlaces \ {"each"} /\ to \in Critical
        /\ UNCHANGED <<dictVars, mainVars, isRunning, job, scan, asked, late, crashed>>
    BY DEF LockOnly, Lock, WaitPlaces, Critical
  <1>2. ASSUME Intact PROVE LockExcludes' /\ LateKnown'
    <2>1. LockExcludes'
      BY <1>1, <1>2, LockTaken DEF ContextInv, Base, Intact, Threads
    <2>2. LateKnown'
      BY <1>1, <1>2, LateKept DEF ContextInv, Intact, Goto, Places, dictVars, Stopped, Threads
    <2> QED BY <2>1, <2>2
  <1> QED BY <1>1, <1>2, WaiterMovesInv DEF ContextInv, ContextTypeOK, Threads

\* The flag is set, and the lock given back.
LEMMA SetStartedInv ==
    ASSUME ContextInv, NEW w \in Waiters, SetStarted(w)
    PROVE  ContextInv'
  <1>1. /\ Goto(w, "waiting", "check") /\ Unlock(w) /\ isRunning' = TRUE
        /\ "check" \in WaitPlaces \ {"each"} /\ "waiting" \in Critical /\ "check" \notin Critical
        /\ UNCHANGED <<dictVars, mainVars, job, scan, asked, late, crashed>>
    BY DEF SetStarted, SetRunning, Flag, WaitPlaces, Critical
  <1>2. lock' \in Threads \cup {Nil} /\ broken' \in BOOLEAN /\ (~broken' => ~broken)
    BY <1>1, LockTyped DEF ContextInv, Threads
  <1>3. ASSUME Intact PROVE LockExcludes' /\ LateKnown'
    <2>1. LockExcludes'
      BY <1>1, <1>3, LockGiven DEF ContextInv, Base, Intact, Threads
    <2>2. UNCHANGED InDictionary
      BY <1>1 DEF InDictionary, AllKeys, Elements, dictVars
    <2>3. LateKnown'
      BY <1>1, <1>3, <2>2 DEF ContextInv, Intact, Goto, Places, LateKnown, Threads
    <2> QED BY <2>1, <2>3
  <1> QED BY <1>1, <1>2, <1>3, WaiterMovesInv DEF ContextInv, ContextTypeOK

\* The flag is cleared by a waiter that knows what came late.
LEMMA SetStoppedInv ==
    ASSUME ContextInv, NEW w \in Waiters, SetStopped(w)
    PROVE  ContextInv'
  <1>1. /\ Goto(w, "stopping", "check") /\ Unlock(w) /\ isRunning' = FALSE
        /\ "check" \in WaitPlaces \ {"each"} /\ "stopping" \in Critical /\ "check" \notin Critical
        /\ UNCHANGED <<dictVars, mainVars, job, scan, asked, late, crashed>>
    BY DEF SetStopped, SetRunning, Flag, WaitPlaces, Critical
  <1>2. lock' \in Threads \cup {Nil} /\ broken' \in BOOLEAN /\ (~broken' => ~broken)
    BY <1>1, LockTyped DEF ContextInv, Threads
  <1>3. ASSUME Intact PROVE LockExcludes' /\ LateKnown'
    <2>1. LockExcludes'
      BY <1>1, <1>3, LockGiven DEF ContextInv, Base, Intact, Threads
    <2>2. UNCHANGED InDictionary
      BY <1>1 DEF InDictionary, AllKeys, Elements, dictVars
    <2>3. pc[w] = "stopping" /\ pc'[w] = "check"
      BY <1>1 DEF ContextInv, Goto, Places, Threads
    <2>4. InDictionary' \subseteq late'[w]
      BY <1>1, <1>3, <2>2, <2>3 DEF Intact, LateKnown
    <2>5. \A u \in Waiters \ {w} : pc'[u] = pc[u]
      BY <1>1 DEF ContextInv, Goto, Places, Threads
    <2>6. LateKnown'
      BY <1>1, <1>3, <2>2, <2>3, <2>4, <2>5 DEF Intact, LateKnown
    <2> QED BY <2>1, <2>6
  <1> QED BY <1>1, <1>2, <1>3, WaiterMovesInv DEF ContextInv, ContextTypeOK

\* The flag is read; only a context that runs lets a waiter go on.
LEMMA IsContextRunningInv ==
    ASSUME ContextInv, NEW w \in Waiters, IsContextRunning(w)
    PROVE  ContextInv'
  <1> DEFINE to == IF isRunning THEN "count" ELSE "idle"
  <1>1. /\ Goto(w, "checking", to) /\ Unlock(w)
        /\ to \in WaitPlaces \ {"each"} /\ to # "keys"
        /\ "checking" \in Critical /\ to \notin Critical
        /\ UNCHANGED <<dictVars, mainVars, isRunning, job, scan, asked, late, crashed>>
    BY DEF IsContextRunning, WaitPlaces, Critical
  <1>2. lock' \in Threads \cup {Nil} /\ broken' \in BOOLEAN /\ (~broken' => ~broken)
    BY <1>1, LockTyped DEF ContextInv, Threads
  <1>3. ASSUME Intact PROVE LockExcludes' /\ LateKnown'
    <2>1. LockExcludes'
      BY <1>1, <1>3, LockGiven DEF ContextInv, Base, Intact, Threads
    <2>2. LateKnown'
      BY <1>1, <1>3, LateKept DEF ContextInv, Intact, Goto, Places, dictVars, Stopped, Threads
    <2> QED BY <2>1, <2>2
  <1> HIDE DEF to
  <1> QED BY <1>1, <1>2, <1>3, WaiterMovesInv DEF ContextInv, ContextTypeOK

\* With no key left there is nothing in the dictionary, and nothing came late yet.
LEMMA CountInv ==
    ASSUME ContextInv, NEW w \in Waiters, Count(w)
    PROVE  ContextInv'
  <1> DEFINE to == IF HasKeys THEN "drain" ELSE "stop"
  <1>1. /\ Goto(w, "count", to) /\ late' = [late EXCEPT ![w] = {}]
        /\ to \in WaitPlaces \ {"each"} /\ to # "keys" /\ to \notin Critical
        /\ to \in {"drain", "stop"} /\ "count" \notin Critical
        /\ UNCHANGED <<dictVars, mainVars, isRunning, lock, job, scan, asked, broken, crashed>>
    BY DEF Count, WaitPlaces, Critical
  <1>2. to = "stop" => InDictionary = {}
    BY DEF HasKeys, InDictionary
  <1> HIDE DEF to
  <1>3. ASSUME Intact PROVE LockExcludes' /\ LateKnown'
    <2>1. LockExcludes'
      BY <1>1, <1>3, LockKept DEF ContextInv, Base, Intact, Threads
    <2>2. UNCHANGED InDictionary
      BY <1>1 DEF InDictionary, AllKeys, Elements, dictVars
    <2>3. /\ pc[w] = "count" /\ pc'[w] = to
          /\ \A u \in Waiters \ {w} : pc'[u] = pc[u] /\ late'[u] = late[u]
      BY <1>1 DEF ContextInv, ContextTypeOK, Goto, Places, Threads
    <2>4. LateKnown'
      BY <1>1, <1>2, <1>3, <2>2, <2>3 DEF Intact, LateKnown
    <2> QED BY <2>1, <2>4
  <1>4. late' \in [Waiters -> SUBSET Runnables]
    BY <1>1 DEF ContextInv, ContextTypeOK
  <1> QED BY <1>1, <1>3, <1>4, WaiterMovesInv DEF ContextInv, ContextTypeOK

\* The copy of the keys is made with the lock held.
LEMMA DrainLockInv ==
    ASSUME ContextInv, NEW w \in Waiters, DrainLock(w)
    PROVE  ContextInv'
  <1>1. /\ Goto(w, "drain", "keys") /\ Lock(w, "drain", "keys") /\ lock' = w
        /\ UNCHANGED broken /\ KeysOnly(w)
        /\ "keys" \in WaitPlaces \ {"each"} /\ "keys" \in Critical
        /\ UNCHANGED <<dictVars, mainVars, isRunning, job, asked, late, crashed>>
    BY DEF DrainLock, Lock, KeysOnly, WaitPlaces, Critical
  <1>2. ASSUME Intact PROVE LockExcludes' /\ LateKnown'
    <2>1. LockExcludes'
      BY <1>1, <1>2, LockTaken DEF ContextInv, Base, Intact, Threads
    <2>2. LateKnown'
      BY <1>1, <1>2, LateKept DEF ContextInv, Intact, Goto, Places, dictVars, Stopped, Threads
    <2> QED BY <2>1, <2>2
  <1> QED BY <1>1, <1>2, WaiterMovesInv DEF ContextInv, ContextTypeOK, Threads

LEMMA DrainUnlockInv ==
    ASSUME ContextInv, NEW w \in Waiters, DrainUnlock(w)
    PROVE  ContextInv'
  <1>1. /\ Goto(w, "keys", "check") /\ Unlock(w)
        /\ "check" \in WaitPlaces \ {"each"} /\ "keys" \in Critical /\ "check" \notin Critical
        /\ UNCHANGED <<dictVars, mainVars, isRunning, job, scan, asked, late, crashed>>
    BY DEF DrainUnlock, WaitPlaces, Critical
  <1>2. lock' \in Threads \cup {Nil} /\ broken' \in BOOLEAN /\ (~broken' => ~broken)
    BY <1>1, LockTyped DEF ContextInv, Threads
  <1>3. ASSUME Intact PROVE LockExcludes' /\ LateKnown'
    <2>1. LockExcludes'
      BY <1>1, <1>3, LockGiven DEF ContextInv, Base, Intact, Threads
    <2>2. LateKnown'
      BY <1>1, <1>3, LateKept DEF ContextInv, Intact, Goto, Places, dictVars, Stopped, Threads
    <2> QED BY <2>1, <2>2
  <1> QED BY <1>1, <1>2, <1>3, WaiterMovesInv DEF ContextInv, ContextTypeOK

(***************************************************************************)
(* The enumeration.                                                        *)
(***************************************************************************)

\* Only one thread enumerates at a time.
LEMMA OneEnumerates ==
    ASSUME ContextInv, Intact, NEW w \in Waiters, NEW u \in Waiters,
           pc[w] = "each" \/ pc[w] = "keys", pc[u] = "each"
    PROVE  u = w
BY DEF Intact, LockExcludes, Critical, Threads

\* The enumeration of an array starts before its first Runnable.
LEMMA NextKeyInv ==
    ASSUME ContextInv, NEW w \in Waiters, NextKey(w)
    PROVE  ContextInv'
  <1> USE DEF ContextInv
  <1>1. PICK m \in scan[w].keys :
          /\ Goto(w, "keys", "each")
          /\ scan' = [scan EXCEPT ![w] =
                [keys |-> scan[w].keys \ {m}, key |-> m, array |-> queue[m], pos |-> 0,
                 size |-> IF queue[m] = Nil THEN 0 ELSE Len(arrays[queue[m]])]]
          /\ UNCHANGED <<dictVars, mainVars, isRunning, lock, job, asked, late,
                         broken, crashed>>
    BY DEF NextKey
  <1>2. /\ pc \in [Threads -> DelayPlaces \cup WaitPlaces]
        /\ pc' = [pc EXCEPT ![w] = "each"] /\ w \in Threads /\ w \notin Delayers
        /\ pc[w] = "keys" /\ pc'[w] = "each"
        /\ \A u \in Threads \ {w} : pc'[u] = pc[u]
        /\ UNCHANGED <<queue, arrays, timers, clock, runs, job, asked, crashed>>
    BY <1>1, DistinctThreads DEF Places, Goto, Threads, dictVars, mainVars
  <1>3. scan[w] \in Scans /\ m \in Delays /\ queue[m] \in Runnables \cup {Nil}
    BY DEF ContextTypeOK, Scans
  <1>4. queue[m] # Nil => Len(arrays[queue[m]]) \in Nat
    BY <1>3 DEF ContextTypeOK
  <1>5. /\ scan'[w] = [keys |-> scan[w].keys \ {m}, key |-> m, array |-> queue[m], pos |-> 0,
                       size |-> IF queue[m] = Nil THEN 0 ELSE Len(arrays[queue[m]])]
        /\ \A u \in Waiters \ {w} : scan'[u] = scan[u]
        /\ scan' \in [Waiters -> Scans]
    <2>1. scan \in [Waiters -> Scans]
      BY DEF ContextTypeOK
    <2> QED BY <1>1, <1>3, <1>4, <2>1 DEF Scans
  <1>6. ContextTypeOK'
    BY <1>1, <1>2, <1>5 DEF ContextTypeOK
  <1>7. Places'
    BY <1>2, <1>3, <1>5 DEF Places, WaitPlaces, Threads
  <1>8. \A r : (Added(r))' <=> Added(r)
    BY <1>2 DEF Added, Threads
  <1>9. \A r : (Gone(r))' <=> Gone(r)
    BY <1>2 DEF Gone, Dispatched
  <1>10. ArraysApart'
    BY <1>2, <1>8, <1>9 DEF ArraysApart
  <1>11. ASSUME Intact PROVE Intact'
    <2> USE <1>11
    <2>1. LockExcludes'
      BY <1>1, LockKept DEF Base, Intact, Critical, Threads
    <2>2. UNCHANGED AllKeys /\ m \in AllKeys
      BY <1>2 DEF AllKeys, Intact, ReadCurrent
    <2>3. queue[m] # Nil
      BY <2>2 DEF AllKeys
    <2>4. ReadCurrent'
      BY <1>2, <1>3, <1>4, <1>5, <2>2, <2>3 DEF Intact, ReadCurrent, KeyOf, Threads
    <2>5. ASSUME NEW a \in Runnables, NEW i \in 1..Len(arrays[a])
          PROVE  ~Scanned(a, i) /\ ~(Scanned(a, i))'
      <3>1. \A u \in Waiters : pc[u] # "each"
        BY <1>2, OneEnumerates
      <3> QED BY <1>2, <1>5, <3>1 DEF Scanned, Threads
    <2>6. \A a : (InQueue(a))' <=> InQueue(a)
      BY <1>2 DEF InQueue
    <2>7. GoneInOrder'
      BY <1>2, <1>9, <2>5, <2>6 DEF Intact, GoneInOrder
    <2>8. OneTimerEach' /\ RanOnce' /\ ~crashed'
      BY <1>2 DEF Intact, OneTimerEach, RanOnce, Dispatched
    <2>9. LateKnown'
      BY <1>1, <1>2, LateKept DEF Intact, dictVars, Stopped, Threads
    <2> QED BY <2>1, <2>4, <2>7, <2>8, <2>9 DEF Intact
  <1> QED BY <1>1, <1>6, <1>7, <1>10, <1>11

LEMMA NanosecondsTyped ==
    ASSUME NEW millis \in Nat
    PROVE  Nanoseconds(millis) \in Nat
  <1>1. \A n \in Nat : n \div 1000 \in Nat
    BY SMT
  <1> QED BY <1>1 DEF Nanoseconds, MSEC_PER_SEC

\* The next Runnable of the array gets its timer; no other has one of it, and it
\* has not run, since the enumeration has not passed it.
LEMMA DispatchInv ==
    ASSUME ContextInv, NEW w \in Waiters, Dispatch(w)
    PROVE  ContextInv'
  <1> USE DEF ContextInv
  <1> DEFINE s == scan[w]
             i == s.pos + 1
             r == arrays[s.array][i]
             timer == [runnable |-> r, due |-> clock + Nanoseconds(s.key), by |-> w]
  <1>1. /\ Goto(w, "each", "each") /\ s.pos < s.size /\ ~Mutated(s)
        /\ timers' = timers \cup {timer}
        /\ scan' = [scan EXCEPT ![w].pos = @ + 1]
        /\ UNCHANGED <<queue, arrays, isRunning, lock, job, clock, asked, runs, late,
                       broken, crashed>>
    BY DEF Dispatch, dictVars
  <1>2. /\ w \in Threads /\ pc \in [Threads -> DelayPlaces \cup WaitPlaces]
        /\ pc[w] = "each" /\ UNCHANGED pc
    BY <1>1 DEF Places, Goto, Threads
  <1>3. s \in Scans /\ scan \in [Waiters -> Scans] /\ s.key \in Delays
    BY <1>2 DEF ContextTypeOK, Places
  <1>4. s.pos \in Nat /\ s.size \in Nat /\ s.array \in Runnables
    BY <1>1, <1>2, <1>3 DEF Scans, Places
  <1>5. /\ Len(arrays[s.array]) = s.size /\ i \in 1..Len(arrays[s.array]) /\ r \in Runnables
    BY <1>1, <1>4, NilAssumption DEF Mutated, ContextTypeOK
  <1>6. timer \in Timers
    <2>1. Nanoseconds(s.key) \in Nat
      BY <1>3, DelaysAssumption, NanosecondsTyped
    <2> QED BY <1>5, <2>1 DEF Timers, ContextTypeOK
  <1>7. /\ scan'[w] = [s EXCEPT !.pos = i] /\ scan' \in [Waiters -> Scans]
        /\ \A u \in Waiters \ {w} : scan'[u] = scan[u]
    BY <1>1, <1>3, <1>4 DEF Scans
  <1>8. ContextTypeOK'
    BY <1>1, <1>6, <1>7 DEF ContextTypeOK
  <1>9. Places'
    BY <1>1, <1>2, <1>3, <1>7 DEF Places, Scans
  <1>10. \A x : (Added(x))' <=> Added(x)
    BY <1>1, <1>2 DEF Added
  <1>11. \A x : (Gone(x))' <=> Gone(x) \/ x = r
    <2>1. timer.runnable = r
      OBVIOUS
    <2>2. Dispatched' = Dispatched \cup {r}
      BY <1>1, <2>1 DEF Dispatched
    <2> QED BY <1>1, <2>2 DEF Gone
  <1>12. Added(r)
    BY <1>4, <1>5 DEF ArraysApart
  <1>13. ArraysApart'
    BY <1>1, <1>10, <1>11, <1>12 DEF ArraysApart
  <1>14. ASSUME Intact PROVE Intact'
    <2> USE <1>14
    <2>1. \A u \in Waiters : pc[u] = "each" => u = w
      BY <1>2, OneEnumerates
    <2>2. InQueue(s.array) /\ ~Scanned(s.array, i)
      <3>1. InQueue(s.array)
        BY <1>2 DEF Intact, ReadCurrent, InQueue, AllKeys
      <3>2. ~Scanned(s.array, i)
        BY <2>1, <1>4 DEF Scanned
      <3> QED BY <3>1, <3>2
    <2>3. ~Gone(r)
      BY <1>4, <1>5, <2>2 DEF Intact, GoneInOrder
    <2>4. LockExcludes'
      BY <1>1, <1>2 DEF Intact, LockExcludes
    <2>5. UNCHANGED AllKeys
      BY <1>1 DEF AllKeys
    <2>6. ReadCurrent'
      BY <1>1, <1>2, <1>3, <1>4, <1>5, <1>7, <2>5 DEF Intact, ReadCurrent, KeyOf, Scans
    <2>7. ASSUME NEW a \in Runnables, NEW j \in 1..Len(arrays[a])
          PROVE  (Scanned(a, j))' <=> Scanned(a, j) \/ (a = s.array /\ j = i)
      <3>1. scan'[w].array = s.array /\ scan'[w].pos = i
        BY <1>3, <1>7 DEF Scans
      <3>2. (Scanned(a, j))' <=> a = s.array /\ j <= i
        BY <1>2, <2>1, <3>1 DEF Scanned
      <3>3. Scanned(a, j) <=> a = s.array /\ j <= s.pos
        BY <1>2, <2>1 DEF Scanned
      <3> QED BY <1>4, <3>2, <3>3
    <2>8. ASSUME NEW a \in Runnables, NEW j \in 1..Len(arrays[a])
          PROVE  arrays[a][j] = r <=> a = s.array /\ j = i
      BY <1>4, <1>5 DEF ArraysApart
    <2>9. \A a : (InQueue(a))' <=> InQueue(a)
      BY <1>1 DEF InQueue
    <2>10. GoneInOrder'
      BY <1>1, <1>11, <2>7, <2>8, <2>9 DEF Intact, GoneInOrder
    <2>11. \A other \in timers : other.runnable # r
      BY <2>3 DEF Gone, Dispatched
    <2>12. OneTimerEach'
      BY <1>1, <2>11 DEF Intact, OneTimerEach
    <2>13. RanOnce'
      BY <1>1, <2>3 DEF Intact, RanOnce, Dispatched, Gone
    <2>14. LateKnown'
      BY <1>1, <1>2, LateKept DEF Intact
    <2> QED BY <1>1, <2>4, <2>6, <2>10, <2>12, <2>13, <2>14 DEF Intact
  <1> QED BY <1>1, <1>8, <1>9, <1>13, <1>14

\* Only a broken lock lets the enumeration notice a change.
LEMMA MutationThrownInv ==
    ASSUME ContextInv, NEW w \in Waiters, MutationThrown(w)
    PROVE  ContextInv'
  <1> USE DEF ContextInv
  <1>1. /\ Goto(w, "each", "each") /\ Mutated(scan[w]) /\ crashed' = TRUE
        /\ UNCHANGED <<queue, arrays, timers, clock, runs, isRunning, lock, job, scan,
                       asked, late, broken>>
    BY DEF MutationThrown, dictVars, mainVars
  <1>2. pc[w] = "each" /\ UNCHANGED pc
    BY <1>1 DEF Places, Goto, Threads
  <1>3. broken
    BY <1>1, <1>2 DEF Intact, ReadCurrent, Mutated
  <1>4. ContextTypeOK' /\ Places'
    BY <1>1, <1>2 DEF ContextTypeOK, Places
  <1>5. ArraysApart'
    BY <1>1, <1>2 DEF ArraysApart, Added, Gone, Dispatched
  <1> QED BY <1>1, <1>3, <1>4, <1>5

\* The enumeration has passed all Runnables of the array that leaves the dictionary.
LEMMA removeObjectForKeyInv ==
    ASSUME ContextInv, NEW w \in Waiters, removeObjectForKey(w)
    PROVE  ContextInv'
  <1> USE DEF ContextInv
  <1> DEFINE s == scan[w]
  <1>1. /\ Goto(w, "each", "keys") /\ s.pos = s.size
        /\ queue' = [queue EXCEPT ![s.key] = Nil]
        /\ scan' = [scan EXCEPT ![w] = [NoScan EXCEPT !.keys = s.keys]]
        /\ UNCHANGED <<arrays, timers, clock, runs, isRunning, lock, job, asked, late,
                       broken, crashed>>
    BY DEF removeObjectForKey, RemoveKey, mainVars
  <1>2. /\ w \in Threads /\ w \notin Delayers /\ pc[w] = "each" /\ pc'[w] = "keys"
        /\ pc \in [Threads -> DelayPlaces \cup WaitPlaces]
        /\ pc' = [pc EXCEPT ![w] = "keys"]
        /\ \A u \in Threads \ {w} : pc'[u] = pc[u]
    BY <1>1, DistinctThreads DEF Places, Goto, Threads
  <1>3. s \in Scans /\ scan \in [Waiters -> Scans] /\ s.key \in Delays
    BY <1>2 DEF ContextTypeOK, Places
  <1>4. [NoScan EXCEPT !.keys = s.keys] \in Scans
    BY <1>3 DEF NoScan, Scans
  <1>5. /\ scan'[w].keys = s.keys /\ scan' \in [Waiters -> Scans]
        /\ \A u \in Waiters \ {w} : scan'[u] = scan[u]
    BY <1>1, <1>3, <1>4 DEF NoScan
  <1>6. /\ queue' \in [Delays -> Runnables \cup {Nil}] /\ queue'[s.key] = Nil
        /\ \A m \in Delays : m # s.key => queue'[m] = queue[m]
    BY <1>1, <1>3 DEF ContextTypeOK
  <1>7. ContextTypeOK'
    BY <1>1, <1>5, <1>6 DEF ContextTypeOK
  <1>8. Places'
    BY <1>1, <1>2, <1>5 DEF Places, WaitPlaces, Threads
  <1>9. \A x : (Added(x))' <=> Added(x)
    BY <1>1, <1>2 DEF Added, Threads
  <1>10. \A x : (Gone(x))' <=> Gone(x)
    BY <1>1 DEF Gone, Dispatched
  <1>11. ArraysApart'
    BY <1>1, <1>6, <1>9, <1>10 DEF ArraysApart
  <1>12. ASSUME Intact PROVE Intact'
    <2> USE <1>12
    <2>1. \A u \in Waiters : pc[u] = "each" => u = w
      BY <1>2, OneEnumerates
    <2>2. /\ s.key \in AllKeys \ s.keys /\ s.keys \subseteq AllKeys
          /\ s.array = queue[s.key] /\ s.size = Len(arrays[s.array])
      BY <1>2 DEF Intact, ReadCurrent
    <2>3. s.array \in Runnables
      BY <1>3, <2>2 DEF ContextTypeOK, AllKeys
    <2>4. LockExcludes'
      BY <1>1, LockKept DEF Base, Intact, Critical, Threads
    <2>5. AllKeys' = AllKeys \ {s.key}
      BY <1>6 DEF AllKeys
    <2>6. \A t \in Delayers : pc[t] # "append"
      BY <1>2, DistinctThreads DEF Intact, LockExcludes, Critical, Threads
    <2>7. \A u \in Waiters \ {w} : pc[u] \notin {"keys", "each"}
      BY <1>2 DEF Intact, LockExcludes, Critical, Threads
    <2>8. ReadCurrent'
      BY <1>2, <1>5, <2>2, <2>5, <2>6, <2>7 DEF ReadCurrent, Threads
    <2>9. ASSUME NEW a \in Runnables
          PROVE  (InQueue(a))' <=> InQueue(a) /\ a # s.array
      <3>1. \A m \in Delays : queue[m] = a /\ a = s.array => m = s.key
        BY <1>3, <2>2, NilAssumption DEF ArraysApart
      <3> QED BY <1>6, <2>2, <3>1, NilAssumption DEF InQueue
    <2>10. ASSUME NEW a \in Runnables, NEW i \in 1..Len(arrays[a])
           PROVE  (Scanned(a, i) <=> a = s.array) /\ ~(Scanned(a, i))'
      <3>1. ~(Scanned(a, i))'
        BY <1>2, <2>7 DEF Scanned, Threads
      <3>2. Scanned(a, i) <=> a = s.array /\ i <= s.pos
        BY <1>2, <2>1 DEF Scanned
      <3> QED BY <1>1, <2>2, <3>1, <3>2
    <2>11. GoneInOrder'
      BY <1>1, <1>10, <2>9, <2>10 DEF Intact, GoneInOrder
    <2>12. OneTimerEach' /\ RanOnce' /\ ~crashed'
      BY <1>1 DEF Intact, OneTimerEach, RanOnce, Dispatched
    <2>13. InDictionary' \subseteq InDictionary
      BY <1>1, <1>6, <2>5 DEF InDictionary, Elements, AllKeys
    <2>14. LateKnown'
      <3>1. \A u \in Waiters : pc'[u] = pc[u] \/ (u = w /\ pc'[u] = "keys")
        BY <1>2 DEF Threads
      <3> QED BY <1>1, <1>2, <2>13, <3>1 DEF Intact, LateKnown
    <2> QED BY <2>4, <2>8, <2>11, <2>12, <2>14 DEF Intact
  <1> QED BY <1>1, <1>7, <1>8, <1>11, <1>12

(***************************************************************************)
(* delay:millis:.                                                          *)
(***************************************************************************)

\* What a delayer found is the array of its delay.
FoundCurrent == \A u \in Delayers : pc[u] = "append" => job[u].array = queue[KeyOf(u)]

\* The steps of a delayer that leave the dictionary alone.
LEMMA DelayerMovesInv ==
    ASSUME ContextInv, NEW t \in Delayers, NEW from, NEW to, Goto(t, from, to), Places',
           UNCHANGED <<dictVars, mainVars, isRunning, scan, late, crashed>>,
           \A r \in Runnables : (Added(r))' <=> Added(r),
           \A r \in Runnables : asked[r] # Nil => asked'[r] = asked[r],
           asked' \in [Runnables -> [millis : Delays, at : Nat] \cup {Nil}],
           job' \in [Delayers -> Jobs], lock' \in Threads \cup {Nil},
           broken' \in BOOLEAN, ~broken' => ~broken,
           ~broken' /\ Intact => LockExcludes' /\ FoundCurrent'
    PROVE  ContextInv'
  <1> USE DEF ContextInv
  <1>1. /\ UNCHANGED <<queue, arrays, timers, clock, runs, isRunning, scan, late, crashed>>
        /\ \A w \in Waiters : pc'[w] = pc[w]
    BY DistinctThreads DEF Places, Goto, Threads, dictVars, mainVars
  <1>2. ContextTypeOK'
    BY <1>1 DEF ContextTypeOK
  <1>3. \A r : (Gone(r))' <=> Gone(r)
    BY <1>1 DEF Gone, Dispatched
  <1>4. ArraysApart'
    <2>1. \A a \in Runnables : arrays[a] \in Seq(Runnables)
      BY DEF ContextTypeOK
    <2>2. \A a \in Runnables : \A i \in 1..Len(arrays[a]) : arrays[a][i] \in Runnables
      BY <2>1
    <2>3. \A m \in Delays : queue[m] # Nil => queue[m] \in Runnables
      BY DEF ContextTypeOK
    <2> QED BY <1>1, <1>3, <2>2, <2>3 DEF ArraysApart
  <1>5. ASSUME ~broken' PROVE Intact'
    <2>1. Intact
      BY <1>5
    <2>2. LockExcludes' /\ FoundCurrent'
      BY <1>5, <2>1
    <2>3. UNCHANGED AllKeys /\ \A a : (InQueue(a))' <=> InQueue(a)
      BY <1>1 DEF AllKeys, InQueue
    <2>4. ReadCurrent'
      BY <1>1, <2>1, <2>2, <2>3 DEF Intact, ReadCurrent, FoundCurrent
    <2>5. \A a, i : (Scanned(a, i))' <=> Scanned(a, i)
      BY <1>1 DEF Scanned
    <2>6. GoneInOrder'
      BY <1>1, <1>3, <2>1, <2>3, <2>5 DEF Intact, GoneInOrder
    <2>7. OneTimerEach' /\ RanOnce' /\ ~crashed'
      BY <1>1, <2>1 DEF Intact, OneTimerEach, RanOnce, Dispatched
    <2>8. LateKnown'
      BY <1>1, <2>1, LateKept DEF Intact
    <2> QED BY <2>2, <2>4, <2>6, <2>7, <2>8 DEF Intact
  <1> QED BY <1>2, <1>4, <1>5

\* A Runnable is given to delay: once, so that no array can hold it yet.
LEMMA delayInv ==
    ASSUME ContextInv, NEW t \in Delayers, NEW r \in Runnables, NEW m \in Delays,
           delay(t, r, m)
    PROVE  ContextInv'
  <1> DEFINE given == [millis |-> m, at |-> clock]
  <1>1. /\ asked[r] = Nil /\ Goto(t, "idle", "delay")
        /\ asked' = [asked EXCEPT ![r] = given]
        /\ job' = [job EXCEPT ![t].runnable = r]
        /\ UNCHANGED <<dictVars, mainVars, isRunning, lock, scan, late, broken, crashed>>
    BY DEF delay
  <1>2. /\ t \in Threads /\ t \notin Waiters /\ pc[t] = "idle" /\ pc'[t] = "delay"
        /\ pc' \in [Threads -> DelayPlaces \cup WaitPlaces]
        /\ \A u \in Threads \ {t} : pc'[u] = pc[u]
    BY <1>1, DistinctThreads DEF ContextInv, Places, Goto, Threads, DelayPlaces
  <1>3. given \in [millis : Delays, at : Nat] /\ given # Nil
    BY NilAssumption DEF ContextInv, ContextTypeOK
  <1>4. /\ asked' \in [Runnables -> [millis : Delays, at : Nat] \cup {Nil}]
        /\ asked'[r] # Nil /\ \A x \in Runnables \ {r} : asked'[x] = asked[x]
    BY <1>1, <1>3 DEF ContextInv, ContextTypeOK
  <1>5. /\ job' \in [Delayers -> Jobs] /\ job'[t].runnable = r
        /\ \A u \in Delayers \ {t} : job'[u] = job[u]
    BY <1>1 DEF ContextInv, ContextTypeOK, Jobs
  <1>6. job[t].runnable = Nil /\ r # Nil
    BY <1>2, NilAssumption DEF ContextInv, Places
  <1>7. \A u \in Delayers \ {t} : job[u].runnable # r
    BY <1>1, <1>6 DEF ContextInv, Places
  <1>8. \A u \in Delayers : job[u].runnable \in Runnables \cup {Nil}
    BY DEF ContextInv, ContextTypeOK, Jobs
  <1>9. Places'
    BY <1>1, <1>2, <1>4, <1>5, <1>6, <1>7, <1>8
       DEF ContextInv, Places, DelayPlaces, Threads, dictVars
  <1>10. \A x \in Runnables : (Added(x))' <=> Added(x)
    BY <1>1, <1>2, <1>4, <1>5, <1>6, NilAssumption DEF Added, Threads
  <1>11. \A x \in Runnables : asked[x] # Nil => asked'[x] = asked[x]
    BY <1>1, <1>4
  <1>12. ASSUME Intact PROVE LockExcludes' /\ FoundCurrent'
    <2>1. LockExcludes'
      BY <1>1, <1>12, LockKept DEF ContextInv, Base, Intact, Critical, Threads
    <2>2. ASSUME NEW u \in Delayers, pc'[u] = "append"
          PROVE  job'[u].array = queue'[KeyOf(u)']
      <3>1. u # t /\ pc[u] = "append" /\ job'[u] = job[u]
        BY <1>2, <1>5, <2>2 DEF Threads
      <3>2. job[u].runnable \in Runnables \ {r}
        BY <1>7, <1>8, <3>1 DEF ContextInv, Places
      <3> QED BY <1>1, <1>4, <1>12, <3>1, <3>2 DEF Intact, ReadCurrent, KeyOf, dictVars
    <2> QED BY <2>1, <2>2 DEF FoundCurrent
  <1> QED BY <1>1, <1>4, <1>5, <1>9, <1>10, <1>11, <1>12, DelayerMovesInv
          DEF ContextInv, ContextTypeOK

LEMMA DelayLockInv ==
    ASSUME ContextInv, NEW t \in Delayers, DelayLock(t)
    PROVE  ContextInv'
  <1>1. /\ Goto(t, "delay", "find") /\ Lock(t, "delay", "find") /\ lock' = t
        /\ UNCHANGED <<dictVars, mainVars, isRunning, job, scan, asked, late, broken, crashed>>
    BY DEF DelayLock, LockOnly, Lock
  <1>2. /\ t \in Threads /\ t \notin Waiters /\ pc[t] = "delay" /\ pc'[t] = "find"
        /\ pc' \in [Threads -> DelayPlaces \cup WaitPlaces]
        /\ \A u \in Threads \ {t} : pc'[u] = pc[u]
    BY <1>1, DistinctThreads DEF ContextInv, Places, Goto, Threads, DelayPlaces
  <1>3. Places'
    BY <1>1, <1>2 DEF ContextInv, Places, DelayPlaces, Threads, dictVars
  <1>4. \A x \in Runnables : (Added(x))' <=> Added(x)
    BY <1>1, <1>2 DEF Added, Threads
  <1>5. ASSUME Intact PROVE LockExcludes' /\ FoundCurrent'
    <2>1. LockExcludes'
      BY <1>1, <1>5, LockTaken DEF ContextInv, Base, Intact, Threads, Critical
    <2>2. FoundCurrent'
      BY <1>1, <1>2, <1>5 DEF Intact, ReadCurrent, FoundCurrent, KeyOf, Threads, dictVars
    <2> QED BY <2>1, <2>2
  <1> QED BY <1>1, <1>3, <1>4, <1>5, DelayerMovesInv
          DEF ContextInv, ContextTypeOK, Threads

\* The array of its delay, found with the lock held.
LEMMA FindRunnablesInv ==
    ASSUME ContextInv, NEW t \in Delayers, FindRunnables(t)
    PROVE  ContextInv'
  <1>1. /\ Goto(t, "find", "append")
        /\ job' = [job EXCEPT ![t].array = queue[KeyOf(t)]]
        /\ UNCHANGED <<dictVars, mainVars, isRunning, lock, scan, asked, late, broken, crashed>>
    BY DEF FindRunnables
  <1>2. /\ t \in Threads /\ t \notin Waiters /\ pc[t] = "find" /\ pc'[t] = "append"
        /\ pc' \in [Threads -> DelayPlaces \cup WaitPlaces]
        /\ \A u \in Threads \ {t} : pc'[u] = pc[u]
    BY <1>1, DistinctThreads DEF ContextInv, Places, Goto, Threads, DelayPlaces
  <1>3. KeyOf(t) \in Delays
    <2>1. job[t].runnable \in Runnables /\ asked[job[t].runnable] # Nil
      BY <1>2 DEF ContextInv, Places, ContextTypeOK, Jobs
    <2> QED BY <2>1 DEF ContextInv, ContextTypeOK, KeyOf
  <1>4. /\ job' \in [Delayers -> Jobs]
        /\ job'[t].array = queue[KeyOf(t)] /\ job'[t].runnable = job[t].runnable
        /\ \A u \in Delayers \ {t} : job'[u] = job[u]
    <2>1. queue[KeyOf(t)] \in Runnables \cup {Nil} /\ job \in [Delayers -> Jobs]
      BY <1>3 DEF ContextInv, ContextTypeOK
    <2> HIDE DEF KeyOf
    <2> QED BY <1>1, <2>1 DEF Jobs
  <1>5. \A u \in Delayers : job'[u].runnable = job[u].runnable /\ KeyOf(u)' = KeyOf(u)
    BY <1>1, <1>4 DEF KeyOf
  <1>6. Places'
    <2>1. UNCHANGED <<arrays, asked, scan>>
      BY <1>1 DEF dictVars
    <2>2. job'[t].array # Nil => arrays[job'[t].array] # <<>>
      <3> HIDE DEF KeyOf
      <3> QED BY <1>3, <1>4 DEF ContextInv, ContextTypeOK
    <2>3. \A u \in Delayers : pc'[u] = "append" /\ job'[u].array # Nil =>
             arrays[job'[u].array] # <<>>
      BY <1>2, <1>4, <2>2 DEF ContextInv, Places, Threads
    <2>4. \A u \in Delayers :
             pc'[u] # "idle" => job[u].runnable # Nil /\ asked[job[u].runnable] # Nil
      BY <1>2 DEF ContextInv, Places, Threads
    <2>5. \A u \in Delayers : pc'[u] = "idle" => job[u].runnable = Nil
      BY <1>2 DEF ContextInv, Places, Threads
    <2>6. /\ \A u \in Delayers : pc'[u] \in DelayPlaces
          /\ \A w \in Waiters : pc'[w] = pc[w]
      BY <1>2 DEF ContextInv, Places, DelayPlaces, Threads
    <2> HIDE DEF KeyOf
    <2> QED BY <1>2, <1>5, <2>1, <2>3, <2>4, <2>5, <2>6 DEF ContextInv, Places
  <1>7. \A x \in Runnables : (Added(x))' <=> Added(x)
    BY <1>1, <1>2, <1>5 DEF Added, Threads
  <1>8. ASSUME Intact PROVE LockExcludes' /\ FoundCurrent'
    <2>1. LockExcludes'
      BY <1>1, <1>8, LockKept DEF ContextInv, Base, Intact, Critical, Threads
    <2>2. FoundCurrent'
      BY <1>1, <1>2, <1>4, <1>5, <1>8
         DEF Intact, ReadCurrent, FoundCurrent, Threads, dictVars
    <2> QED BY <2>1, <2>2
  <1> QED BY <1>1, <1>4, <1>6, <1>7, <1>8, DelayerMovesInv DEF ContextInv, ContextTypeOK

LEMMA DelayUnlockInv ==
    ASSUME ContextInv, NEW t \in Delayers, DelayUnlock(t)
    PROVE  ContextInv'
  <1>1. /\ Goto(t, "appended", "idle") /\ Unlock(t) /\ job' = [job EXCEPT ![t] = NoJob]
        /\ UNCHANGED <<dictVars, mainVars, isRunning, scan, asked, late, crashed>>
    BY DEF DelayUnlock
  <1>2. /\ t \in Threads /\ t \notin Waiters /\ pc[t] = "appended" /\ pc'[t] = "idle"
        /\ pc' \in [Threads -> DelayPlaces \cup WaitPlaces]
        /\ \A u \in Threads \ {t} : pc'[u] = pc[u]
    BY <1>1, DistinctThreads DEF ContextInv, Places, Goto, Threads, DelayPlaces
  <1>3. /\ job' \in [Delayers -> Jobs] /\ job'[t].runnable = Nil
        /\ \A u \in Delayers \ {t} : job'[u] = job[u]
    BY <1>1 DEF ContextInv, ContextTypeOK, Jobs, NoJob
  <1>4. lock' \in Threads \cup {Nil} /\ broken' \in BOOLEAN /\ (~broken' => ~broken)
    BY <1>1, LockTyped DEF ContextInv, Threads
  <1>5. Places'
    BY <1>1, <1>2, <1>3 DEF ContextInv, Places, DelayPlaces, Threads, dictVars
  <1>6. \A x \in Runnables : (Added(x))' <=> Added(x)
    BY <1>1, <1>2, <1>3, NilAssumption DEF Added, Threads
  <1>7. ASSUME Intact PROVE LockExcludes' /\ FoundCurrent'
    <2>1. LockExcludes'
      BY <1>1, <1>7, LockGiven DEF ContextInv, Base, Intact, Threads, Critical
    <2>2. FoundCurrent'
      BY <1>1, <1>2, <1>3, <1>7
         DEF Intact, ReadCurrent, FoundCurrent, KeyOf, Threads, dictVars
    <2> QED BY <2>1, <2>2
  <1> QED BY <1>1, <1>3, <1>4, <1>5, <1>6, <1>7, DelayerMovesInv
          DEF ContextInv, ContextTypeOK

\* A Runnable is put at the end of the array of its delay, or in a new one; the
\* lock keeps that array in the dictionary, and out of any enumeration.
LEMMA appendRunnableInv ==
    ASSUME ContextInv, NEW t \in Delayers, appendRunnable(t)
    PROVE  ContextInv'
  <1> USE DEF ContextInv
  <1>0. PICK r \in Runnables, found \in Runnables \cup {Nil}, m \in Delays :
          r = job[t].runnable /\ found = job[t].array /\ m = KeyOf(t) /\ asked[r] # Nil
    <2>1. pc[t] = "append"
      BY DEF appendRunnable, Goto
    <2>2. /\ job[t].runnable \in Runnables /\ job[t].array \in Runnables \cup {Nil}
          /\ asked[job[t].runnable] # Nil
      BY <2>1 DEF Places, ContextTypeOK, Jobs
    <2>3. KeyOf(t) \in Delays
      BY <2>2 DEF ContextTypeOK, KeyOf
    <2> QED BY <2>2, <2>3
  <1>a. PICK a \in Runnables : (found # Nil => a = found) /\ (found = Nil => a = r)
    OBVIOUS
  <1>1. /\ Goto(t, "append", "appended")
        /\ late' = [w \in Waiters |-> late[w] \cup {r}]
        /\ UNCHANGED <<timers, clock, runs, isRunning, lock, job, scan, asked, broken, crashed>>
        /\ \/ /\ found # Nil
              /\ arrays' = [arrays EXCEPT ![found] = Append(arrays[found], r)]
              /\ UNCHANGED queue
           \/ /\ found = Nil
              /\ arrays' = [arrays EXCEPT ![r] = <<r>>]
              /\ queue' = [queue EXCEPT ![m] = r]
    BY <1>0 DEF appendRunnable, NewArray, mainVars
  <1>2. /\ t \in Threads /\ t \notin Waiters /\ pc[t] = "append" /\ pc'[t] = "appended"
        /\ pc' \in [Threads -> DelayPlaces \cup WaitPlaces]
        /\ \A u \in Threads \ {t} : pc'[u] = pc[u]
    BY <1>1, DistinctThreads DEF Places, Goto, Threads, DelayPlaces
  <1>3. asked[r] # Nil /\ asked[r].millis = m /\ r # Nil
    BY <1>0, NilAssumption DEF KeyOf
  <1>4. ~Added(r) /\ ~Gone(r)
    <2>1. ~Added(r)
      BY <1>0, <1>2 DEF Added
    <2> QED BY <1>3, <2>1 DEF ArraysApart
  <1>5. \A b \in Runnables : \A i \in 1..Len(arrays[b]) : arrays[b][i] # r
    BY <1>4 DEF ArraysApart
  <1>6. arrays[r] = <<>>
    <2>1. arrays[r] # <<>> => arrays[r][1] = r /\ 1 \in 1..Len(arrays[r])
      BY <1>3 DEF ArraysApart, ContextTypeOK
    <2> QED BY <1>3, <1>5, <2>1
  <1>7. /\ a \in Runnables /\ \A b \in Runnables : arrays[b] \in Seq(Runnables)
        /\ arrays \in [Runnables -> Seq(Runnables)]
    BY DEF ContextTypeOK
  <1>8. arrays' = [arrays EXCEPT ![a] = Append(arrays[a], r)]
    <2>1. CASE found # Nil
      BY <1>1, <1>a, <2>1
    <2>2. CASE found = Nil
      <3>1. arrays' = [arrays EXCEPT ![r] = <<r>>] /\ a = r
        BY <1>1, <1>a, <2>2
      <3>2. Append(arrays[a], r) = <<r>>
        <4>1. arrays[a] = <<>>
          BY <1>6, <3>1
        <4>2. Append(<<>>, r) = <<r>>
          OBVIOUS
        <4> QED BY <4>1, <4>2
      <3> QED BY <3>1, <3>2
    <2> QED BY <2>1, <2>2
  <1>9. /\ arrays' \in [Runnables -> Seq(Runnables)]
        /\ \A b \in Runnables \ {a} : arrays'[b] = arrays[b]
        /\ arrays'[a] # <<>> /\ Len(arrays'[a]) = Len(arrays[a]) + 1
        /\ arrays'[a][Len(arrays[a]) + 1] = r
        /\ \A i \in 1..Len(arrays[a]) : arrays'[a][i] = arrays[a][i]
    <2> DEFINE new == Append(arrays[a], r)
    <2>1. /\ new \in Seq(Runnables) /\ new # <<>> /\ Len(new) = Len(arrays[a]) + 1
          /\ new[Len(arrays[a]) + 1] = r
          /\ \A i \in 1..Len(arrays[a]) : new[i] = arrays[a][i]
      <3>1. arrays[a] \in Seq(Runnables) /\ r \in Runnables
        BY <1>0, <1>a, <1>7
      <3> HIDE DEF ContextInv
      <3> QED BY <3>1, AppendProperties
    <2> HIDE DEF new
    <2>2. arrays' = [arrays EXCEPT ![a] = new]
      BY <1>8 DEF new
    <2> QED BY <1>7, <2>1, <2>2
  <1>10. \A b \in Runnables : \A i \in 1..Len(arrays'[b]) :
            \/ i \in 1..Len(arrays[b]) /\ arrays'[b][i] = arrays[b][i]
            \/ b = a /\ i = Len(arrays[a]) + 1 /\ arrays'[b][i] = r
    <2>1. Len(arrays[a]) \in Nat
      BY <1>7
    <2>2. \A i \in 1..Len(arrays[a]) + 1 : i \in 1..Len(arrays[a]) \/ i = Len(arrays[a]) + 1
      BY <2>1
    <2>3. 1..Len(arrays'[a]) = 1..Len(arrays[a]) + 1
      BY <1>9
    <2> QED BY <1>9, <2>2, <2>3
  <1>11. /\ queue' \in [Delays -> Runnables \cup {Nil}]
         /\ \A n \in Delays : n # m => queue'[n] = queue[n]
         /\ found # Nil => queue' = queue
         /\ found = Nil => queue'[m] = r
    <2>1. queue \in [Delays -> Runnables \cup {Nil}]
      BY DEF ContextTypeOK
    <2> QED BY <1>1, <2>1
  <1>12. ContextTypeOK'
    <2>1. \A n \in Delays : queue'[n] # Nil => arrays'[queue'[n]] # <<>>
      <3>1. \A b \in Runnables : arrays[b] # <<>> => arrays'[b] # <<>>
        BY <1>9
      <3>2. \A n \in Delays : queue'[n] # Nil =>
               queue'[n] = queue[n] \/ (found = Nil /\ queue'[n] = r)
        BY <1>11
      <3> QED BY <1>a, <1>9, <3>1, <3>2 DEF ContextTypeOK
    <2>2. late' \in [Waiters -> SUBSET Runnables]
      BY <1>1, <1>3 DEF ContextTypeOK
    <2> QED BY <1>1, <1>9, <1>11, <2>1, <2>2 DEF ContextTypeOK
  <1>13. Places'
    <2>1. \A b \in Runnables : arrays[b] # <<>> => arrays'[b] # <<>>
      BY <1>9
    <2>2. \A u \in Delayers : job[u].array \in Runnables \cup {Nil}
      BY DEF ContextTypeOK, Jobs
    <2> QED BY <1>1, <1>2, <2>1, <2>2 DEF Places, DelayPlaces, Threads
  <1>14. \A x \in Runnables : (Added(x))' <=> Added(x) \/ x = r
    <2>1. \A u \in Delayers : job[u].runnable = r => u = t
      BY <1>0, <1>3 DEF Places
    <2>2. (Added(r))'
      BY <1>1, <1>2, <1>3, <2>1 DEF Added
    <2>3. \A x \in Runnables : x # r => ((Added(x))' <=> Added(x))
      BY <1>0, <1>1, <1>2 DEF Added, Threads
    <2> QED BY <2>2, <2>3
  <1>15. \A x : (Gone(x))' <=> Gone(x)
    BY <1>1 DEF Gone, Dispatched
  <1>16. ArraysApart'
    <2>1. \A b \in Runnables : arrays'[b] # <<>> => arrays'[b][1] = b
      <3>1. CASE found # Nil
        <4>1. arrays[a] # <<>>
          BY <1>0, <1>a, <1>2, <3>1 DEF Places
        <4>2. 1 \in 1..Len(arrays[a]) /\ arrays[a][1] = a
          BY <1>7, <4>1 DEF ArraysApart
        <4> QED BY <1>9, <4>2 DEF ArraysApart
      <3>2. CASE found = Nil
        <4>1. arrays'[a][1] = a
          BY <1>a, <1>6, <1>9, <3>2
        <4>2. \A b \in Runnables \ {a} : arrays'[b] = arrays[b]
          BY <1>9
        <4>3. a = r
          BY <1>a, <3>2
        <4> QED BY <4>1, <4>2, <4>3 DEF ArraysApart
      <3> QED BY <3>1, <3>2
    <2>2. \A b \in Runnables : \A i \in 1..Len(arrays'[b]) :
            \A x : x = arrays'[b][i] => x \in Runnables /\ (Added(x))'
      <3>1. ASSUME NEW b \in Runnables, NEW i \in 1..Len(arrays[b])
            PROVE  Added(arrays[b][i]) /\ arrays[b][i] \in Runnables
        BY <1>7 DEF ArraysApart
      <3>2. ASSUME NEW b \in Runnables, NEW i \in 1..Len(arrays'[b])
            PROVE  /\ arrays'[b][i] \in Runnables
                   /\ Added(arrays'[b][i]) \/ arrays'[b][i] = r
        BY <1>3, <1>10, <3>1
      <3>3. ASSUME NEW x \in Runnables, Added(x) \/ x = r PROVE (Added(x))'
        BY <1>14, <3>3
      <3> QED BY <3>2, <3>3
    <2>3. \A b, c \in Runnables :
            \A i \in 1..Len(arrays'[b]), j \in 1..Len(arrays'[c]) :
               arrays'[b][i] = arrays'[c][j] => b = c /\ i = j
      <3>1. \A b, c \in Runnables :
              \A i \in 1..Len(arrays[b]), j \in 1..Len(arrays[c]) :
                 arrays[b][i] = arrays[c][j] => b = c /\ i = j
        BY DEF ArraysApart
      <3>2. ASSUME NEW b \in Runnables, NEW i \in 1..Len(arrays'[b]),
                   arrays'[b][i] = r
            PROVE  b = a /\ i = Len(arrays[a]) + 1
        BY <1>5, <1>10, <3>2
      <3>3. ASSUME NEW b \in Runnables, NEW i \in 1..Len(arrays'[b]),
                   arrays'[b][i] # r
            PROVE  i \in 1..Len(arrays[b]) /\ arrays'[b][i] = arrays[b][i]
        BY <1>10, <3>3
      <3>4. SUFFICES ASSUME NEW b \in Runnables, NEW c \in Runnables,
                            NEW i \in 1..Len(arrays'[b]), NEW j \in 1..Len(arrays'[c]),
                            arrays'[b][i] = arrays'[c][j]
                     PROVE  b = c /\ i = j
        OBVIOUS
      <3>5. CASE arrays'[b][i] = r
        <4>1. b = a /\ i = Len(arrays[a]) + 1
          BY <3>2, <3>5
        <4>2. arrays'[c][j] = r
          BY <3>4, <3>5
        <4>3. c = a /\ j = Len(arrays[a]) + 1
          BY <3>2, <4>2
        <4> QED BY <4>1, <4>3
      <3>6. CASE arrays'[b][i] # r
        <4>1. i \in 1..Len(arrays[b]) /\ arrays'[b][i] = arrays[b][i]
          BY <3>3, <3>6
        <4>2. j \in 1..Len(arrays[c]) /\ arrays'[c][j] = arrays[c][j]
          BY <3>3, <3>4, <3>6
        <4>3. arrays[b][i] = arrays[c][j]
          BY <3>4, <4>1, <4>2
        <4> QED BY <3>1, <4>1, <4>2, <4>3
      <3> QED BY <3>5, <3>6
    <2>4. \A n \in Delays : queue'[n] # Nil =>
            asked[queue'[n]] # Nil /\ asked[queue'[n]].millis = n
      BY <1>3, <1>11 DEF ArraysApart
    <2>5. \A x \in Runnables : (Gone(x))' => (Added(x))'
      BY <1>14, <1>15 DEF ArraysApart
    <2> QED BY <1>1, <2>1, <2>2, <2>3, <2>4, <2>5 DEF ArraysApart, Added
  <1>17. ASSUME Intact PROVE Intact'
    <2> USE <1>17
    <2>1. LockExcludes'
      BY <1>1, LockKept DEF Base, Intact, Critical, Threads
    <2>2. \A u \in Threads \ {t} : pc[u] \notin Critical
      BY <1>2 DEF Intact, LockExcludes, Critical
    <2>3. /\ \A u \in Delayers : pc'[u] # "append"
          /\ \A w \in Waiters : pc[w] \notin {"keys", "each"} /\ pc'[w] = pc[w]
      BY <1>2, <2>2 DEF Critical, Threads
    <2>4. ReadCurrent'
      BY <2>3 DEF ReadCurrent
    <2>5. found = queue[m]
      BY <1>0, <1>2 DEF Intact, ReadCurrent
    <2>6. (InQueue(a))' /\ \A b \in Runnables : (InQueue(b))' <=> InQueue(b) \/ b = a
      <3>1. CASE found # Nil
        BY <1>a, <1>11, <2>5, <3>1 DEF InQueue
      <3>2. CASE found = Nil
        <4>1. a = r /\ queue'[m] = r /\ queue[m] = Nil
          BY <1>a, <1>11, <2>5, <3>2
        <4>2. \A n \in Delays : n # m => queue'[n] = queue[n]
          BY <1>11
        <4>3. \A b \in Runnables : b # Nil
          BY NilAssumption
        <4> QED BY <4>1, <4>2, <4>3 DEF InQueue
      <3> QED BY <3>1, <3>2
    <2>7. \A b, i : ~Scanned(b, i) /\ ~(Scanned(b, i))'
      BY <2>3 DEF Scanned
    <2>8. \A i \in 1..Len(arrays[a]) : InQueue(a)
      BY <1>a, <1>6, <2>5 DEF InQueue
    <2>9. ASSUME NEW b \in Runnables, NEW i \in 1..Len(arrays'[b]), NEW x,
                 x = arrays'[b][i]
          PROVE  (Gone(x))' <=> ~(InQueue(b))' \/ (Scanned(b, i))'
      <3>1. ASSUME NEW j \in 1..Len(arrays[b])
            PROVE  Gone(arrays[b][j]) <=> ~(InQueue(b))'
        BY <2>6, <2>7, <2>8 DEF Intact, GoneInOrder
      <3>2. Gone(x) <=> ~(InQueue(b))'
        BY <1>4, <1>10, <2>6, <2>9, <3>1
      <3> QED BY <1>15, <2>7, <3>2
    <2>10. GoneInOrder'
      BY <2>9 DEF GoneInOrder, Gone
    <2>11. OneTimerEach' /\ RanOnce' /\ ~crashed'
      BY <1>1 DEF Intact, OneTimerEach, RanOnce, Dispatched
    <2>12. InDictionary' \subseteq InDictionary \cup {r}
      <3>1. SUFFICES ASSUME NEW n \in Delays, queue'[n] # Nil,
                            NEW b, b = queue'[n], NEW i \in 1..Len(arrays'[b])
                     PROVE  arrays'[b][i] \in InDictionary \cup {r}
        BY DEF InDictionary, AllKeys, Elements
      <3>2. b \in Runnables
        BY <1>11, <3>1
      <3>3. CASE i \in 1..Len(arrays[b]) /\ arrays'[b][i] = arrays[b][i]
        <4>1. queue[n] = b
          BY <1>6, <1>11, <3>1, <3>3
        <4> QED BY <3>1, <3>3, <4>1 DEF InDictionary, AllKeys, Elements
      <3> QED BY <1>10, <3>2, <3>3
    <2>13. LateKnown'
      <3>1. \A w \in Waiters :
               InDictionary \subseteq late[w] => InDictionary' \subseteq late'[w]
        BY <1>1, <2>12
      <3> QED BY <1>1, <2>3, <3>1 DEF Intact, LateKnown
    <2> QED BY <2>1, <2>4, <2>10, <2>11, <2>13 DEF Intact
  <1> QED BY <1>1, <1>12, <1>13, <1>16, <1>17

(***************************************************************************)
(* The main queue.                                                         *)
(***************************************************************************)

\* The Runnable of a timer runs, and no other timer has it; an unlock that leaves
\* the lock where it was changes nothing else.
LEMMA FireInv ==
    ASSUME ContextInv, NEW timer \in timers, Fire(timer)
    PROVE  ContextInv'
  <1> USE DEF ContextInv
  <1> DEFINE r == timer.runnable
  <1>1. /\ timers' = timers \ {timer} /\ Unlock(Main)
        /\ runs' = [runs EXCEPT ![r] = Append(runs[r], clock)]
        /\ UNCHANGED <<queue, arrays, isRunning, pc, job, scan, clock, asked, late, crashed>>
    BY DEF Fire, dictVars
  <1>2. lock' \in Threads \cup {Nil} /\ broken' \in BOOLEAN /\ (~broken' => ~broken)
    BY <1>1, LockTyped
  <1>3. r \in Runnables
    BY DEF ContextTypeOK, Timers
  <1>4. /\ runs' \in [Runnables -> Seq(Nat)] /\ runs'[r] # <<>>
        /\ Len(runs'[r]) = Len(runs[r]) + 1
        /\ \A x \in Runnables \ {r} : runs'[x] = runs[x]
    <2> DEFINE new == Append(runs[r], clock)
    <2>1. runs \in [Runnables -> Seq(Nat)] /\ runs[r] \in Seq(Nat) /\ clock \in Nat
      BY <1>3 DEF ContextTypeOK
    <2>2. new \in Seq(Nat) /\ new # <<>> /\ Len(new) = Len(runs[r]) + 1
      BY <2>1, AppendProperties
    <2>3. runs' = [runs EXCEPT ![r] = new]
      BY <1>1
    <2> HIDE DEF new, r
    <2> QED BY <1>3, <2>1, <2>2, <2>3
  <1>5. ContextTypeOK'
    BY <1>1, <1>2, <1>4 DEF ContextTypeOK
  <1>6. Places'
    BY <1>1 DEF Places
  <1>7. \A x : (Added(x))' <=> Added(x)
    BY <1>1 DEF Added
  <1>8. \A x \in Runnables : (Gone(x))' <=> Gone(x)
    <2>1. (Gone(r))' /\ Gone(r)
      BY <1>4 DEF Gone, Dispatched
    <2>2. \A x \in Runnables : x # r => (x \in Dispatched' <=> x \in Dispatched)
      BY <1>1 DEF Dispatched
    <2>3. \A x \in Runnables \ {r} : (Gone(x))' <=> Gone(x)
      BY <1>4, <2>2 DEF Gone
    <2> QED BY <2>1, <2>3
  <1>9. ArraysApart'
    BY <1>1, <1>7, <1>8 DEF ArraysApart
  <1>10. ASSUME ~broken' PROVE Intact'
    <2>1. Intact
      BY <1>2, <1>10
    <2>2. UNCHANGED lock
      BY <1>1, <1>10, DistinctThreads DEF Unlock, ContextTypeOK, Threads
    <2>3. LockExcludes'
      BY <1>1, <2>1, <2>2 DEF Intact, LockExcludes
    <2>4. UNCHANGED AllKeys /\ \A a : (InQueue(a))' <=> InQueue(a)
      BY <1>1 DEF AllKeys, InQueue
    <2>5. ReadCurrent'
      BY <1>1, <2>1, <2>4 DEF Intact, ReadCurrent, KeyOf
    <2>6. \A a, i : (Scanned(a, i))' <=> Scanned(a, i)
      BY <1>1 DEF Scanned
    <2>7. \A a \in Runnables : \A i \in 1..Len(arrays[a]) : arrays[a][i] \in Runnables
      BY DEF ContextTypeOK
    <2>8. GoneInOrder'
      BY <1>1, <1>8, <2>1, <2>4, <2>6, <2>7 DEF Intact, GoneInOrder
    <2>9. OneTimerEach'
      BY <1>1, <2>1 DEF Intact, OneTimerEach
    <2>10. r \notin Dispatched'
      BY <1>1, <2>1 DEF Intact, OneTimerEach, Dispatched
    <2>11. runs[r] = <<>>
      BY <1>3, <2>1 DEF Intact, RanOnce, Dispatched
    <2>12. Len(runs'[r]) <= 1
      BY <1>4, <2>11
    <2>13. Dispatched' \subseteq Dispatched
      BY <1>1 DEF Dispatched
    <2>14. RanOnce'
      BY <1>4, <2>1, <2>10, <2>12, <2>13 DEF Intact, RanOnce
    <2>15. LateKnown'
      BY <1>1, <2>1, LateKept DEF Intact
    <2> QED BY <1>1, <2>1, <2>3, <2>5, <2>8, <2>9, <2>14, <2>15 DEF Intact
  <1> QED BY <1>5, <1>6, <1>9, <1>10

LEMMA TickInv ==
    ASSUME ContextInv, Tick \/ UNCHANGED vars
    PROVE  ContextInv'
  <1> USE DEF ContextInv
  <1>1. /\ UNCHANGED <<queue, arrays, isRunning, lock, pc, job, scan, timers, asked,
                       runs, late, broken, crashed>>
        /\ clock' \in Nat
    BY DEF Tick, vars, dictVars, ContextTypeOK
  <1>2. ContextTypeOK' /\ Places'
    BY <1>1 DEF ContextTypeOK, Places
  <1>3. ArraysApart'
    BY <1>1 DEF ArraysApart, Added, Gone, Dispatched
  <1>4. ASSUME Intact PROVE Intact'
    <2>1. LockExcludes' /\ OneTimerEach' /\ RanOnce' /\ ~crashed'
      BY <1>1, <1>4 DEF Intact, LockExcludes, OneTimerEach, RanOnce, Dispatched
    <2>2. ReadCurrent'
      BY <1>1, <1>4 DEF Intact, ReadCurrent, KeyOf, AllKeys
    <2>3. GoneInOrder'
      BY <1>1, <1>4 DEF Intact, GoneInOrder, Gone, Dispatched, InQueue, Scanned
    <2>4. LateKnown'
      BY <1>1, <1>4, LateKept DEF Intact
    <2> QED BY <2>1, <2>2, <2>3, <2>4 DEF Intact
  <1> QED BY <1>1, <1>2, <1>3, <1>4

LEMMA NextContextInv == ContextInv /\ [Next]_vars => ContextInv'
  <1> SUFFICES ASSUME ContextInv, [Next]_vars PROVE ContextInv'
    OBVIOUS
  <1>1. ASSUME NEW t \in Delayers, DelayStep(t) PROVE ContextInv'
    BY <1>1, DelayLockInv, FindRunnablesInv, appendRunnableInv, DelayUnlockInv DEF DelayStep
  <1>2. ASSUME NEW t \in Delayers, NEW r \in Runnables, NEW m \in Delays, delay(t, r, m)
        PROVE  ContextInv'
    BY <1>2, delayInv
  <1>3. ASSUME NEW w \in Waiters, WaitStep(w) PROVE ContextInv'
    <2>1. CASE WaitLock(w) \/ CheckLock(w) \/ StopLock(w)
      BY <2>1, WaiterLocksInv DEF WaitLock, CheckLock, StopLock
    <2>2. CASE SetStarted(w) \/ SetStopped(w) \/ IsContextRunning(w) \/ Count(w)
      BY <2>2, SetStartedInv, SetStoppedInv, IsContextRunningInv, CountInv
    <2>3. CASE DrainLock(w) \/ NextKey(w) \/ Dispatch(w) \/ MutationThrown(w)
      BY <2>3, DrainLockInv, NextKeyInv, DispatchInv, MutationThrownInv
    <2>4. CASE removeObjectForKey(w) \/ DrainUnlock(w)
      BY <2>4, removeObjectForKeyInv, DrainUnlockInv
    <2> QED BY <1>3, <2>1, <2>2, <2>3, <2>4 DEF WaitStep
  <1>4. ASSUME NEW w \in Waiters, waitUntilStopped(w) PROVE ContextInv'
    BY <1>4, waitUntilStoppedInv
  <1>5. ASSUME FireStep PROVE ContextInv'
    BY <1>5, FireInv DEF FireStep
  <1>6. ASSUME Tick \/ UNCHANGED vars PROVE ContextInv'
    BY <1>6, TickInv
  <1> QED BY <1>1, <1>2, <1>3, <1>4, <1>5, <1>6 DEF Next

(***************************************************************************)
(* Theorems.                                                               *)
(***************************************************************************)

\* The invariant of LGExecutionContextObjc.m 37-103 and LGLockObjc.m, for any
\* Runnables, delays and threads, one of them in waitUntilStopped.
THEOREM ContextInvHolds == Waiters # {} => (Spec => []ContextInv)
  <1> SUFFICES ASSUME Waiters # {} PROVE Spec => []ContextInv
    OBVIOUS
  <1>1. Init => ContextInv
    BY InitContextInv
  <1> QED BY <1>1, NextContextInv, PTL DEF Spec

\* Until the unlock at the end of a timer's block (LGExecutionContextObjc.m 84)
\* takes the lock away, no delay: is lost: its Runnable is in the dictionary, has
\* its timer, or ran (lines 40-55, 73-87).
THEOREM NothingIsLost == Waiters # {} => (Spec => []NothingLost)
  <1> SUFFICES ASSUME Waiters # {} PROVE Spec => []NothingLost
    OBVIOUS
  <1>1. ContextInv => NothingLost
    <2> SUFFICES ASSUME ContextInv, ~broken, NEW a \in Runnables, NEW r \in Elements(a)
                 PROVE  r \in InDictionary \/ Gone(r)
      BY DEF NothingLost, Gone
    <2>1. PICK i \in 1..Len(arrays[a]) : r = arrays[a][i]
      BY DEF Elements
    <2>2. CASE InQueue(a)
      <3>1. PICK m \in Delays : queue[m] = a
        BY <2>2 DEF InQueue
      <3>2. m \in AllKeys
        BY <3>1, NilAssumption DEF AllKeys
      <3> QED BY <3>1, <3>2 DEF InDictionary
    <2>3. CASE ~InQueue(a)
      BY <2>1, <2>3 DEF ContextInv, Intact, GoneInOrder
    <2> QED BY <2>2, <2>3
  <1> QED BY <1>1, ContextInvHolds, PTL

\* Until then no Runnable runs twice, whatever number of threads empties the
\* dictionary (LGExecutionContextObjc.m 73-87).
THEOREM RunOnce == Waiters # {} => (Spec => []RunsOnce)
  <1> SUFFICES ASSUME Waiters # {} PROVE Spec => []RunsOnce
    OBVIOUS
  <1>1. ContextInv => RunsOnce
    BY DEF ContextInv, Intact, RanOnce, RunsOnce
  <1> QED BY <1>1, ContextInvHolds, PTL

\* Until then a context that was stopped holds only what was added after the count
\* was read for the last time (LGExecutionContextObjc.m 70-94).
THEOREM OnlyLateLeft == Waiters # {} => (Spec => []LeavesOnlyLate)
  <1> SUFFICES ASSUME Waiters # {} PROVE Spec => []LeavesOnlyLate
    OBVIOUS
  <1>1. ContextInv => LeavesOnlyLate
    BY DEF ContextInv, Intact, LateKnown, LeavesOnlyLate
  <1> QED BY <1>1, ContextInvHolds, PTL

\* And no enumeration meets a mutation (LGExecutionContextObjc.m 49 and 78).
THEOREM CrashNeedsBroken == Waiters # {} => (Spec => []CrashOnlyIfBroken)
  <1> SUFFICES ASSUME Waiters # {} PROVE Spec => []CrashOnlyIfBroken
    OBVIOUS
  <1>1. ContextInv => CrashOnlyIfBroken
    BY DEF ContextInv, Intact, CrashOnlyIfBroken
  <1> QED BY <1>1, ContextInvHolds, PTL
=============================================================================
