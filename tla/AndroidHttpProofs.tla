-------------------------- MODULE AndroidHttpProofs --------------------------
(***************************************************************************)
(* Proofs about AndroidHttp for any number of requests: with one thread in *)
(* the core of the pool, requests run one at a time and in their order.    *)
(***************************************************************************)
EXTENDS AndroidHttp, FiniteSetTheorems, SequenceTheorems, TLAPS

Endings == [request : Requests, outcome : Outcomes]

AndroidTypeOK ==
    /\ order \in Seq(Requests)
    /\ workQueue \in Seq(Requests)
    /\ ended \in Seq(Endings)

\* The first of the requests have ended, the next one runs, the others wait.
OneAtATime ==
    \/ /\ running = {} /\ workQueue = <<>>
       /\ Len(order) = Len(ended)
    \/ /\ Len(order) = Len(ended) + 1 + Len(workQueue)
       /\ running = {order[Len(ended) + 1]}
       /\ \A i \in 1..Len(workQueue) : workQueue[i] = order[Len(ended) + 1 + i]

\* The inductive invariant.
AndroidInv ==
    /\ AndroidTypeOK
    /\ OneAtATime
    /\ EndInOrder

LEMMA InitAndroidInv == Init => AndroidInv
BY DEF Init, AndroidInv, AndroidTypeOK, OneAtATime, EndInOrder

\* A request takes the thread, if it is free, or the end of the queue.
LEMMA getInv ==
    ASSUME CorePool = 1, AndroidInv, NEW r \in Requests, get(r)
    PROVE  AndroidInv'
  <1> USE DEF AndroidInv, AndroidTypeOK
  <1>1. /\ order' = Append(order, r) /\ UNCHANGED ended
        /\ order' \in Seq(Requests) /\ Len(order') = Len(order) + 1
        /\ \A i \in 1..Len(order) : order'[i] = order[i]
        /\ order'[Len(order) + 1] = r
    BY DEF get
  <1>2. EndInOrder'
    BY <1>1 DEF EndInOrder, OneAtATime
  <1>3. CASE running = {}
    <2>1. Cardinality(running) < PoolOfUnboundedQueue
      BY <1>3, FS_EmptySet DEF PoolOfUnboundedQueue
    <2>2. running' = {r} /\ workQueue = <<>> /\ workQueue' = <<>> /\ Len(order) = Len(ended)
      BY <1>3, <2>1 DEF get, OneAtATime
    <2>3. OneAtATime'
      BY <1>1, <2>2 DEF OneAtATime
    <2> QED BY <1>1, <1>2, <2>2, <2>3
  <1>4. CASE running # {}
    <2>1. /\ running = {order[Len(ended) + 1]}
          /\ Len(order) = Len(ended) + 1 + Len(workQueue)
          /\ \A i \in 1..Len(workQueue) : workQueue[i] = order[Len(ended) + 1 + i]
      BY <1>4 DEF OneAtATime
    <2>2. Cardinality(running) = 1
      BY <2>1, FS_Singleton
    <2>3. workQueue' = Append(workQueue, r) /\ UNCHANGED running
      BY <2>2 DEF get, PoolOfUnboundedQueue
    <2>4. /\ workQueue' \in Seq(Requests) /\ Len(workQueue') = Len(workQueue) + 1
          /\ \A i \in 1..Len(workQueue) : workQueue'[i] = workQueue[i]
          /\ workQueue'[Len(workQueue) + 1] = r
      BY <2>3
    <2>5. \A i \in 1..Len(workQueue') : workQueue'[i] = order'[Len(ended') + 1 + i]
      <3>1. Len(workQueue) \in Nat /\ Len(ended) \in Nat /\ Len(order) \in Nat
        OBVIOUS
      <3>2. order'[Len(ended) + 1 + (Len(workQueue) + 1)] = r
        BY <1>1, <2>1, <3>1
      <3>3. ASSUME NEW i \in 1..Len(workQueue)
            PROVE  workQueue'[i] = order'[Len(ended) + 1 + i]
        <4>1. Len(ended) + 1 + i \in 1..Len(order)
          BY <2>1, <3>1
        <4> QED BY <1>1, <2>1, <2>4, <4>1
      <3>4. workQueue'[Len(workQueue) + 1] = order'[Len(ended) + 1 + (Len(workQueue) + 1)]
        BY <2>4, <3>2
      <3>5. \A i \in 1..Len(workQueue) + 1 :
               i \in 1..Len(workQueue) \/ i = Len(workQueue) + 1
        BY <3>1
      <3> QED BY <1>1, <2>4, <3>3, <3>4, <3>5
    <2>6. OneAtATime'
      BY <1>1, <2>1, <2>3, <2>4, <2>5 DEF OneAtATime
    <2> QED BY <1>1, <1>2, <2>4, <2>6
  <1> QED BY <1>3, <1>4

\* The request that ends is the next in order, and so is the one that starts.
LEMMA runInv ==
    ASSUME CorePool = 1, AndroidInv, NEW r \in Requests, RunEnds(r)
    PROVE  AndroidInv'
  <1> USE DEF AndroidInv, AndroidTypeOK
  <1>1. PICK outcome \in Outcomes : run(r, outcome)
    BY DEF RunEnds
  <1>2. /\ running = {r} /\ r = order[Len(ended) + 1]
        /\ Len(order) = Len(ended) + 1 + Len(workQueue)
        /\ \A i \in 1..Len(workQueue) : workQueue[i] = order[Len(ended) + 1 + i]
    BY <1>1 DEF run, OneAtATime
  <1>3. /\ UNCHANGED order
        /\ ended' = Append(ended, [request |-> r, outcome |-> outcome])
        /\ ended' \in Seq(Endings) /\ Len(ended') = Len(ended) + 1
        /\ \A i \in 1..Len(ended) : ended'[i] = ended[i]
        /\ ended'[Len(ended) + 1].request = r
    BY <1>1 DEF run, Endings
  <1>4. EndInOrder'
    BY <1>2, <1>3 DEF EndInOrder
  <1>5. CASE workQueue = <<>>
    <2>1. running' = {} /\ workQueue' = SubSeq(workQueue, 1, 0)
      BY <1>1, <1>2, <1>5 DEF run
    <2>2. workQueue' = <<>>
      BY <1>5, <2>1
    <2>3. OneAtATime'
      BY <1>2, <1>3, <1>5, <2>1, <2>2 DEF OneAtATime
    <2> QED BY <1>3, <1>4, <2>2, <2>3
  <1>6. CASE workQueue # <<>>
    <2> DEFINE next == SubSeq(workQueue, 1, 1)
    <2>1. Len(next) = 1 /\ next[1] = workQueue[1] /\ DOMAIN next = {1}
      BY <1>6
    <2>2. /\ running' = {workQueue[1]}
          /\ workQueue' = SubSeq(workQueue, 2, Len(workQueue))
      BY <1>1, <1>2, <1>6, <2>1 DEF run
    <2>3. /\ workQueue' \in Seq(Requests) /\ Len(workQueue') = Len(workQueue) - 1
          /\ \A i \in 1..Len(workQueue') : workQueue'[i] = workQueue[i + 1]
      <3>1. workQueue' = Tail(workQueue)
        BY <1>6, <2>2, TailIsSubSeq
      <3> QED BY <1>6, <3>1, HeadTailProperties
    <2>4. workQueue[1] = order'[Len(ended') + 1]
      BY <1>2, <1>3, <1>6
    <2>5. \A i \in 1..Len(workQueue') : workQueue'[i] = order'[Len(ended') + 1 + i]
      BY <1>2, <1>3, <2>3
    <2>6. OneAtATime'
      <3>1. Len(order') = Len(ended') + 1 + Len(workQueue')
        <4>1. /\ Len(order') = Len(order) /\ Len(ended') = Len(ended) + 1
              /\ Len(workQueue') = Len(workQueue) - 1
          BY <1>3, <2>3
        <4>2. Len(order) = Len(ended) + 1 + Len(workQueue)
          BY <1>2
        <4>3. Len(ended) \in Nat /\ Len(workQueue) \in Nat
          OBVIOUS
        <4> QED BY <4>1, <4>2, <4>3
      <3>2. running' = {order'[Len(ended') + 1]}
        BY <2>2, <2>4
      <3> QED BY <2>5, <3>1, <3>2 DEF OneAtATime
    <2> QED BY <1>3, <1>4, <2>3, <2>6
  <1> QED BY <1>5, <1>6

\* Any step; a server that stalls and the end of the process change nothing of the
\* order.
LEMMA NextAndroidInv ==
    ASSUME CorePool = 1, AndroidInv, [Next]_vars
    PROVE  AndroidInv'
  <1>1. CASE UNCHANGED vars
    BY <1>1 DEF vars, AndroidInv, AndroidTypeOK, OneAtATime, EndInOrder
  <1>2. ASSUME NEW r \in Requests, Stall(r) PROVE AndroidInv'
    BY <1>2 DEF Stall, AndroidInv, AndroidTypeOK, OneAtATime, EndInOrder
  <1>3. CASE Die
    BY <1>3 DEF Die, AndroidInv, AndroidTypeOK, OneAtATime, EndInOrder
  <1> QED BY <1>1, <1>2, <1>3, getInv, runInv DEF Next

\* With the one core thread of the code, requests end in the order they were
\* made, however many there are and whatever they throw (AndroidHttp.java 21-52).
THEOREM RequestsEndInOrder == CorePool = 1 => (Spec => []EndInOrder)
  <1> SUFFICES ASSUME CorePool = 1 PROVE Spec => []EndInOrder
    OBVIOUS
  <1>1. AndroidInv /\ [Next]_vars => AndroidInv'
    BY NextAndroidInv
  <1>2. AndroidInv => EndInOrder
    BY DEF AndroidInv
  <1> QED BY InitAndroidInv, <1>1, <1>2, PTL DEF Spec
=============================================================================
