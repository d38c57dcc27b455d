------------------------ MODULE SchedulerUnionProofs ------------------------
(***************************************************************************)
(* Proofs about the thread pools, for every number of operations, threads, *)
(* sub-queues, priorities and cores.  Each pool has an invariant of its    *)
(* own; the invariants meet in EachOwedOnce, which counts the places of an *)
(* operation in the pool that its index names.                             *)
(***************************************************************************)
EXTENDS SchedulerUnion, FiniteSetTheorems, SequenceTheorems, WellFoundedInduction, TLAPS

(***************************************************************************)
(* Queues without repetition                                               *)
(***************************************************************************)

Elements(q) == {q[i] : i \in 1 .. Len(q)}
Distinct(q) == \A i, j \in 1 .. Len(q) : q[i] = q[j] => i = j

\* An operation that is not in the queue goes to its end.
LEMMA AppendDistinct ==
  ASSUME NEW S, NEW q \in Seq(S), Distinct(q), NEW o \in S, o \notin Elements(q)
  PROVE  /\ Append(q, o) \in Seq(S) /\ Append(q, o) # <<>>
         /\ Distinct(Append(q, o)) /\ Elements(Append(q, o)) = Elements(q) \cup {o}
<1>1. PICK r : r = Append(q, o)
  OBVIOUS
<1>2. /\ r \in Seq(S) /\ r # <<>> /\ Len(r) = Len(q) + 1 /\ r[Len(q) + 1] = o
      /\ \A i \in 1 .. Len(q) : r[i] = q[i]
  BY <1>1, AppendProperties
<1>3. Len(q) \in Nat /\ \A i \in 1 .. Len(r) : i \in 1 .. Len(q) \/ i = Len(q) + 1
  BY <1>2
<1>4. \A i \in 1 .. Len(q) : q[i] # o
  BY DEF Elements
<1>5. Distinct(r)
  BY <1>2, <1>3, <1>4 DEF Distinct
<1>6. Elements(r) = Elements(q) \cup {o}
  <2>1. Len(q) + 1 \in 1 .. Len(r) /\ \A i \in 1 .. Len(q) : i \in 1 .. Len(r)
    BY <1>2, <1>3
  <2>2. QED
    BY <1>2, <1>3, <2>1 DEF Elements
<1>7. QED
  BY <1>1, <1>2, <1>5, <1>6

\* The first operation leaves the queue.
LEMMA TailDistinct ==
  ASSUME NEW S, NEW q \in Seq(S), Distinct(q), q # <<>>
  PROVE  /\ Tail(q) \in Seq(S) /\ Head(q) \in S /\ Head(q) \in Elements(q)
         /\ Distinct(Tail(q)) /\ Elements(Tail(q)) = Elements(q) \ {Head(q)}
<1>1. PICK r : r = Tail(q)
  OBVIOUS
<1>2. /\ r \in Seq(S) /\ Len(r) = Len(q) - 1 /\ Head(q) \in S
      /\ \A i \in 1 .. Len(r) : r[i] = q[i + 1]
  BY <1>1, HeadTailProperties
<1>3. Len(q) \in Nat /\ Len(q) >= 1 /\ Head(q) = q[1] /\ 1 \in 1 .. Len(q)
  BY EmptySeq
<1>4. /\ \A i \in 1 .. Len(r) : i + 1 \in 1 .. Len(q) /\ i + 1 # 1
      /\ \A i \in 1 .. Len(q) : i = 1 \/ (i - 1 \in 1 .. Len(r) /\ (i - 1) + 1 = i)
      /\ \A i, j \in 1 .. Len(r) : i + 1 = j + 1 => i = j
  BY <1>2, <1>3
<1>5. Distinct(r)
  BY <1>2, <1>4 DEF Distinct
<1>6. Elements(r) \subseteq Elements(q) /\ q[1] \notin Elements(r)
  BY <1>2, <1>3, <1>4 DEF Elements, Distinct
<1>7. \A i \in 1 .. Len(q) : i = 1 \/ q[i] \in Elements(r)
  <2> SUFFICES ASSUME NEW i \in 1 .. Len(q), i # 1 PROVE q[i] \in Elements(r)
    OBVIOUS
  <2>1. PICK j \in 1 .. Len(r) : j + 1 = i
    BY <1>4
  <2>2. QED
    BY <1>2, <2>1 DEF Elements
<1>8. QED
  BY <1>1, <1>2, <1>3, <1>5, <1>6, <1>7 DEF Elements

\* The newest operation leaves a stack.
LEMMA FrontDistinct ==
  ASSUME NEW S, NEW q \in Seq(S), Distinct(q), q # <<>>
  PROVE  LET r == SubSeq(q, 1, Len(q) - 1)
             o == q[Len(q)]
         IN /\ r \in Seq(S) /\ o \in S /\ o \in Elements(q)
            /\ Distinct(r) /\ Elements(r) = Elements(q) \ {o}
            /\ r = <<>> <=> Len(q) = 1
<1>0. Len(q) \in Nat /\ Len(q) >= 1 /\ Len(q) \in 1 .. Len(q)
  BY EmptySeq
<1>1. PICK r, o : r = SubSeq(q, 1, Len(q) - 1) /\ o = q[Len(q)]
  OBVIOUS
<1>2. r \in Seq(S) /\ Len(r) = Len(q) - 1 /\ \A i \in 1 .. Len(r) : r[i] = q[i]
  <2>1. PICK m \in Int, n \in Int : m = 1 /\ n = Len(q) - 1
    BY <1>0
  <2>2. \A i \in m .. n : q[i] \in S
    BY <1>0, <2>1
  <2>3. /\ SubSeq(q, m, n) \in Seq(S)
        /\ Len(SubSeq(q, m, n)) = IF m <= n THEN n - m + 1 ELSE 0
        /\ \A i \in 1 .. n - m + 1 : SubSeq(q, m, n)[i] = q[m + i - 1]
    BY <2>2, SubSeqProperties
  <2>4. r = SubSeq(q, m, n)
    BY <1>1, <2>1
  <2>5. r \in Seq(S) /\ Len(r) = Len(q) - 1
    BY <1>0, <2>1, <2>3, <2>4
  <2>6. \A i \in 1 .. Len(r) : i \in 1 .. n - m + 1 /\ m + i - 1 = i
    BY <1>0, <2>1, <2>5
  <2>7. QED
    BY <2>3, <2>4, <2>5, <2>6
<1>3. \A i \in 1 .. Len(q) : i = Len(q) \/ i \in 1 .. Len(r)
  BY <1>0, <1>2
<1>4. \A i \in 1 .. Len(r) : i \in 1 .. Len(q) /\ i # Len(q)
  BY <1>0, <1>2
<1>5. Distinct(r)
  BY <1>2, <1>4 DEF Distinct
<1>6. Elements(r) = Elements(q) \ {o} /\ o \in Elements(q) /\ o \in S
  <2>a. \A i \in 1 .. Len(r) : r[i] = q[i] /\ i \in 1 .. Len(q) /\ q[i] # o
    BY <1>0, <1>1, <1>2, <1>4 DEF Distinct
  <2>1. Elements(r) \subseteq Elements(q) /\ o \notin Elements(r)
    BY <2>a DEF Elements
  <2>2. \A i \in 1 .. Len(q) : q[i] = o \/ q[i] \in Elements(r)
    BY <1>1, <1>2, <1>3 DEF Elements
  <2>3. QED
    BY <1>0, <1>1, <2>1, <2>2 DEF Elements
<1>7. r = <<>> <=> Len(q) = 1
  BY <1>0, <1>2, EmptySeq
<1>8. QED
  BY <1>1, <1>2, <1>5, <1>6, <1>7

\* The empty queue.
LEMMA EmptyDistinct == Distinct(<<>>) /\ Elements(<<>>) = {}
  BY DEF Distinct, Elements

\* In a queue without repetition an operation has one position or none.
LEMMA Occurrences ==
  ASSUME NEW q, Distinct(q), NEW o
  PROVE  /\ o \notin Elements(q) => {i \in 1 .. Len(q) : q[i] = o} = {}
         /\ o \in Elements(q) => \E k \in 1 .. Len(q) : {i \in 1 .. Len(q) : q[i] = o} = {k}
<1>1. o \notin Elements(q) => {i \in 1 .. Len(q) : q[i] = o} = {}
  BY DEF Elements
<1>2. ASSUME o \in Elements(q)
      PROVE  \E k \in 1 .. Len(q) : {i \in 1 .. Len(q) : q[i] = o} = {k}
  <2>1. PICK k \in 1 .. Len(q) : q[k] = o
    BY <1>2 DEF Elements
  <2>2. {i \in 1 .. Len(q) : q[i] = o} = {k}
    BY <2>1 DEF Distinct
  <2>3. QED
    BY <2>2
<1>3. QED
  BY <1>1, <1>2

\* A set of naturals has a least member: what countr_zero returns.
LEMMA LeastNatural ==
  ASSUME NEW T, T \subseteq Nat, T # {}
  PROVE  \E x \in T : \A y \in T : x <= y
<1>1. PICK R : R = OpToRel(<, Nat)
  OBVIOUS
<1>2. IsWellFoundedOn(R, Nat)
  BY <1>1, NatLessThanWellFounded
<1>3. PICK x \in T : \A y \in T : ~(<<y, x>> \in R)
  BY <1>2, WFMin
<1>4. \A y \in T : ~(y < x)
  BY <1>1, <1>3 DEF OpToRel
<1>5. QED
  BY <1>4

(***************************************************************************)
(* The inductive invariant                                                 *)
(***************************************************************************)

\* Pool 0: what is owed is what the queue and the slots hold, each operation once.
SharePlaced ==
  /\ sQueue \in Seq(Operations) /\ Distinct(sQueue)
  /\ sSlot \in [Share!Workers -> Operations \cup {"none"}]
  /\ \A w, v \in Share!Workers : sSlot[w] = sSlot[v] /\ sSlot[w] # "none" => w = v
  /\ \A w \in Share!Workers : sSlot[w] \notin Elements(sQueue)
  /\ sOwed \subseteq Operations
  /\ \A o \in Operations :
       o \in sOwed <=> o \in Elements(sQueue) \/ \E w \in Share!Workers : sSlot[w] = o
  /\ \A o \in sOwed : index[o] = 0

Searching == {w \in Weak!Workers : wPc[w] \in {"dequeue", "peek", "pop", "popSecond"}}

\* Pool 1: the buckets hold operations of their priority, a bit is set exactly when its
\* bucket is not empty, and no operation is in two sub-queues, two slots or both.
WeakTyped ==
  /\ wSlots \in [Weak!SubQueues -> [Weak!Priorities -> Seq(Operations)]]
  /\ wBitmap \in [Weak!SubQueues -> SUBSET Weak!Priorities]
  /\ wSlot \in [Weak!Workers -> Operations \cup {"none"}]
  /\ wPc \in [Weak!Workers -> {"unstarted", "loop", "wait", "dequeue", "peek", "pop",
                               "popSecond", "execute", "exited"}]
  /\ wPick \in [Weak!Workers -> Weak!SubQueues \X Weak!SubQueues \X (0 .. kMaxPriorityLevels)]

WeakBuckets ==
  /\ \A s \in Weak!SubQueues, p \in Weak!Priorities :
       /\ Distinct(wSlots[s][p])
       /\ \A o \in Elements(wSlots[s][p]) : Priority[o] = p
       /\ p \in wBitmap[s] <=> wSlots[s][p] # <<>>
  /\ \A s, r \in Weak!SubQueues, p \in Weak!Priorities :
       s # r => Elements(wSlots[s][p]) \cap Elements(wSlots[r][p]) = {}

WeakPlaced ==
  /\ \A w, v \in Weak!Workers : wSlot[w] = wSlot[v] /\ wSlot[w] # "none" => w = v
  /\ \A w \in Weak!Workers : wSlot[w] \notin Weak!Stored
  /\ wOwed \subseteq Operations
  /\ \A o \in Operations :
       o \in wOwed <=> o \in Weak!Stored \/ \E w \in Weak!Workers : wSlot[w] = o
  /\ \A o \in wOwed : index[o] = 1

\* Its semaphore: the sets that the two balances count are finite.
WeakCounted ==
  /\ wCount \in Int /\ wSema \in Nat
  /\ wWaiter \in [Weak!Workers -> {"out", "blocked", "expired", "retry"}]
  /\ IsFiniteSet(wSignalling) /\ IsFiniteSet(wPosting) /\ IsFiniteSet(Weak!Stored)
  /\ TokensAccounted

\* Pool 2: the heap is what is owed.
StrictPlaced ==
  /\ pHeap = pOwed /\ pOwed \subseteq Operations
  /\ \A o \in pOwed : index[o] = 2

\* Pool 3: the queue of a core holds operations of that core.
PinnedPlaced ==
  /\ cQueues \in [Pinned!Workers -> Seq(Operations)]
  /\ \A w \in Pinned!Workers :
       Distinct(cQueues[w]) /\ \A o \in Elements(cQueues[w]) : Pinned!QueueOf(o) = w
  /\ cOwed \subseteq Operations
  /\ \A o \in Operations : o \in cOwed <=> o \in Elements(cQueues[Pinned!QueueOf(o)])
  /\ \A o \in cOwed : index[o] = 3

WeakInv == WeakTyped /\ WeakBuckets /\ WeakPlaced /\ WeakCounted

PoolsInv ==
  /\ index \in [Operations -> Nat]
  /\ SharePlaced /\ WeakInv /\ StrictPlaced /\ PinnedPlaced

(***************************************************************************)
(* Pool 0: WorkSharingThreadPool                                           *)
(***************************************************************************)

\* Steps that move no operation.
LEMMA ShareKept ==
  ASSUME SharePlaced, UNCHANGED <<index, sQueue, sSlot, sOwed>>
  PROVE  SharePlaced'
  BY DEF SharePlaced

\* An operation enters the queue.
LEMMA ShareQueued ==
  ASSUME SharePlaced, UNCHANGED <<index, sSlot>>, NEW o \in Operations, o \notin sOwed,
         index[o] = 0, sQueue' = Append(sQueue, o), sOwed' = sOwed \cup {o}
  PROVE  SharePlaced'
<1>1. o \notin Elements(sQueue) /\ \A w \in Share!Workers : sSlot[w] # o
  BY DEF SharePlaced
<1>2. /\ sQueue' \in Seq(Operations) /\ Distinct(sQueue')
      /\ Elements(sQueue') = Elements(sQueue) \cup {o}
  BY <1>1, AppendDistinct DEF SharePlaced
<1>3. QED
  BY <1>1, <1>2 DEF SharePlaced

\* EnqueueOperation, outside the pool and on a worker.
LEMMA ShareStart ==
  ASSUME SharePlaced, UNCHANGED index, NEW o \in Operations, index[o] = 0,
         Share!EnqueueOperation(o) \/ \E w \in Share!Workers : Share!StartOnWorker(w, o)
  PROVE  SharePlaced'
<1>0. o # "none"
  BY UnionAssumption
<1>1. CASE Share!EnqueueOperation(o)
  BY <1>1, ShareQueued DEF Share!EnqueueOperation
<1>2. ASSUME NEW w \in Share!Workers, Share!StartOnWorker(w, o) PROVE SharePlaced'
  <2>1. o \notin sOwed /\ sOwed' = sOwed \cup {o} /\ Share!EnqueueLocally(w, o)
    BY <1>2 DEF Share!StartOnWorker
  <2>2. CASE sSlot[w] = "none"
    <3>1. sSlot' = [sSlot EXCEPT ![w] = o] /\ UNCHANGED sQueue
      BY <2>1, <2>2 DEF Share!EnqueueLocally, Share!None
    <3>2. o \notin Elements(sQueue) /\ \A v \in Share!Workers : sSlot[v] # o
      BY <2>1 DEF SharePlaced
    <3>3. /\ sSlot' \in [Share!Workers -> Operations \cup {"none"}] /\ sSlot'[w] = o
          /\ \A v \in Share!Workers : v # w => sSlot'[v] = sSlot[v]
      BY <3>1 DEF SharePlaced
    <3>4. \A v, u \in Share!Workers : sSlot'[v] = sSlot'[u] /\ sSlot'[v] # "none" => v = u
      BY <3>2, <3>3 DEF SharePlaced
    <3>5. \A v \in Share!Workers : sSlot'[v] \notin Elements(sQueue')
      BY <3>1, <3>2, <3>3 DEF SharePlaced
    <3>6. ASSUME NEW p \in Operations
          PROVE  p \in sOwed' <=> p \in Elements(sQueue') \/ \E v \in Share!Workers : sSlot'[v] = p
      <4>1. (\E v \in Share!Workers : sSlot'[v] = p) <=> p = o \/ \E v \in Share!Workers : sSlot[v] = p
        BY <1>0, <2>2, <3>3, UnionAssumption
      <4>2. QED
        BY <2>1, <3>1, <4>1 DEF SharePlaced
    <3>7. QED
      BY <2>1, <3>1, <3>3, <3>4, <3>5, <3>6 DEF SharePlaced
  <2>3. CASE sSlot[w] # "none"
    <3>1. sQueue' = Append(sQueue, o) /\ UNCHANGED sSlot
      BY <2>1, <2>3 DEF Share!EnqueueLocally, Share!None
    <3>2. QED
      BY <2>1, <3>1, ShareQueued
  <2>4. QED
    BY <2>2, <2>3
<1>3. QED
  BY <1>1, <1>2

\* WorkerThreadLoop.
LEMMA ShareWork ==
  ASSUME SharePlaced, UNCHANGED index, NEW w \in Share!Workers, Share!WorkerStep(w)
  PROVE  SharePlaced'
<1>1. CASE Share!CheckStop(w)
  BY <1>1, ShareKept DEF Share!CheckStop
<1>2. CASE Share!Pop(w)
  <2>1. CASE sQueue = <<>>
    BY <1>2, <2>1, ShareKept DEF Share!Pop
  <2>2. CASE sQueue # <<>>
    <3>1. sQueue' = Tail(sQueue) /\ sOwed' = sOwed \ {Head(sQueue)} /\ UNCHANGED sSlot
      BY <1>2, <2>2 DEF Share!Pop
    <3>2. /\ Tail(sQueue) \in Seq(Operations) /\ Head(sQueue) \in Elements(sQueue)
          /\ Distinct(Tail(sQueue)) /\ Elements(Tail(sQueue)) = Elements(sQueue) \ {Head(sQueue)}
      BY <2>2, TailDistinct DEF SharePlaced
    <3>3. PICK q, h : q = Tail(sQueue) /\ h = Head(sQueue)
      OBVIOUS
    <3>4. \A v \in Share!Workers : sSlot[v] # h
      BY <3>2, <3>3 DEF SharePlaced
    <3>5. QED
      BY <3>1, <3>2, <3>3, <3>4 DEF SharePlaced
  <2>3. QED
    BY <2>1, <2>2
<1>3. CASE Share!Executed(w)
  <2>1. CASE sSlot[w] = "none"
    BY <1>3, <2>1, ShareKept DEF Share!Executed, Share!None
  <2>2. CASE sSlot[w] # "none"
    <3>1. /\ sSlot' = [sSlot EXCEPT ![w] = "none"] /\ sOwed' = sOwed \ {sSlot[w]}
          /\ UNCHANGED sQueue
      BY <1>3, <2>2 DEF Share!Executed, Share!None
    <3>2. PICK h \in Operations : h = sSlot[w] /\ h \notin Elements(sQueue) /\ h # "none"
      BY <2>2 DEF SharePlaced
    <3>3. /\ sSlot' \in [Share!Workers -> Operations \cup {"none"}] /\ sSlot'[w] = "none"
          /\ \A v \in Share!Workers : v # w => sSlot'[v] = sSlot[v]
      BY <3>1 DEF SharePlaced
    <3>4. \A v \in Share!Workers : v # w => sSlot[v] # h
      BY <3>2 DEF SharePlaced
    <3>5. "none" \notin Elements(sQueue)
      <4>1. Elements(sQueue) \subseteq Operations
        BY DEF SharePlaced, Elements
      <4>2. QED
        BY <4>1, UnionAssumption
    <3>6. ASSUME NEW p \in Operations
          PROVE  p \in sOwed' <=> p \in Elements(sQueue) \/ \E v \in Share!Workers : sSlot'[v] = p
      <4>1. (\E v \in Share!Workers : sSlot'[v] = p)
              <=> p # h /\ \E v \in Share!Workers : sSlot[v] = p
        BY <3>2, <3>3, <3>4, UnionAssumption
      <4>2. QED
        BY <3>1, <3>2, <4>1 DEF SharePlaced
    <3>7. /\ \A v, u \in Share!Workers : sSlot'[v] = sSlot'[u] /\ sSlot'[v] # "none" => v = u
          /\ \A v \in Share!Workers : sSlot'[v] \notin Elements(sQueue)
      BY <3>3, <3>5 DEF SharePlaced
    <3>8. QED
      BY <3>1, <3>3, <3>6, <3>7 DEF SharePlaced
  <2>3. QED
    BY <2>1, <2>2
<1>4. QED
  BY <1>1, <1>2, <1>3 DEF Share!WorkerStep

(***************************************************************************)
(* Pool 2: PriorityThreadPool, and pool 3: CorePinnedThreadPool            *)
(***************************************************************************)

\* Steps that move no operation of pool 2.
LEMMA StrictKept ==
  ASSUME StrictPlaced, UNCHANGED <<index, pHeap, pOwed>>
  PROVE  StrictPlaced'
  BY DEF StrictPlaced

\* EnqueueOperation and WorkerThreadLoop of pool 2.
LEMMA StrictStepKept ==
  ASSUME StrictPlaced, UNCHANGED index,
         \/ \E o \in Operations : index[o] = 2 /\ Strict!EnqueueOperation(o)
         \/ \E w \in Strict!Workers : Strict!WorkerStep(w)
  PROVE  StrictPlaced'
  BY DEF StrictPlaced, Strict!EnqueueOperation, Strict!WorkerStep, Strict!CheckStop,
         Strict!Pop, Strict!Executed

\* Steps that move no operation of pool 3.
LEMMA PinnedKept ==
  ASSUME PinnedPlaced, UNCHANGED <<index, cQueues, cOwed>>
  PROVE  PinnedPlaced'
  BY DEF PinnedPlaced, Pinned!QueueOf

\* The queue of a core exists.
LEMMA CoreOfOperation ==
  ASSUME NEW o \in Operations
  PROVE  Pinned!QueueOf(o) \in Pinned!Workers
<1>1. Core[o] \in Nat /\ CoreThreads \in Nat \ {0}
  BY UnionAssumption
<1>2. Core[o] % CoreThreads \in 0 .. CoreThreads - 1
  BY <1>1
<1>3. QED
  BY <1>2 DEF Pinned!QueueOf, Pinned!Workers

\* EnqueueOperation of pool 3.
LEMMA PinnedStart ==
  ASSUME PinnedPlaced, UNCHANGED index, NEW o \in Operations, index[o] = 3,
         Pinned!EnqueueOperation(o)
  PROVE  PinnedPlaced'
<1>1. PICK k \in Pinned!Workers : k = Pinned!QueueOf(o)
  BY CoreOfOperation
<1>2. /\ o \notin cOwed /\ cOwed' = cOwed \cup {o}
      /\ cQueues' = [cQueues EXCEPT ![k] = Append(cQueues[k], o)]
  BY <1>1 DEF Pinned!EnqueueOperation
<1>3. cQueues[k] \in Seq(Operations) /\ Distinct(cQueues[k]) /\ o \notin Elements(cQueues[k])
  BY <1>1, <1>2 DEF PinnedPlaced
<1>4. PICK q : q = Append(cQueues[k], o)
  OBVIOUS
<1>5. q \in Seq(Operations) /\ Distinct(q) /\ Elements(q) = Elements(cQueues[k]) \cup {o}
  BY <1>3, <1>4, AppendDistinct
<1>6. /\ cQueues' \in [Pinned!Workers -> Seq(Operations)] /\ cQueues'[k] = q
      /\ \A w \in Pinned!Workers : w # k => cQueues'[w] = cQueues[w]
  BY <1>2, <1>4, <1>5 DEF PinnedPlaced
<1>7. ASSUME NEW p \in Operations
      PROVE  p \in cOwed' <=> p \in Elements(cQueues'[Pinned!QueueOf(p)])
  <2>1. Pinned!QueueOf(p) \in Pinned!Workers
    BY CoreOfOperation
  <2>2. QED
    BY <1>1, <1>2, <1>5, <1>6, <2>1 DEF PinnedPlaced
<1>8. \A w \in Pinned!Workers :
        Distinct(cQueues'[w]) /\ \A p \in Elements(cQueues'[w]) : Pinned!QueueOf(p) = w
  BY <1>1, <1>5, <1>6 DEF PinnedPlaced
<1>9. QED
  BY <1>2, <1>6, <1>7, <1>8 DEF PinnedPlaced, Pinned!QueueOf

\* WorkerThreadLoop of pool 3.
LEMMA PinnedWork ==
  ASSUME PinnedPlaced, UNCHANGED index, NEW k \in Pinned!Workers, Pinned!WorkerStep(k)
  PROVE  PinnedPlaced'
<1>1. CASE UNCHANGED <<cQueues, cOwed>>
  BY <1>1, PinnedKept
<1>2. CASE cQueues[k] # <<>> /\ cQueues' = [cQueues EXCEPT ![k] = Tail(cQueues[k])]
           /\ cOwed' = cOwed \ {Head(cQueues[k])}
  <2>1. PICK q, h : q = Tail(cQueues[k]) /\ h = Head(cQueues[k])
    OBVIOUS
  <2>2. cQueues[k] \in Seq(Operations) /\ Distinct(cQueues[k]) /\ cQueues[k] # <<>>
    BY <1>2 DEF PinnedPlaced
  <2>3. /\ q \in Seq(Operations) /\ Distinct(q) /\ Elements(q) = Elements(cQueues[k]) \ {h}
        /\ h \in Elements(cQueues[k])
    BY <2>1, <2>2, TailDistinct
  <2>4. /\ cQueues' \in [Pinned!Workers -> Seq(Operations)] /\ cQueues'[k] = q
        /\ \A w \in Pinned!Workers : w # k => cQueues'[w] = cQueues[w]
    BY <1>2, <2>1, <2>3 DEF PinnedPlaced
  <2>5. Pinned!QueueOf(h) = k
    BY <2>3 DEF PinnedPlaced
  <2>6. ASSUME NEW p \in Operations
        PROVE  p \in cOwed' <=> p \in Elements(cQueues'[Pinned!QueueOf(p)])
    <3>1. Pinned!QueueOf(p) \in Pinned!Workers
      BY CoreOfOperation
    <3>2. QED
      BY <1>2, <2>1, <2>3, <2>4, <2>5, <3>1 DEF PinnedPlaced
  <2>7. \A w \in Pinned!Workers :
          Distinct(cQueues'[w]) /\ \A p \in Elements(cQueues'[w]) : Pinned!QueueOf(p) = w
    BY <2>3, <2>4 DEF PinnedPlaced
  <2>8. QED
    BY <1>2, <2>4, <2>6, <2>7 DEF PinnedPlaced, Pinned!QueueOf
<1>3. QED
  BY <1>1, <1>2 DEF Pinned!WorkerStep, Pinned!CheckStop, Pinned!Pop, Pinned!Executed

(***************************************************************************)
(* Pool 1: WeakPriorityThreadPool                                          *)
(***************************************************************************)

\* The names of the instances stand for the same numbers.
LEMMA SameCardinality ==
  ASSUME NEW S
  PROVE  Weak!Cardinality(S) = Cardinality(S) /\ Weak!Sema!Cardinality(S) = Cardinality(S)
  BY Zenon DEF Weak!Cardinality, Weak!Sema!Cardinality, Cardinality

StoredIn(slots) ==
  {o \in Operations : \E s \in Weak!SubQueues, p \in Weak!Priorities : o \in Elements(slots[s][p])}

\* What the buckets store.
LEMMA StoredElements == Weak!Stored = StoredIn(wSlots) /\ Weak!Stored' = StoredIn(wSlots')
  BY DEF Weak!Stored, StoredIn, Elements

\* One bucket changes.
LEMMA OneBucket ==
  ASSUME NEW f \in [Weak!SubQueues -> [Weak!Priorities -> Seq(Operations)]],
         NEW s \in Weak!SubQueues, NEW p \in Weak!Priorities, NEW q \in Seq(Operations),
         NEW g, g = [f EXCEPT ![s][p] = q]
  PROVE  /\ g \in [Weak!SubQueues -> [Weak!Priorities -> Seq(Operations)]]
         /\ g[s][p] = q
         /\ \A r \in Weak!SubQueues, u \in Weak!Priorities : r # s \/ u # p => g[r][u] = f[r][u]
<1>1. PICK h : h = [f[s] EXCEPT ![p] = q]
  OBVIOUS
<1>2. /\ h \in [Weak!Priorities -> Seq(Operations)] /\ h[p] = q
      /\ \A u \in Weak!Priorities : u # p => h[u] = f[s][u]
  BY <1>1
<1>3. g = [f EXCEPT ![s] = h]
  BY <1>1
<1>4. QED
  BY <1>2, <1>3

\* An operation that is stored nowhere goes into the bucket of its priority.
LEMMA DepositStep ==
  ASSUME WeakTyped, WeakBuckets, NEW t, NEW o \in Operations, o \notin Weak!Stored,
         NEW s \in Weak!SubQueues, Weak!Deposit(t, o, s)
  PROVE  /\ wSlots' \in [Weak!SubQueues -> [Weak!Priorities -> Seq(Operations)]]
         /\ wBitmap' \in [Weak!SubQueues -> SUBSET Weak!Priorities]
         /\ WeakBuckets' /\ Weak!Stored' = Weak!Stored \cup {o}
         /\ wSignalling' = wSignalling \cup {t}
<1>1. PICK p \in Weak!Priorities : p = Priority[o]
  BY UnionAssumption DEF Weak!Priorities
<1>2. /\ wSlots' = [wSlots EXCEPT ![s][p] = Append(wSlots[s][p], o)]
      /\ wBitmap' = [wBitmap EXCEPT ![s] = wBitmap[s] \cup {p}]
      /\ wSignalling' = wSignalling \cup {t}
  BY <1>1 DEF Weak!Deposit
<1>3. PICK q : q = Append(wSlots[s][p], o)
  OBVIOUS
<1>4. wSlots[s][p] \in Seq(Operations) /\ Distinct(wSlots[s][p]) /\ o \notin Elements(wSlots[s][p])
  BY StoredElements DEF WeakTyped, WeakBuckets, StoredIn
<1>5. /\ q \in Seq(Operations) /\ q # <<>> /\ Distinct(q)
      /\ Elements(q) = Elements(wSlots[s][p]) \cup {o}
  BY <1>3, <1>4, AppendDistinct
<1>6. /\ wSlots' \in [Weak!SubQueues -> [Weak!Priorities -> Seq(Operations)]]
      /\ wSlots'[s][p] = q
      /\ \A r \in Weak!SubQueues, u \in Weak!Priorities :
           r # s \/ u # p => wSlots'[r][u] = wSlots[r][u]
  BY <1>2, <1>3, <1>5, OneBucket DEF WeakTyped
<1>7. /\ wBitmap' \in [Weak!SubQueues -> SUBSET Weak!Priorities]
      /\ wBitmap'[s] = wBitmap[s] \cup {p}
      /\ \A r \in Weak!SubQueues : r # s => wBitmap'[r] = wBitmap[r]
  BY <1>2 DEF WeakTyped
<1>8. \A r \in Weak!SubQueues, u \in Weak!Priorities :
        /\ Elements(wSlots'[r][u]) = IF r = s /\ u = p THEN Elements(wSlots[s][p]) \cup {o}
                                                       ELSE Elements(wSlots[r][u])
        /\ o \notin Elements(wSlots[r][u])
  BY <1>5, <1>6, StoredElements DEF StoredIn
<1>9. Weak!Stored' = Weak!Stored \cup {o}
  <2>1. StoredIn(wSlots') = StoredIn(wSlots) \cup {o}
    BY <1>8 DEF StoredIn
  <2>2. QED
    BY <2>1, StoredElements
<1>10. WeakBuckets'
  <2>1. ASSUME NEW r \in Weak!SubQueues, NEW u \in Weak!Priorities
        PROVE  /\ Distinct(wSlots'[r][u])
               /\ \A x \in Elements(wSlots'[r][u]) : Priority[x] = u
               /\ u \in wBitmap'[r] <=> wSlots'[r][u] # <<>>
    <3>1. CASE r = s /\ u = p
      <4>1. wSlots'[r][u] = q /\ u \in wBitmap'[r]
        BY <1>6, <1>7, <3>1
      <4>2. \A x \in Elements(wSlots[s][p]) : Priority[x] = p
        BY DEF WeakBuckets
      <4>3. QED
        BY <1>1, <1>5, <3>1, <4>1, <4>2
    <3>2. CASE ~(r = s /\ u = p)
      <4>1. wSlots'[r][u] = wSlots[r][u] /\ (u \in wBitmap'[r] <=> u \in wBitmap[r])
        BY <1>6, <1>7, <3>2
      <4>2. QED
        BY <4>1 DEF WeakBuckets
    <3>3. QED
      BY <3>1, <3>2
  <2>2. ASSUME NEW a \in Weak!SubQueues, NEW r \in Weak!SubQueues, NEW u \in Weak!Priorities, a # r
        PROVE  Elements(wSlots'[a][u]) \cap Elements(wSlots'[r][u]) = {}
    BY <1>8, <2>2 DEF WeakBuckets
  <2>3. QED
    BY <2>1, <2>2 DEF WeakBuckets
<1>11. QED
  BY <1>2, <1>6, <1>7, <1>9, <1>10

\* The lowest bit of a bitmap that is not zero is one of its bits.
LEMMA LowestBit ==
  ASSUME NEW bits \in SUBSET Weak!Priorities
  PROVE  /\ bits # {} => Weak!Lowest(bits) \in bits
         /\ Weak!Lowest(bits) \in 0 .. kMaxPriorityLevels
<1>1. bits \subseteq Nat /\ kMaxPriorityLevels \in Nat
  BY UnionAssumption DEF Weak!Priorities
<1>2. ASSUME bits # {} PROVE Weak!Lowest(bits) \in bits
  <2>1. \E x \in bits : \A y \in bits : x <= y
    BY <1>1, <1>2, LeastNatural
  <2>2. QED
    BY <1>2, <2>1 DEF Weak!Lowest
<1>3. bits = {} => Weak!Lowest(bits) = kMaxPriorityLevels
  BY DEF Weak!Lowest
<1>4. Weak!Lowest(bits) \in 0 .. kMaxPriorityLevels
  <2>1. \A x \in bits : x \in 0 .. kMaxPriorityLevels
    BY <1>1 DEF Weak!Priorities
  <2>2. kMaxPriorityLevels \in 0 .. kMaxPriorityLevels
    BY <1>1
  <2>3. QED
    BY <1>2, <1>3, <2>1, <2>2
<1>5. QED
  BY <1>2, <1>4

\* A worker takes the newest operation of a bucket whose bit is set.
LEMMA TakeStep ==
  ASSUME WeakTyped, WeakBuckets, NEW w, NEW s \in Weak!SubQueues, wBitmap[s] # {},
         Weak!Take(w, s, Weak!Lowest(wBitmap[s]))
  PROVE  /\ wSlots' \in [Weak!SubQueues -> [Weak!Priorities -> Seq(Operations)]]
         /\ wBitmap' \in [Weak!SubQueues -> SUBSET Weak!Priorities]
         /\ WeakBuckets'
         /\ \E o \in Weak!Stored : Weak!Stored' = Weak!Stored \ {o} /\ wOwed' = wOwed \ {o}
<1>1. PICK p \in Weak!Priorities : p = Weak!Lowest(wBitmap[s]) /\ p \in wBitmap[s]
  BY LowestBit DEF WeakTyped
<1>2. PICK q, o, b : /\ q = SubSeq(wSlots[s][p], 1, Len(wSlots[s][p]) - 1)
                     /\ o = wSlots[s][p][Len(wSlots[s][p])]
                     /\ b = IF Len(wSlots[s][p]) = 1 THEN wBitmap[s] \ {p} ELSE wBitmap[s]
  OBVIOUS
<1>3. /\ wSlots' = [wSlots EXCEPT ![s][p] = q] /\ wBitmap' = [wBitmap EXCEPT ![s] = b]
      /\ wOwed' = wOwed \ {o}
  BY <1>1, <1>2 DEF Weak!Take
<1>4. wSlots[s][p] \in Seq(Operations) /\ Distinct(wSlots[s][p]) /\ wSlots[s][p] # <<>>
  BY <1>1 DEF WeakTyped, WeakBuckets
<1>5. /\ q \in Seq(Operations) /\ Distinct(q) /\ Elements(q) = Elements(wSlots[s][p]) \ {o}
      /\ o \in Elements(wSlots[s][p]) /\ o \in Operations
      /\ q = <<>> <=> Len(wSlots[s][p]) = 1
  BY <1>2, <1>4, FrontDistinct
<1>6. /\ wSlots' \in [Weak!SubQueues -> [Weak!Priorities -> Seq(Operations)]]
      /\ wSlots'[s][p] = q
      /\ \A r \in Weak!SubQueues, u \in Weak!Priorities :
           r # s \/ u # p => wSlots'[r][u] = wSlots[r][u]
  BY <1>3, <1>5, OneBucket DEF WeakTyped
<1>7. /\ wBitmap' \in [Weak!SubQueues -> SUBSET Weak!Priorities] /\ wBitmap'[s] = b
      /\ \A r \in Weak!SubQueues : r # s => wBitmap'[r] = wBitmap[r]
  BY <1>2, <1>3 DEF WeakTyped
<1>8. \A r \in Weak!SubQueues, u \in Weak!Priorities :
        /\ Elements(wSlots'[r][u]) = IF r = s /\ u = p THEN Elements(wSlots[s][p]) \ {o}
                                                       ELSE Elements(wSlots[r][u])
        /\ o \in Elements(wSlots[r][u]) => r = s /\ u = p
  <2> TAKE r \in Weak!SubQueues, u \in Weak!Priorities
  <2>1. o \in Elements(wSlots[r][u]) => u = p
    BY <1>5 DEF WeakBuckets
  <2>2. o \in Elements(wSlots[r][p]) => r = s
    BY <1>5 DEF WeakBuckets
  <2>3. Elements(wSlots'[r][u]) = IF r = s /\ u = p THEN Elements(wSlots[s][p]) \ {o}
                                                    ELSE Elements(wSlots[r][u])
    BY <1>5, <1>6
  <2>4. QED
    BY <2>1, <2>2, <2>3
<1>9. Weak!Stored' = Weak!Stored \ {o} /\ o \in Weak!Stored
  <2>1. StoredIn(wSlots') = StoredIn(wSlots) \ {o} /\ o \in StoredIn(wSlots)
    BY <1>5, <1>8 DEF StoredIn
  <2>2. QED
    BY <2>1, StoredElements
<1>10. WeakBuckets'
  <2>1. ASSUME NEW r \in Weak!SubQueues, NEW u \in Weak!Priorities
        PROVE  /\ Distinct(wSlots'[r][u])
               /\ \A x \in Elements(wSlots'[r][u]) : Priority[x] = u
               /\ u \in wBitmap'[r] <=> wSlots'[r][u] # <<>>
    <3>1. CASE r = s /\ u = p
      <4>1. wSlots'[r][u] = q /\ (u \in wBitmap'[r] <=> q # <<>>)
        BY <1>1, <1>2, <1>5, <1>6, <1>7, <3>1
      <4>2. \A x \in Elements(wSlots[s][p]) : Priority[x] = p
        BY DEF WeakBuckets
      <4>3. QED
        BY <1>5, <3>1, <4>1, <4>2
    <3>2. CASE ~(r = s /\ u = p)
      <4>1. wSlots'[r][u] = wSlots[r][u] /\ (u \in wBitmap'[r] <=> u \in wBitmap[r])
        BY <1>2, <1>6, <1>7, <3>2
      <4>2. QED
        BY <4>1 DEF WeakBuckets
    <3>3. QED
      BY <3>1, <3>2
  <2>2. ASSUME NEW a \in Weak!SubQueues, NEW r \in Weak!SubQueues, NEW u \in Weak!Priorities, a # r
        PROVE  Elements(wSlots'[a][u]) \cap Elements(wSlots'[r][u]) = {}
    BY <1>8, <2>2 DEF WeakBuckets
  <2>3. QED
    BY <2>1, <2>2 DEF WeakBuckets
<1>11. QED
  BY <1>3, <1>6, <1>7, <1>9, <1>10

Waiting == {w \in Weak!Workers : wWaiter[w] # "out"}

\* TokensAccounted, with the sets by the names used here.
Balanced ==
  /\ Cardinality(Waiting) = wSema + Cardinality(wPosting) + (IF wCount < 0 THEN -wCount ELSE 0)
  /\ Cardinality(Weak!Stored)
       = Cardinality(wSignalling) + wCount + Cardinality(Waiting) + Cardinality(Searching)

\* The two say the same.
LEMMA BalancedTokens == TokensAccounted <=> Balanced
<1>1. Weak!Sema!Waiting = Waiting
  BY DEF Weak!Sema!Waiting, Waiting
<1>2. {w \in Weak!Workers : wPc[w] \in {"dequeue", "peek", "pop", "popSecond"}} = Searching
  BY DEF Searching
<1>3. Weak!Sema!TokenBalance
        <=> Cardinality(Waiting) = wSema + Cardinality(wPosting) + (IF wCount < 0 THEN -wCount ELSE 0)
  BY <1>1, SameCardinality DEF Weak!Sema!TokenBalance
<1>4. Weak!TokensMatchOperations
        <=> Cardinality(Weak!Stored)
              = Cardinality(wSignalling) + wCount + Cardinality(Waiting) + Cardinality(Searching)
  BY <1>1, <1>2, SameCardinality DEF Weak!TokensMatchOperations
<1>5. QED
  BY <1>3, <1>4 DEF TokensAccounted, Balanced

\* Also in the next state.
LEMMA BalancedTokensNext == TokensAccounted' <=> Balanced'
  BY BalancedTokens, PTL

\* Workers are finitely many, and a worker at a label of the loop counts once.
LEMMA WorkersFinite ==
  /\ IsFiniteSet(Waiting) /\ Cardinality(Waiting) \in Nat
  /\ IsFiniteSet(Searching) /\ Cardinality(Searching) \in Nat
<1>1. IsFiniteSet(Weak!Workers)
  BY UnionAssumption, FS_Interval DEF Weak!Workers
<1>2. Waiting \subseteq Weak!Workers /\ Searching \subseteq Weak!Workers
  BY DEF Waiting, Searching
<1>3. IsFiniteSet(Waiting) /\ IsFiniteSet(Searching)
  BY <1>1, <1>2, FS_Subset
<1>4. QED
  BY <1>3, FS_CardinalityType

\* A set with one member more, or less.
LEMMA OneMore ==
  ASSUME NEW S, IsFiniteSet(S), NEW x
  PROVE  /\ Cardinality(S) \in Nat
         /\ x \notin S => IsFiniteSet(S \cup {x}) /\ Cardinality(S \cup {x}) = Cardinality(S) + 1
         /\ x \in S => IsFiniteSet(S \ {x}) /\ Cardinality(S \ {x}) = Cardinality(S) - 1
  BY FS_AddElement, FS_RemoveElement, FS_CardinalityType

\* The places of operations after a step that moves none.
LEMMA WeakKept ==
  ASSUME WeakBuckets, WeakPlaced, UNCHANGED <<index, wSlots, wBitmap, wSlot, wOwed>>
  PROVE  WeakBuckets' /\ WeakPlaced' /\ Weak!Stored' = Weak!Stored
<1>1. Weak!Stored' = Weak!Stored
  BY StoredElements
<1>2. QED
  BY <1>1 DEF WeakBuckets, WeakPlaced

\* The balances after a step that changes no set they count.
LEMMA CountsKept ==
  ASSUME WeakCounted, Weak!Stored' = Weak!Stored, Searching' = Searching,
         UNCHANGED <<wSignalling, wCount, wSema, wWaiter, wPosting>>
  PROVE  WeakCounted'
<1>1. Waiting' = Waiting
  BY DEF Waiting
<1>2. Balanced'
  BY <1>1, BalancedTokens DEF WeakCounted, Balanced
<1>3. QED
  BY <1>2, BalancedTokensNext DEF WeakCounted

\* Constructor.
LEMMA WeakInit ==
  ASSUME Weak!Init
  PROVE  WeakInv
<1>0. kMaxPriorityLevels \in Nat /\ ConfigSubQueues \in Nat /\ WeakThreads \in Nat
  BY UnionAssumption
<1>1. Weak!NumSubQueues \in Nat /\ Weak!NumSubQueues >= 2
  <2>1. WeakThreads \div 2 \in Nat
    BY <1>0
  <2>2. QED
    BY <1>0, <2>1 DEF Weak!NumSubQueues
<1>2. 1 \in Weak!SubQueues /\ 2 \in Weak!SubQueues
  BY <1>1 DEF Weak!SubQueues
<1>3. /\ \A s \in Weak!SubQueues, p \in Weak!Priorities : wSlots[s][p] = <<>>
      /\ \A s \in Weak!SubQueues : wBitmap[s] = {}
      /\ \A w \in Weak!Workers : wSlot[w] = "none" /\ wPc[w] = "unstarted" /\ wWaiter[w] = "out"
      /\ wSignalling = {} /\ wCount = 0 /\ wSema = 0 /\ wPosting = {} /\ wOwed = {}
      /\ wWaiter = [w \in Weak!Workers |-> "out"]
  BY DEF Weak!Init, Weak!Sema!Init, Weak!None
<1>4. WeakTyped
  <2>1. wSlots \in [Weak!SubQueues -> [Weak!Priorities -> Seq(Operations)]]
    BY DEF Weak!Init
  <2>2. wPick \in [Weak!Workers -> Weak!SubQueues \X Weak!SubQueues \X (0 .. kMaxPriorityLevels)]
    BY <1>0, <1>2 DEF Weak!Init, Weak!NoPick
  <2>3. QED
    BY <2>1, <2>2 DEF Weak!Init, Weak!None, WeakTyped
<1>5. WeakBuckets
  BY <1>3, EmptyDistinct DEF WeakBuckets
<1>6. Weak!Stored = {}
  BY <1>3, EmptyDistinct, StoredElements DEF StoredIn
<1>7. WeakPlaced
  <2>1. "none" \notin Operations
    BY UnionAssumption
  <2>2. QED
    BY <1>3, <1>6, <2>1 DEF WeakPlaced
<1>8. WeakCounted
  <2>1. Waiting = {} /\ Searching = {}
    BY <1>3 DEF Waiting, Searching
  <2>2. Balanced
    BY <1>3, <1>6, <2>1, FS_EmptySet DEF Balanced
  <2>3. QED
    BY <1>3, <1>6, <2>2, BalancedTokens, FS_EmptySet DEF WeakCounted
<1>9. QED
  BY <1>4, <1>5, <1>7, <1>8 DEF WeakInv

\* A deposit has a token on its way: the signal that the thread is about to send.
LEMMA DepositCounted ==
  ASSUME WeakCounted, NEW o, o \notin Weak!Stored, Weak!Stored' = Weak!Stored \cup {o},
         NEW t, t \notin wSignalling, wSignalling' = wSignalling \cup {t},
         UNCHANGED <<wCount, wSema, wWaiter, wPosting, wPc>>
  PROVE  WeakCounted'
<1>1. Waiting' = Waiting /\ Searching' = Searching
  BY DEF Waiting, Searching
<1>2. /\ IsFiniteSet(Weak!Stored') /\ Cardinality(Weak!Stored') = Cardinality(Weak!Stored) + 1
      /\ IsFiniteSet(wSignalling') /\ Cardinality(wSignalling') = Cardinality(wSignalling) + 1
      /\ Cardinality(Weak!Stored) \in Nat /\ Cardinality(wSignalling) \in Nat
  BY OneMore DEF WeakCounted
<1>3. Balanced
  BY BalancedTokens DEF WeakCounted
<1>4. Balanced'
  BY <1>1, <1>2, <1>3, WorkersFinite DEF Balanced, WeakCounted
<1>5. QED
  BY <1>2, <1>4, BalancedTokensNext DEF WeakCounted

\* EnqueueOperation on a thread outside the pool.
LEMMA WeakEnqueue ==
  ASSUME WeakInv, UNCHANGED index, NEW c, NEW o \in Operations, index[o] = 1,
         NEW s \in Weak!SubQueues, Weak!EnqueueOperation(c, o, s)
  PROVE  WeakInv'
<1>1. /\ c \notin wSignalling /\ o \notin wOwed /\ Weak!Deposit(c, o, s) /\ wOwed' = wOwed \cup {o}
      /\ UNCHANGED <<wSlot, wPc, wPick, wCount, wSema, wWaiter, wPosting>>
  BY DEF Weak!EnqueueOperation, Weak!InEnqueue, Weak!sema
<1>2. o \notin Weak!Stored /\ \A w \in Weak!Workers : wSlot[w] # o
  BY <1>1 DEF WeakInv, WeakPlaced
<1>3. /\ wSlots' \in [Weak!SubQueues -> [Weak!Priorities -> Seq(Operations)]]
      /\ wBitmap' \in [Weak!SubQueues -> SUBSET Weak!Priorities]
      /\ WeakBuckets' /\ Weak!Stored' = Weak!Stored \cup {o}
      /\ wSignalling' = wSignalling \cup {c}
  BY <1>1, <1>2, DepositStep DEF WeakInv
<1>4. WeakTyped'
  BY <1>1, <1>3 DEF WeakInv, WeakTyped
<1>5. WeakPlaced'
  BY <1>1, <1>2, <1>3 DEF WeakInv, WeakPlaced
<1>6. WeakCounted'
  BY <1>1, <1>2, <1>3, DepositCounted DEF WeakInv
<1>7. QED
  BY <1>3, <1>4, <1>5, <1>6 DEF WeakInv

\* EnqueueOperation on a worker: the slot, or a sub-queue, of one of the two operations.
LEMMA WeakStartOnWorker ==
  ASSUME WeakInv, UNCHANGED index, NEW w \in Weak!Workers, NEW o \in Operations, index[o] = 1,
         NEW s \in Weak!SubQueues, Weak!StartOnWorker(w, o, s)
  PROVE  WeakInv'
<1>0. o # "none" /\ "none" \notin Operations
  BY UnionAssumption
<1>1. /\ w \notin wSignalling /\ o \notin wOwed /\ Weak!EnqueueLocally(w, o, s)
      /\ wOwed' = wOwed \cup {o}
      /\ UNCHANGED <<wPc, wPick, wCount, wSema, wWaiter, wPosting>>
  BY DEF Weak!StartOnWorker, Weak!InEnqueue, Weak!sema
<1>2. o \notin Weak!Stored /\ \A v \in Weak!Workers : wSlot[v] # o
  BY <1>1 DEF WeakInv, WeakPlaced
<1>3. ASSUME wSlot' = [wSlot EXCEPT ![w] = o]
      PROVE  /\ wSlot' \in [Weak!Workers -> Operations \cup {"none"}] /\ wSlot'[w] = o
             /\ \A v \in Weak!Workers : v # w => wSlot'[v] = wSlot[v]
             /\ \A v, u \in Weak!Workers : wSlot'[v] = wSlot'[u] /\ wSlot'[v] # "none" => v = u
  <2>1. /\ wSlot' \in [Weak!Workers -> Operations \cup {"none"}] /\ wSlot'[w] = o
        /\ \A v \in Weak!Workers : v # w => wSlot'[v] = wSlot[v]
    BY <1>3 DEF WeakInv, WeakTyped
  <2>2. QED
    BY <1>2, <2>1 DEF WeakInv, WeakPlaced
<1>4. CASE wSlot[w] = "none" /\ wSlot' = [wSlot EXCEPT ![w] = o]
           /\ UNCHANGED <<wSlots, wBitmap, wSignalling>>
  <2>1. Weak!Stored' = Weak!Stored /\ Searching' = Searching
    BY <1>1, <1>4, StoredElements DEF Searching
  <2>2. WeakTyped' /\ WeakBuckets'
    BY <1>1, <1>3, <1>4 DEF WeakInv, WeakTyped, WeakBuckets
  <2>3. WeakPlaced'
    <3>1. \A p \in Operations :
            (\E v \in Weak!Workers : wSlot'[v] = p) <=> p = o \/ \E v \in Weak!Workers : wSlot[v] = p
      BY <1>0, <1>3, <1>4
    <3>2. QED
      BY <1>1, <1>2, <1>3, <1>4, <2>1, <3>1 DEF WeakInv, WeakPlaced
  <2>4. WeakCounted'
    BY <1>1, <1>4, <2>1, CountsKept DEF WeakInv
  <2>5. QED
    BY <2>2, <2>3, <2>4 DEF WeakInv
<1>5. CASE wSlot[w] # "none" /\ wSlot' = [wSlot EXCEPT ![w] = o] /\ Weak!Deposit(w, wSlot[w], s)
  <2>1. PICK d \in Operations : d = wSlot[w] /\ d \notin Weak!Stored /\ d # o /\ d \in wOwed
    BY <1>2, <1>5 DEF WeakInv, WeakTyped, WeakPlaced
  <2>2. /\ wSlots' \in [Weak!SubQueues -> [Weak!Priorities -> Seq(Operations)]]
        /\ wBitmap' \in [Weak!SubQueues -> SUBSET Weak!Priorities]
        /\ WeakBuckets' /\ Weak!Stored' = Weak!Stored \cup {d}
        /\ wSignalling' = wSignalling \cup {w}
    BY <1>5, <2>1, DepositStep DEF WeakInv
  <2>3. WeakTyped'
    BY <1>1, <1>3, <1>5, <2>2 DEF WeakInv, WeakTyped
  <2>4. WeakPlaced'
    <3>1. \A v \in Weak!Workers : v # w => wSlot[v] # d
      BY <1>5, <2>1 DEF WeakInv, WeakPlaced
    <3>2. \A v \in Weak!Workers : wSlot'[v] \notin Weak!Stored'
      BY <1>2, <1>3, <1>5, <2>1, <2>2, <3>1 DEF WeakInv, WeakPlaced
    <3>3. ASSUME NEW p \in Operations
          PROVE  p \in wOwed' <=> p \in Weak!Stored' \/ \E v \in Weak!Workers : wSlot'[v] = p
      <4>1. (\E v \in Weak!Workers : wSlot'[v] = p)
              <=> p = o \/ (p # d /\ \E v \in Weak!Workers : wSlot[v] = p)
        BY <1>3, <1>5, <2>1, <3>1
      <4>2. QED
        BY <1>1, <2>1, <2>2, <4>1 DEF WeakInv, WeakPlaced
    <3>4. QED
      BY <1>1, <1>3, <1>5, <3>2, <3>3 DEF WeakInv, WeakPlaced
  <2>5. WeakCounted'
    BY <1>1, <2>1, <2>2, DepositCounted DEF WeakInv
  <2>6. QED
    BY <2>2, <2>3, <2>4, <2>5 DEF WeakInv
<1>6. CASE wSlot[w] # "none" /\ Weak!Deposit(w, o, s) /\ UNCHANGED wSlot
  <2>1. /\ wSlots' \in [Weak!SubQueues -> [Weak!Priorities -> Seq(Operations)]]
        /\ wBitmap' \in [Weak!SubQueues -> SUBSET Weak!Priorities]
        /\ WeakBuckets' /\ Weak!Stored' = Weak!Stored \cup {o}
        /\ wSignalling' = wSignalling \cup {w}
    BY <1>2, <1>6, DepositStep DEF WeakInv
  <2>2. WeakTyped' /\ WeakPlaced'
    <3>1. WeakTyped'
      BY <1>1, <1>6, <2>1 DEF WeakInv, WeakTyped
    <3>2. WeakPlaced'
      BY <1>1, <1>2, <1>6, <2>1 DEF WeakInv, WeakPlaced
    <3>3. QED
      BY <3>1, <3>2
  <2>3. WeakCounted'
    BY <1>1, <1>2, <2>1, DepositCounted DEF WeakInv
  <2>4. QED
    BY <2>1, <2>2, <2>3 DEF WeakInv
<1>7. QED
  BY <1>1, <1>4, <1>5, <1>6 DEF Weak!EnqueueLocally, Weak!None

\* signal(): the token moves from the thread to the counter, and to a blocked worker.
LEMMA WeakSignalled ==
  ASSUME WeakInv, UNCHANGED index, NEW t, Weak!SignalSema(t)
  PROVE  WeakInv'
<1>1. UNCHANGED <<wSlots, wBitmap, wSlot, wPc, wPick, wOwed, wWaiter>>
  BY DEF Weak!SignalSema, Weak!Sema!Signal, Weak!Sema!Post
<1>2. Weak!Stored' = Weak!Stored /\ WeakBuckets' /\ WeakPlaced' /\ WeakTyped'
  <2>1. Weak!Stored' = Weak!Stored /\ WeakBuckets' /\ WeakPlaced'
    BY <1>1, WeakKept DEF WeakInv
  <2>2. WeakTyped'
    BY <1>1 DEF WeakInv, WeakTyped
  <2>3. QED
    BY <2>1, <2>2
<1>3. Waiting' = Waiting /\ Searching' = Searching
  BY <1>1 DEF Waiting, Searching
<1>4. /\ Balanced /\ wCount \in Int /\ wSema \in Nat /\ IsFiniteSet(wSignalling)
      /\ IsFiniteSet(wPosting) /\ IsFiniteSet(Weak!Stored)
      /\ Cardinality(wSignalling) \in Nat /\ Cardinality(wPosting) \in Nat
      /\ Cardinality(Weak!Stored) \in Nat
  BY BalancedTokens, FS_CardinalityType DEF WeakInv, WeakCounted
<1>5. CASE t \in wSignalling /\ wSignalling' = wSignalling \ {t} /\ Weak!Sema!Signal(t)
  <2>1. /\ t \notin wPosting /\ wCount' = wCount + 1 /\ UNCHANGED wSema
        /\ wPosting' = IF wCount < 0 THEN wPosting \cup {t} ELSE wPosting
    BY <1>5 DEF Weak!Sema!Signal
  <2>2. IsFiniteSet(wSignalling') /\ Cardinality(wSignalling') = Cardinality(wSignalling) - 1
    BY <1>4, <1>5, OneMore
  <2>3. /\ IsFiniteSet(wPosting')
        /\ Cardinality(wPosting') = IF wCount < 0 THEN Cardinality(wPosting) + 1
                                                  ELSE Cardinality(wPosting)
    BY <1>4, <2>1, OneMore
  <2>4. Balanced'
    BY <1>2, <1>3, <1>4, <2>1, <2>2, <2>3, WorkersFinite DEF Balanced
  <2>5. WeakCounted'
    BY <1>1, <1>2, <1>4, <2>1, <2>2, <2>3, <2>4, BalancedTokensNext DEF WeakInv, WeakCounted
  <2>6. QED
    BY <1>2, <2>5 DEF WeakInv
<1>6. CASE Weak!Sema!Post(t) /\ UNCHANGED wSignalling
  <2>1. t \in wPosting /\ wSema' = wSema + 1 /\ wPosting' = wPosting \ {t} /\ UNCHANGED wCount
    BY <1>6 DEF Weak!Sema!Post
  <2>2. IsFiniteSet(wPosting') /\ Cardinality(wPosting') = Cardinality(wPosting) - 1
    BY <1>4, <2>1, OneMore
  <2>3. Balanced'
    BY <1>2, <1>3, <1>4, <1>6, <2>1, <2>2, WorkersFinite DEF Balanced
  <2>4. WeakCounted'
    BY <1>1, <1>2, <1>4, <1>6, <2>1, <2>2, <2>3, BalancedTokensNext DEF WeakInv, WeakCounted
  <2>5. QED
    BY <1>2, <2>4 DEF WeakInv
<1>7. QED
  BY <1>5, <1>6 DEF Weak!SignalSema

\* A worker moves to another label of the loop.
LEMMA SearchingStep ==
  ASSUME WeakTyped, NEW w \in Weak!Workers, NEW label, wPc' = [wPc EXCEPT ![w] = label]
  PROVE  /\ w \notin Searching /\ label \in {"dequeue", "peek", "pop", "popSecond"}
              => Searching' = Searching \cup {w}
         /\ w \notin Searching /\ label \notin {"dequeue", "peek", "pop", "popSecond"}
              => Searching' = Searching
         /\ w \in Searching /\ label \in {"dequeue", "peek", "pop", "popSecond"}
              => Searching' = Searching
         /\ w \in Searching /\ label \notin {"dequeue", "peek", "pop", "popSecond"}
              => Searching' = Searching \ {w}
  BY DEF WeakTyped, Searching

\* A worker moves to another label of wait.
LEMMA WaitingStep ==
  ASSUME WeakCounted, NEW w \in Weak!Workers, NEW label, wWaiter' = [wWaiter EXCEPT ![w] = label]
  PROVE  /\ wWaiter[w] = "out" /\ label # "out" => w \notin Waiting /\ Waiting' = Waiting \cup {w}
         /\ wWaiter[w] # "out" /\ label # "out" => Waiting' = Waiting
         /\ wWaiter[w] # "out" /\ label = "out" => w \in Waiting /\ Waiting' = Waiting \ {w}
  BY DEF WeakCounted, Waiting

\* sema_.wait: a token goes to the worker, or the worker's decrement is counted.
LEMMA WeakWait ==
  ASSUME WeakInv, UNCHANGED index, NEW w \in Weak!Workers, Weak!WaitSema(w)
  PROVE  WeakInv'
<1>1. /\ wPc[w] = "wait"
      /\ UNCHANGED <<wSlots, wBitmap, wSlot, wPick, wSignalling, wOwed>>
  BY DEF Weak!WaitSema
<1>2. w \notin Searching
  BY <1>1 DEF Searching
<1>3. Weak!Stored' = Weak!Stored /\ WeakBuckets' /\ WeakPlaced'
  BY <1>1, WeakKept DEF WeakInv
<1>4. /\ Balanced /\ wCount \in Int /\ wSema \in Nat /\ IsFiniteSet(wSignalling)
      /\ IsFiniteSet(wPosting) /\ IsFiniteSet(Weak!Stored)
      /\ Cardinality(wSignalling) \in Nat /\ Cardinality(wPosting) \in Nat
      /\ Cardinality(Weak!Stored) \in Nat
      /\ wWaiter \in [Weak!Workers -> {"out", "blocked", "expired", "retry"}]
  BY BalancedTokens, FS_CardinalityType DEF WeakInv, WeakCounted
<1>5. ASSUME WeakTyped', wCount' \in Int, wSema' \in Nat, UNCHANGED wPosting, Balanced',
             wWaiter' \in [Weak!Workers -> {"out", "blocked", "expired", "retry"}]
      PROVE  WeakInv'
  BY <1>1, <1>3, <1>4, <1>5, BalancedTokensNext DEF WeakInv, WeakCounted
<1>6. ASSUME wPc' = [wPc EXCEPT ![w] = "dequeue"]
      PROVE  WeakTyped' /\ Searching' = Searching \cup {w}
             /\ Cardinality(Searching') = Cardinality(Searching) + 1
  <2>1. Searching' = Searching \cup {w}
    BY <1>2, <1>6, SearchingStep DEF WeakInv
  <2>2. WeakTyped'
    BY <1>1, <1>6 DEF WeakInv, WeakTyped
  <2>3. QED
    BY <1>2, <2>1, <2>2, OneMore, WorkersFinite
<1>7. CASE Weak!Sema!TakeCount(w) /\ wPc' = [wPc EXCEPT ![w] = "dequeue"]
  <2>1. wCount > 0 /\ wCount' = wCount - 1 /\ UNCHANGED <<wSema, wWaiter, wPosting>>
    BY <1>7 DEF Weak!Sema!TakeCount
  <2>2. Waiting' = Waiting
    BY <2>1 DEF Waiting
  <2>3. Balanced'
    BY <1>1, <1>3, <1>4, <1>6, <1>7, <2>1, <2>2, WorkersFinite DEF Balanced
  <2>4. QED
    BY <1>4, <1>5, <1>6, <1>7, <2>1, <2>3
<1>8. CASE Weak!Sema!TakeSema(w) /\ wPc' = [wPc EXCEPT ![w] = "dequeue"]
  <2>1. /\ wWaiter[w] # "out" /\ wSema > 0 /\ wSema' = wSema - 1
        /\ wWaiter' = [wWaiter EXCEPT ![w] = "out"] /\ UNCHANGED <<wCount, wPosting>>
    BY <1>8 DEF Weak!Sema!TakeSema
  <2>2. w \in Waiting /\ Waiting' = Waiting \ {w}
    BY <2>1, WaitingStep DEF WeakInv
  <2>3. Cardinality(Waiting') = Cardinality(Waiting) - 1
    BY <2>2, OneMore, WorkersFinite
  <2>4. Balanced'
    BY <1>1, <1>3, <1>4, <1>6, <1>8, <2>1, <2>3, WorkersFinite DEF Balanced
  <2>5. wWaiter' \in [Weak!Workers -> {"out", "blocked", "expired", "retry"}]
    BY <1>4, <2>1
  <2>6. QED
    BY <1>4, <1>5, <1>6, <1>8, <2>1, <2>4, <2>5
<1>9. CASE Weak!Sema!Block(w) /\ UNCHANGED wPc
  <2>1. /\ wWaiter[w] = "out" /\ wCount <= 0 /\ wCount' = wCount - 1
        /\ wWaiter' = [wWaiter EXCEPT ![w] = "blocked"] /\ UNCHANGED <<wSema, wPosting>>
    BY <1>9 DEF Weak!Sema!Block
  <2>2. w \notin Waiting /\ Waiting' = Waiting \cup {w}
    <3>1. PICK label : label = "blocked" /\ label # "out"
      OBVIOUS
    <3>2. wWaiter' = [wWaiter EXCEPT ![w] = label]
      BY <2>1, <3>1
    <3>3. QED
      BY <2>1, <3>1, <3>2, WaitingStep DEF WeakInv
  <2>3. Cardinality(Waiting') = Cardinality(Waiting) + 1
    BY <2>2, OneMore, WorkersFinite
  <2>4. WeakTyped' /\ Searching' = Searching
    BY <1>1, <1>9 DEF WeakInv, WeakTyped, Searching
  <2>5. Balanced'
    BY <1>1, <1>3, <1>4, <2>1, <2>3, <2>4, WorkersFinite DEF Balanced
  <2>6. wWaiter' \in [Weak!Workers -> {"out", "blocked", "expired", "retry"}]
    BY <1>4, <2>1
  <2>7. QED
    BY <1>4, <1>5, <2>1, <2>4, <2>5, <2>6
<1>10. CASE (\/ Weak!Sema!Timeout(w)
             \/ Weak!Sema!LoadCount(w)
             \/ Weak!Sema!TryWaitFails(w)) /\ UNCHANGED wPc
  <2>1. PICK label \in {"expired", "retry"} :
          /\ wWaiter[w] # "out" /\ wWaiter' = [wWaiter EXCEPT ![w] = label]
          /\ UNCHANGED <<wCount, wSema, wPosting>>
    BY <1>10 DEF Weak!Sema!Timeout, Weak!Sema!LoadCount, Weak!Sema!TryWaitFails
  <2>2. Waiting' = Waiting
    BY <2>1, WaitingStep DEF WeakInv
  <2>3. WeakTyped' /\ Searching' = Searching
    BY <1>1, <1>10 DEF WeakInv, WeakTyped, Searching
  <2>4. Balanced'
    BY <1>1, <1>3, <1>4, <2>1, <2>2, <2>3 DEF Balanced
  <2>5. wWaiter' \in [Weak!Workers -> {"out", "blocked", "expired", "retry"}]
    BY <1>4, <2>1
  <2>6. QED
    BY <1>4, <1>5, <2>1, <2>3, <2>4, <2>5
<1>11. CASE Weak!Sema!GiveUp(w) /\ wPc' = [wPc EXCEPT ![w] = "loop"]
  <2>1. /\ wWaiter[w] # "out" /\ wCount < 0 /\ wCount' = wCount + 1
        /\ wWaiter' = [wWaiter EXCEPT ![w] = "out"] /\ UNCHANGED <<wSema, wPosting>>
    BY <1>11 DEF Weak!Sema!GiveUp
  <2>2. w \in Waiting /\ Waiting' = Waiting \ {w}
    BY <2>1, WaitingStep DEF WeakInv
  <2>3. Cardinality(Waiting') = Cardinality(Waiting) - 1
    BY <2>2, OneMore, WorkersFinite
  <2>4. WeakTyped' /\ Searching' = Searching
    <3>1. Searching' = Searching
      BY <1>2, <1>11, SearchingStep DEF WeakInv
    <3>2. WeakTyped'
      BY <1>1, <1>11 DEF WeakInv, WeakTyped
    <3>3. QED
      BY <3>1, <3>2
  <2>5. Balanced'
    BY <1>1, <1>3, <1>4, <2>1, <2>3, <2>4, WorkersFinite DEF Balanced
  <2>6. wWaiter' \in [Weak!Workers -> {"out", "blocked", "expired", "retry"}]
    BY <1>4, <2>1
  <2>7. QED
    BY <1>4, <1>5, <2>1, <2>4, <2>5, <2>6
<1>12. QED
  BY <1>7, <1>8, <1>9, <1>10, <1>11 DEF Weak!WaitSema, Weak!Sema!Acquire, Weak!Sema!Wait

\* The pick of a worker that has none.
LEMMA NoPickTyped ==
  Weak!NoPick \in Weak!SubQueues \X Weak!SubQueues \X (0 .. kMaxPriorityLevels)
<1>1. kMaxPriorityLevels \in Nat /\ ConfigSubQueues \in Nat /\ WeakThreads \in Nat
  BY UnionAssumption
<1>2. WeakThreads \div 2 \in Nat
  BY <1>1
<1>3. Weak!NumSubQueues \in Nat /\ Weak!NumSubQueues >= 2
  BY <1>1, <1>2 DEF Weak!NumSubQueues
<1>4. 1 \in Weak!SubQueues /\ 2 \in Weak!SubQueues /\ kMaxPriorityLevels \in 0 .. kMaxPriorityLevels
  BY <1>1, <1>3 DEF Weak!SubQueues
<1>5. QED
  BY <1>4 DEF Weak!NoPick

\* Steps of a worker that only look: the stop token, the bitmaps, an empty sub-queue.
LEMMA WeakLooked ==
  ASSUME WeakInv, NEW w \in Weak!Workers, Searching' = Searching, WeakTyped',
         UNCHANGED <<index, wSlots, wBitmap, wSlot, wSignalling, wCount, wSema, wWaiter,
                     wPosting, wOwed>>
  PROVE  WeakInv'
<1>1. Weak!Stored' = Weak!Stored /\ WeakBuckets' /\ WeakPlaced'
  BY WeakKept DEF WeakInv
<1>2. WeakCounted'
  BY <1>1, CountsKept DEF WeakInv
<1>3. QED
  BY <1>1, <1>2 DEF WeakInv

\* The condition of the loop, and TryDequeueOperation up to try_pop.
LEMMA WeakSearch ==
  ASSUME WeakInv, UNCHANGED index, NEW w \in Weak!Workers,
         \/ Weak!CheckStop(w)
         \/ \E a, b \in Weak!SubQueues : Weak!PeekFirst(w, a, b)
         \/ Weak!PeekSecond(w)
  PROVE  WeakInv'
<1>1. CASE Weak!CheckStop(w)
  <2>1. PICK label \in {"exited", "wait"} :
          /\ wPc[w] = "loop" /\ wPc' = [wPc EXCEPT ![w] = label]
          /\ UNCHANGED <<wSlots, wBitmap, wSlot, wPick, wSignalling, wCount, wSema, wWaiter,
                         wPosting, wOwed>>
    BY <1>1 DEF Weak!CheckStop, Weak!sema
  <2>2. w \notin Searching /\ label \notin {"dequeue", "peek", "pop", "popSecond"}
    BY <2>1 DEF Searching
  <2>3. Searching' = Searching
    BY <2>1, <2>2, SearchingStep DEF WeakInv
  <2>4. WeakTyped'
    BY <2>1 DEF WeakInv, WeakTyped
  <2>5. QED
    BY <2>1, <2>3, <2>4, WeakLooked
<1>2. ASSUME NEW a \in Weak!SubQueues, NEW b \in Weak!SubQueues, Weak!PeekFirst(w, a, b)
      PROVE  WeakInv'
  <2>1. /\ wPc[w] = "dequeue" /\ wPc' = [wPc EXCEPT ![w] = "peek"]
        /\ wPick' = [wPick EXCEPT ![w] = <<a, b, Weak!Lowest(wBitmap[a])>>]
        /\ UNCHANGED <<wSlots, wBitmap, wSlot, wSignalling, wCount, wSema, wWaiter,
                       wPosting, wOwed>>
    BY <1>2 DEF Weak!PeekFirst, Weak!sema
  <2>2. w \in Searching
    BY <2>1 DEF Searching
  <2>3. Searching' = Searching
    BY <2>1, <2>2, SearchingStep DEF WeakInv
  <2>4. Weak!Lowest(wBitmap[a]) \in 0 .. kMaxPriorityLevels
    BY LowestBit DEF WeakInv, WeakTyped
  <2>5. WeakTyped'
    BY <2>1, <2>4 DEF WeakInv, WeakTyped
  <2>6. QED
    BY <2>1, <2>3, <2>5, WeakLooked
<1>3. CASE Weak!PeekSecond(w)
  <2>1. /\ wPc[w] = "peek"
        /\ \E label \in {"dequeue", "pop"} : wPc' = [wPc EXCEPT ![w] = label]
        /\ \E pick \in {Weak!NoPick, <<wPick[w][2], wPick[w][1], 0>>, <<wPick[w][1], wPick[w][2], 0>>} :
             wPick' = [wPick EXCEPT ![w] = pick]
        /\ UNCHANGED <<wSlots, wBitmap, wSlot, wSignalling, wCount, wSema, wWaiter,
                       wPosting, wOwed>>
    BY <1>3 DEF Weak!PeekSecond, Weak!sema
  <2>2. PICK label \in {"dequeue", "pop"} : wPc' = [wPc EXCEPT ![w] = label]
    BY <2>1
  <2>3. PICK pick \in {Weak!NoPick, <<wPick[w][2], wPick[w][1], 0>>, <<wPick[w][1], wPick[w][2], 0>>} :
          wPick' = [wPick EXCEPT ![w] = pick]
    BY <2>1
  <2>4. w \in Searching /\ label \in {"dequeue", "peek", "pop", "popSecond"}
    BY <2>1 DEF Searching
  <2>5. Searching' = Searching
    BY <2>2, <2>4, SearchingStep DEF WeakInv
  <2>6. pick \in Weak!SubQueues \X Weak!SubQueues \X (0 .. kMaxPriorityLevels)
    <3>1. 0 \in 0 .. kMaxPriorityLevels
      BY UnionAssumption
    <3>2. wPick[w][1] \in Weak!SubQueues /\ wPick[w][2] \in Weak!SubQueues
      BY DEF WeakInv, WeakTyped
    <3>3. QED
      BY <2>3, <3>1, <3>2, NoPickTyped
  <2>7. WeakTyped'
    BY <2>1, <2>2, <2>3, <2>6 DEF WeakInv, WeakTyped
  <2>8. QED
    BY <2>1, <2>5, <2>7, WeakLooked
<1>4. QED
  BY <1>1, <1>2, <1>3

\* An operation leaves a bucket, and the worker gives its token for it.
LEMMA WeakTake ==
  ASSUME WeakInv, NEW w \in Weak!Workers, w \in Searching, NEW s \in Weak!SubQueues,
         wBitmap[s] # {}, Weak!Take(w, s, Weak!Lowest(wBitmap[s])),
         wPc' = [wPc EXCEPT ![w] = "execute"], wPick' = [wPick EXCEPT ![w] = Weak!NoPick],
         UNCHANGED <<index, wSlot, wSignalling, wCount, wSema, wWaiter, wPosting>>
  PROVE  WeakInv'
<1>1. /\ wSlots' \in [Weak!SubQueues -> [Weak!Priorities -> Seq(Operations)]]
      /\ wBitmap' \in [Weak!SubQueues -> SUBSET Weak!Priorities]
      /\ WeakBuckets'
      /\ \E o \in Weak!Stored : Weak!Stored' = Weak!Stored \ {o} /\ wOwed' = wOwed \ {o}
  BY TakeStep DEF WeakInv
<1>2. PICK o \in Weak!Stored : Weak!Stored' = Weak!Stored \ {o} /\ wOwed' = wOwed \ {o}
  BY <1>1
<1>3. WeakTyped'
  BY <1>1, NoPickTyped DEF WeakInv, WeakTyped
<1>4. WeakPlaced'
  <2>1. \A v \in Weak!Workers : wSlot[v] # o
    BY <1>2 DEF WeakInv, WeakPlaced
  <2>2. QED
    BY <1>2, <2>1 DEF WeakInv, WeakPlaced
<1>5. Searching' = Searching \ {w}
  <2>1. PICK label : label = "execute" /\ label \notin {"dequeue", "peek", "pop", "popSecond"}
    OBVIOUS
  <2>2. wPc' = [wPc EXCEPT ![w] = label]
    BY <2>1
  <2>3. QED
    BY <2>1, <2>2, SearchingStep DEF WeakInv
<1>6. Cardinality(Searching') = Cardinality(Searching) - 1
  BY <1>5, OneMore, WorkersFinite
<1>7. /\ IsFiniteSet(Weak!Stored') /\ Cardinality(Weak!Stored') = Cardinality(Weak!Stored) - 1
      /\ Cardinality(Weak!Stored) \in Nat
  BY <1>2, OneMore DEF WeakInv, WeakCounted
<1>8. Waiting' = Waiting
  BY DEF Waiting
<1>9. Cardinality(wSignalling) \in Nat /\ Balanced /\ wCount \in Int
  BY BalancedTokens, FS_CardinalityType DEF WeakInv, WeakCounted
<1>10. Balanced'
  BY <1>6, <1>7, <1>8, <1>9, WorkersFinite DEF Balanced
<1>11. WeakCounted'
  BY <1>7, <1>10, BalancedTokensNext DEF WeakInv, WeakCounted
<1>12. QED
  BY <1>1, <1>3, <1>4, <1>11 DEF WeakInv

\* try_pop of the two sub-queues.
LEMMA WeakTryPop ==
  ASSUME WeakInv, UNCHANGED index, NEW w \in Weak!Workers, Weak!TryPop(w)
  PROVE  WeakInv'
<1>1. /\ UNCHANGED <<wSlot, wSignalling, wCount, wSema, wWaiter, wPosting>>
      /\ w \in Searching
  BY DEF Weak!TryPop, Weak!sema, Searching
<1>2. PICK a \in Weak!SubQueues, b \in Weak!SubQueues : a = wPick[w][1] /\ b = wPick[w][2]
  BY DEF WeakInv, WeakTyped
<1>3. CASE wBitmap[a] # {} /\ Weak!Take(w, a, Weak!Lowest(wBitmap[a]))
           /\ wPc' = [wPc EXCEPT ![w] = "execute"] /\ wPick' = [wPick EXCEPT ![w] = Weak!NoPick]
  BY <1>1, <1>3, WeakTake
<1>4. CASE wBitmap[b] # {} /\ Weak!Take(w, b, Weak!Lowest(wBitmap[b]))
           /\ wPc' = [wPc EXCEPT ![w] = "execute"] /\ wPick' = [wPick EXCEPT ![w] = Weak!NoPick]
  BY <1>1, <1>4, WeakTake
<1>5. CASE /\ \E label \in {"popSecond", "dequeue"} : wPc' = [wPc EXCEPT ![w] = label]
           /\ wPick' = wPick \/ wPick' = [wPick EXCEPT ![w] = Weak!NoPick]
           /\ UNCHANGED <<wSlots, wBitmap, wOwed>>
  <2>1. PICK label \in {"popSecond", "dequeue"} : wPc' = [wPc EXCEPT ![w] = label]
    BY <1>5
  <2>2. label \in {"dequeue", "peek", "pop", "popSecond"}
    BY <2>1
  <2>3. Searching' = Searching
    BY <1>1, <2>1, <2>2, SearchingStep DEF WeakInv
  <2>4. WeakTyped'
    BY <1>1, <1>5, <2>1, NoPickTyped DEF WeakInv, WeakTyped
  <2>5. QED
    BY <1>1, <1>5, <2>3, <2>4, WeakLooked
<1>6. QED
  BY <1>2, <1>3, <1>4, <1>5 DEF Weak!TryPop

\* Execute() returns: the operation of the slot begins.
LEMMA WeakExecuted ==
  ASSUME WeakInv, UNCHANGED index, NEW w \in Weak!Workers, Weak!Executed(w)
  PROVE  WeakInv'
<1>0. "none" \notin Operations
  BY UnionAssumption
<1>1. /\ wPc[w] = "execute" /\ wSlot' = [wSlot EXCEPT ![w] = "none"]
      /\ wOwed' = wOwed \ {wSlot[w]}
      /\ \E label \in {"loop", "execute"} : wPc' = [wPc EXCEPT ![w] = label]
      /\ UNCHANGED <<wSlots, wBitmap, wPick, wSignalling, wCount, wSema, wWaiter, wPosting>>
  BY DEF Weak!Executed, Weak!None, Weak!sema
<1>2. PICK label \in {"loop", "execute"} : wPc' = [wPc EXCEPT ![w] = label]
  BY <1>1
<1>3. w \notin Searching /\ label \notin {"dequeue", "peek", "pop", "popSecond"}
  BY <1>1 DEF Searching
<1>4. Searching' = Searching
  BY <1>2, <1>3, SearchingStep DEF WeakInv
<1>5. Weak!Stored' = Weak!Stored
  BY <1>1, StoredElements
<1>6. /\ wSlot' \in [Weak!Workers -> Operations \cup {"none"}] /\ wSlot'[w] = "none"
      /\ \A v \in Weak!Workers : v # w => wSlot'[v] = wSlot[v]
  BY <1>1 DEF WeakInv, WeakTyped
<1>7. WeakTyped' /\ WeakBuckets'
  <2>1. WeakTyped'
    BY <1>1, <1>2, <1>6 DEF WeakInv, WeakTyped
  <2>2. WeakBuckets'
    BY <1>1 DEF WeakInv, WeakBuckets
  <2>3. QED
    BY <2>1, <2>2
<1>8. WeakPlaced'
  <2>1. "none" \notin Weak!Stored
    BY <1>0 DEF Weak!Stored
  <2>2. /\ \A v, u \in Weak!Workers : wSlot'[v] = wSlot'[u] /\ wSlot'[v] # "none" => v = u
        /\ \A v \in Weak!Workers : wSlot'[v] \notin Weak!Stored
    BY <1>6, <2>1 DEF WeakInv, WeakPlaced
  <2>3. ASSUME NEW p \in Operations
        PROVE  p \in wOwed' <=> p \in Weak!Stored \/ \E v \in Weak!Workers : wSlot'[v] = p
    <3>0. p # "none"
      BY <1>0
    <3>1. p = wSlot[w] => \A v \in Weak!Workers : v # w => wSlot[v] # p
      BY <3>0 DEF WeakInv, WeakPlaced
    <3>2. (\E v \in Weak!Workers : wSlot'[v] = p)
            <=> p # wSlot[w] /\ \E v \in Weak!Workers : wSlot[v] = p
      BY <1>6, <3>0, <3>1
    <3>3. p = wSlot[w] => p \notin Weak!Stored
      BY DEF WeakInv, WeakPlaced
    <3>4. QED
      BY <1>1, <3>2, <3>3 DEF WeakInv, WeakPlaced
  <2>4. QED
    BY <1>1, <1>5, <2>2, <2>3 DEF WeakInv, WeakPlaced
<1>9. WeakCounted'
  BY <1>1, <1>4, <1>5, CountsKept DEF WeakInv
<1>10. QED
  BY <1>7, <1>8, <1>9 DEF WeakInv

\* WorkerThreadLoop.
LEMMA WeakWork ==
  ASSUME WeakInv, UNCHANGED index, NEW w \in Weak!Workers, Weak!WorkerStep(w)
  PROVE  WeakInv'
  BY WeakWait, WeakSearch, WeakTryPop, WeakExecuted DEF Weak!WorkerStep

\* The constructor starts the workers, the destructor asks one to stop; other pools' steps.
LEMMA WeakIdle ==
  ASSUME WeakInv, UNCHANGED index, Weak!StartWorkers \/ Weak!StopWorker \/ UNCHANGED weakVars
  PROVE  WeakInv'
<1>1. UNCHANGED <<wSlots, wBitmap, wSlot, wPick, wSignalling, wCount, wSema, wWaiter, wPosting, wOwed>>
  BY DEF Weak!StartWorkers, Weak!StopWorker, Weak!sema, weakVars
<1>2. Weak!Stored' = Weak!Stored /\ WeakBuckets' /\ WeakPlaced'
  BY <1>1, WeakKept DEF WeakInv
<1>3. WeakTyped' /\ Searching' = Searching
  BY <1>1 DEF WeakInv, WeakTyped, Searching, Weak!StartWorkers, Weak!StopWorker, weakVars
<1>4. WeakCounted'
  BY <1>1, <1>2, <1>3, CountsKept DEF WeakInv
<1>5. QED
  BY <1>2, <1>3, <1>4 DEF WeakInv

(***************************************************************************)
(* The union                                                               *)
(***************************************************************************)

\* The constructors.
LEMMA PoolsInit == Init => PoolsInv
<1> SUFFICES ASSUME Init PROVE PoolsInv
  OBVIOUS
<1>1. index \in [Operations -> Nat]
  BY UnionAssumption DEF Init
<1>2. SharePlaced
  <2>1. "none" \notin Operations
    BY UnionAssumption
  <2>2. QED
    BY <2>1, EmptyDistinct DEF Init, Share!Init, Share!None, SharePlaced
<1>3. WeakInv
  BY WeakInit DEF Init
<1>4. StrictPlaced
  BY DEF Init, Strict!Init, StrictPlaced
<1>5. PinnedPlaced
  <2>1. /\ cQueues = [w \in Pinned!Workers |-> <<>>] /\ cOwed = {}
        /\ \A o \in Operations : Pinned!QueueOf(o) \in Pinned!Workers
    BY CoreOfOperation DEF Init, Pinned!Init
  <2>2. QED
    BY <2>1, EmptyDistinct DEF PinnedPlaced
<1>6. QED
  BY <1>1, <1>2, <1>3, <1>4, <1>5 DEF PoolsInv

\* The steps of one pool leave the operations of the others where they are.
LEMMA OthersKept ==
  ASSUME PoolsInv, UNCHANGED index
  PROVE  /\ UNCHANGED shareVars => SharePlaced'
         /\ UNCHANGED weakVars => WeakInv'
         /\ UNCHANGED priorityVars => StrictPlaced'
         /\ UNCHANGED coreVars => PinnedPlaced'
<1>1. UNCHANGED shareVars => SharePlaced'
  BY ShareKept DEF PoolsInv, shareVars
<1>2. UNCHANGED weakVars => WeakInv'
  BY WeakIdle DEF PoolsInv
<1>3. UNCHANGED priorityVars => StrictPlaced'
  BY StrictKept DEF PoolsInv, priorityVars
<1>4. UNCHANGED coreVars => PinnedPlaced'
  BY PinnedKept DEF PoolsInv, coreVars
<1>5. QED
  BY <1>1, <1>2, <1>3, <1>4

\* Every step preserves the invariant.
LEMMA PoolsNext ==
  ASSUME PoolsInv, [Next]_vars
  PROVE  PoolsInv'
<1>1. UNCHANGED index
  BY DEF Next, vars, ShareStep, WeakStep, WeakSignal, StrictStep, PinnedStep,
         StopShare, StopWeak, StopStrict, StopPinned
<1>2. ASSUME SharePlaced', WeakInv', StrictPlaced', PinnedPlaced'
      PROVE  PoolsInv'
  BY <1>1, <1>2 DEF PoolsInv
<1>3. ASSUME SharePlaced', UNCHANGED <<weakVars, priorityVars, coreVars>>
      PROVE  PoolsInv'
  <2>1. UNCHANGED weakVars /\ UNCHANGED priorityVars /\ UNCHANGED coreVars
    BY <1>3
  <2>2. QED
    BY <1>1, <1>2, <1>3, <2>1, OthersKept
<1>4. ASSUME WeakInv', UNCHANGED <<shareVars, priorityVars, coreVars>>
      PROVE  PoolsInv'
  <2>1. UNCHANGED shareVars /\ UNCHANGED priorityVars /\ UNCHANGED coreVars
    BY <1>4
  <2>2. QED
    BY <1>1, <1>2, <1>4, <2>1, OthersKept
<1>5. ASSUME StrictPlaced', UNCHANGED <<shareVars, weakVars, coreVars>>
      PROVE  PoolsInv'
  <2>1. UNCHANGED shareVars /\ UNCHANGED weakVars /\ UNCHANGED coreVars
    BY <1>5
  <2>2. QED
    BY <1>1, <1>2, <1>5, <2>1, OthersKept
<1>6. ASSUME PinnedPlaced', UNCHANGED <<shareVars, weakVars, priorityVars>>
      PROVE  PoolsInv'
  <2>1. UNCHANGED shareVars /\ UNCHANGED weakVars /\ UNCHANGED priorityVars
    BY <1>6
  <2>2. QED
    BY <1>1, <1>2, <1>6, <2>1, OthersKept
<1>7. SharePlaced /\ WeakInv /\ StrictPlaced /\ PinnedPlaced
  BY DEF PoolsInv
<1>8. CASE StartWorkers
  <2>1. CASE Share!StartWorkers /\ UNCHANGED <<weakVars, priorityVars, coreVars>>
    BY <1>1, <1>3, <1>7, <2>1, ShareKept DEF Share!StartWorkers
  <2>2. CASE Weak!StartWorkers /\ UNCHANGED <<shareVars, priorityVars, coreVars>>
    BY <1>1, <1>4, <1>7, <2>2, WeakIdle
  <2>3. CASE Strict!StartWorkers /\ UNCHANGED <<shareVars, weakVars, coreVars>>
    BY <1>1, <1>5, <1>7, <2>3, StrictKept DEF Strict!StartWorkers
  <2>4. CASE Pinned!StartWorkers /\ UNCHANGED <<shareVars, weakVars, priorityVars>>
    BY <1>1, <1>6, <1>7, <2>4, PinnedKept DEF Pinned!StartWorkers
  <2>5. QED
    BY <1>8, <2>1, <2>2, <2>3, <2>4 DEF StartWorkers
<1>9. ASSUME NEW o \in Operations, Start(o) PROVE PoolsInv'
  <2>1. CASE /\ index[o] = 0 /\ Share!EnqueueOperation(o)
             /\ UNCHANGED <<weakVars, priorityVars, coreVars>>
    BY <1>1, <1>3, <1>7, <2>1, ShareStart
  <2>2. ASSUME NEW c \in Callers, NEW s \in Weak!SubQueues, index[o] = 1,
               Weak!EnqueueOperation(c, o, s), UNCHANGED <<shareVars, priorityVars, coreVars>>
        PROVE  PoolsInv'
    BY <1>1, <1>4, <1>7, <2>2, WeakEnqueue
  <2>3. CASE /\ index[o] = 2 /\ Strict!EnqueueOperation(o)
             /\ UNCHANGED <<shareVars, weakVars, coreVars>>
    BY <1>1, <1>5, <1>7, <2>3, StrictStepKept
  <2>4. CASE /\ index[o] = 3 /\ Pinned!EnqueueOperation(o)
             /\ UNCHANGED <<shareVars, weakVars, priorityVars>>
    BY <1>1, <1>6, <1>7, <2>4, PinnedStart
  <2>5. QED
    BY <1>9, <2>1, <2>2, <2>3, <2>4 DEF Start, Selects
<1>10. ASSUME NEW o \in Operations, StartOnWorker(o) PROVE PoolsInv'
  <2>1. ASSUME NEW w \in Share!Workers, index[o] = 0, Share!StartOnWorker(w, o),
               UNCHANGED <<weakVars, priorityVars, coreVars>>
        PROVE  PoolsInv'
    BY <1>1, <1>3, <1>7, <2>1, ShareStart
  <2>2. ASSUME NEW w \in Weak!Workers, NEW s \in Weak!SubQueues, index[o] = 1,
               Weak!StartOnWorker(w, o, s), UNCHANGED <<shareVars, priorityVars, coreVars>>
        PROVE  PoolsInv'
    BY <1>1, <1>4, <1>7, <2>2, WeakStartOnWorker
  <2>3. QED
    BY <1>10, <2>1, <2>2 DEF StartOnWorker, Selects
<1>11. ASSUME NEW w \in Share!Workers, ShareStep(w) PROVE PoolsInv'
  BY <1>1, <1>3, <1>7, <1>11, ShareWork DEF ShareStep
<1>12. ASSUME NEW w \in Weak!Workers, WeakStep(w) PROVE PoolsInv'
  BY <1>1, <1>4, <1>7, <1>12, WeakWork DEF WeakStep
<1>13. ASSUME NEW t \in Weak!Threads, WeakSignal(t) PROVE PoolsInv'
  BY <1>1, <1>4, <1>7, <1>13, WeakSignalled DEF WeakSignal
<1>14. ASSUME NEW w \in Strict!Workers, StrictStep(w) PROVE PoolsInv'
  BY <1>1, <1>5, <1>7, <1>14, StrictStepKept DEF StrictStep
<1>15. ASSUME NEW w \in Pinned!Workers, PinnedStep(w) PROVE PoolsInv'
  BY <1>1, <1>6, <1>7, <1>15, PinnedWork DEF PinnedStep
<1>16. CASE StopShare
  BY <1>1, <1>3, <1>7, <1>16, ShareKept DEF StopShare, Share!StopWorker
<1>17. CASE StopWeak
  BY <1>1, <1>4, <1>7, <1>17, WeakIdle DEF StopWeak
<1>18. CASE StopStrict
  BY <1>1, <1>5, <1>7, <1>18, StrictKept DEF StopStrict, Strict!StopWorker
<1>19. CASE StopPinned
  BY <1>1, <1>6, <1>7, <1>19, PinnedKept DEF StopPinned, Pinned!StopWorker
<1>20. CASE UNCHANGED vars
  <2>1. WeakInv' /\ UNCHANGED <<shareVars, priorityVars, coreVars>>
    BY <1>1, <1>7, <1>20, WeakIdle DEF vars
  <2>2. QED
    BY <1>4, <2>1
<1>21. QED
  BY <1>8, <1>9, <1>10, <1>11, <1>12, <1>13, <1>14, <1>15, <1>16, <1>17, <1>18, <1>19, <1>20
  DEF Next

\* A place of the queue or of a slot, not both.
LEMMA OnePlace ==
  ASSUME NEW S, NEW T, (S = {} /\ \E x : T = {x}) \/ (T = {} /\ \E x : S = {x})
  PROVE  Cardinality(S \cup T) = 1
<1>1. PICK x : S \cup T = {x}
  OBVIOUS
<1>2. Cardinality({x}) = 1
  BY FS_Singleton
<1>3. QED
  BY <1>1, <1>2

\* The places of an operation of pool 0.
LEMMA SharePlaces ==
  ASSUME SharePlaced, NEW o \in Operations
  PROVE  LET Q == {<<"queue", i>> : i \in {i \in 1 .. Len(sQueue) : sQueue[i] = o}}
             S == {<<"slot", w>> : w \in {w \in Share!Workers : sSlot[w] = o}}
         IN Cardinality(Q \cup S) = IF o \in sOwed THEN 1 ELSE 0
<1>0. o # "none"
  BY UnionAssumption
<1>1. PICK I, W : I = {i \in 1 .. Len(sQueue) : sQueue[i] = o} /\ W = {w \in Share!Workers : sSlot[w] = o}
  OBVIOUS
<1>2. PICK Q, S : Q = {<<"queue", i>> : i \in I} /\ S = {<<"slot", w>> : w \in W}
  OBVIOUS
<1>3. /\ o \notin Elements(sQueue) => I = {}
      /\ o \in Elements(sQueue) => \E k : I = {k}
  BY <1>1, Occurrences DEF SharePlaced
<1>4. /\ (\A w \in Share!Workers : sSlot[w] # o) => W = {}
      /\ \A w \in Share!Workers : sSlot[w] = o => W = {w} /\ o \notin Elements(sQueue)
  BY <1>0, <1>1 DEF SharePlaced
<1>5. /\ I = {} => Q = {}
      /\ W = {} => S = {}
      /\ \A k : I = {k} => Q = {<<"queue", k>>}
      /\ \A w : W = {w} => S = {<<"slot", w>>}
  BY <1>2
<1>6. CASE o \in sOwed
  <2>1. o \in Elements(sQueue) \/ \E w \in Share!Workers : sSlot[w] = o
    BY <1>6 DEF SharePlaced
  <2>2. (Q = {} /\ \E x : S = {x}) \/ (S = {} /\ \E x : Q = {x})
    BY <1>3, <1>4, <1>5, <2>1
  <2>3. Cardinality(Q \cup S) = 1
    BY <2>2, OnePlace
  <2>4. QED
    BY <1>1, <1>2, <1>6, <2>3
<1>7. CASE o \notin sOwed
  <2>1. Q \cup S = {}
    BY <1>3, <1>4, <1>5, <1>7 DEF SharePlaced
  <2>2. Cardinality(Q \cup S) = 0
    BY <2>1, FS_EmptySet
  <2>3. QED
    BY <1>1, <1>2, <1>7, <2>2
<1>8. QED
  BY <1>6, <1>7

\* The buckets with the bit of an operation's priority that hold it.
LEMMA BucketPlaces ==
  ASSUME WeakInv, NEW o \in Operations
  PROVE  LET Bucket(s) == {<<s, i>> : i \in {i \in 1 .. Len(wSlots[s][Priority[o]]) :
                                               wSlots[s][Priority[o]][i] = o}}
             B == UNION {Bucket(s) : s \in {s \in Weak!SubQueues : Priority[o] \in wBitmap[s]}}
         IN /\ o \notin Weak!Stored => B = {}
            /\ o \in Weak!Stored => \E x : B = {x}
<1> DEFINE Bucket(s) == {<<s, i>> : i \in {i \in 1 .. Len(wSlots[s][Priority[o]]) :
                                             wSlots[s][Priority[o]][i] = o}}
           B == UNION {Bucket(s) : s \in {s \in Weak!SubQueues : Priority[o] \in wBitmap[s]}}
<1>1. PICK p \in Weak!Priorities : p = Priority[o]
  BY UnionAssumption DEF Weak!Priorities
<1>2. ASSUME NEW s \in Weak!SubQueues
      PROVE  /\ o \notin Elements(wSlots[s][p]) => Bucket(s) = {}
             /\ o \in Elements(wSlots[s][p]) => \E x : Bucket(s) = {x}
             /\ o \in Elements(wSlots[s][p]) => p \in wBitmap[s]
  <2>1. PICK q : q = wSlots[s][p]
    OBVIOUS
  <2>2. Distinct(q) /\ (p \in wBitmap[s] <=> q # <<>>)
    BY <2>1 DEF WeakInv, WeakBuckets
  <2>3. PICK I : I = {i \in 1 .. Len(q) : q[i] = o}
    OBVIOUS
  <2>4. (o \notin Elements(q) => I = {}) /\ (o \in Elements(q) => \E k : I = {k})
    BY <2>2, <2>3, Occurrences
  <2>5. Bucket(s) = {<<s, i>> : i \in I}
    BY <1>1, <2>1, <2>3
  <2>6. o \in Elements(q) => q # <<>>
    BY EmptyDistinct
  <2>7. (I = {} => Bucket(s) = {}) /\ \A k : I = {k} => Bucket(s) = {<<s, k>>}
    BY <2>5
  <2>8. QED
    BY <2>1, <2>2, <2>4, <2>6, <2>7
<1>3. o \in Weak!Stored <=> \E s \in Weak!SubQueues : o \in Elements(wSlots[s][p])
  <2>1. \A s \in Weak!SubQueues, u \in Weak!Priorities : o \in Elements(wSlots[s][u]) => u = p
    BY <1>1 DEF WeakInv, WeakBuckets
  <2>2. QED
    BY <2>1, StoredElements DEF StoredIn
<1>4. ASSUME o \notin Weak!Stored PROVE B = {}
  <2>1. \A s \in Weak!SubQueues : Bucket(s) = {}
    BY <1>2, <1>3, <1>4
  <2>2. QED
    BY <2>1
<1>5. ASSUME o \in Weak!Stored PROVE \E x : B = {x}
  <2>1. PICK s \in Weak!SubQueues : o \in Elements(wSlots[s][p])
    BY <1>3, <1>5
  <2>2. \A r \in Weak!SubQueues : r # s => o \notin Elements(wSlots[r][p])
    BY <2>1 DEF WeakInv, WeakBuckets
  <2>3. \A r \in Weak!SubQueues : r # s => Bucket(r) = {}
    BY <1>2, <2>2
  <2>4. PICK x : Bucket(s) = {x}
    BY <1>2, <2>1
  <2>5. Priority[o] \in wBitmap[s]
    BY <1>1, <1>2, <2>1
  <2> HIDE DEF Bucket
  <2>6. B = {x}
    BY <2>3, <2>4, <2>5
  <2>7. QED
    BY <2>6
<1>6. QED
  BY <1>4, <1>5

\* An operation has one place in the pool that its index names if it is owed, and none
\* otherwise.
LEMMA PlacesCounted == PoolsInv => EachOwedOnce
<1> SUFFICES ASSUME PoolsInv, NEW o \in Operations
             PROVE  Cardinality(Places(o)) = IF o \in Owed THEN 1 ELSE 0
  BY DEF EachOwedOnce
<1>0. SharePlaced /\ WeakInv /\ StrictPlaced /\ PinnedPlaced
  BY DEF PoolsInv
<1>1. /\ o \in sOwed => index[o] = 0
      /\ o \in wOwed => index[o] = 1
      /\ o \in pOwed => index[o] = 2
      /\ o \in cOwed => index[o] = 3
  BY <1>0 DEF SharePlaced, WeakInv, WeakPlaced, StrictPlaced, PinnedPlaced
<1>2. Cardinality({}) = 0 /\ \A x : Cardinality({x}) = 1
  BY FS_EmptySet, FS_Singleton
<1>3. CASE index[o] = 0
  <2>1. o \in Owed <=> o \in sOwed
    BY <1>1, <1>3 DEF Owed
  <2>2. Places(o) = {<<"queue", i>> : i \in {i \in 1 .. Len(sQueue) : sQueue[i] = o}}
                      \cup {<<"slot", w>> : w \in {w \in Share!Workers : sSlot[w] = o}}
    BY <1>3 DEF Places
  <2>3. QED
    BY <1>0, <2>1, <2>2, SharePlaces
<1>4. CASE index[o] = 1
  <2> DEFINE B == UNION {{<<s, i>> : i \in {i \in 1 .. Len(wSlots[s][Priority[o]]) :
                                              wSlots[s][Priority[o]][i] = o}} :
                           s \in {s \in Weak!SubQueues : Priority[o] \in wBitmap[s]}}
             W == {w \in Weak!Workers : wSlot[w] = o}
             S == {<<"slot", w>> : w \in W}
  <2>1. o \in Owed <=> o \in wOwed
    BY <1>1, <1>4 DEF Owed
  <2>2. Places(o) = B \cup S
    BY <1>4 DEF Places
  <2>3. (o \notin Weak!Stored => B = {}) /\ (o \in Weak!Stored => \E x : B = {x})
    BY <1>0, BucketPlaces
  <2>4. o # "none"
    BY UnionAssumption
  <2>5. /\ (\A w \in Weak!Workers : wSlot[w] # o) => W = {}
        /\ \A w \in Weak!Workers : wSlot[w] = o => W = {w} /\ o \notin Weak!Stored
    BY <1>0, <2>4 DEF WeakInv, WeakPlaced
  <2>6. (W = {} => S = {}) /\ \A w : W = {w} => S = {<<"slot", w>>}
    OBVIOUS
  <2>7. o \in wOwed <=> o \in Weak!Stored \/ \E w \in Weak!Workers : wSlot[w] = o
    BY <1>0 DEF WeakInv, WeakPlaced
  <2> HIDE DEF B, W, S
  <2>8. o \in wOwed => (B = {} /\ \E x : S = {x}) \/ (S = {} /\ \E x : B = {x})
    BY <2>3, <2>5, <2>6, <2>7
  <2>9. o \notin wOwed => B \cup S = {}
    BY <2>3, <2>5, <2>6, <2>7
  <2>10. QED
    BY <1>2, <2>1, <2>2, <2>8, <2>9, OnePlace
<1>5. CASE index[o] = 2
  <2>1. o \in Owed <=> o \in pOwed
    BY <1>1, <1>5 DEF Owed
  <2>2. Places(o) = {o} \cap pHeap
    BY <1>5 DEF Places
  <2>3. Places(o) = IF o \in pOwed THEN {o} ELSE {}
    BY <1>0, <2>2 DEF StrictPlaced
  <2>4. QED
    BY <1>2, <2>1, <2>3
<1>6. CASE index[o] = 3
  <2>1. o \in Owed <=> o \in cOwed
    BY <1>1, <1>6 DEF Owed
  <2>2. PICK q : q = cQueues[Pinned!QueueOf(o)]
    OBVIOUS
  <2>3. Places(o) = {i \in 1 .. Len(q) : q[i] = o}
    BY <1>6, <2>2 DEF Places, Pinned!QueueOf
  <2>4. Distinct(q) /\ (o \in cOwed <=> o \in Elements(q))
    BY <1>0, <2>2, CoreOfOperation DEF PinnedPlaced
  <2>5. (o \notin cOwed => Places(o) = {}) /\ (o \in cOwed => \E k : Places(o) = {k})
    BY <2>3, <2>4, Occurrences
  <2>6. QED
    BY <1>2, <2>1, <2>5
<1>7. CASE index[o] \notin Pools
  <2>1. o \notin Owed /\ Places(o) = {}
    BY <1>1, <1>7 DEF Owed, Places, Pools
  <2>2. QED
    BY <1>2, <2>1
<1>8. QED
  <2>1. index[o] \in Nat
    BY DEF PoolsInv
  <2>2. index[o] = 0 \/ index[o] = 1 \/ index[o] = 2 \/ index[o] = 3 \/ index[o] \notin Pools
    BY <2>1 DEF Pools
  <2>3. QED
    BY <1>3, <1>4, <1>5, <1>6, <1>7, <2>2

\* The inductive invariant of the four pools.
THEOREM PoolsInvariant == Spec => []PoolsInv
<1>1. PoolsInv /\ [Next]_vars => PoolsInv'
  BY PoolsNext
<1>2. QED
  BY <1>1, PoolsInit, PTL DEF Spec

\* EnqueueOperation and the worker loops of all pools keep every operation that was
\* started and has not begun in exactly one place where its own pool looks for it, for
\* every assignment of operations to pools, and every number of threads and sub-queues.
THEOREM OperationsWaitOnce == Spec => []EachOwedOnce
  BY PoolsInvariant, PlacesCounted, PTL

\* The signals of the weak pool and the operations in its buckets agree, however a timed
\* wait that runs out races with a signal, for every number of threads.
THEOREM TokensMatch == Spec => []TokensAccounted
<1>1. PoolsInv => TokensAccounted
  BY DEF PoolsInv, WeakInv, WeakCounted
<1>2. QED
  BY <1>1, PoolsInvariant, PTL
=============================================================================
