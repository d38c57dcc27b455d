--------------------------- MODULE SchedulerUnion ---------------------------
(***************************************************************************)
(* The thread pools behind one SchedulerUnion (scheduler_union.h).  The    *)
(* scheduler_index of an operation selects the pool whose operation        *)
(* connect() builds and start() enqueues; connect() throws for an index    *)
(* that names no pool.  An operation that runs in one pool may start an    *)
(* operation of another: that is a start from outside the other pool,      *)
(* because the local slot is used only when owning_pool_ == this.  A pool  *)
(* that no operation is assigned to does not start its workers.            *)
(***************************************************************************)
EXTENDS Integers, Sequences, FiniteSets

CONSTANTS
  Operations,
  Configurations,      \* the assignments of scheduler indices that are tried
  Priority, Core,      \* get_priority, get_core_index
  Callers,             \* threads outside the pools
  ShareThreads, WeakThreads, PriorityThreads, CoreThreads,
  ConfigSubQueues, kMaxPriorityLevels

VARIABLES
  index,                                                          \* scheduler_index
  sQueue, sSlot, sRunning, sPc, sStop, sOwed,                     \* pool 0
  wSlots, wBitmap, wSlot, wRunning, wPc, wPick, wSignalling,      \* pool 1
  wCount, wSema, wWaiter, wPosting, wStop, wOwed,
  pHeap, pRunning, pPc, pStop, pOwed,                             \* pool 2
  cQueues, cRunning, cPc, cStop, cOwed                            \* pool 3

shareVars == <<sQueue, sSlot, sRunning, sPc, sStop, sOwed>>
weakVars == <<wSlots, wBitmap, wSlot, wRunning, wPc, wPick, wSignalling,
              wCount, wSema, wWaiter, wPosting, wStop, wOwed>>
priorityVars == <<pHeap, pRunning, pPc, pStop, pOwed>>
coreVars == <<cQueues, cRunning, cPc, cStop, cOwed>>
vars == <<index, shareVars, weakVars, priorityVars, coreVars>>

Share == INSTANCE WorkSharingThreadPool WITH
  ThreadCount <- ShareThreads, queue <- sQueue, localSlot <- sSlot,
  running <- sRunning, pc <- sPc, stop <- sStop, owed <- sOwed

Weak == INSTANCE WeakPriorityThreadPool WITH
  ThreadCount <- WeakThreads, slots <- wSlots, bitmap <- wBitmap, localSlot <- wSlot,
  running <- wRunning, pc <- wPc, pick <- wPick, signalling <- wSignalling,
  mCount <- wCount, mSema <- wSema, waiter <- wWaiter, posting <- wPosting,
  stop <- wStop, owed <- wOwed

Strict == INSTANCE PriorityThreadPool WITH
  ThreadCount <- PriorityThreads, heap <- pHeap, running <- pRunning,
  pc <- pPc, stop <- pStop, owed <- pOwed

Pinned == INSTANCE CorePinnedThreadPool WITH
  ThreadCount <- CoreThreads, queues <- cQueues, running <- cRunning,
  pc <- cPc, stop <- cStop, owed <- cOwed

Pools == 0 .. 3

\* The constructor of the pinned pool refuses a thread count of zero.
ASSUME UnionAssumption ==
  /\ ShareThreads \in Nat /\ WeakThreads \in Nat /\ PriorityThreads \in Nat
  /\ CoreThreads \in Nat \ {0} /\ ConfigSubQueues \in Nat
  /\ kMaxPriorityLevels \in Nat
  /\ "none" \notin Operations
  /\ Configurations \subseteq [Operations -> Nat]
  /\ Priority \in [Operations -> 0 .. kMaxPriorityLevels - 1]
  /\ Core \in [Operations -> Nat]
  /\ (1 .. WeakThreads) \cap Callers = {}

Init ==
  /\ index \in Configurations
  /\ Share!Init /\ Weak!Init /\ Strict!Init /\ Pinned!Init

(***************************************************************************)
(* Dispatch                                                                *)
(***************************************************************************)

Used(pool) == \E o \in Operations : index[o] = pool

\* connect(): the range check, and the entry of the dispatch table.
Selects(o, pool) == index[o] \in Pools /\ index[o] = pool

\* start(), from a thread that belongs to no pool or to another one.
Start(o) ==
  \/ Selects(o, 0) /\ Share!EnqueueOperation(o) /\ UNCHANGED <<weakVars, priorityVars, coreVars>>
  \/ /\ Selects(o, 1)
     /\ \E c \in Callers, s \in Weak!SubQueues : Weak!EnqueueOperation(c, o, s)
     /\ UNCHANGED <<shareVars, priorityVars, coreVars>>
  \/ Selects(o, 2) /\ Strict!EnqueueOperation(o) /\ UNCHANGED <<shareVars, weakVars, coreVars>>
  \/ Selects(o, 3) /\ Pinned!EnqueueOperation(o) /\ UNCHANGED <<shareVars, weakVars, priorityVars>>

\* start(), from an operation of a pool with local slots.
StartOnWorker(o) ==
  \/ /\ Selects(o, 0)
     /\ \E w \in Share!Workers : Share!StartOnWorker(w, o)
     /\ UNCHANGED <<weakVars, priorityVars, coreVars>>
  \/ /\ Selects(o, 1)
     /\ \E w \in Weak!Workers, s \in Weak!SubQueues : Weak!StartOnWorker(w, o, s)
     /\ UNCHANGED <<shareVars, priorityVars, coreVars>>

StartWorkers ==
  \/ Used(0) /\ Share!StartWorkers /\ UNCHANGED <<weakVars, priorityVars, coreVars>>
  \/ Used(1) /\ Weak!StartWorkers /\ UNCHANGED <<shareVars, priorityVars, coreVars>>
  \/ Used(2) /\ Strict!StartWorkers /\ UNCHANGED <<shareVars, weakVars, coreVars>>
  \/ Used(3) /\ Pinned!StartWorkers /\ UNCHANGED <<shareVars, weakVars, priorityVars>>

ShareStep(w) == Share!WorkerStep(w) /\ UNCHANGED <<index, weakVars, priorityVars, coreVars>>
WeakStep(w) == Weak!WorkerStep(w) /\ UNCHANGED <<index, shareVars, priorityVars, coreVars>>
WeakSignal(t) == Weak!SignalSema(t) /\ UNCHANGED <<index, shareVars, priorityVars, coreVars>>
StrictStep(w) == Strict!WorkerStep(w) /\ UNCHANGED <<index, shareVars, weakVars, coreVars>>
PinnedStep(w) == Pinned!WorkerStep(w) /\ UNCHANGED <<index, shareVars, weakVars, priorityVars>>

\* The destructors of the pools.
StopShare == Share!StopWorker /\ UNCHANGED <<index, weakVars, priorityVars, coreVars>>
StopWeak == Weak!StopWorker /\ UNCHANGED <<index, shareVars, priorityVars, coreVars>>
StopStrict == Strict!StopWorker /\ UNCHANGED <<index, shareVars, weakVars, coreVars>>
StopPinned == Pinned!StopWorker /\ UNCHANGED <<index, shareVars, weakVars, priorityVars>>

\* A destructor that has begun goes on.
StopOn ==
  \/ sStop > 0 /\ StopShare
  \/ wStop > 0 /\ StopWeak
  \/ pStop > 0 /\ StopStrict
  \/ cStop > 0 /\ StopPinned

Next ==
  \/ StartWorkers /\ UNCHANGED index
  \/ \E o \in Operations : (Start(o) \/ StartOnWorker(o)) /\ UNCHANGED index
  \/ \E w \in Share!Workers : ShareStep(w)
  \/ \E w \in Weak!Workers : WeakStep(w)
  \/ \E t \in Weak!Threads : WeakSignal(t)
  \/ \E w \in Strict!Workers : StrictStep(w)
  \/ \E w \in Pinned!Workers : PinnedStep(w)
  \/ StopShare \/ StopWeak \/ StopStrict \/ StopPinned

Spec == Init /\ [][Next]_vars

\* Workers are started and run, an operation that executes ends, a call of signal()
\* and a destructor that has begun go on.
FairSpec ==
  /\ Spec
  /\ WF_vars(StartWorkers /\ UNCHANGED index)
  /\ \A w \in Share!Workers : WF_vars(ShareStep(w))
  /\ \A w \in Weak!Workers : WF_vars(WeakStep(w))
  /\ \A t \in Weak!Threads : WF_vars(WeakSignal(t))
  /\ \A w \in Strict!Workers : WF_vars(StrictStep(w))
  /\ \A w \in Pinned!Workers : WF_vars(PinnedStep(w))
  /\ WF_vars(StopOn)
-----------------------------------------------------------------------------
Owed == sOwed \cup wOwed \cup pOwed \cup cOwed

\* Where an operation waits in the pool its index names: queue positions, buckets
\* whose bit is set, local slots, the queue of its core.
Places(o) ==
  CASE index[o] = 0 ->
         {<<"queue", i>> : i \in {i \in 1 .. Len(sQueue) : sQueue[i] = o}}
           \cup {<<"slot", w>> : w \in {w \in Share!Workers : sSlot[w] = o}}
    [] index[o] = 1 ->
         (UNION {{<<s, i>> : i \in {i \in 1 .. Len(wSlots[s][Priority[o]]) :
                                      wSlots[s][Priority[o]][i] = o}} :
                   s \in {s \in Weak!SubQueues : Priority[o] \in wBitmap[s]}})
           \cup {<<"slot", w>> : w \in {w \in Weak!Workers : wSlot[w] = o}}
    [] index[o] = 2 -> {o} \cap pHeap
    [] index[o] = 3 ->
         LET queue == cQueues[Core[o] % CoreThreads]
         IN {i \in 1 .. Len(queue) : queue[i] = o}
    [] OTHER -> {}

\* No operation is lost, queued twice or hidden: one that was started and has not
\* begun waits in exactly one place that a worker of its own pool looks at (in the
\* weak pool a bucket of its own priority whose bit is set, in the pinned pool the
\* queue of its core), and one that is not owed waits nowhere.
EachOwedOnce ==
  \A o \in Operations : Cardinality(Places(o)) = IF o \in Owed THEN 1 ELSE 0

\* Signals and operations of the weak pool agree: no signal is lost to a worker that
\* timed out or was counted before it blocked (TokenBalance), and each operation in
\* a bucket has one token, in the semaphore, on its way or with a worker that looks
\* for it (TokensMatchOperations).
TokensAccounted == Weak!Sema!TokenBalance /\ Weak!TokensMatchOperations

\* Workers come back from their local slots again and again.
SlotChainsEnd ==
  /\ \A w \in Share!Workers : []<>(sPc[w] \in {"unstarted", "loop", "exited"})
  /\ \A w \in Weak!Workers : []<>(wPc[w] # "execute")

\* The operations that may be taken before o for ever: the more urgent ones of a pool
\* with priorities, and the equally urgent ones, whose order neither the stacks of
\* the weak pool nor the heap of the strict one keeps.
Ahead(o) == {u \in Operations \ {o} : index[o] \in {1, 2} /\ Priority[u] <= Priority[o]}

\* An operation that was started is executed, unless its pool is destroyed first, a
\* worker never comes back from its local slot, or operations that go first keep
\* coming: no wake-up is lost.
StartedIsExecuted ==
  SlotChainsEnd =>
    \A o \in Operations :
      <>[](Ahead(o) \cap Owed = {}) =>
        (o \in Owed ~> o \notin Owed \/ sStop + wStop + pStop + cStop > 0)

\* The destructor of a pool returns once no operation starts another: no worker is
\* left blocked on the semaphore or searching the buckets for an operation that is
\* not there.
DestructorReturns ==
  <>[][Owed' \subseteq Owed]_vars =>
    (sStop + wStop + pStop + cStop > 0 ~>
       /\ sStop > 0 => \A w \in Share!Workers : sPc[w] = "exited"
       /\ wStop > 0 => \A w \in Weak!Workers : wPc[w] = "exited"
       /\ pStop > 0 => \A w \in Strict!Workers : pPc[w] = "exited"
       /\ cStop > 0 => \A w \in Pinned!Workers : cPc[w] = "exited")
=============================================================================
