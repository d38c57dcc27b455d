----------------------- MODULE WeakPriorityThreadPool -----------------------
(***************************************************************************)
(* The sharded pool with best-effort priorities                            *)
(* (weak_priority_thread_pool.cc).  An operation goes into the bucket of   *)
(* its priority in a random sub-queue; a worker that got a token of the    *)
(* semaphore takes two sub-queues at random, looks at their bitmaps        *)
(* without a lock and pops from the more urgent one.  The semaphore is     *)
(* LightweightSemaphore.  An operation has a priority below                *)
(* kMaxPriorityLevels: EnqueueOperation throws out of a noexcept start()   *)
(* otherwise, which ends the process.                                      *)
(***************************************************************************)
EXTENDS Integers, Sequences, FiniteSets

CONSTANTS
  ThreadCount,         \* Config::thread_count
  ConfigSubQueues,     \* Config::num_sub_queues
  kMaxPriorityLevels,
  Operations,
  Priority,            \* get_priority of each operation
  Callers              \* threads outside the pool that start operations

Workers == 1 .. ThreadCount
Threads == Workers \cup Callers
Priorities == 0 .. kMaxPriorityLevels - 1
None == "none"

\* num_sub_queues_: half the threads by default, and never fewer than two.
NumSubQueues ==
  LET n == IF ConfigSubQueues = 0 THEN ThreadCount \div 2 ELSE ConfigSubQueues
  IN IF n < 2 THEN 2 ELSE n
SubQueues == 1 .. NumSubQueues

VARIABLES
  slots,       \* slots of each sub-queue: a stack for each priority
  bitmap,      \* bitmap of each sub-queue, as the set of its bits
  localSlot,   \* local_slot_ of each worker
  running,     \* the operation each worker executes
  pc,          \* where each worker is in WorkerThreadLoop
  pick,        \* the two sub-queues of TryDequeueOperation and the first one's lowest bit
  signalling,  \* threads in EnqueueOperation, before sema_.signal()
  mCount, mSema, waiter, posting,  \* sema_
  stop,        \* how many workers were asked to stop
  owed         \* operations that were started and have not begun to execute since

sema == <<mCount, mSema, waiter, posting>>
vars == <<slots, bitmap, localSlot, running, pc, pick, signalling,
          mCount, mSema, waiter, posting, stop, owed>>

Sema == INSTANCE LightweightSemaphore WITH Waiters <- Workers, Signallers <- Threads

NoPick == <<1, 2, kMaxPriorityLevels>>

Init ==
  /\ slots = [s \in SubQueues |-> [p \in Priorities |-> <<>>]]
  /\ bitmap = [s \in SubQueues |-> {}]
  /\ localSlot = [w \in Workers |-> None]
  /\ running = [w \in Workers |-> None]
  /\ pc = [w \in Workers |-> "unstarted"]
  /\ pick = [w \in Workers |-> NoPick]
  /\ signalling = {}
  /\ Sema!Init
  /\ stop = 0
  /\ owed = {}

StartWorkers ==
  /\ \A w \in Workers : pc[w] = "unstarted"
  /\ pc' = [w \in Workers |-> "loop"]
  /\ UNCHANGED <<slots, bitmap, localSlot, running, pick, signalling, sema, stop, owed>>

(***************************************************************************)
(* EnqueueOperation                                                        *)
(***************************************************************************)

\* Mutant: the signal is forgotten.
DepositSilently(t, o, s) ==
  /\ slots' = [slots EXCEPT ![s][Priority[o]] = Append(@, o)]
  /\ bitmap' = [bitmap EXCEPT ![s] = @ \cup {Priority[o]}]
  /\ UNCHANGED signalling

\* Under the lock of a random sub-queue; the signal comes after the unlock.
Deposit(t, o, s) ==
  /\ slots' = [slots EXCEPT ![s][Priority[o]] = Append(@, o)]
  /\ bitmap' = [bitmap EXCEPT ![s] = @ \cup {Priority[o]}]
  /\ signalling' = signalling \cup {t}

InEnqueue(t) == t \in signalling \/ t \in posting

\* On a thread outside the pool.
EnqueueOperation(c, o, s) ==
  /\ stop = 0
  /\ ~InEnqueue(c)
  /\ o \notin owed
  /\ Deposit(c, o, s)
  /\ owed' = owed \cup {o}
  /\ UNCHANGED <<localSlot, running, pc, pick, sema, stop>>

\* On a worker, from the operation it executes: the free slot, or the slot of a less
\* urgent operation, which goes to a sub-queue in its place, or a sub-queue.
EnqueueLocally(w, o, s) ==
  \/ /\ localSlot[w] = None
     /\ localSlot' = [localSlot EXCEPT ![w] = o]
     /\ UNCHANGED <<slots, bitmap, signalling>>
  \/ /\ localSlot[w] # None /\ Priority[o] < Priority[localSlot[w]]
     /\ localSlot' = [localSlot EXCEPT ![w] = o]
     /\ Deposit(w, localSlot[w], s)
  \/ /\ localSlot[w] # None /\ Priority[o] >= Priority[localSlot[w]]
     /\ Deposit(w, o, s)
     /\ UNCHANGED localSlot

StartOnWorker(w, o, s) ==
  /\ pc[w] = "execute"
  /\ ~InEnqueue(w)
  /\ o \notin owed
  /\ EnqueueLocally(w, o, s)
  /\ owed' = owed \cup {o}
  /\ UNCHANGED <<running, pc, pick, sema, stop>>

\* sema_.signal(), in the thread's two steps.
SignalSema(t) ==
  /\ \/ /\ t \in signalling
        /\ signalling' = signalling \ {t}
        /\ Sema!Signal(t)
     \/ Sema!Post(t) /\ UNCHANGED signalling
  /\ UNCHANGED <<slots, bitmap, localSlot, running, pc, pick, stop, owed>>

(***************************************************************************)
(* WorkerThreadLoop                                                        *)
(***************************************************************************)

CheckStop(w) ==
  /\ pc[w] = "loop"
  /\ pc' = [pc EXCEPT ![w] = IF w <= stop THEN "exited" ELSE "wait"]
  /\ UNCHANGED <<slots, bitmap, localSlot, running, pick, signalling, sema, stop, owed>>

\* Mutant: the result of sema_.wait is ignored.
WaitSemaIgnored(w) ==
  /\ pc[w] = "wait"
  /\ \/ (Sema!Acquire(w) \/ Sema!GiveUp(w)) /\ pc' = [pc EXCEPT ![w] = "dequeue"]
     \/ Sema!Wait(w) /\ UNCHANGED pc
  /\ UNCHANGED <<slots, bitmap, localSlot, running, pick, signalling, stop, owed>>

\* sema_.wait(10ms): with a token on to the buckets, without one back to the loop.
WaitSema(w) ==
  /\ pc[w] = "wait"
  /\ \/ Sema!Acquire(w) /\ pc' = [pc EXCEPT ![w] = "dequeue"]
     \/ Sema!Wait(w) /\ UNCHANGED pc
     \/ Sema!GiveUp(w) /\ pc' = [pc EXCEPT ![w] = "loop"]
  /\ UNCHANGED <<slots, bitmap, localSlot, running, pick, signalling, stop, owed>>

(***************************************************************************)
(* TryDequeueOperation, repeated until it returns an operation             *)
(***************************************************************************)

\* countr_zero of a bitmap; kMaxPriorityLevels stands for a bitmap of zero.
Lowest(bits) ==
  IF bits = {} THEN kMaxPriorityLevels ELSE CHOOSE p \in bits : \A r \in bits : p <= r

\* Two different sub-queues, and the first bitmap, without the lock.
PeekFirst(w, a, b) ==
  /\ pc[w] = "dequeue"
  /\ a # b
  /\ pick' = [pick EXCEPT ![w] = <<a, b, Lowest(bitmap[a])>>]
  /\ pc' = [pc EXCEPT ![w] = "peek"]
  /\ UNCHANGED <<slots, bitmap, localSlot, running, signalling, sema, stop, owed>>

\* The second bitmap: try again if both were empty, else order the two.
PeekSecond(w) ==
  LET a == pick[w][1]
      b == pick[w][2]
      lowA == pick[w][3]
      lowB == Lowest(bitmap[b])
      empty == lowA = kMaxPriorityLevels /\ lowB = kMaxPriorityLevels
  IN /\ pc[w] = "peek"
     /\ pc' = [pc EXCEPT ![w] = IF empty THEN "dequeue" ELSE "pop"]
     /\ pick' = [pick EXCEPT ![w] =
                   IF empty THEN NoPick
                   ELSE IF lowB < lowA THEN <<b, a, 0>> ELSE <<a, b, 0>>]
     /\ UNCHANGED <<slots, bitmap, localSlot, running, signalling, sema, stop, owed>>

\* The newest operation of bucket p, and the bit of the bucket with its last one.
Take(w, s, p) ==
  LET o == slots[s][p][Len(slots[s][p])]
  IN /\ slots' = [slots EXCEPT ![s][p] = SubSeq(@, 1, Len(@) - 1)]
     /\ bitmap' = [bitmap EXCEPT ![s] = IF Len(slots[s][p]) = 1 THEN @ \ {p} ELSE @]
     /\ running' = [running EXCEPT ![w] = o]
     /\ owed' = owed \ {o}

\* try_pop of the first sub-queue and, if that is empty now, of the second.
TryPop(w) ==
  /\ \/ /\ pc[w] = "pop" /\ bitmap[pick[w][1]] # {}
        /\ Take(w, pick[w][1], Lowest(bitmap[pick[w][1]]))
        /\ pc' = [pc EXCEPT ![w] = "execute"]
        /\ pick' = [pick EXCEPT ![w] = NoPick]
     \/ /\ pc[w] = "pop" /\ bitmap[pick[w][1]] = {}
        /\ pc' = [pc EXCEPT ![w] = "popSecond"]
        /\ UNCHANGED <<slots, bitmap, running, owed, pick>>
     \/ /\ pc[w] = "popSecond" /\ bitmap[pick[w][2]] # {}
        /\ Take(w, pick[w][2], Lowest(bitmap[pick[w][2]]))
        /\ pc' = [pc EXCEPT ![w] = "execute"]
        /\ pick' = [pick EXCEPT ![w] = NoPick]
     \/ /\ pc[w] = "popSecond" /\ bitmap[pick[w][2]] = {}
        /\ pc' = [pc EXCEPT ![w] = "dequeue"]
        /\ pick' = [pick EXCEPT ![w] = NoPick]
        /\ UNCHANGED <<slots, bitmap, running, owed>>
  /\ UNCHANGED <<localSlot, signalling, sema, stop>>

\* Execute() has returned: on with the slot, or back to the loop.
Executed(w) ==
  /\ pc[w] = "execute"
  /\ ~InEnqueue(w)
  /\ running' = [running EXCEPT ![w] = localSlot[w]]
  /\ localSlot' = [localSlot EXCEPT ![w] = None]
  /\ owed' = owed \ {localSlot[w]}
  /\ pc' = [pc EXCEPT ![w] = IF localSlot[w] = None THEN "loop" ELSE "execute"]
  /\ UNCHANGED <<slots, bitmap, pick, signalling, sema, stop>>

\* The destructor of workers_ asks one jthread after the other to stop and joins it.
StopWorker ==
  /\ stop < ThreadCount
  /\ pc[stop + 1] # "unstarted"
  /\ stop > 0 => pc[stop] = "exited"
  /\ stop' = stop + 1
  /\ UNCHANGED <<slots, bitmap, localSlot, running, pc, pick, signalling, sema, owed>>

-----------------------------------------------------------------------------
WorkerStep(w) ==
  \/ CheckStop(w) \/ WaitSema(w)
  \/ \E a, b \in SubQueues : PeekFirst(w, a, b)
  \/ PeekSecond(w) \/ TryPop(w) \/ Executed(w)

Next ==
  \/ StartWorkers
  \/ \E c \in Callers, o \in Operations, s \in SubQueues : EnqueueOperation(c, o, s)
  \/ \E w \in Workers, o \in Operations, s \in SubQueues : StartOnWorker(w, o, s)
  \/ \E t \in Threads : SignalSema(t)
  \/ \E w \in Workers : WorkerStep(w)
  \/ StopWorker

Spec == Init /\ [][Next]_vars
-----------------------------------------------------------------------------
Stored ==
  {o \in Operations : \E s \in SubQueues, p \in Priorities :
                        \E i \in 1 .. Len(slots[s][p]) : slots[s][p][i] = o}

\* Tokens and operations agree: every operation in a bucket whose signal was sent
\* has one token, in the counter, on its way to a blocked worker or with a worker
\* that looks for it.  A worker with a token therefore never searches in vain, and
\* no operation is left behind while the workers sleep.
TokensMatchOperations ==
  Cardinality(Stored) =
    Cardinality(signalling) + mCount + Cardinality(Sema!Waiting)
      + Cardinality({w \in Workers : pc[w] \in {"dequeue", "peek", "pop", "popSecond"}})
=============================================================================
