----------------------- MODULE WorkSharingThreadPool -----------------------
(***************************************************************************)
(* The default thread pool (work_sharing_thread_pool.cc).  Workers share a *)
(* queue; an operation that is started on a worker goes into that worker's *)
(* thread-local slot when the slot is free, and the worker runs it before  *)
(* it looks at the queue again.  An operation stands for the activations   *)
(* of one actor: Actor.tla shows that at most one of them is waiting.      *)
(***************************************************************************)
EXTENDS Integers, Sequences

CONSTANTS
  ThreadCount,  \* Config::thread_count
  Operations

Workers == 1 .. ThreadCount
None == "none"

VARIABLES
  queue,       \* queue_
  localSlot,   \* local_slot_ of each worker
  running,     \* the operation each worker executes
  pc,          \* where each worker is in WorkerThreadLoop
  stop,        \* how many workers were asked to stop
  owed         \* operations that were started and have not begun to execute since

vars == <<queue, localSlot, running, pc, stop, owed>>

\* The slot and the queue hold operations, and a worker executes one exactly
\* while it is in Execute().
TypeOK ==
  /\ queue \in Seq(Operations)
  /\ localSlot \in [Workers -> Operations \cup {None}]
  /\ running \in [Workers -> Operations \cup {None}]
  /\ pc \in [Workers -> {"unstarted", "loop", "pop", "execute", "exited"}]
  /\ \A w \in Workers : running[w] # None <=> pc[w] = "execute"
  /\ stop \in 0 .. ThreadCount
  /\ owed \subseteq Operations

Init ==
  /\ queue = <<>>
  /\ localSlot = [w \in Workers |-> None]
  /\ running = [w \in Workers |-> None]
  /\ pc = [w \in Workers |-> "unstarted"]
  /\ stop = 0
  /\ owed = {}

\* From the constructor, or later when start_workers_immediately is off.
StartWorkers ==
  /\ \A w \in Workers : pc[w] = "unstarted"
  /\ pc' = [w \in Workers |-> "loop"]
  /\ UNCHANGED <<queue, localSlot, running, stop, owed>>

(***************************************************************************)
(* EnqueueOperation                                                        *)
(***************************************************************************)

\* On a thread outside the pool: always the queue.
EnqueueOperation(o) ==
  /\ stop = 0
  /\ o \notin owed
  /\ queue' = Append(queue, o)
  /\ owed' = owed \cup {o}
  /\ UNCHANGED <<localSlot, running, pc, stop>>

\* Mutant: the slot is overwritten when it is occupied.
EnqueueLocallyOverwrite(w, o) ==
  /\ localSlot' = [localSlot EXCEPT ![w] = o]
  /\ UNCHANGED queue

\* On a worker: its slot, or the queue when the slot is occupied.
EnqueueLocally(w, o) ==
  IF localSlot[w] = None
    THEN localSlot' = [localSlot EXCEPT ![w] = o] /\ UNCHANGED queue
    ELSE queue' = Append(queue, o) /\ UNCHANGED localSlot

\* The operation that w executes starts o, possibly its own actor's next activation.
StartOnWorker(w, o) ==
  /\ pc[w] = "execute"
  /\ o \notin owed
  /\ EnqueueLocally(w, o)
  /\ owed' = owed \cup {o}
  /\ UNCHANGED <<running, pc, stop>>

(***************************************************************************)
(* WorkerThreadLoop                                                        *)
(***************************************************************************)

\* The condition of the loop.
CheckStop(w) ==
  /\ pc[w] = "loop"
  /\ pc' = [pc EXCEPT ![w] = IF w <= stop THEN "exited" ELSE "pop"]
  /\ UNCHANGED <<queue, localSlot, running, stop, owed>>

\* Pop or TryPop.  The queue is taken to be first-in-first-out.
Pop(w) ==
  /\ pc[w] = "pop"
  /\ IF queue = <<>>
       THEN /\ pc' = [pc EXCEPT ![w] = "loop"]
            /\ UNCHANGED <<queue, running, owed>>
       ELSE /\ pc' = [pc EXCEPT ![w] = "execute"]
            /\ running' = [running EXCEPT ![w] = Head(queue)]
            /\ queue' = Tail(queue)
            /\ owed' = owed \ {Head(queue)}
  /\ UNCHANGED <<localSlot, stop>>

\* Mutant: the worker goes back to the queue with its slot occupied.
ExecutedNoSlot(w) ==
  /\ pc[w] = "execute"
  /\ running' = [running EXCEPT ![w] = None]
  /\ pc' = [pc EXCEPT ![w] = "loop"]
  /\ UNCHANGED <<queue, localSlot, stop, owed>>

\* Execute() has returned: on with the slot, without a look at the stop token, or
\* back to the queue.
Executed(w) ==
  /\ pc[w] = "execute"
  /\ running' = [running EXCEPT ![w] = localSlot[w]]
  /\ IF localSlot[w] = None
       THEN pc' = [pc EXCEPT ![w] = "loop"] /\ UNCHANGED <<localSlot, owed>>
       ELSE /\ localSlot' = [localSlot EXCEPT ![w] = None]
            /\ owed' = owed \ {localSlot[w]}
            /\ UNCHANGED pc
  /\ UNCHANGED <<queue, stop>>

\* The destructor of workers_ asks one jthread after the other to stop and joins it.
StopWorker ==
  /\ stop < ThreadCount
  /\ pc[stop + 1] # "unstarted"
  /\ stop > 0 => pc[stop] = "exited"
  /\ stop' = stop + 1
  /\ UNCHANGED <<queue, localSlot, running, pc, owed>>

-----------------------------------------------------------------------------
WorkerStep(w) == CheckStop(w) \/ Pop(w) \/ Executed(w)

Next ==
  \/ StartWorkers
  \/ \E o \in Operations : EnqueueOperation(o)
  \/ \E w \in Workers, o \in Operations : StartOnWorker(w, o)
  \/ \E w \in Workers : WorkerStep(w)
  \/ StopWorker

Spec == Init /\ [][Next]_vars
=============================================================================
