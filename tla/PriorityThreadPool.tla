------------------------- MODULE PriorityThreadPool -------------------------
(***************************************************************************)
(* The pool with a strict priority order (priority_thread_pool.cc): its    *)
(* workers share an UnboundedBlockingPriorityQueue (container.h), a heap   *)
(* under a mutex.  Pop waits up to 10 ms on a condition variable, so a     *)
(* worker may look at the heap at any time; whether a notification or the  *)
(* timeout woke it makes no difference.                                    *)
(***************************************************************************)
EXTENDS Integers

CONSTANTS
  ThreadCount,  \* Config::thread_count
  Operations,
  Priority      \* get_priority of each operation; smaller is more urgent

Workers == 1 .. ThreadCount
None == "none"

VARIABLES
  heap,        \* queue_: the operations in the heap
  running,     \* the operation each worker executes
  pc,          \* where each worker is in WorkerThreadLoop
  stop,        \* how many workers were asked to stop
  owed         \* operations that were started and have not begun to execute since

vars == <<heap, running, pc, stop, owed>>

Init ==
  /\ heap = {}
  /\ running = [w \in Workers |-> None]
  /\ pc = [w \in Workers |-> "unstarted"]
  /\ stop = 0
  /\ owed = {}

StartWorkers ==
  /\ \A w \in Workers : pc[w] = "unstarted"
  /\ pc' = [w \in Workers |-> "loop"]
  /\ UNCHANGED <<heap, running, stop, owed>>

\* Push, on any thread: there are no local slots in this pool.
EnqueueOperation(o) ==
  /\ stop = 0
  /\ o \notin owed
  /\ heap' = heap \cup {o}
  /\ owed' = owed \cup {o}
  /\ UNCHANGED <<running, pc, stop>>

CheckStop(w) ==
  /\ pc[w] = "loop"
  /\ pc' = [pc EXCEPT ![w] = IF w <= stop THEN "exited" ELSE "pop"]
  /\ UNCHANGED <<heap, running, stop, owed>>

\* What may be on top of the heap; it leaves the order of equal priorities open.
Top == {o \in heap : \A u \in heap : Priority[o] <= Priority[u]}

Pop(w) ==
  /\ pc[w] = "pop"
  /\ \/ /\ heap = {}
        /\ pc' = [pc EXCEPT ![w] = "loop"]
        /\ UNCHANGED <<heap, running, owed>>
     \/ \E o \in Top :
          /\ pc' = [pc EXCEPT ![w] = "execute"]
          /\ running' = [running EXCEPT ![w] = o]
          /\ heap' = heap \ {o}
          /\ owed' = owed \ {o}
  /\ UNCHANGED stop

Executed(w) ==
  /\ pc[w] = "execute"
  /\ running' = [running EXCEPT ![w] = None]
  /\ pc' = [pc EXCEPT ![w] = "loop"]
  /\ UNCHANGED <<heap, stop, owed>>

\* The destructor of workers_ asks one jthread after the other to stop and joins it.
StopWorker ==
  /\ stop < ThreadCount
  /\ pc[stop + 1] # "unstarted"
  /\ stop > 0 => pc[stop] = "exited"
  /\ stop' = stop + 1
  /\ UNCHANGED <<heap, running, pc, owed>>

-----------------------------------------------------------------------------
WorkerStep(w) == CheckStop(w) \/ Pop(w) \/ Executed(w)

Next ==
  \/ StartWorkers
  \/ \E o \in Operations : EnqueueOperation(o)
  \/ \E w \in Workers : WorkerStep(w)
  \/ StopWorker

Spec == Init /\ [][Next]_vars
=============================================================================
