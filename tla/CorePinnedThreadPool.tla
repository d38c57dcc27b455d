------------------------ MODULE CorePinnedThreadPool ------------------------
(***************************************************************************)
(* The pool with a queue and a pinned worker for each core                 *)
(* (core_pinned_thread_pool.cc).  A core index beyond the last worker      *)
(* wraps around.  The blocking queue of each worker is taken to be         *)
(* first-in-first-out, and its timed Pop to look at it at any time.        *)
(***************************************************************************)
EXTENDS Integers, Sequences

CONSTANTS
  ThreadCount,  \* Config::thread_count
  Operations,
  Core          \* get_core_index of each operation

Workers == 0 .. ThreadCount - 1
None == "none"

VARIABLES
  queues,      \* queues_
  running,     \* the operation each worker executes
  pc,          \* where each worker is in WorkerThreadLoop
  stop,        \* how many workers were asked to stop
  owed         \* operations that were started and have not begun to execute since

vars == <<queues, running, pc, stop, owed>>

Init ==
  /\ queues = [w \in Workers |-> <<>>]
  /\ running = [w \in Workers |-> None]
  /\ pc = [w \in Workers |-> "unstarted"]
  /\ stop = 0
  /\ owed = {}

StartWorkers ==
  /\ \A w \in Workers : pc[w] = "unstarted"
  /\ pc' = [w \in Workers |-> "loop"]
  /\ UNCHANGED <<queues, running, stop, owed>>

QueueOf(o) == Core[o] % ThreadCount

\* On any thread: the queue of the operation's core.
EnqueueOperation(o) ==
  /\ stop = 0
  /\ o \notin owed
  /\ queues' = [queues EXCEPT ![QueueOf(o)] = Append(@, o)]
  /\ owed' = owed \cup {o}
  /\ UNCHANGED <<running, pc, stop>>

CheckStop(w) ==
  /\ pc[w] = "loop"
  /\ pc' = [pc EXCEPT ![w] = IF w < stop THEN "exited" ELSE "pop"]
  /\ UNCHANGED <<queues, running, stop, owed>>

Pop(w) ==
  /\ pc[w] = "pop"
  /\ \/ /\ queues[w] = <<>>
        /\ pc' = [pc EXCEPT ![w] = "loop"]
        /\ UNCHANGED <<queues, running, owed>>
     \/ /\ queues[w] # <<>>
        /\ pc' = [pc EXCEPT ![w] = "execute"]
        /\ running' = [running EXCEPT ![w] = Head(queues[w])]
        /\ queues' = [queues EXCEPT ![w] = Tail(@)]
        /\ owed' = owed \ {Head(queues[w])}
  /\ UNCHANGED stop

Executed(w) ==
  /\ pc[w] = "execute"
  /\ running' = [running EXCEPT ![w] = None]
  /\ pc' = [pc EXCEPT ![w] = "loop"]
  /\ UNCHANGED <<queues, stop, owed>>

\* The destructor of workers_ asks one jthread after the other to stop and joins it.
StopWorker ==
  /\ stop < ThreadCount
  /\ pc[stop] # "unstarted"
  /\ stop > 0 => pc[stop - 1] = "exited"
  /\ stop' = stop + 1
  /\ UNCHANGED <<queues, running, pc, owed>>

-----------------------------------------------------------------------------
WorkerStep(w) == CheckStop(w) \/ Pop(w) \/ Executed(w)

Next ==
  \/ StartWorkers
  \/ \E o \in Operations : EnqueueOperation(o)
  \/ \E w \in Workers : WorkerStep(w)
  \/ StopWorker

Spec == Init /\ [][Next]_vars
=============================================================================
