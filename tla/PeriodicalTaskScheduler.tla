---------------------- MODULE PeriodicalTaskScheduler ----------------------
(***************************************************************************)
(* The timer thread of the message broker (network.cc).  A caller          *)
(* registers tasks and later stops the scheduler; the thread sleeps on a   *)
(* condition variable until a task is due.  Time is relative: due[t] and   *)
(* sleep count the ticks left, so that the clock needs no bound.           *)
(***************************************************************************)
EXTENDS Integers, Sequences, FiniteSets

CONSTANTS
  Tasks,      \* tasks the caller registers
  Interval    \* Interval[t]: interval_ms of t

TimerConstants == Interval \in [Tasks -> Nat \ {0}]

VARIABLES
  registered,  \* tasks in tasks_
  due,         \* ticks until next_run_ms of each task; 0 when it is past
  sleep,       \* ticks until the wait_until of the thread times out
  pc,          \* where Loop is
  stop,        \* the stop token's stop_requested()
  caller       \* where the calling thread is

vars == <<registered, due, sleep, pc, stop, caller>>

Init ==
  /\ registered = {}
  /\ due = [t \in Tasks |-> 0]
  /\ sleep = 0
  /\ pc = "loop"
  /\ stop = FALSE
  /\ caller = "idle"

\* The thread owns tasks_mutex_ except where it waits or tests the stop token.
LockFree == pc \in {"loop", "blockedEmpty", "blockedUntil", "exited"}

\* One unit of time passes.
Tick ==
  /\ due' = [t \in Tasks |-> IF due[t] > 0 THEN due[t] - 1 ELSE 0]
  /\ sleep' = IF sleep > 0 THEN sleep - 1 ELSE 0
  /\ UNCHANGED <<registered, pc, stop, caller>>

(***************************************************************************)
(* Register and Stop, called by one thread                                 *)
(***************************************************************************)

\* The task is put into the heap under the lock, one interval from now.
Register(t) ==
  /\ caller = "idle"
  /\ t \notin registered
  /\ LockFree
  /\ registered' = registered \cup {t}
  /\ due' = [due EXCEPT ![t] = Interval[t]]
  /\ caller' = "notifyTask"
  /\ UNCHANGED <<sleep, pc, stop>>

\* Stop sets the stop token and then notifies, without the lock.
RequestStop ==
  /\ caller = "idle"
  /\ stop' = TRUE
  /\ caller' = "notifyStop"
  /\ UNCHANGED <<registered, due, sleep, pc>>

\* cv_.notify_one() wakes the thread only if it is already blocked.
Notify ==
  /\ caller \in {"notifyTask", "notifyStop"}
  /\ caller' = IF caller = "notifyTask" THEN "idle" ELSE "join"
  /\ pc' = CASE pc = "blockedEmpty" -> "predEmpty"
             [] pc = "blockedUntil" -> "predUntil"
             [] OTHER -> pc
  /\ UNCHANGED <<registered, due, sleep, stop>>

Join ==
  /\ caller = "join"
  /\ pc = "exited"
  /\ caller' = "joined"
  /\ UNCHANGED <<registered, due, sleep, pc, stop>>

(***************************************************************************)
(* Loop                                                                    *)
(***************************************************************************)

Earliest == CHOOSE d \in {due[t] : t \in registered} : \A t \in registered : d <= due[t]

\* The stop token, then the lock and the choice of what to wait for.
BeginRound ==
  /\ pc = "loop"
  /\ \/ stop /\ pc' = "exited" /\ UNCHANGED sleep
     \/ ~stop /\ registered = {} /\ pc' = "predEmpty" /\ UNCHANGED sleep
     \/ ~stop /\ registered # {} /\ pc' = "predUntil" /\ sleep' = Earliest
  /\ UNCHANGED <<registered, due, stop, caller>>

\* cv_.wait with its predicate: tested under the lock, then the thread blocks.
WaitForTask ==
  /\ \/ pc = "predEmpty" /\ pc' = IF registered # {} \/ stop THEN "loop" ELSE "blockEmpty"
     \/ pc = "blockEmpty" /\ pc' = "blockedEmpty"
  /\ UNCHANGED <<registered, due, sleep, stop, caller>>

\* cv_.wait_until: its predicate looks at the stop token only.
WaitUntilDue ==
  /\ \/ pc = "predUntil" /\ pc' = IF stop THEN "exited" ELSE "blockUntil"
     \/ pc = "blockUntil" /\ pc' = "blockedUntil"
     \/ pc = "blockedUntil" /\ sleep = 0 /\ pc' = "run"
  /\ UNCHANGED <<registered, due, sleep, stop, caller>>

\* Mutant: a task that was run is not put back.
RunDueOnce ==
  /\ pc = "run"
  /\ pc' = IF stop THEN "exited" ELSE "loop"
  /\ registered' = {t \in registered : stop \/ due[t] # 0}
  /\ UNCHANGED <<due, sleep, stop, caller>>

\* After the wait: leave if stopped, else run every task that is due and put it
\* back one interval later, holding the lock all the time.
RunDue ==
  /\ pc = "run"
  /\ pc' = IF stop THEN "exited" ELSE "loop"
  /\ due' = [t \in Tasks |-> IF ~stop /\ t \in registered /\ due[t] = 0
                               THEN Interval[t] ELSE due[t]]
  /\ UNCHANGED <<registered, sleep, stop, caller>>

Loop == BeginRound \/ WaitForTask \/ WaitUntilDue \/ RunDue
=============================================================================
