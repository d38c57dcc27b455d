------------------------ MODULE BrokerThreadsProofs ------------------------
(***************************************************************************)
(* Proofs about BrokerThreads, for every set of periodical tasks, their    *)
(* intervals and any number of messages.                                   *)
(***************************************************************************)
EXTENDS BrokerThreads, TLAPS

\* Before Start neither thread exists and nothing is registered.
NotStarted == broker = "constructed" => registered = {} /\ pullerPc = "none"

\* Timer::Stop returns from its join only when the timer thread has ended.
TimerJoined == timerCaller = "joined" => timerPc = "exited"

\* Past the join of the timer, the timer thread has ended or was never given a task.
TimerQuiet ==
  broker \in {"joinPuller", "joinScope", "stopped"} => registered = {} \/ timerPc = "exited"

\* Past the join of the receiving thread, that thread has ended or never existed.
PullerQuiet == broker \in {"joinScope", "stopped"} => pullerPc \in {"none", "exited"}

\* The scope was empty when Stop returned, and still is.
ScopeEmpty == broker = "stopped" => received = 0 /\ periodical = {}

IInv == NotStarted /\ TimerJoined /\ TimerQuiet /\ PullerQuiet /\ ScopeEmpty

\* A fresh broker satisfies the invariant.
LEMMA InitIInv == Init => IInv
  BY DEF Init, IInv, NotStarted, TimerJoined, TimerQuiet, PullerQuiet, ScopeEmpty, Timer!Init

\* The calls of Start and Stop, one thread join after the other.
LEMMA StartStopIInv ==
  ASSUME IInv, \/ StartRecvSocketPuller \/ StartPeriodicalTaskScheduler \/ Stop \/ StopStep
  PROVE  IInv'
<1> USE DEF IInv, NotStarted, TimerJoined, TimerQuiet, PullerQuiet, ScopeEmpty, timerVars,
            pullerVars, scopeVars
<1>1. CASE StartRecvSocketPuller
  BY <1>1 DEF StartRecvSocketPuller
<1>2. CASE StartPeriodicalTaskScheduler
  BY <1>2 DEF StartPeriodicalTaskScheduler, Timer!Register
<1>3. CASE Stop
  BY <1>3 DEF Stop, Timer!RequestStop
<1>4. CASE TimerCall
  BY <1>4 DEF TimerCall, Timer!Notify, Timer!Join
<1>5. CASE StopPuller
  BY <1>5 DEF StopPuller
<1>6. CASE FinishStop
  BY <1>6 DEF FinishStop
<1>7. QED
  BY <1>1, <1>2, <1>3, <1>4, <1>5, <1>6 DEF StopStep

\* Spawned tasks, messages and the receiving thread.
LEMMA PullerIInv ==
  ASSUME IInv, RunReceived \/ (\E t \in Tasks : RunPeriodical(t)) \/ Arrive \/ PullerLoop
  PROVE  IInv'
<1> USE DEF IInv, NotStarted, TimerJoined, TimerQuiet, PullerQuiet, ScopeEmpty, timerVars,
            pullerVars, scopeVars
<1>1. CASE RunReceived \/ \E t \in Tasks : RunPeriodical(t)
  BY <1>1 DEF RunReceived, RunPeriodical, FreeForTasks
<1>2. CASE Arrive
  BY <1>2 DEF Arrive
<1>3. CASE PullerLoop
  BY <1>3 DEF PullerLoop, TestStop, Recv, Callback
<1>4. QED
  BY <1>1, <1>2, <1>3

\* The timer thread: once it has ended it takes no step, and without a task it spawns
\* nothing.
LEMMA TimerIInv ==
  ASSUME IInv, TimerLoop \/ Tick
  PROVE  IInv'
<1> USE DEF IInv, NotStarted, TimerJoined, TimerQuiet, PullerQuiet, ScopeEmpty, pullerVars, scopeVars
<1>1. CASE TimerLoop
  <2>1. Timer!Loop /\ UNCHANGED <<pullerPc, received, broker>>
    BY <1>1 DEF TimerLoop
  <2>2. timerPc # "exited" /\ registered' = registered /\ timerCaller' = timerCaller
    BY <2>1 DEF Timer!Loop, Timer!BeginRound, Timer!WaitForTask, Timer!WaitUntilDue, Timer!RunDue
  <2>3. registered = {} => periodical' = periodical
    BY <1>1 DEF TimerLoop
  <2>4. QED
    BY <2>1, <2>2, <2>3
<1>2. CASE Tick
  BY <1>2 DEF Tick, Timer!Tick
<1>3. QED
  BY <1>1, <1>2

\* Stop of the broker joins its threads before its scope: once it has returned, neither
\* thread can spawn into the joined scope and no task of it is left.
THEOREM NothingRunsAfterStop == Spec => []NothingAfterStop
<1>1. IInv /\ [Next]_vars => IInv'
  <2> SUFFICES ASSUME IInv, [Next]_vars PROVE IInv'
    OBVIOUS
  <2>1. CASE UNCHANGED vars
    BY <2>1 DEF vars, timerVars, pullerVars, scopeVars, IInv, NotStarted, TimerJoined, TimerQuiet,
                PullerQuiet, ScopeEmpty
  <2>2. QED
    BY <2>1, StartStopIInv, PullerIInv, TimerIInv DEF Next
<1>2. IInv => NothingAfterStop
  BY DEF IInv, TimerQuiet, PullerQuiet, ScopeEmpty, NothingAfterStop
<1>3. QED
  BY <1>1, <1>2, InitIInv, PTL DEF Spec
=============================================================================
