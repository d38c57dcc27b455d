--------------------------- MODULE BrokerThreads ---------------------------
(***************************************************************************)
(* The threads of a message broker (network.cc): the one that pulls        *)
(* messages from the receiving socket (RecvSocketPuller), the timer thread *)
(* (PeriodicalTaskScheduler), and the worker that runs Start, Stop and the *)
(* handlers of the broker actor.  Both threads spawn tasks into the scope  *)
(* of the broker, which Stop joins before it closes the sockets.  What the *)
(* tasks do is MessageBroker's matter.                                     *)
(***************************************************************************)
EXTENDS Integers, FiniteSets

CONSTANTS
  Tasks, Interval,   \* the periodical tasks, and interval_ms of each
  MaxMessages        \* bound: messages that arrive

VARIABLES
  registered, due, sleep, timerPc, timerStop, timerCaller,   \* PeriodicalTaskScheduler
  pullerPc,      \* where RecvSocketPuller::Loop is
  pullerStop,    \* its stop token
  inbox,         \* messages in the receiving socket
  arrived,       \* messages that have arrived
  received,      \* spawned DispatchReceivedMessage tasks in the scope
  periodical,    \* periodical tasks with a spawned task in the scope
  broker         \* where the broker actor is in Start or Stop

timerVars == <<registered, due, sleep, timerPc, timerStop, timerCaller>>
pullerVars == <<pullerPc, pullerStop>>
scopeVars == <<received, periodical>>
vars == <<timerVars, pullerVars, inbox, arrived, scopeVars, broker>>

Timer == INSTANCE PeriodicalTaskScheduler
           WITH pc <- timerPc, stop <- timerStop, caller <- timerCaller

ASSUME ThreadsAssumption == Timer!TimerConstants /\ MaxMessages \in Nat

Init ==
  /\ Timer!Init
  /\ pullerPc = "none" /\ pullerStop = FALSE
  /\ inbox = 0 /\ arrived = 0
  /\ received = 0 /\ periodical = {}
  /\ broker = "constructed"

(***************************************************************************)
(* Start and Stop, handlers of the broker actor                            *)
(***************************************************************************)

\* StartRecvSocketPuller, before the timer exists.
StartRecvSocketPuller ==
  /\ broker = "constructed"
  /\ broker' = "starting"
  /\ pullerPc' = "loop"
  /\ UNCHANGED <<timerVars, pullerStop, inbox, arrived, scopeVars>>

\* StartPeriodicalTaskScheduler registers the tasks; Start returns after the last.
StartPeriodicalTaskScheduler ==
  /\ broker = "starting"
  /\ \/ (\E t \in Tasks : Timer!Register(t)) /\ UNCHANGED broker
     \/ registered = Tasks /\ timerCaller = "idle" /\ broker' = "running" /\ UNCHANGED timerVars
  /\ UNCHANGED <<pullerVars, inbox, arrived, scopeVars>>

\* Stop begins with the timer, unless Start was never called.
Stop ==
  /\ \/ broker = "running" /\ Timer!RequestStop /\ broker' = "stopTimer"
     \/ broker = "constructed" /\ broker' = "joinScope" /\ UNCHANGED timerVars
  /\ UNCHANGED <<pullerVars, inbox, arrived, scopeVars>>

\* The calls of notify_one and join in Register and Stop of the timer.
TimerCall ==
  /\ Timer!Notify \/ Timer!Join
  /\ UNCHANGED <<pullerVars, inbox, arrived, scopeVars, broker>>

\* Mutant: Stop does not join the receiving thread.
StopPullerNoJoin ==
  /\ broker = "stopTimer" /\ timerCaller = "joined"
  /\ pullerStop' = TRUE /\ broker' = "joinScope"
  /\ UNCHANGED <<timerVars, pullerPc, inbox, arrived, scopeVars>>

\* RecvSocketPuller::Stop sets its stop token, and joins.
StopPuller ==
  /\ \/ broker = "stopTimer" /\ timerCaller = "joined"
        /\ pullerStop' = TRUE /\ broker' = "joinPuller"
     \/ broker = "joinPuller" /\ pullerPc = "exited"
        /\ broker' = "joinScope" /\ UNCHANGED pullerStop
  /\ UNCHANGED <<timerVars, pullerPc, inbox, arrived, scopeVars>>

\* async_scope_.join(), after which the sockets and the context are closed.
FinishStop ==
  /\ broker = "joinScope"
  /\ received = 0 /\ periodical = {}
  /\ broker' = "stopped"
  /\ UNCHANGED <<timerVars, pullerVars, inbox, arrived, scopeVars>>

\* Mutant: the broker runs its handlers only until Stop begins.
FreeForTasksNotInStop == broker = "running"

\* The broker actor runs one handler at a time: no spawned task during Start, nor while
\* Stop blocks in the joins of the threads, but again once it awaits the scope.
FreeForTasks == broker \in {"running", "joinScope"}

RunReceived ==
  /\ FreeForTasks
  /\ received > 0 /\ received' = received - 1
  /\ UNCHANGED <<timerVars, pullerVars, inbox, arrived, periodical, broker>>

RunPeriodical(t) ==
  /\ FreeForTasks
  /\ t \in periodical /\ periodical' = periodical \ {t}
  /\ UNCHANGED <<timerVars, pullerVars, inbox, arrived, received, broker>>

(***************************************************************************)
(* RecvSocketPuller::Loop                                                  *)
(***************************************************************************)

\* A peer sends something; the socket is bound by Start and closed by Stop.
Arrive ==
  /\ pullerPc # "none" /\ broker # "stopped"
  /\ arrived < MaxMessages
  /\ arrived' = arrived + 1
  /\ inbox' = inbox + 1
  /\ UNCHANGED <<timerVars, pullerVars, scopeVars, broker>>

\* The stop token is tested before every recv.
TestStop ==
  /\ pullerPc = "loop"
  /\ pullerPc' = IF pullerStop THEN "exited" ELSE "recv"
  /\ UNCHANGED <<timerVars, pullerStop, inbox, arrived, scopeVars, broker>>

\* recv returns a message, or nothing after its timeout.
Recv ==
  /\ pullerPc = "recv"
  /\ IF inbox > 0 THEN inbox' = inbox - 1 /\ pullerPc' = "callback"
                  ELSE pullerPc' = "loop" /\ UNCHANGED inbox
  /\ UNCHANGED <<timerVars, pullerStop, arrived, scopeVars, broker>>

\* The callback spawns a task for the message.
Callback ==
  /\ pullerPc = "callback"
  /\ pullerPc' = "loop"
  /\ received' = received + 1
  /\ UNCHANGED <<timerVars, pullerStop, inbox, arrived, periodical, broker>>

(***************************************************************************)
(* The timer thread                                                        *)
(***************************************************************************)

\* The thread exists once Start has run; a task that is due spawns a task.
TimerLoop ==
  /\ pullerPc # "none"
  /\ Timer!Loop
  /\ periodical' = periodical \cup
       (IF timerPc = "run" /\ ~timerStop THEN {t \in registered : due[t] = 0} ELSE {})
  /\ UNCHANGED <<pullerVars, inbox, arrived, received, broker>>

Tick == Timer!Tick /\ UNCHANGED <<pullerVars, inbox, arrived, scopeVars, broker>>

-----------------------------------------------------------------------------
PullerLoop == TestStop \/ Recv \/ Callback
StopStep == TimerCall \/ StopPuller \/ FinishStop

Next ==
  \/ StartRecvSocketPuller \/ StartPeriodicalTaskScheduler \/ Stop \/ StopStep
  \/ RunReceived \/ \E t \in Tasks : RunPeriodical(t)
  \/ Arrive \/ PullerLoop
  \/ TimerLoop \/ Tick

Spec == Init /\ [][Next]_vars

\* Time passes, the threads run, spawned tasks run in turn when the broker is free, a
\* call of Start or Stop that has begun goes on, and Start obtains the timer's mutex,
\* which the timer thread releases whenever it sleeps.
FairSpec ==
  /\ Spec
  /\ WF_vars(Tick) /\ WF_vars(TimerLoop) /\ WF_vars(PullerLoop)
  /\ WF_vars(RunReceived) /\ \A t \in Tasks : WF_vars(RunPeriodical(t))
  /\ SF_vars(StartPeriodicalTaskScheduler) /\ WF_vars(StopStep)
-----------------------------------------------------------------------------
\* When Stop closes the sockets and the context, neither thread can spawn a task into
\* the joined scope any more, and no message that was taken from the socket is
\* unhandled (network.h:174, "wait for all in-flight tasks to complete").
NothingAfterStop ==
  broker = "stopped" =>
    /\ received = 0 /\ periodical = {}
    /\ pullerPc \in {"none", "exited"}
    /\ registered # {} => timerPc = "exited"

\* Until Stop, the threads do their work: a message in the socket is received and
\* handled, a due task is run and put back for its next time.
ThreadsDeliver ==
  /\ inbox > 0 ~> inbox = 0 \/ pullerStop
  /\ received > 0 ~> received = 0 \/ timerStop
  /\ \A t \in Tasks :
       (t \in registered /\ due[t] = 0) ~> (timerStop \/ (t \in registered /\ due[t] > 0))

\* Stop returns: the notification of the timer may be lost between the thread's test
\* of the stop token and its wait, but then the wait times out; recv does too; and the
\* tasks that were spawned meanwhile run once Stop awaits the scope.
StopReturns == broker = "stopTimer" ~> broker = "stopped"
=============================================================================
