----------------------------- MODULE Semaphore -----------------------------
(***************************************************************************)
(* ex_actor::Semaphore (util.h): a counter whose OnDrained() sender        *)
(* completes when the counter is drained.  The counter is atomic; the list *)
(* of waiting operations is guarded by waiters_mu_.                        *)
(***************************************************************************)
EXTENDS Integers, FiniteSets

CONSTANTS
  Acquirers,   \* threads that call Acquire
  Releasers,   \* threads that call Release
  Waiters,     \* OnDrained operations
  Initial,     \* initial_count
  Amounts,     \* the n of Acquire(n) and Release(n)
  MaxCalls     \* bound: calls per thread

ASSUME SemaphoreAssumption ==
  /\ Initial \in Int
  /\ Amounts \subseteq Nat \ {0}
  /\ MaxCalls \in Nat
  /\ Acquirers \cap Waiters = {}

VARIABLES
  count,      \* count_
  waiting,    \* waiters_
  holder,     \* the operation inside start() that holds waiters_mu_, if any
  apc,        \* where each acquirer is: "idle", "lock" or "complete"
  moved,      \* the waiters each acquirer has moved out and must complete
  wpc,        \* where each operation is
  calls,      \* calls made by each acquirer and releaser
  completed,  \* how often each operation was completed
  drainedFor  \* operations during whose wait the counter was <= 0

threadVars == <<apc, moved, calls>>
vars == <<count, waiting, holder, threadVars, wpc, completed, drainedFor>>

NoHolder == "nobody"
ASSUME HolderAssumption == NoHolder \notin Waiters

\* The counter is any integer, and waiters_mu_ is held by an operation exactly
\* while it is inside start().
TypeOK ==
  /\ count \in Int
  /\ waiting \subseteq Waiters
  /\ holder \in Waiters \cup {NoHolder}
  /\ apc \in [Acquirers -> {"idle", "lock", "complete"}]
  /\ moved \in [Acquirers -> SUBSET Waiters]
  /\ wpc \in [Waiters -> {"new", "check", "push", "started"}]
  /\ \A x \in Waiters : wpc[x] \in {"check", "push"} <=> holder = x
  /\ calls \in [Acquirers \cup Releasers -> 0 .. MaxCalls]
  /\ completed \in [Waiters -> Nat]
  /\ drainedFor \subseteq Waiters

Init ==
  /\ count = Initial
  /\ waiting = {}
  /\ holder = NoHolder
  /\ apc = [a \in Acquirers |-> "idle"]
  /\ moved = [a \in Acquirers |-> {}]
  /\ wpc = [x \in Waiters |-> "new"]
  /\ calls = [t \in Acquirers \cup Releasers |-> 0]
  /\ completed = [x \in Waiters |-> 0]
  /\ drainedFor = {}

Called(t) ==
  /\ calls[t] < MaxCalls
  /\ calls' = [calls EXCEPT ![t] = @ + 1]

\* Operations under way, whose wait the counter's value c belongs to.
Observe(c) ==
  drainedFor' = drainedFor \cup
    (IF c <= 0 THEN {x \in Waiters : wpc[x] # "new" /\ completed[x] = 0} ELSE {})

\* Mutant: only the call that takes the counter below zero completes the waiters.
AcquireStrict(a, n) ==
  /\ apc[a] = "idle"
  /\ Called(a)
  /\ count' = count - n
  /\ apc' = [apc EXCEPT ![a] = IF count < n THEN "lock" ELSE "idle"]
  /\ Observe(count - n)
  /\ UNCHANGED <<waiting, holder, moved, wpc, completed>>

\* Acquire: the fetch_sub and the test of the previous value.
Acquire(a, n) ==
  /\ apc[a] = "idle"
  /\ Called(a)
  /\ count' = count - n
  /\ apc' = [apc EXCEPT ![a] = IF count <= n THEN "lock" ELSE "idle"]
  /\ Observe(count - n)
  /\ UNCHANGED <<waiting, holder, moved, wpc, completed>>

\* Mutant: the waiters are copied out of the list instead of moved.
TakeWaitersCopy(a) ==
  /\ apc[a] = "lock"
  /\ holder = NoHolder
  /\ moved' = [moved EXCEPT ![a] = waiting]
  /\ apc' = [apc EXCEPT ![a] = "complete"]
  /\ UNCHANGED <<count, waiting, holder, wpc, calls, completed, drainedFor>>

\* Under the lock, Acquire moves the whole list out.
TakeWaiters(a) ==
  /\ apc[a] = "lock"
  /\ holder = NoHolder
  /\ moved' = [moved EXCEPT ![a] = waiting]
  /\ waiting' = {}
  /\ apc' = [apc EXCEPT ![a] = "complete"]
  /\ UNCHANGED <<count, holder, wpc, calls, completed, drainedFor>>

\* Outside the lock, it completes them one after the other.
CompleteMoved(a) ==
  /\ apc[a] = "complete"
  /\ IF moved[a] = {}
       THEN /\ apc' = [apc EXCEPT ![a] = "idle"]
            /\ UNCHANGED <<moved, completed>>
       ELSE \E x \in moved[a] :
              /\ moved' = [moved EXCEPT ![a] = @ \ {x}]
              /\ completed' = [completed EXCEPT ![x] = @ + 1]
              /\ UNCHANGED apc
  /\ UNCHANGED <<count, waiting, holder, wpc, calls, drainedFor>>

Release(r, n) ==
  /\ Called(r)
  /\ count' = count + n
  /\ Observe(count + n)
  /\ UNCHANGED <<waiting, holder, apc, moved, wpc, completed>>

\* Mutant: start() looks at the counter before it takes the lock.
StartUnlocked(x) ==
  /\ wpc[x] = "new"
  /\ holder' = holder
  /\ wpc' = [wpc EXCEPT ![x] = "check"]
  /\ drainedFor' = IF count <= 0 THEN drainedFor \cup {x} ELSE drainedFor
  /\ UNCHANGED <<count, waiting, threadVars, completed>>

\* OnDrainedOperation::start takes the lock...
Start(x) ==
  /\ wpc[x] = "new"
  /\ holder = NoHolder
  /\ holder' = x
  /\ wpc' = [wpc EXCEPT ![x] = "check"]
  /\ drainedFor' = IF count <= 0 THEN drainedFor \cup {x} ELSE drainedFor
  /\ UNCHANGED <<count, waiting, threadVars, completed>>

\* ...reads the counter, and completes at once when it is drained...
CheckCount(x) ==
  /\ wpc[x] = "check"
  /\ IF count <= 0
       THEN /\ wpc' = [wpc EXCEPT ![x] = "started"]
            /\ completed' = [completed EXCEPT ![x] = @ + 1]
            /\ holder' = NoHolder
       ELSE /\ wpc' = [wpc EXCEPT ![x] = "push"]
            /\ UNCHANGED <<completed, holder>>
  /\ UNCHANGED <<count, waiting, threadVars, drainedFor>>

\* ...or joins the list and releases the lock.
Enlist(x) ==
  /\ wpc[x] = "push"
  /\ waiting' = waiting \cup {x}
  /\ holder' = NoHolder
  /\ wpc' = [wpc EXCEPT ![x] = "started"]
  /\ UNCHANGED <<count, threadVars, completed, drainedFor>>

AcquirerStep(a) == (\E n \in Amounts : Acquire(a, n)) \/ TakeWaiters(a) \/ CompleteMoved(a)
WaiterStep(x) == Start(x) \/ CheckCount(x) \/ Enlist(x)

Next ==
  \/ \E a \in Acquirers : AcquirerStep(a)
  \/ \E r \in Releasers, n \in Amounts : Release(r, n)
  \/ \E x \in Waiters : WaiterStep(x)

Spec == Init /\ [][Next]_vars

\* A thread inside Acquire or start() is eventually scheduled; nobody has to call.
FairSpec ==
  /\ Spec
  /\ \A a \in Acquirers : WF_vars(TakeWaiters(a) \/ CompleteMoved(a))
  /\ \A x \in Waiters : WF_vars(CheckCount(x) \/ Enlist(x))
-----------------------------------------------------------------------------
\* No waiter is lost: while the counter is drained, an operation in the list or
\* about to enter it has an acquirer that has yet to take the list.
NoLostWaiter ==
  count <= 0 /\ (waiting # {} \/ \E x \in Waiters : wpc[x] = "push")
    => \E a \in Acquirers : apc[a] = "lock"

\* A receiver is completed at most once, whoever races to complete it.
CompletedOnce ==
  \A x \in Waiters :
    completed[x] + Cardinality({a \in Acquirers : x \in moved[a]})
      + Cardinality({x} \cap waiting) <= 1

\* util.h:266, the sender "will be completed when the semaphore is drained(value
\* <= 0)": used as the repository uses it, without Release, an operation completes
\* only when the counter was drained since it started.
CompletedOnlyWhenDrained ==
  (\A r \in Releasers : calls[r] = 0) =>
    \A x \in Waiters : completed[x] > 0 => x \in drainedFor

\* An operation that has started completes if the counter stays drained.
DrainedCompletes ==
  \A x \in Waiters :
    (wpc[x] # "new" /\ [](count <= 0)) ~> completed[x] = 1
=============================================================================
