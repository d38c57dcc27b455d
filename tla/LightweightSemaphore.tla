------------------------ MODULE LightweightSemaphore ------------------------
(***************************************************************************)
(* moodycamel's LightweightSemaphore (lightweightsemaphore.h): a counter   *)
(* that goes below zero by the number of blocked threads, in front of an   *)
(* operating-system semaphore.  A thread whose timed wait ran out must     *)
(* take back its decrement, unless a signal that counted it is under way.  *)
(***************************************************************************)
EXTENDS Integers, FiniteSets

CONSTANTS
  Waiters,     \* threads that call wait(timeout)
  Signallers   \* threads that call signal()

VARIABLES
  mCount,      \* m_count
  mSema,       \* tokens posted to m_sema
  waiter,      \* where each thread is in waitWithPartialSpinning; "out" before fetch_sub
  posting      \* threads in signal(), between the fetch_add and the post

semaVars == <<mCount, mSema, waiter, posting>>

\* Each waiting thread is at a label of waitWithPartialSpinning.
TypeOK ==
  /\ mCount \in Int
  /\ mSema \in Nat
  /\ waiter \in [Waiters -> {"out", "blocked", "expired", "retry"}]
  /\ posting \subseteq Signallers

Init ==
  /\ mCount = 0
  /\ mSema = 0
  /\ waiter = [w \in Waiters |-> "out"]
  /\ posting = {}

(***************************************************************************)
(* wait(timeout_usecs)                                                     *)
(***************************************************************************)

\* tryWait, the spinning and the fetch_sub take a token the same way.
TakeCount(w) ==
  /\ waiter[w] = "out"
  /\ mCount > 0
  /\ mCount' = mCount - 1
  /\ UNCHANGED <<mSema, waiter, posting>>

\* fetch_sub finds no token: the thread waits on m_sema.
Block(w) ==
  /\ waiter[w] = "out"
  /\ mCount <= 0
  /\ mCount' = mCount - 1
  /\ waiter' = [waiter EXCEPT ![w] = "blocked"]
  /\ UNCHANGED <<mSema, posting>>

\* m_sema.timed_wait or m_sema.try_wait gets a token.
TakeSema(w) ==
  /\ waiter[w] \in {"blocked", "retry"}
  /\ mSema > 0
  /\ mSema' = mSema - 1
  /\ waiter' = [waiter EXCEPT ![w] = "out"]
  /\ UNCHANGED <<mCount, posting>>

\* sem_timedwait never fails while the semaphore can be taken at once.
Timeout(w) ==
  /\ waiter[w] = "blocked"
  /\ mSema = 0
  /\ waiter' = [waiter EXCEPT ![w] = "expired"]
  /\ UNCHANGED <<mCount, mSema, posting>>

\* The counter says that a signal has counted this thread: try the semaphore.
LoadCount(w) ==
  /\ waiter[w] = "expired"
  /\ mCount >= 0
  /\ waiter' = [waiter EXCEPT ![w] = "retry"]
  /\ UNCHANGED <<mCount, mSema, posting>>

\* try_wait fails, the token is not posted yet: look at the counter again.
TryWaitFails(w) ==
  /\ waiter[w] = "retry"
  /\ mSema = 0
  /\ waiter' = [waiter EXCEPT ![w] = "expired"]
  /\ UNCHANGED <<mCount, mSema, posting>>

\* The compare-exchange on a negative counter takes the decrement back.
GiveUp(w) ==
  /\ waiter[w] = "expired"
  /\ mCount < 0
  /\ mCount' = mCount + 1
  /\ waiter' = [waiter EXCEPT ![w] = "out"]
  /\ UNCHANGED <<mSema, posting>>

\* wait returns true, goes on, or returns false.
Acquire(w) == TakeCount(w) \/ TakeSema(w)
Wait(w) == Block(w) \/ Timeout(w) \/ LoadCount(w) \/ TryWaitFails(w)

(***************************************************************************)
(* signal()                                                                *)
(***************************************************************************)

\* Mutant: the post is left out when a thread is blocked.
SignalNoPost(t) ==
  /\ t \notin posting
  /\ mCount' = mCount + 1
  /\ UNCHANGED <<mSema, waiter, posting>>

\* fetch_add; a negative old value means that a thread waits for the post.
Signal(t) ==
  /\ t \notin posting
  /\ mCount' = mCount + 1
  /\ posting' = IF mCount < 0 THEN posting \cup {t} ELSE posting
  /\ UNCHANGED <<mSema, waiter>>

Post(t) ==
  /\ t \in posting
  /\ mSema' = mSema + 1
  /\ posting' = posting \ {t}
  /\ UNCHANGED <<mCount, waiter>>

-----------------------------------------------------------------------------
Next ==
  \/ \E w \in Waiters : Acquire(w) \/ Wait(w) \/ GiveUp(w)
  \/ \E t \in Signallers : Signal(t) \/ Post(t)

Spec == Init /\ [][Next]_semaVars
-----------------------------------------------------------------------------
Waiting == {w \in Waiters : waiter[w] # "out"}

\* Every thread that still counts as blocked is covered once: by a token in m_sema,
\* by a post under way, or by one of the counter's units below zero.  So no signal
\* is lost to a thread that timed out, and no thread waits for a post nobody makes.
TokenBalance ==
  Cardinality(Waiting) = mSema + Cardinality(posting) + (IF mCount < 0 THEN -mCount ELSE 0)
=============================================================================
