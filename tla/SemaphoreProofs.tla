-------------------------- MODULE SemaphoreProofs --------------------------
(***************************************************************************)
(* Proofs about Semaphore, for every number of threads and operations,     *)
(* every initial value and every amount.                                   *)
(***************************************************************************)
EXTENDS Semaphore, FiniteSetTheorems, TLAPS

(***************************************************************************)
(* The inductive invariant.                                                *)
(***************************************************************************)

\* An operation that has started is in exactly one place: completed, in the list,
\* or moved out by one acquirer.  Before that it is in none.
Custody ==
  \A x \in Waiters :
    /\ completed[x] \in {0, 1}
    /\ wpc[x] # "started" => completed[x] = 0
    /\ x \in waiting => wpc[x] = "started" /\ completed[x] = 0
    /\ \A a \in Acquirers : x \in moved[a] =>
         /\ wpc[x] = "started" /\ completed[x] = 0 /\ x \notin waiting
         /\ \A b \in Acquirers : x \in moved[b] => b = a
    /\ wpc[x] = "started" =>
         completed[x] = 1 \/ x \in waiting \/ \E a \in Acquirers : x \in moved[a]

\* An acquirer has waiters in hand only while it completes them.
InHand == \A a \in Acquirers : apc[a] # "complete" => moved[a] = {}

NoRelease == \A r \in Releasers : calls[r] = 0

\* Without Release the counter only falls: an acquirer past its test leaves it
\* drained, and then every operation under way has seen it so.
StaysDrained ==
  NoRelease =>
    /\ \A a \in Acquirers : apc[a] # "idle" => count <= 0
    /\ count <= 0 => \A x \in Waiters : wpc[x] # "new" => x \in drainedFor
    /\ \A x \in Waiters : completed[x] > 0 => x \in drainedFor

IInv == TypeOK /\ Custody /\ InHand /\ NoLostWaiter /\ StaysDrained

(***************************************************************************)
(* Every action keeps it.                                                  *)
(***************************************************************************)

\* A fresh semaphore satisfies the invariant.
LEMMA InitIInv == Init => IInv
<1> SUFFICES ASSUME Init PROVE IInv
  OBVIOUS
<1>1. TypeOK
  BY SemaphoreAssumption, HolderAssumption DEF Init, TypeOK
<1>2. Custody /\ InHand /\ NoLostWaiter /\ StaysDrained
  BY DEF Init, Custody, InHand, NoLostWaiter, StaysDrained
<1>3. QED
  BY <1>1, <1>2 DEF IInv

\* Counting a call of a thread keeps calls well typed and only takes threads out of
\* the ones that have made none.
LEMMA CalledTyped ==
  ASSUME TypeOK, NEW t \in Acquirers \cup Releasers, Called(t)
  PROVE  /\ calls' \in [Acquirers \cup Releasers -> 0 .. MaxCalls]
         /\ NoRelease' => NoRelease
<1>1. calls \in [Acquirers \cup Releasers -> 0 .. MaxCalls] /\ MaxCalls \in Nat
  BY SemaphoreAssumption DEF TypeOK
<1>2. calls' = [calls EXCEPT ![t] = @ + 1] /\ calls[t] < MaxCalls
  BY DEF Called
<1>3. calls[t] + 1 \in 0 .. MaxCalls
  BY <1>1, <1>2
<1>4. \A r \in Releasers : calls'[r] = 0 => calls[r] = 0
  BY <1>1, <1>2
<1>5. QED
  BY <1>1, <1>2, <1>3, <1>4 DEF NoRelease

\* Acquire: the subtraction and the test of the previous value.
LEMMA AcquireIInv ==
  ASSUME IInv, NEW a \in Acquirers, NEW n \in Amounts, Acquire(a, n)
  PROVE  IInv'
<1> USE DEF IInv
<1>0. n \in Nat \ {0} /\ count \in Int
  BY SemaphoreAssumption DEF TypeOK
<1>1. TypeOK'
  BY <1>0, CalledTyped DEF TypeOK, Acquire, Observe
<1>2. Custody' /\ InHand'
  BY DEF Custody, InHand, Acquire, TypeOK
<1>3. NoLostWaiter'
  BY <1>0 DEF NoLostWaiter, Acquire, TypeOK
<1>4. StaysDrained'
  BY <1>0, CalledTyped DEF StaysDrained, Acquire, Observe, TypeOK, Custody
<1>5. QED
  BY <1>1, <1>2, <1>3, <1>4

\* The list changes hands under the lock, when no operation is about to enter it.
LEMMA TakeWaitersIInv ==
  ASSUME IInv, NEW a \in Acquirers, TakeWaiters(a)
  PROVE  IInv'
<1> USE DEF IInv
<1>1. TypeOK'
  BY DEF TypeOK, TakeWaiters
<1>2. Custody'
  <2>1. moved[a] = {}
    BY DEF InHand, TakeWaiters
  <2>2. \A b \in Acquirers : moved'[b] = IF b = a THEN waiting ELSE moved[b]
    BY DEF TakeWaiters, TypeOK
  <2>3. QED
    BY <2>1, <2>2 DEF Custody, TakeWaiters
<1>3. InHand'
  BY DEF InHand, TakeWaiters, TypeOK
<1>4. NoLostWaiter'
  <2>1. waiting' = {} /\ \A x \in Waiters : wpc'[x] # "push"
    BY HolderAssumption DEF TakeWaiters, TypeOK
  <2>2. QED
    BY <2>1 DEF NoLostWaiter
<1>5. StaysDrained'
  BY DEF StaysDrained, TakeWaiters, NoRelease, TypeOK
<1>6. QED
  BY <1>1, <1>2, <1>3, <1>4, <1>5

\* A waiter that was moved out is completed, and is nowhere else.
LEMMA CompleteMovedIInv ==
  ASSUME IInv, NEW a \in Acquirers, CompleteMoved(a)
  PROVE  IInv'
<1> USE DEF IInv
<1>1. CASE moved[a] = {}
  <2>1. TypeOK'
    BY <1>1 DEF TypeOK, CompleteMoved
  <2>2. Custody' /\ InHand'
    BY <1>1 DEF Custody, InHand, CompleteMoved, TypeOK
  <2>3. NoLostWaiter' /\ StaysDrained'
    BY <1>1 DEF NoLostWaiter, StaysDrained, NoRelease, CompleteMoved, TypeOK
  <2>4. QED
    BY <2>1, <2>2, <2>3
<1>2. ASSUME NEW x \in moved[a],
             moved' = [moved EXCEPT ![a] = @ \ {x}],
             completed' = [completed EXCEPT ![x] = @ + 1],
             UNCHANGED apc
      PROVE  IInv'
  <2>0. x \in Waiters /\ completed[x] = 0 /\ wpc[x] = "started" /\ apc[a] = "complete"
    BY DEF TypeOK, Custody, CompleteMoved
  <2>1. TypeOK'
    BY <1>2, <2>0 DEF TypeOK, CompleteMoved
  <2>2. Custody'
    <3>1. /\ \A b \in Acquirers : moved'[b] = IF b = a THEN moved[a] \ {x} ELSE moved[b]
          /\ \A y \in Waiters : completed'[y] = IF y = x THEN 1 ELSE completed[y]
      BY <1>2, <2>0 DEF TypeOK
    <3>2. waiting' = waiting /\ wpc' = wpc
      BY DEF CompleteMoved
    <3>3. QED
      BY <2>0, <3>1, <3>2 DEF Custody
  <2>3. InHand'
    BY <1>2, <2>0 DEF InHand, TypeOK
  <2>4. NoLostWaiter'
    BY <1>2 DEF NoLostWaiter, CompleteMoved
  <2>5. StaysDrained'
    BY <1>2, <2>0 DEF StaysDrained, NoRelease, CompleteMoved, TypeOK
  <2>6. QED
    BY <2>1, <2>2, <2>3, <2>4, <2>5
<1>3. QED
  BY <1>1, <1>2 DEF CompleteMoved

\* Release only raises the counter; after it nothing is said about early completion.
LEMMA ReleaseIInv ==
  ASSUME IInv, NEW r \in Releasers, NEW n \in Amounts, Release(r, n)
  PROVE  IInv'
<1> USE DEF IInv
<1>0. n \in Nat \ {0} /\ count \in Int
  BY SemaphoreAssumption DEF TypeOK
<1>1. TypeOK'
  BY <1>0, CalledTyped DEF TypeOK, Release, Observe
<1>2. Custody' /\ InHand'
  BY DEF Custody, InHand, Release
<1>3. NoLostWaiter'
  BY <1>0 DEF NoLostWaiter, Release
<1>4. ~NoRelease'
  <2>1. calls'[r] = calls[r] + 1 /\ calls[r] \in Nat
    BY SemaphoreAssumption DEF Release, Called, TypeOK
  <2>2. QED
    BY <2>1 DEF NoRelease
<1>5. QED
  BY <1>1, <1>2, <1>3, <1>4 DEF StaysDrained

\* start() of an operation, from the lock to the list or to its completion.
LEMMA WaiterIInv ==
  ASSUME IInv, NEW x \in Waiters, WaiterStep(x)
  PROVE  IInv'
<1> USE DEF IInv
<1>1. CASE Start(x)
  <2>1. TypeOK'
    BY <1>1, HolderAssumption DEF TypeOK, Start, threadVars
  <2>2. Custody' /\ InHand'
    BY <1>1 DEF Custody, InHand, Start, threadVars, TypeOK
  <2>3. NoLostWaiter'
    BY <1>1 DEF NoLostWaiter, Start, threadVars, TypeOK
  <2>4. StaysDrained'
    BY <1>1 DEF StaysDrained, NoRelease, Start, threadVars, TypeOK
  <2>5. QED
    BY <2>1, <2>2, <2>3, <2>4
<1>2. CASE CheckCount(x)
  <2>0. holder = x /\ completed[x] = 0
    BY <1>2 DEF CheckCount, TypeOK, Custody
  <2>1. CASE count <= 0
    <3>1. TypeOK'
      BY <1>2, <2>0, <2>1, HolderAssumption DEF TypeOK, CheckCount, threadVars
    <3>2. Custody' /\ InHand'
      BY <1>2, <2>0, <2>1 DEF Custody, InHand, CheckCount, threadVars, TypeOK
    <3>3. NoLostWaiter'
      BY <1>2, <2>1 DEF NoLostWaiter, CheckCount, threadVars, TypeOK
    <3>4. StaysDrained'
      BY <1>2, <2>1 DEF StaysDrained, NoRelease, CheckCount, threadVars, TypeOK
    <3>5. QED
      BY <3>1, <3>2, <3>3, <3>4
  <2>2. CASE ~(count <= 0)
    <3>1. TypeOK'
      BY <1>2, <2>0, <2>2 DEF TypeOK, CheckCount, threadVars
    <3>2. Custody' /\ InHand'
      BY <1>2, <2>2 DEF Custody, InHand, CheckCount, threadVars, TypeOK
    <3>3. NoLostWaiter'
      BY <1>2, <2>2 DEF NoLostWaiter, CheckCount
    <3>4. StaysDrained'
      BY <1>2, <2>2 DEF StaysDrained, NoRelease, CheckCount, threadVars, TypeOK
    <3>5. QED
      BY <3>1, <3>2, <3>3, <3>4
  <2>3. QED
    BY <2>1, <2>2
<1>3. CASE Enlist(x)
  <2>0. holder = x /\ completed[x] = 0 /\ \A a \in Acquirers : x \notin moved[a]
    BY <1>3 DEF Enlist, TypeOK, Custody
  <2>1. TypeOK'
    BY <1>3, <2>0, HolderAssumption DEF TypeOK, Enlist, threadVars
  <2>2. Custody' /\ InHand'
    BY <1>3, <2>0 DEF Custody, InHand, Enlist, threadVars, TypeOK
  <2>3. NoLostWaiter'
    BY <1>3 DEF NoLostWaiter, Enlist, threadVars
  <2>4. StaysDrained'
    BY <1>3 DEF StaysDrained, NoRelease, Enlist, threadVars, TypeOK
  <2>5. QED
    BY <2>1, <2>2, <2>3, <2>4
<1>4. QED
  BY <1>1, <1>2, <1>3 DEF WaiterStep

\* The invariant of the semaphore: custody of the operations, the lock, the counter
\* and the acquirers, for any interleaving of Acquire, Release and OnDrained.
THEOREM SemaphoreInvariant == Spec => []IInv
<1>1. IInv /\ [Next]_vars => IInv'
  <2> SUFFICES ASSUME IInv, [Next]_vars PROVE IInv'
    OBVIOUS
  <2>1. ASSUME NEW a \in Acquirers, AcquirerStep(a) PROVE IInv'
    BY <2>1, AcquireIInv, TakeWaitersIInv, CompleteMovedIInv DEF AcquirerStep
  <2>2. ASSUME NEW r \in Releasers, NEW n \in Amounts, Release(r, n) PROVE IInv'
    BY <2>2, ReleaseIInv
  <2>3. ASSUME NEW x \in Waiters, WaiterStep(x) PROVE IInv'
    BY <2>3, WaiterIInv
  <2>4. CASE UNCHANGED vars
    BY <2>4 DEF vars, threadVars, IInv, TypeOK, Custody, InHand, NoLostWaiter, StaysDrained,
                NoRelease
  <2>5. QED
    BY <2>1, <2>2, <2>3, <2>4 DEF Next
<1>2. QED
  BY <1>1, InitIInv, PTL DEF Spec

\* Acquire and start() never lose a waiter: while the counter is drained, an operation
\* in waiters_ or about to enter it has an acquirer that has yet to take the list.
THEOREM NoWaiterIsLost == Spec => []NoLostWaiter
<1>1. IInv => NoLostWaiter
  BY DEF IInv
<1>2. QED
  BY <1>1, SemaphoreInvariant, PTL

\* The receiver of an OnDrained operation is completed at most once: it is in one
\* place at a time, of which its completion is the last.
THEOREM CompletedAtMostOnce == Spec => []CompletedOnce
<1>1. IInv => CompletedOnce
  <2> SUFFICES ASSUME IInv, NEW x \in Waiters
               PROVE  completed[x] + Cardinality({a \in Acquirers : x \in moved[a]})
                        + Cardinality({x} \cap waiting) <= 1
    BY DEF CompletedOnce
  <2> DEFINE hands == {a \in Acquirers : x \in moved[a]}
  <2>1. /\ completed[x] \in {0, 1}
        /\ x \in waiting => completed[x] = 0 /\ hands = {}
        /\ hands # {} => completed[x] = 0 /\ \E a \in Acquirers : hands = {a}
    BY DEF IInv, Custody
  <2>2. Cardinality({}) = 0 /\ \A a : Cardinality({a}) = 1
    BY FS_EmptySet, FS_Singleton
  <2>3. Cardinality(hands) = IF hands = {} THEN 0 ELSE 1
    BY <2>1, <2>2
  <2>4. Cardinality({x} \cap waiting) = IF x \in waiting THEN 1 ELSE 0
    <3>1. {x} \cap waiting = IF x \in waiting THEN {x} ELSE {}
      OBVIOUS
    <3>2. QED
      BY <2>2, <3>1
  <2> HIDE DEF hands
  <2>5. completed[x] + Cardinality(hands) + Cardinality({x} \cap waiting) <= 1
    BY <2>1, <2>3, <2>4
  <2>6. QED
    BY <2>5 DEF hands
<1>2. QED
  BY <1>1, SemaphoreInvariant, PTL

\* OnDrained means what util.h says of it: without Release, an operation completes only
\* if the counter was drained while it was under way.
THEOREM CompletionMeansDrained == Spec => []CompletedOnlyWhenDrained
<1>1. IInv => CompletedOnlyWhenDrained
  BY DEF IInv, StaysDrained, NoRelease, CompletedOnlyWhenDrained
<1>2. QED
  BY <1>1, SemaphoreInvariant, PTL
=============================================================================
