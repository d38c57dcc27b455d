---------------------------- MODULE ActorProofs ----------------------------
(***************************************************************************)
(* Proofs about Actor, for every number of senders, workers, destroyers    *)
(* and mailboxes, every capacity, hook and counter width.                  *)
(***************************************************************************)
EXTENDS Actor, FiniteSetTheorems, NaturalsInduction, WellFoundedInduction, TLAPS

(***************************************************************************)
(* Type correctness.                                                       *)
(***************************************************************************)

\* A fresh actor is well typed.
LEMMA InitTypeOK == Init => TypeOK
<1> SUFFICES ASSUME Init PROVE TypeOK
  OBVIOUS
<1>1. 0 \in Mailboxes
  BY ConfigAssumption DEF Mailboxes
<1>2. pending \in 0 .. CounterMod - 1
  BY ConfigAssumption DEF Init
<1>3. mailbox \in [Mailboxes -> Seq(Message)]
  <2>1. <<>> \in Seq(Message)
    OBVIOUS
  <2>2. QED
    BY <2>1 DEF Init
<1>4. /\ pc \in [Thread -> SenderPC \cup WorkerPC \cup DestroyerPC]
      /\ \A s \in Senders : pc[s] \in SenderPC
      /\ \A w \in Workers : pc[w] \in WorkerPC
      /\ \A d \in Destroyers : pc[d] \in DestroyerPC
  BY DEF Init, Thread, SenderPC, WorkerPC, DestroyerPC, SpawnPC
<1>5. /\ target \in [Senders -> Mailboxes]
      /\ index \in [Workers -> Mailboxes]
      /\ current \in [Workers -> Message \cup {NoMessage}]
      /\ storage \in [Workers -> Storage]
      /\ spawning \in [Thread -> Storage]
  BY <1>1 DEF Init, Storage
<1>6. /\ queued \in [Storage -> Nat]
      /\ sent \in [Senders -> Nat]
      /\ limit \in [Workers -> Nat]
      /\ executed \in [Workers -> Nat]
  BY DEF Init
<1>7. /\ activated \in BOOLEAN /\ toDestroy \in BOOLEAN /\ alive \in BOOLEAN
      /\ slotInUse \in BOOLEAN
      /\ scopeState \in {"open", "joining", "joined"}
      /\ done \subseteq Message \cup {NoMessage}
  BY Zenon DEF Init
<1>8. scopeCount \in Int
  BY DEF Init
<1>9. QED
  BY <1>2, <1>3, <1>4, <1>5, <1>6, <1>7, <1>8 DEF TypeOK

\* A thread that moves to one of its own labels keeps pc well typed.
LEMMA GotoTyped ==
  ASSUME TypeOK, NEW t \in Thread, NEW label, Goto(t, label),
         t \in Senders => label \in SenderPC,
         t \in Workers => label \in WorkerPC,
         t \in Destroyers => label \in DestroyerPC
  PROVE  /\ pc' \in [Thread -> SenderPC \cup WorkerPC \cup DestroyerPC]
         /\ \A s \in Senders : pc'[s] \in SenderPC
         /\ \A w \in Workers : pc'[w] \in WorkerPC
         /\ \A d \in Destroyers : pc'[d] \in DestroyerPC
  BY DEF TypeOK, Goto, Thread

\* pending_message_count_ stays below CounterMod, whatever is added or taken off.
LEMMA CounterTyped == \A n \in Int : n % CounterMod \in 0 .. CounterMod - 1
  BY ConfigAssumption

\* TryActivate and the spawn keep the types, whichever thread calls them.
LEMMA ActivateTyped ==
  ASSUME TypeOK, NEW t \in Thread, Activate(t) \/ Spawn(t)
  PROVE  TypeOK'
<1>1. CASE Activate(t)
  <2>1. PICK label \in {AfterActivate(t), "schedule"} : Goto(t, label)
    BY <1>1 DEF Activate
  <2>2. /\ t \in Senders => label \in SenderPC
        /\ t \in Workers => label \in WorkerPC
        /\ t \in Destroyers => label \in DestroyerPC
    BY ThreadAssumption DEF AfterActivate, SenderPC, WorkerPC, DestroyerPC, SpawnPC, Thread
  <2>3. QED
    BY <1>1, <2>1, <2>2, GotoTyped
       DEF Activate, TypeOK, spawnVars, senderVars, workerVars
<1>2. /\ t \in Senders => SpawnPC \cup {AfterActivate(t)} \subseteq SenderPC
      /\ t \in Workers => SpawnPC \cup {AfterActivate(t)} \subseteq WorkerPC
      /\ t \in Destroyers => SpawnPC \cup {AfterActivate(t)} \subseteq DestroyerPC
  BY ThreadAssumption DEF AfterActivate, SenderPC, WorkerPC, DestroyerPC, SpawnPC, Thread
<1>3. Allocate \in Storage /\ "heap" \in Storage
  BY DEF Allocate, Storage
<1>4. CASE Schedule(t)
  <2>1. spawning' \in [Thread -> Storage]
    BY <1>3, <1>4 DEF Schedule, TypeOK
  <2>2. "associate" \in SpawnPC
    BY DEF SpawnPC
  <2>3. QED
    BY <1>2, <1>4, <2>1, <2>2, GotoTyped DEF Schedule, TypeOK, sharedVars, senderVars, workerVars
<1>5. CASE Associate(t)
  <2>1. PICK label \in {"enqueue", "refused"} : Goto(t, label)
    BY <1>5 DEF Associate
  <2>2. label \in SpawnPC
    BY DEF SpawnPC
  <2>3. scopeCount' \in Int
    BY <1>5 DEF Associate, TypeOK
  <2>4. QED
    BY <1>2, <1>5, <2>1, <2>2, <2>3, GotoTyped
       DEF Associate, TypeOK, sharedVars, senderVars, workerVars
<1>6. CASE Enqueue(t)
  <2>1. queued' \in [Storage -> Nat] /\ spawning' \in [Thread -> Storage]
    BY <1>3, <1>6 DEF Enqueue, TypeOK
  <2>2. QED
    BY <1>2, <1>6, <2>1, GotoTyped DEF Enqueue, TypeOK, sharedVars, senderVars, workerVars
<1>7. CASE Refuse(t)
  <2>1. slotInUse' \in BOOLEAN /\ spawning' \in [Thread -> Storage]
    BY <1>3, <1>7 DEF Refuse, Deallocate, TypeOK
  <2>2. QED
    BY <1>2, <1>7, <2>1, GotoTyped DEF Refuse, TypeOK, sharedVars, senderVars, workerVars
<1>8. QED
  BY <1>1, <1>4, <1>5, <1>6, <1>7 DEF Spawn

\* Every step of a sender keeps the types.
LEMMA SenderTyped ==
  ASSUME TypeOK, NEW s \in Senders, SenderStep(s)
  PROVE  TypeOK'
<1>0. s \in Thread /\ s \notin Workers /\ s \notin Destroyers
  BY ThreadAssumption DEF Thread
<1>1. ASSUME NEW k \in Mailboxes, PushMessage(s, k)
      PROVE  TypeOK'
  <2>1. sent[s] + 1 \in Nat /\ <<s, sent[s] + 1, k>> \in Message
    BY DEF TypeOK, Message
  <2>2. sent' \in [Senders -> Nat] /\ target' \in [Senders -> Mailboxes]
    BY <1>1, <2>1 DEF PushMessage, TypeOK
  <2>3. CASE Full(k) /\ UNCHANGED <<mailbox, pc>>
    BY <1>1, <2>2, <2>3 DEF PushMessage, TypeOK, spawnVars, workerVars
  <2>4. CASE /\ mailbox' = [mailbox EXCEPT ![k] = Append(@, <<s, sent[s] + 1, k>>)]
             /\ Goto(s, "publish")
    <3>1. mailbox' \in [Mailboxes -> Seq(Message)]
      BY <2>1, <2>4 DEF TypeOK
    <3>2. QED
      BY <1>0, <1>1, <2>2, <2>4, <3>1, GotoTyped
         DEF PushMessage, TypeOK, spawnVars, workerVars, SenderPC, SpawnPC
  <2>5. QED
    BY <1>1, <2>3, <2>4 DEF PushMessage
<1>2. CASE Publish(s)
  BY <1>0, <1>2, GotoTyped
     DEF Publish, TypeOK, sharedVars, spawnVars, senderVars, workerVars, SenderPC, SpawnPC
<1>3. CASE Count(s)
  <2>1. pending' \in 0 .. CounterMod - 1
    BY <1>3, CounterTyped DEF Count, TypeOK
  <2>2. PICK label \in {"cas", "idle"} : Goto(s, label)
    BY <1>3 DEF Count
  <2>3. QED
    BY <1>0, <1>3, <2>1, <2>2, GotoTyped
       DEF Count, TypeOK, spawnVars, senderVars, workerVars, SenderPC, SpawnPC
<1>4. CASE Activate(s) \/ Spawn(s)
  BY <1>0, <1>4, ActivateTyped
<1>5. QED
  BY <1>1, <1>2, <1>3, <1>4 DEF SenderStep

\* Every step of a worker keeps the types.
LEMMA WorkerTyped ==
  ASSUME TypeOK, NEW w \in Workers, WorkerStep(w)
  PROVE  TypeOK'
<1>0. w \in Thread /\ w \notin Senders /\ w \notin Destroyers
  BY ThreadAssumption DEF Thread
<1>1. ASSUME NEW st \in Storage, Dequeue(w, st)
      PROVE  TypeOK'
  <2>1. queued' \in [Storage -> Nat] /\ storage' \in [Workers -> Storage]
    BY <1>1 DEF Dequeue, TypeOK
  <2>2. QED
    BY <1>0, <1>1, <2>1, GotoTyped
       DEF Dequeue, TypeOK, sharedVars, senderVars, WorkerPC, SpawnPC
<1>2. CASE Enter(w)
  <2>1. PICK label \in {"finish", "reset", "limit"} : Goto(w, label)
    BY <1>2 DEF Enter
  <2>2. QED
    BY <1>0, <1>2, <2>1, GotoTyped
       DEF Enter, TypeOK, sharedVars, spawnVars, senderVars, workerVars, WorkerPC, SpawnPC
<1>3. CASE Reset(w)
  BY <1>0, <1>3, GotoTyped DEF Reset, TypeOK, spawnVars, senderVars, workerVars, WorkerPC, SpawnPC
<1>4. CASE UnlockDead(w)
  BY <1>0, <1>4, GotoTyped DEF UnlockDead, TypeOK, spawnVars, senderVars, workerVars, WorkerPC,
     SpawnPC
<1>5. CASE SubDead(w)
  <2>1. pending' \in 0 .. CounterMod - 1
    BY <1>5, CounterTyped DEF SubDead, TypeOK
  <2>2. QED
    BY <1>0, <1>5, <2>1, GotoTyped DEF SubDead, TypeOK, spawnVars, senderVars, workerVars,
       WorkerPC, SpawnPC
<1>6. CASE Limit(w)
  <2>1. limit' \in [Workers -> Nat]
    BY <1>6, ConfigAssumption DEF Limit, TypeOK
  <2>2. QED
    BY <1>0, <1>6, <2>1, GotoTyped DEF Limit, TypeOK, sharedVars, spawnVars, senderVars, WorkerPC,
       SpawnPC
<1>7. CASE Pull(w)
  <2>1. index[w] \in Mailboxes /\ mailbox[index[w]] \in Seq(Message)
    BY DEF TypeOK
  <2>2. mailbox[index[w]] # <<>>
    BY <1>7 DEF Pull, Ready
  <2>3. Head(mailbox[index[w]]) \in Message /\ Tail(mailbox[index[w]]) \in Seq(Message)
    BY <2>1, <2>2
  <2>4. current' \in [Workers -> Message \cup {NoMessage}] /\ mailbox' \in [Mailboxes -> Seq(Message)]
    BY <1>7, <2>1, <2>3 DEF Pull, TypeOK
  <2>5. QED
    BY <1>0, <1>7, <2>4, GotoTyped DEF Pull, TypeOK, spawnVars, senderVars, WorkerPC, SpawnPC
<1>8. CASE NextMailbox(w)
  <2>1. CASE index' = [index EXCEPT ![w] = @ + 1] /\ UNCHANGED pc /\ index[w] + 1 < MailboxCount
    <3>1. index[w] + 1 \in Mailboxes
      BY <2>1, ConfigAssumption, SMTT(30) DEF TypeOK, Mailboxes
    <3>2. index' \in [Workers -> Mailboxes]
      BY <2>1, <3>1 DEF TypeOK
    <3>3. QED
      BY <1>8, <2>1, <3>2 DEF NextMailbox, TypeOK, sharedVars, spawnVars, senderVars
  <2>2. CASE Goto(w, "sub") /\ UNCHANGED index
    BY <1>0, <1>8, <2>2, GotoTyped
       DEF NextMailbox, TypeOK, sharedVars, spawnVars, senderVars, WorkerPC, SpawnPC
  <2>3. QED
    BY <1>8, <2>1, <2>2 DEF NextMailbox
<1>9. CASE Execute(w)
  <2>1. PICK label \in {"sub", "pull"} : Goto(w, label)
    BY <1>9 DEF Execute
  <2>2. executed' \in [Workers -> Nat] /\ current' \in [Workers -> Message \cup {NoMessage}]
    BY <1>9 DEF Execute, TypeOK
  <2>3. QED
    BY <1>0, <1>9, <2>1, <2>2, GotoTyped
       DEF Execute, TypeOK, sharedVars, spawnVars, senderVars, WorkerPC, SpawnPC
<1>10. CASE Sub(w)
  <2>1. pending' \in 0 .. CounterMod - 1 /\ executed' \in [Workers -> Nat]
    BY <1>10, CounterTyped, SMTT(30) DEF Sub, TypeOK
  <2>2. QED
    BY <1>0, <1>10, <2>1, GotoTyped DEF Sub, TypeOK, spawnVars, senderVars, WorkerPC, SpawnPC
<1>11. CASE Unlock(w)
  BY <1>0, <1>11, GotoTyped DEF Unlock, TypeOK, spawnVars, senderVars, workerVars, WorkerPC, SpawnPC
<1>12. CASE Recheck(w)
  <2>1. PICK label \in {"cas", "finish"} : Goto(w, label)
    BY <1>12 DEF Recheck
  <2>2. QED
    BY <1>0, <1>12, <2>1, GotoTyped
       DEF Recheck, TypeOK, sharedVars, spawnVars, senderVars, workerVars, WorkerPC, SpawnPC
<1>13. CASE Activate(w) \/ Spawn(w)
  BY <1>0, <1>13, ActivateTyped
<1>14. CASE Finish(w)
  <2>1. 0 \in Mailboxes
    BY ConfigAssumption DEF Mailboxes
  <2>2. /\ storage' \in [Workers -> Storage]
        /\ limit' \in [Workers -> Nat]
        /\ index' \in [Workers -> Mailboxes]
    BY <1>14, <2>1 DEF Finish, TypeOK, Storage
  <2>3. slotInUse' \in BOOLEAN
    BY <1>14 DEF Finish, TypeOK, Deallocate
  <2>4. QED
    BY <1>0, <1>14, <2>2, <2>3, GotoTyped
       DEF Finish, TypeOK, sharedVars, senderVars, WorkerPC, SpawnPC
<1>15. CASE Leave(w)
  <2>1. scopeCount' \in Int /\ scopeState' \in {"open", "joining", "joined"}
    BY <1>15 DEF Leave, TypeOK
  <2>2. QED
    BY <1>0, <1>15, <2>1, GotoTyped
       DEF Leave, TypeOK, sharedVars, senderVars, workerVars, WorkerPC, SpawnPC
<1>16. QED
  BY <1>1, <1>2, <1>3, <1>4, <1>5, <1>6, <1>7, <1>8, <1>9, <1>10, <1>11, <1>12, <1>13, <1>14,
     <1>15 DEF WorkerStep

\* Every step of AsyncDestroy keeps the types.
LEMMA DestroyerTyped ==
  ASSUME TypeOK, NEW d \in Destroyers, DestroyerStep(d)
  PROVE  TypeOK'
<1>0. d \in Thread /\ d \notin Senders /\ d \notin Workers
  BY ThreadAssumption DEF Thread
<1>1. CASE BeginDestroy(d)
  <2>1. PICK label \in {"returned", "count"} : Goto(d, label)
    BY <1>1 DEF BeginDestroy
  <2>2. QED
    BY <1>0, <1>1, <2>1, GotoTyped
       DEF BeginDestroy, TypeOK, spawnVars, senderVars, workerVars, DestroyerPC, SpawnPC
<1>2. CASE CountDestroy(d)
  <2>1. pending' \in 0 .. CounterMod - 1
    BY <1>2, CounterTyped DEF CountDestroy, TypeOK
  <2>2. QED
    BY <1>0, <1>2, <2>1, GotoTyped
       DEF CountDestroy, TypeOK, spawnVars, senderVars, workerVars, DestroyerPC, SpawnPC
<1>3. CASE Activate(d) \/ Spawn(d)
  BY <1>0, <1>3, ActivateTyped
<1>4. CASE Join(d)
  <2>1. scopeState' \in {"open", "joining", "joined"}
    BY <1>4 DEF Join
  <2>2. QED
    BY <1>0, <1>4, <2>1, GotoTyped DEF Join, TypeOK, sharedVars, senderVars, workerVars,
       DestroyerPC, SpawnPC
<1>5. CASE Joined(d)
  BY <1>0, <1>5, GotoTyped
     DEF Joined, TypeOK, sharedVars, spawnVars, senderVars, workerVars, DestroyerPC, SpawnPC
<1>6. QED
  BY <1>1, <1>2, <1>3, <1>4, <1>5 DEF DestroyerStep

\* Every reachable state of the actor is well typed, for every configuration.
THEOREM TypeCorrect == Spec => []TypeOK
<1>1. TypeOK /\ [Next]_vars => TypeOK'
  <2>1. ASSUME TypeOK, UNCHANGED vars
        PROVE  TypeOK'
    BY <2>1 DEF TypeOK, vars, sharedVars, spawnVars, senderVars, workerVars
  <2>2. QED
    BY <2>1, SenderTyped, WorkerTyped, DestroyerTyped DEF Next
<1>2. QED
  BY <1>1, InitTypeOK, PTL DEF Spec

(***************************************************************************)
(* activated_ is a lock.  SingleExecutor is not inductive: it says nothing *)
(* of the threads between their compare-exchange and the spawn, nor of     *)
(* activated_.  Ownership adds both.                                       *)
(***************************************************************************)

Owns(t) == pc[t] \in Owning

\* The lock has at most one owner, a thread or the queued activation, and while
\* it has one activated_ is set.
Ownership ==
  /\ \A t, u \in Thread : Owns(t) /\ Owns(u) => t = u
  /\ QueuedTotal \in {0, 1}
  /\ QueuedTotal = 1 => \A t \in Thread : ~Owns(t)
  /\ QueuedTotal = 1 => activated
  /\ \A t \in Thread : Owns(t) => activated

\* A step of t that does not touch the scheduler's queue or activated_, and by
\* which t does not become an owner, keeps Ownership.
LEMMA OwnershipKept ==
  ASSUME TypeOK, Ownership, NEW t \in Thread, NEW label, Goto(t, label),
         label \in Owning => Owns(t), UNCHANGED <<queued, activated>>
  PROVE  Ownership'
  BY DEF TypeOK, Ownership, Owns, QueuedTotal, Goto

\* An owner may clear activated_ (or leave it) when it stops owning the actor.
LEMMA OwnershipReleased ==
  ASSUME TypeOK, Ownership, NEW t \in Thread, NEW label, Goto(t, label),
         Owns(t), label \notin Owning, UNCHANGED queued
  PROVE  Ownership'
<1>1. \A u \in Thread : ~Owns(u)'
  BY DEF TypeOK, Ownership, Owns, Goto
<1>2. QueuedTotal = 0 /\ QueuedTotal' = 0
  BY DEF Ownership, QueuedTotal
<1>3. QED
  BY <1>1, <1>2 DEF Ownership

\* TryActivate: only a thread that finds activated_ clear becomes the owner.
LEMMA OwnershipActivate ==
  ASSUME TypeOK, Ownership, NEW t \in Thread, Activate(t)
  PROVE  Ownership'
<1>1. activated' = TRUE /\ queued' = queued /\ pc[t] = "cas" /\ ~Owns(t)
  BY DEF Activate, spawnVars, Owns, Owning, InActor, SpawnPC
<1>2. CASE activated
  <2>1. Goto(t, AfterActivate(t))
    BY <1>2 DEF Activate
  <2>2. AfterActivate(t) \notin Owning
    BY DEF AfterActivate, Owning, InActor, SpawnPC
  <2>3. activated' = activated
    BY <1>1, <1>2 DEF TypeOK
  <2>4. QED
    BY <1>1, <2>1, <2>2, <2>3, OwnershipKept
<1>3. CASE ~activated
  <2>1. QueuedTotal = 0 /\ \A u \in Thread : ~Owns(u)
    BY <1>3 DEF Ownership
  <2>2. QueuedTotal' = 0
    BY <1>1, <2>1 DEF QueuedTotal
  <2>3. \A u \in Thread : Owns(u)' => u = t
    BY <1>3, <2>1 DEF Activate, Goto, Owns, TypeOK
  <2>4. QED
    BY <1>1, <2>2, <2>3 DEF Ownership
<1>4. QED
  BY <1>2, <1>3

\* A thread that enqueues its activation leaves exactly that one in the queue.
LEMMA EnqueueQueues ==
  ASSUME TypeOK, Ownership, NEW t \in Thread, Enqueue(t)
  PROVE  QueuedTotal' = 1
<1>1. QueuedTotal = 0
  BY DEF Ownership, Enqueue, Owns, Owning, SpawnPC
<1>2. queued \in [Storage -> Nat] /\ spawning[t] \in Storage
  BY DEF TypeOK
<1>3. queued' = [queued EXCEPT ![spawning[t]] = @ + 1]
  BY DEF Enqueue
<1>4. CASE spawning[t] = "slot"
  BY <1>1, <1>2, <1>3, <1>4 DEF QueuedTotal, Storage
<1>5. CASE spawning[t] = "heap"
  BY <1>1, <1>2, <1>3, <1>5 DEF QueuedTotal, Storage
<1>6. QED
  BY <1>2, <1>4, <1>5 DEF Storage

\* The spawn hands the ownership from the thread to the queued activation, or drops it
\* when the scope has been joined.
LEMMA OwnershipSpawn ==
  ASSUME TypeOK, Ownership, NEW t \in Thread, Spawn(t)
  PROVE  Ownership'
<1>1. AfterActivate(t) \notin Owning
  BY DEF AfterActivate, Owning, InActor, SpawnPC
<1>2. CASE Schedule(t)
  BY <1>2, OwnershipKept DEF Schedule, Owns, Owning, SpawnPC, sharedVars
<1>3. CASE Associate(t)
  <2>1. Owns(t) /\ UNCHANGED <<queued, activated>>
    BY <1>3 DEF Associate, Owns, Owning, SpawnPC, sharedVars
  <2>2. PICK label : Goto(t, label)
    BY <1>3 DEF Associate
  <2>3. QED
    BY <2>1, <2>2, OwnershipKept
<1>4. CASE Enqueue(t)
  <2>1. Owns(t) /\ Goto(t, AfterActivate(t)) /\ activated' = activated
    BY <1>4 DEF Enqueue, Owns, Owning, SpawnPC, sharedVars
  <2>2. activated
    BY <2>1 DEF Ownership
  <2>3. \A u \in Thread : ~Owns(u)'
    BY <1>1, <2>1 DEF Ownership, Owns, Goto, TypeOK
  <2>4. QED
    BY <1>4, <2>1, <2>2, <2>3, EnqueueQueues DEF Ownership
<1>5. CASE Refuse(t)
  BY <1>1, <1>5, OwnershipKept DEF Refuse, sharedVars
<1>6. QED
  BY <1>2, <1>3, <1>4, <1>5 DEF Spawn

\* A worker that takes the queued activation takes over its ownership.
LEMMA OwnershipDequeue ==
  ASSUME TypeOK, Ownership, NEW w \in Workers, NEW st \in Storage, Dequeue(w, st)
  PROVE  Ownership'
<1>1. w \in Thread /\ Goto(w, "enter") /\ activated' = activated
  BY DEF Dequeue, Thread, sharedVars
<1>2. queued \in [Storage -> Nat] /\ queued[st] > 0 /\ queued' = [queued EXCEPT ![st] = @ - 1]
  BY DEF Dequeue, TypeOK
<1>3. QueuedTotal = 1 /\ QueuedTotal' = 0
  <2>1. queued["slot"] \in Nat /\ queued["heap"] \in Nat
    BY <1>2 DEF Storage
  <2>2. CASE st = "slot"
    BY <1>2, <2>1, <2>2 DEF Ownership, QueuedTotal, Storage
  <2>3. CASE st = "heap"
    BY <1>2, <2>1, <2>3 DEF Ownership, QueuedTotal, Storage
  <2>4. QED
    BY <2>2, <2>3 DEF Storage
<1>4. activated /\ \A u \in Thread : ~Owns(u)
  BY <1>3 DEF Ownership
<1>5. \A u \in Thread : Owns(u)' => u = w
  BY <1>1, <1>4 DEF Owns, Goto, TypeOK
<1>6. QED
  BY <1>1, <1>3, <1>4, <1>5 DEF Ownership

\* Every step of a sender keeps Ownership.
LEMMA SenderOwnership ==
  ASSUME TypeOK, Ownership, NEW s \in Senders, SenderStep(s)
  PROVE  Ownership'
<1>0. s \in Thread
  BY DEF Thread
<1>1. ASSUME NEW k \in Mailboxes, PushMessage(s, k)
      PROVE  Ownership'
  <2>1. UNCHANGED <<queued, activated>>
    BY <1>1 DEF PushMessage, spawnVars
  <2>2. CASE UNCHANGED pc
    BY <2>1, <2>2 DEF Ownership, Owns, QueuedTotal
  <2>3. CASE Goto(s, "publish")
    BY <1>0, <2>1, <2>3, OwnershipKept DEF Owning, InActor, SpawnPC
  <2>4. QED
    BY <1>1, <2>2, <2>3 DEF PushMessage
<1>2. CASE Publish(s)
  BY <1>0, <1>2, OwnershipKept DEF Publish, Owning, InActor, SpawnPC, sharedVars, spawnVars
<1>3. CASE Count(s)
  <2>1. PICK label \in {"cas", "idle"} : Goto(s, label)
    BY <1>3 DEF Count
  <2>2. UNCHANGED <<queued, activated>> /\ label \notin Owning
    BY <1>3 DEF Count, spawnVars, Owning, InActor, SpawnPC
  <2>3. QED
    BY <1>0, <2>1, <2>2, OwnershipKept
<1>4. CASE Activate(s)
  BY <1>0, <1>4, OwnershipActivate
<1>5. CASE Spawn(s)
  BY <1>0, <1>5, OwnershipSpawn
<1>6. QED
  BY <1>1, <1>2, <1>3, <1>4, <1>5 DEF SenderStep

\* Every step of a worker keeps Ownership: between "enter" and the store that
\* clears activated_ it owns the actor, and after that it does not.
LEMMA WorkerOwnership ==
  ASSUME TypeOK, Ownership, NEW w \in Workers, WorkerStep(w)
  PROVE  Ownership'
<1>0. w \in Thread
  BY DEF Thread
<1>1. ASSUME NEW st \in Storage, Dequeue(w, st)
      PROVE  Ownership'
  BY <1>1, OwnershipDequeue
<1>2. CASE Enter(w)
  <2>1. Owns(w) /\ UNCHANGED <<queued, activated>>
    BY <1>2 DEF Enter, Owns, Owning, InActor, SpawnPC, sharedVars, spawnVars
  <2>2. PICK label : Goto(w, label)
    BY <1>2 DEF Enter
  <2>3. QED
    BY <1>0, <2>1, <2>2, OwnershipKept
<1>3. CASE \/ Reset(w) \/ Limit(w) \/ Pull(w) \/ Sub(w)
  <2>1. Owns(w) /\ UNCHANGED <<queued, activated>>
    BY <1>3 DEF Reset, Limit, Pull, Sub, Owns, Owning, InActor, SpawnPC, sharedVars, spawnVars
  <2>2. PICK label : Goto(w, label)
    BY <1>3 DEF Reset, Limit, Pull, Sub
  <2>3. QED
    BY <1>0, <2>1, <2>2, OwnershipKept
<1>4. CASE UnlockDead(w)
  BY <1>0, <1>4, OwnershipReleased DEF UnlockDead, Owns, Owning, InActor, SpawnPC, spawnVars
<1>5. CASE SubDead(w)
  BY <1>0, <1>5, OwnershipKept DEF SubDead, Owning, InActor, SpawnPC, spawnVars
<1>6. CASE NextMailbox(w)
  <2>1. Owns(w) /\ UNCHANGED <<queued, activated>>
    BY <1>6 DEF NextMailbox, Owns, Owning, InActor, SpawnPC, sharedVars, spawnVars
  <2>2. CASE UNCHANGED pc
    BY <2>1, <2>2 DEF Ownership, Owns, QueuedTotal
  <2>3. CASE Goto(w, "sub")
    BY <1>0, <2>1, <2>3, OwnershipKept
  <2>4. QED
    BY <1>6, <2>2, <2>3 DEF NextMailbox
<1>7. CASE Execute(w)
  <2>1. Owns(w) /\ UNCHANGED <<queued, activated>>
    BY <1>7 DEF Execute, Owns, Owning, InActor, SpawnPC, sharedVars, spawnVars
  <2>2. PICK label : Goto(w, label)
    BY <1>7 DEF Execute
  <2>3. QED
    BY <1>0, <2>1, <2>2, OwnershipKept
<1>8. CASE Unlock(w)
  BY <1>0, <1>8, OwnershipReleased DEF Unlock, Owns, Owning, InActor, SpawnPC, spawnVars
<1>9. CASE Recheck(w)
  <2>1. PICK label \in {"cas", "finish"} : Goto(w, label)
    BY <1>9 DEF Recheck
  <2>2. UNCHANGED <<queued, activated>> /\ label \notin Owning
    BY <1>9 DEF Recheck, sharedVars, spawnVars, Owning, InActor, SpawnPC
  <2>3. QED
    BY <1>0, <2>1, <2>2, OwnershipKept
<1>10. CASE Activate(w)
  BY <1>0, <1>10, OwnershipActivate
<1>11. CASE Spawn(w)
  BY <1>0, <1>11, OwnershipSpawn
<1>12. CASE Finish(w) \/ Leave(w)
  BY <1>0, <1>12, OwnershipKept DEF Finish, Leave, Owning, InActor, SpawnPC, sharedVars
<1>13. QED
  BY <1>1, <1>2, <1>3, <1>4, <1>5, <1>6, <1>7, <1>8, <1>9, <1>10, <1>11, <1>12 DEF WorkerStep

\* Every step of AsyncDestroy keeps Ownership.
LEMMA DestroyerOwnership ==
  ASSUME TypeOK, Ownership, NEW d \in Destroyers, DestroyerStep(d)
  PROVE  Ownership'
<1>0. d \in Thread
  BY DEF Thread
<1>1. CASE BeginDestroy(d)
  <2>1. PICK label \in {"returned", "count"} : Goto(d, label)
    BY <1>1 DEF BeginDestroy
  <2>2. UNCHANGED <<queued, activated>> /\ label \notin Owning
    BY <1>1 DEF BeginDestroy, spawnVars, Owning, InActor, SpawnPC
  <2>3. QED
    BY <1>0, <2>1, <2>2, OwnershipKept
<1>2. CASE CountDestroy(d)
  BY <1>0, <1>2, OwnershipKept DEF CountDestroy, Owning, InActor, SpawnPC, spawnVars
<1>3. CASE Activate(d)
  BY <1>0, <1>3, OwnershipActivate
<1>4. CASE Spawn(d)
  BY <1>0, <1>4, OwnershipSpawn
<1>5. CASE Join(d)
  BY <1>0, <1>5, OwnershipKept DEF Join, Owning, InActor, SpawnPC, sharedVars
<1>6. CASE Joined(d)
  BY <1>0, <1>6, OwnershipKept DEF Joined, Owning, InActor, SpawnPC, sharedVars, spawnVars
<1>7. QED
  BY <1>1, <1>2, <1>3, <1>4, <1>5, <1>6 DEF DestroyerStep

\* activated_ is a lock with at most one owner in every reachable state.
THEOREM OwnershipInvariant == Spec => []Ownership
<1>1. Init => Ownership
  BY DEF Init, Ownership, Owns, Owning, InActor, SpawnPC, QueuedTotal, Storage
<1>2. TypeOK /\ Ownership /\ [Next]_vars => Ownership'
  <2>1. ASSUME Ownership, UNCHANGED vars
        PROVE  Ownership'
    BY <2>1 DEF Ownership, Owns, QueuedTotal, vars, sharedVars, spawnVars
  <2>2. QED
    BY <2>1, SenderOwnership, WorkerOwnership, DestroyerOwnership DEF Next
<1>3. QED
  BY <1>1, <1>2, TypeCorrect, PTL DEF Spec

\* docs/contents/schedulers.md, "at any time, there is at most one thread
\* executing the actor": for any number of threads and mailboxes, whatever the
\* hook answers and however destruction races with pushes.
THEOREM AtMostOneExecutor == Spec => []SingleExecutor
<1>1. TypeOK /\ Ownership => SingleExecutor
  <2>1. \A w \in Workers : w \in Thread /\ (pc[w] \in InActor => Owns(w))
    BY DEF Thread, Owning, Owns
  <2>2. QED
    BY <2>1 DEF Ownership, SingleExecutor
<1>2. QED
  BY <1>1, TypeCorrect, OwnershipInvariant, PTL

(***************************************************************************)
(* Handlers run on a live instance.  The labels of HandlerSeesLiveInstance *)
(* are extended to every label reached with the instance alive and left    *)
(* before the lock is released.                                            *)
(***************************************************************************)
LivePC == {"reset", "limit", "pull", "execute", "sub", "unlock"}
Live == \A w \in Workers : pc[w] \in LivePC => alive

\* A step that leaves the instance alone keeps Live when the thread that moves
\* enters the live labels only with the instance alive.
LEMMA LiveKept ==
  ASSUME TypeOK, Live, NEW t \in Thread, NEW label, Goto(t, label), alive' = alive,
         t \in Workers /\ label \in LivePC => pc[t] \in LivePC \/ alive
  PROVE  Live'
  BY DEF TypeOK, Live, Goto, Thread

\* The steps of senders and of AsyncDestroy leave the instance alone.
LEMMA OthersLive ==
  ASSUME TypeOK, Live,
         \/ \E s \in Senders : SenderStep(s)
         \/ \E d \in Destroyers : DestroyerStep(d)
  PROVE  Live'
<1>1. PICK t \in Senders \cup Destroyers : SenderStep(t) \/ DestroyerStep(t)
  OBVIOUS
<1>2. alive' = alive /\ (UNCHANGED pc \/ \E label : Goto(t, label))
  BY <1>1 DEF SenderStep, DestroyerStep, PushMessage, Publish, Count, Activate, Spawn, Schedule,
     Associate, Enqueue, Refuse, BeginDestroy, CountDestroy, Join, Joined, sharedVars
<1>3. t \in Thread /\ t \notin Workers
  BY ThreadAssumption DEF Thread
<1>4. CASE UNCHANGED pc
  BY <1>2, <1>4 DEF Live
<1>5. CASE \E label : Goto(t, label)
  BY <1>2, <1>3, <1>5, LiveKept
<1>6. QED
  BY <1>2, <1>4, <1>5

\* Only Reset destroys the instance, and its worker is then the only owner.
LEMMA WorkerLive ==
  ASSUME TypeOK, Ownership, Live, NEW w \in Workers, WorkerStep(w)
  PROVE  Live'
<1>0. w \in Thread
  BY DEF Thread
<1>1. CASE Reset(w)
  <2>1. Owns(w)
    BY <1>1 DEF Reset, Owns, Owning, InActor, SpawnPC
  <2>2. \A v \in Workers : v # w => pc[v] \notin LivePC
    BY <1>0, <2>1 DEF Ownership, Owns, Owning, InActor, SpawnPC, LivePC, Thread
  <2>3. pc' = [pc EXCEPT ![w] = "unlockDead"]
    BY <1>1 DEF Reset, Goto
  <2>4. \A v \in Workers : pc'[v] \notin LivePC
    BY <1>0, <2>2, <2>3 DEF TypeOK, LivePC, Thread
  <2>5. QED
    BY <2>4 DEF Live
<1>2. CASE Enter(w)
  <2>1. alive' = alive
    BY <1>2 DEF Enter, sharedVars
  <2>2. CASE alive
    BY <2>1, <2>2 DEF Live
  <2>3. CASE ~alive
    BY <1>0, <1>2, <2>1, <2>3, LiveKept DEF Enter, LivePC
  <2>4. QED
    BY <2>2, <2>3
<1>3. CASE Limit(w) \/ Pull(w) \/ NextMailbox(w) \/ Execute(w) \/ Sub(w)
  <2>1. alive' = alive /\ pc[w] \in LivePC
    BY <1>3 DEF Limit, Pull, NextMailbox, Execute, Sub, sharedVars, LivePC
  <2>2. UNCHANGED pc \/ \E label : Goto(w, label)
    BY <1>3 DEF Limit, Pull, NextMailbox, Execute, Sub
  <2>3. QED
    BY <1>0, <2>1, <2>2, LiveKept DEF Live
<1>4. CASE \/ \E st \in Storage : Dequeue(w, st)
           \/ UnlockDead(w) \/ SubDead(w) \/ Unlock(w) \/ Recheck(w)
           \/ Activate(w) \/ Spawn(w) \/ Finish(w) \/ Leave(w)
  <2>1. alive' = alive
    BY <1>4 DEF Dequeue, UnlockDead, SubDead, Unlock, Recheck, Activate, Spawn, Schedule, Associate,
       Enqueue, Refuse, Finish, Leave, sharedVars
  <2>2. PICK label \in SpawnPC \cup {"enter", "subDead", "finish", "leave", "recheck", "cas", "idle",
                                     AfterActivate(w)} : Goto(w, label)
    BY <1>4 DEF Dequeue, UnlockDead, SubDead, Unlock, Recheck, Activate, Spawn, Schedule, Associate,
       Enqueue, Refuse, Finish, Leave, SpawnPC
  <2>3. label \notin LivePC
    BY DEF LivePC, AfterActivate, SpawnPC
  <2>4. QED
    BY <1>0, <2>1, <2>2, <2>3, LiveKept
<1>5. QED
  BY <1>1, <1>2, <1>3, <1>4 DEF WorkerStep

\* Between the test of user_class_instance_ and the release of the lock it is not reset.
LEMMA LiveInvariant == Spec => []Live
<1>1. Init => Live
  BY DEF Init, Live
<1>2. TypeOK /\ Ownership /\ Live /\ [Next]_vars => Live'
  <2>1. ASSUME Live, UNCHANGED vars
        PROVE  Live'
    BY <2>1 DEF Live, vars, sharedVars
  <2>2. QED
    BY <2>1, OthersLive, WorkerLive DEF Next
<1>3. QED
  BY <1>1, <1>2, TypeCorrect, OwnershipInvariant, PTL DEF Spec

\* PullMailboxAndRun never runs a handler after user_class_instance_.reset(),
\* for any number of threads and however AsyncDestroy races with the activations.
THEOREM HandlersRunOnLiveInstance == Spec => []HandlerSeesLiveInstance
<1>1. Live => HandlerSeesLiveInstance
  BY DEF Live, LivePC, HandlerSeesLiveInstance
<1>2. QED
  BY <1>1, LiveInvariant, PTL

(***************************************************************************)
(* The scope and the preallocated slot.  SlotExclusive and                 *)
(* NothingRunsAfterJoin count activations; the sets behind the numbers are *)
(* what the steps change.                                                  *)
(***************************************************************************)

\* The one activation that may occupy the slot is being spawned by one thread, queued or
\* run by one worker, and in_use_ is set exactly while it is there.
SlotHeldOnce ==
  /\ \A w \in Workers : pc[w] \in {"idle", "leave"} => storage[w] = "heap"
  /\ \A t \in Thread : spawning[t] = "slot" => pc[t] \in {"associate", "enqueue", "refused"}
  /\ slotInUse <=> \/ queued["slot"] = 1
                   \/ \E w \in Workers : storage[w] = "slot"
                   \/ \E t \in Thread : spawning[t] = "slot"
  /\ queued["slot"] = 1 => (\A w \in Workers : storage[w] # "slot")
                             /\ (\A t \in Thread : spawning[t] # "slot")
  /\ \A w \in Workers, t \in Thread : storage[w] = "slot" => spawning[t] # "slot"
  /\ \A v, w \in Workers : storage[v] = "slot" /\ storage[w] = "slot" => v = w
  /\ \A t, u \in Thread : spawning[t] = "slot" /\ spawning[u] = "slot" => t = u

\* async_scope_ counts the activations that a thread is about to enqueue, are queued or run
\* by a worker, and none once join() has completed.
Starting == {t \in Thread : pc[t] = "enqueue"}
ScopeCounts ==
  /\ IsFiniteSet(Busy) /\ IsFiniteSet(Starting)
  /\ scopeCount = QueuedTotal + Cardinality(Busy) + Cardinality(Starting)
  /\ scopeState = "joined" => scopeCount = 0

\* What a step leaves alone that neither spawns nor takes nor ends an activation; a join
\* completes at once only on an empty scope.
SpawnKept ==
  /\ UNCHANGED <<scopeCount, queued, slotInUse, spawning, storage>>
  /\ \A w \in Workers : pc'[w] = "idle" <=> pc[w] = "idle"
  /\ \A w \in Workers : pc'[w] = "leave" => pc[w] = "leave"
  /\ \A t \in Thread : pc[t] \in {"associate", "enqueue", "refused"} => pc'[t] = pc[t]
  /\ \A t \in Thread : pc'[t] = "enqueue" => pc[t] = "enqueue"
  /\ UNCHANGED scopeState \/ scopeState' # "joined" \/ scopeCount = 0

\* The other steps are those of the spawn, Dequeue, Finish and Leave.
LEMMA SpawnFrame ==
  ASSUME TypeOK, Next
  PROVE  \/ \E t \in Thread : Spawn(t)
         \/ \E w \in Workers, st \in Storage : Dequeue(w, st)
         \/ \E w \in Workers : Finish(w) \/ Leave(w)
         \/ SpawnKept
<1>1. ASSUME NEW t \in Senders \cup Destroyers, SenderStep(t) \/ DestroyerStep(t), ~Spawn(t)
      PROVE  SpawnKept
  <2>1. /\ UNCHANGED <<scopeCount, queued, slotInUse, spawning, storage>>
        /\ UNCHANGED scopeState \/ scopeState' # "joined" \/ scopeCount = 0
    BY <1>1 DEF SenderStep, DestroyerStep, PushMessage, Publish, Count, Activate, BeginDestroy,
       CountDestroy, Join, Joined, spawnVars, workerVars
  <2>2. t \in Thread /\ t \notin Workers
    BY ThreadAssumption DEF Thread
  <2>3. /\ pc[t] \notin {"associate", "enqueue", "refused"}
        /\ UNCHANGED pc \/ \E label : label # "enqueue" /\ Goto(t, label)
    BY <1>1, <2>2 DEF SenderStep, DestroyerStep, PushMessage, Publish, Count, Activate,
       BeginDestroy, CountDestroy, Join, Joined, AfterActivate
  <2>4. /\ \A u \in Thread : u # t => pc'[u] = pc[u]
        /\ pc'[t] = "enqueue" => pc[t] = "enqueue"
    BY <2>2, <2>3 DEF Goto, TypeOK
  <2>5. QED
    BY <2>1, <2>2, <2>3, <2>4 DEF SpawnKept, Thread
<1>2. ASSUME NEW w \in Workers, WorkerStep(w), ~Spawn(w), ~Finish(w), ~Leave(w),
             ~\E st \in Storage : Dequeue(w, st)
      PROVE  SpawnKept
  <2>1. /\ UNCHANGED <<scopeCount, queued, slotInUse, spawning, storage, scopeState>>
        /\ pc[w] \notin {"idle", "associate", "enqueue", "refused"}
    BY <1>2 DEF WorkerStep, Enter, Reset, UnlockDead, SubDead, Limit, Pull, NextMailbox, Execute,
       Sub, Unlock, Recheck, Activate, spawnVars, workerVars
  <2>2. UNCHANGED pc \/ \E label : label \notin {"idle", "leave", "enqueue"} /\ Goto(w, label)
    BY <1>2, ThreadAssumption DEF WorkerStep, Enter, Reset, UnlockDead, SubDead, Limit, Pull,
       NextMailbox, Execute, Sub, Unlock, Recheck, Activate, AfterActivate
  <2>3. w \in Thread
    BY DEF Thread
  <2>4. /\ \A u \in Thread : u # w => pc'[u] = pc[u]
        /\ pc'[w] \in {"idle", "leave", "enqueue"} => pc'[w] = pc[w]
    BY <2>2, <2>3 DEF Goto, TypeOK
  <2>5. QED
    BY <2>1, <2>3, <2>4 DEF SpawnKept, Thread
<1>3. QED
  BY <1>1, <1>2 DEF Next, Thread

\* The slot passes from the thread that spawns an activation to the queue, to the worker,
\* and is free again when that worker has finished or when the scope has refused it.
LEMMA SlotStep ==
  ASSUME TypeOK, Ownership, SlotHeldOnce, Next
  PROVE  SlotHeldOnce'
<1>0. /\ queued \in [Storage -> Nat] /\ queued["slot"] \in {0, 1} /\ queued["heap"] \in Nat
      /\ slotInUse \in BOOLEAN /\ "slot" \in Storage /\ "heap" \in Storage
      /\ storage \in [Workers -> Storage] /\ spawning \in [Thread -> Storage]
  BY DEF TypeOK, Ownership, QueuedTotal, Storage
<1>1. ASSUME NEW t \in Thread, NEW label, Goto(t, label)
      PROVE  \A u \in Thread : pc'[u] = IF u = t THEN label ELSE pc[u]
  BY <1>1 DEF Goto, TypeOK
<1>2. ASSUME NEW t \in Thread, Schedule(t) PROVE SlotHeldOnce'
  <2>1. /\ pc[t] = "schedule" /\ UNCHANGED <<queued, storage>> /\ slotInUse' = TRUE
        /\ \A u \in Thread : spawning'[u] = IF u = t THEN Allocate ELSE spawning[u]
        /\ \A u \in Thread : pc'[u] = IF u = t THEN "associate" ELSE pc[u]
    BY <1>0, <1>1, <1>2 DEF Schedule, workerVars
  <2>2. spawning[t] = "heap"
    BY <1>0, <2>1 DEF SlotHeldOnce, Storage
  <2>3. CASE slotInUse
    BY <2>1, <2>2, <2>3 DEF SlotHeldOnce, Allocate, Thread
  <2>4. CASE ~slotInUse
    BY <2>1, <2>2, <2>4 DEF SlotHeldOnce, Allocate, Thread
  <2>5. QED
    BY <2>3, <2>4
<1>3. ASSUME NEW t \in Thread, Associate(t) PROVE SlotHeldOnce'
  <2>1. pc[t] = "associate" /\ UNCHANGED <<queued, slotInUse, spawning, storage>>
    BY <1>3 DEF Associate, workerVars
  <2>2. PICK label \in {"enqueue", "refused"} : Goto(t, label)
    BY <1>3 DEF Associate
  <2>3. \A u \in Thread : pc'[u] = IF u = t THEN label ELSE pc[u]
    BY <1>1, <2>2
  <2>4. QED
    BY <2>1, <2>3 DEF SlotHeldOnce, Thread
<1>4. ASSUME NEW t \in Thread, Enqueue(t) PROVE SlotHeldOnce'
  <2>1. /\ pc[t] = "enqueue" /\ UNCHANGED <<slotInUse, storage>>
        /\ \A u \in Thread : spawning'[u] = IF u = t THEN "heap" ELSE spawning[u]
        /\ \A u \in Thread : pc'[u] = IF u = t THEN AfterActivate(t) ELSE pc[u]
        /\ queued' = [queued EXCEPT ![spawning[t]] = @ + 1]
    BY <1>0, <1>1, <1>4 DEF Enqueue, workerVars
  <2>2. t \in Workers => AfterActivate(t) = "finish"
    BY ThreadAssumption DEF AfterActivate
  <2>3. CASE spawning[t] = "slot"
    <3>1. queued["slot"] = 0 /\ queued'["slot"] = 1
      BY <1>0, <2>1, <2>3 DEF SlotHeldOnce
    <3>2. QED
      BY <2>1, <2>2, <2>3, <3>1 DEF SlotHeldOnce, Thread
  <2>4. CASE spawning[t] = "heap"
    <3>1. queued'["slot"] = queued["slot"]
      BY <1>0, <2>1, <2>4
    <3>2. QED
      BY <2>1, <2>2, <2>4, <3>1 DEF SlotHeldOnce, Thread
  <2>5. QED
    BY <1>0, <2>3, <2>4 DEF Storage
<1>5. ASSUME NEW t \in Thread, Refuse(t) PROVE SlotHeldOnce'
  <2>1. /\ pc[t] = "refused" /\ UNCHANGED <<queued, storage>>
        /\ slotInUse' = (slotInUse /\ spawning[t] # "slot")
        /\ \A u \in Thread : spawning'[u] = IF u = t THEN "heap" ELSE spawning[u]
        /\ \A u \in Thread : pc'[u] = IF u = t THEN AfterActivate(t) ELSE pc[u]
    BY <1>0, <1>1, <1>5 DEF Refuse, Deallocate, workerVars
  <2>2. t \in Workers => AfterActivate(t) = "finish"
    BY ThreadAssumption DEF AfterActivate
  <2>3. CASE spawning[t] = "slot"
    <3>1. slotInUse' = FALSE
      BY <2>1, <2>3
    <3>2. queued'["slot"] # 1 /\ (\A w \in Workers : storage'[w] # "slot")
            /\ (\A u \in Thread : spawning'[u] # "slot")
      BY <2>1, <2>3 DEF SlotHeldOnce
    <3>3. QED
      BY <2>1, <2>2, <3>1, <3>2 DEF SlotHeldOnce, Thread
  <2>4. CASE spawning[t] # "slot"
    <3>1. slotInUse' = slotInUse
      BY <1>0, <2>1, <2>4
    <3>2. \A u \in Thread : spawning'[u] = "slot" <=> spawning[u] = "slot"
      BY <2>1, <2>4
    <3>3. QED
      BY <2>1, <2>2, <2>4, <3>1, <3>2 DEF SlotHeldOnce, Thread
  <2>5. QED
    BY <2>3, <2>4
<1>6. ASSUME NEW w \in Workers, NEW st \in Storage, Dequeue(w, st) PROVE SlotHeldOnce'
  <2>1. /\ queued[st] > 0 /\ queued' = [queued EXCEPT ![st] = @ - 1]
        /\ pc[w] = "idle" /\ UNCHANGED <<slotInUse, spawning>>
        /\ \A v \in Workers : storage'[v] = IF v = w THEN st ELSE storage[v]
    BY <1>0, <1>6 DEF Dequeue
  <2>2. \A u \in Thread : pc'[u] = IF u = w THEN "enter" ELSE pc[u]
    BY <1>1, <1>6 DEF Dequeue, Thread
  <2>3. CASE st = "slot"
    <3>1. queued["slot"] = 1 /\ queued'["slot"] = 0
      BY <1>0, <2>1, <2>3
    <3>2. QED
      BY <2>1, <2>2, <2>3, <3>1 DEF SlotHeldOnce, Thread
  <2>4. CASE st = "heap"
    <3>1. queued'["slot"] = queued["slot"]
      BY <1>0, <2>1, <2>4
    <3>2. QED
      BY <2>1, <2>2, <2>4, <3>1 DEF SlotHeldOnce, Thread
  <2>5. QED
    BY <2>3, <2>4 DEF Storage
<1>7. ASSUME NEW w \in Workers, Finish(w) PROVE SlotHeldOnce'
  <2>1. /\ pc[w] = "finish" /\ UNCHANGED <<queued, spawning>>
        /\ slotInUse' = (slotInUse /\ storage[w] # "slot")
        /\ \A v \in Workers : storage'[v] = IF v = w THEN "heap" ELSE storage[v]
    BY <1>0, <1>7 DEF Finish, Deallocate
  <2>2. \A u \in Thread : pc'[u] = IF u = w THEN "leave" ELSE pc[u]
    BY <1>1, <1>7 DEF Finish, Thread
  <2>3. CASE storage[w] = "slot"
    <3>1. slotInUse' = FALSE
      BY <2>1, <2>3
    <3>2. queued'["slot"] # 1 /\ (\A v \in Workers : storage'[v] # "slot")
            /\ (\A u \in Thread : spawning'[u] # "slot")
      BY <2>1, <2>3 DEF SlotHeldOnce
    <3>3. QED
      BY <2>1, <2>2, <3>1, <3>2 DEF SlotHeldOnce, Thread
  <2>4. CASE storage[w] # "slot"
    <3>1. slotInUse' = slotInUse
      BY <1>0, <2>1, <2>4
    <3>2. \A v \in Workers : storage'[v] = "slot" <=> storage[v] = "slot"
      BY <2>1, <2>4
    <3>3. QED
      BY <2>1, <2>2, <2>4, <3>1, <3>2 DEF SlotHeldOnce, Thread
  <2>5. QED
    BY <2>3, <2>4
<1>8. ASSUME NEW w \in Workers, Leave(w) PROVE SlotHeldOnce'
  <2>1. pc[w] = "leave" /\ UNCHANGED <<queued, spawning, slotInUse, storage>>
    BY <1>8 DEF Leave, workerVars
  <2>2. \A u \in Thread : pc'[u] = IF u = w THEN "idle" ELSE pc[u]
    BY <1>1, <1>8 DEF Leave, Thread
  <2>3. QED
    BY <2>1, <2>2 DEF SlotHeldOnce, Thread
<1>9. CASE SpawnKept
  BY <1>9 DEF SpawnKept, SlotHeldOnce
<1>10. QED
  BY <1>2, <1>3, <1>4, <1>5, <1>6, <1>7, <1>8, <1>9, SpawnFrame DEF Spawn

\* Associate adds one activation to the scope, which the thread enqueues and a worker takes,
\* and Leave takes it out again; a joined scope has none, so that nothing can leave it or be
\* passed on.
LEMMA ScopeStep ==
  ASSUME TypeOK, Ownership, ScopeCounts, Next
  PROVE  ScopeCounts'
<1>0. /\ queued \in [Storage -> Nat] /\ scopeCount \in Int
      /\ "slot" \in Storage /\ "heap" \in Storage
      /\ QueuedTotal \in Nat /\ Cardinality(Busy) \in Nat /\ Cardinality(Starting) \in Nat
  BY FS_CardinalityType DEF TypeOK, ScopeCounts, Storage, QueuedTotal
<1>1. ASSUME NEW t \in Thread, NEW label, Goto(t, label)
      PROVE  \A u \in Thread : pc'[u] = IF u = t THEN label ELSE pc[u]
  BY <1>1 DEF Goto, TypeOK
<1>2. ASSUME NEW t \in Thread, Spawn(t) PROVE Busy' = Busy /\ scopeState' = scopeState
  BY <1>2, ThreadAssumption DEF Spawn, Schedule, Associate, Enqueue, Refuse, Goto, AfterActivate,
     TypeOK, Thread, Busy
<1>3. ASSUME NEW t \in Thread, Schedule(t) \/ Refuse(t) PROVE ScopeCounts'
  <2>1. UNCHANGED <<scopeCount, queued>> /\ pc[t] # "enqueue"
    BY <1>3 DEF Schedule, Refuse
  <2>2. PICK label : label # "enqueue" /\ Goto(t, label)
    BY <1>3 DEF Schedule, Refuse, AfterActivate
  <2>3. Starting' = Starting
    BY <1>1, <2>1, <2>2 DEF Starting
  <2>4. QED
    BY <1>2, <1>3, <2>1, <2>3 DEF ScopeCounts, QueuedTotal, Spawn
<1>4. ASSUME NEW t \in Thread, Associate(t) PROVE ScopeCounts'
  <2>1. pc[t] = "associate" /\ queued' = queued
    BY <1>4 DEF Associate
  <2>2. Busy' = Busy /\ scopeState' = scopeState /\ QueuedTotal' = QueuedTotal
    BY <1>2, <1>4, <2>1 DEF Spawn, QueuedTotal
  <2>3. CASE scopeState = "joined"
    <3>1. Goto(t, "refused") /\ scopeCount' = scopeCount
      BY <1>4, <2>3 DEF Associate
    <3>2. Starting' = Starting
      BY <1>1, <2>1, <3>1 DEF Starting
    <3>3. QED
      BY <2>2, <3>1, <3>2 DEF ScopeCounts
  <2>4. CASE scopeState # "joined"
    <3>1. Goto(t, "enqueue") /\ scopeCount' = scopeCount + 1
      BY <1>4, <2>4 DEF Associate
    <3>2. Starting' = Starting \cup {t} /\ t \notin Starting
      BY <1>1, <2>1, <3>1 DEF Starting
    <3>3. IsFiniteSet(Starting') /\ Cardinality(Starting') = Cardinality(Starting) + 1
      BY <3>2, FS_AddElement DEF ScopeCounts
    <3>4. QED
      BY <1>0, <2>2, <2>4, <3>1, <3>3 DEF ScopeCounts
  <2>5. QED
    BY <2>3, <2>4
<1>5. ASSUME NEW t \in Thread, Enqueue(t) PROVE ScopeCounts'
  <2>1. pc[t] = "enqueue" /\ scopeCount' = scopeCount /\ Goto(t, AfterActivate(t))
    BY <1>5 DEF Enqueue
  <2>2. Busy' = Busy /\ scopeState' = scopeState
    BY <1>2, <1>5 DEF Spawn
  <2>3. QueuedTotal = 0 /\ QueuedTotal' = 1
    BY <1>5, <2>1, EnqueueQueues DEF Ownership, Owns, Owning, SpawnPC
  <2>4. Starting' = Starting \ {t} /\ t \in Starting
    BY <1>1, <2>1 DEF Starting, AfterActivate
  <2>5. IsFiniteSet(Starting') /\ Cardinality(Starting') = Cardinality(Starting) - 1
    BY <2>4, FS_RemoveElement DEF ScopeCounts
  <2>6. QED
    BY <1>0, <2>1, <2>2, <2>3, <2>5 DEF ScopeCounts
<1>6. ASSUME NEW w \in Workers, NEW st \in Storage, Dequeue(w, st) PROVE ScopeCounts'
  <2>1. /\ queued[st] > 0 /\ queued' = [queued EXCEPT ![st] = @ - 1]
        /\ scopeCount' = scopeCount /\ scopeState' = scopeState
        /\ pc[w] = "idle" /\ Goto(w, "enter")
    BY <1>6 DEF Dequeue
  <2>2. Busy' = Busy \cup {w} /\ w \notin Busy /\ Starting' = Starting
    BY <1>1, <2>1 DEF Busy, Starting, Thread
  <2>3. IsFiniteSet(Busy') /\ Cardinality(Busy') = Cardinality(Busy) + 1
    BY <2>2, FS_AddElement DEF ScopeCounts
  <2>4. QueuedTotal' = QueuedTotal - 1
    <3>1. CASE st = "slot"
      BY <1>0, <2>1, <3>1 DEF QueuedTotal
    <3>2. CASE st = "heap"
      BY <1>0, <2>1, <3>2 DEF QueuedTotal
    <3>3. QED
      BY <3>1, <3>2 DEF Storage
  <2>5. QED
    BY <1>0, <2>1, <2>2, <2>3, <2>4 DEF ScopeCounts
<1>7. ASSUME NEW w \in Workers, Finish(w) PROVE ScopeCounts'
  <2>1. /\ UNCHANGED <<queued, scopeCount, scopeState>>
        /\ pc[w] = "finish" /\ Goto(w, "leave")
    BY <1>7 DEF Finish
  <2>2. Busy' = Busy /\ Starting' = Starting
    BY <1>1, <2>1 DEF Busy, Starting, Thread
  <2>3. QED
    BY <2>1, <2>2 DEF ScopeCounts, QueuedTotal
<1>8. ASSUME NEW w \in Workers, Leave(w) PROVE ScopeCounts'
  <2>1. /\ queued' = queued /\ scopeCount' = scopeCount - 1
        /\ scopeState' = IF scopeState = "joining" /\ scopeCount = 1 THEN "joined" ELSE scopeState
        /\ pc[w] = "leave" /\ Goto(w, "idle")
    BY <1>8 DEF Leave
  <2>2. Busy' = Busy \ {w} /\ w \in Busy /\ Starting' = Starting
    BY <1>1, <2>1 DEF Busy, Starting, Thread
  <2>3. /\ IsFiniteSet(Busy') /\ Cardinality(Busy') = Cardinality(Busy) - 1
        /\ Cardinality(Busy') \in Nat
    BY <2>2, FS_RemoveElement, FS_CardinalityType DEF ScopeCounts
  <2>4. QueuedTotal' = QueuedTotal
    BY <2>1 DEF QueuedTotal
  <2>5. QED
    BY <1>0, <2>1, <2>2, <2>3, <2>4 DEF ScopeCounts
<1>9. CASE SpawnKept
  <2>1. Busy' = Busy /\ QueuedTotal' = QueuedTotal /\ Starting' = Starting
    BY <1>9 DEF SpawnKept, Busy, QueuedTotal, Starting
  <2>2. QED
    BY <1>9, <2>1 DEF ScopeCounts, SpawnKept
<1>10. QED
  BY <1>3, <1>4, <1>5, <1>6, <1>7, <1>8, <1>9, SpawnFrame DEF Spawn

\* The activations, the scope that counts them and the slot that one of them may occupy
\* agree in every reachable state.
THEOREM ScopeInvariant == Spec => [](SlotHeldOnce /\ ScopeCounts)
<1>1. Init => SlotHeldOnce /\ ScopeCounts
  <2> SUFFICES ASSUME Init PROVE SlotHeldOnce /\ ScopeCounts
    OBVIOUS
  <2>1. SlotHeldOnce
    BY DEF Init, SlotHeldOnce, Storage
  <2>2. Busy = {} /\ Starting = {}
    BY DEF Init, Busy, Starting, Thread
  <2>3. ScopeCounts
    BY <2>2, FS_EmptySet DEF Init, ScopeCounts, QueuedTotal, Storage
  <2>4. QED
    BY <2>1, <2>3
<1>2. TypeOK /\ Ownership /\ SlotHeldOnce /\ ScopeCounts /\ [Next]_vars
        => (SlotHeldOnce /\ ScopeCounts)'
  <2>1. ASSUME SlotHeldOnce, ScopeCounts, UNCHANGED vars
        PROVE  SlotHeldOnce' /\ ScopeCounts'
    BY <2>1 DEF SlotHeldOnce, ScopeCounts, Busy, Starting, QueuedTotal, vars, spawnVars, workerVars
  <2>2. QED
    BY <2>1, SlotStep, ScopeStep
<1>3. QED
  BY <1>1, <1>2, TypeCorrect, OwnershipInvariant, PTL DEF Spec

\* The ActivationContext's preallocated slot is never given to two activations: the
\* number of its users is what in_use_ says.
THEOREM SlotIsExclusive == Spec => []SlotExclusive
<1>1. TypeOK /\ Ownership /\ SlotHeldOnce => SlotExclusive
  <2> SUFFICES ASSUME TypeOK, Ownership, SlotHeldOnce
               PROVE  SlotExclusive
    OBVIOUS
  <2> DEFINE running == {w \in Busy : storage[w] = "slot"}
             spawners == {t \in Thread : spawning[t] = "slot"}
  <2>1. queued["slot"] \in {0, 1}
    BY DEF TypeOK, Ownership, QueuedTotal, Storage
  <2>2. running = {w \in Workers : storage[w] = "slot"}
    BY DEF SlotHeldOnce, Busy
  <2>3. /\ running = {} \/ \E w \in Workers : running = {w}
        /\ spawners = {} \/ \E t \in Thread : spawners = {t}
    BY <2>2 DEF SlotHeldOnce
  <2>4. /\ Cardinality(running) = IF running = {} THEN 0 ELSE 1
        /\ Cardinality(spawners) = IF spawners = {} THEN 0 ELSE 1
    BY <2>3, FS_EmptySet, FS_Singleton
  <2>5. slotInUse <=> queued["slot"] = 1 \/ running # {} \/ spawners # {}
    BY <2>2 DEF SlotHeldOnce
  <2>6. /\ queued["slot"] = 1 => running = {} /\ spawners = {}
        /\ running # {} => spawners = {}
    BY <2>2 DEF SlotHeldOnce
  <2>7. SlotUsers = queued["slot"] + Cardinality(running) + Cardinality(spawners)
    BY DEF SlotUsers
  <2> HIDE DEF running, spawners
  <2>8. QED
    BY <2>1, <2>4, <2>5, <2>6, <2>7 DEF SlotExclusive
<1>2. QED
  BY <1>1, TypeCorrect, OwnershipInvariant, ScopeInvariant, PTL

(***************************************************************************)
(* Messages of a sender stay in order.  SenderOrder compares what was      *)
(* executed with what waits; that needs the order inside a mailbox and the *)
(* message in a worker's hands.                                            *)
(***************************************************************************)

\* A mailbox holds messages for it that were sent, those of each sender in order.
MailboxSorted ==
  \A k \in Mailboxes :
    /\ \A i \in 1 .. Len(mailbox[k]) :
         mailbox[k][i][3] = k /\ mailbox[k][i][2] <= sent[mailbox[k][i][1]]
    /\ \A i, j \in 1 .. Len(mailbox[k]) :
         i < j /\ mailbox[k][i][1] = mailbox[k][j][1] => mailbox[k][i][2] < mailbox[k][j][2]

\* A message that was taken out is older than those of its sender that are left.
Taken(m) ==
  /\ m \in Message /\ m[2] <= sent[m[1]]
  /\ \A i \in 1 .. Len(mailbox[m[3]]) :
       mailbox[m[3]][i][1] = m[1] => m[2] < mailbox[m[3]][i][2]

InOrder ==
  /\ MailboxSorted
  /\ \A w \in Workers : IF pc[w] = "execute" THEN Taken(current[w]) ELSE current[w] = NoMessage
  /\ \A m \in done : Taken(m)
  /\ \A m \in done, w \in Workers :
       pc[w] = "execute" /\ current[w][1] = m[1] /\ current[w][3] = m[3] => m[2] < current[w][2]

\* Only a push, Pull and Execute move messages.
LEMMA MessageFrame ==
  ASSUME TypeOK, Next
  PROVE  \/ \E s \in Senders, k \in Mailboxes : PushMessage(s, k)
         \/ \E w \in Workers : Pull(w)
         \/ \E w \in Workers : Execute(w)
         \/ /\ UNCHANGED <<mailbox, sent, current, done>>
            /\ \A w \in Workers : pc'[w] = "execute" <=> pc[w] = "execute"
<1> DEFINE Kept == /\ UNCHANGED <<mailbox, sent, current, done>>
                   /\ \A w \in Workers : pc'[w] = "execute" <=> pc[w] = "execute"
<1>1. ASSUME NEW t \in Senders \cup Destroyers,
             \/ SenderStep(t) /\ ~\E k \in Mailboxes : PushMessage(t, k)
             \/ DestroyerStep(t)
      PROVE  Kept
  <2>1. UNCHANGED <<mailbox, sent, current, done>> /\ \E label : Goto(t, label)
    BY <1>1 DEF SenderStep, DestroyerStep, Publish, Count, Activate, Spawn, Schedule, Associate,
       Enqueue, Refuse, BeginDestroy, CountDestroy, Join, Joined, sharedVars, senderVars, workerVars
  <2>2. t \notin Workers
    BY ThreadAssumption
  <2>3. QED
    BY <2>1, <2>2 DEF Goto, TypeOK, Thread
<1>2. ASSUME NEW w \in Workers, WorkerStep(w), ~Pull(w), ~Execute(w)
      PROVE  Kept
  <2>1. UNCHANGED <<mailbox, sent, current, done>> /\ pc[w] # "execute"
    BY <1>2 DEF WorkerStep, Dequeue, Enter, Reset, UnlockDead, SubDead, Limit, NextMailbox, Sub,
       Unlock, Recheck, Activate, Spawn, Schedule, Associate, Enqueue, Refuse, Finish, Leave,
       sharedVars, senderVars, workerVars
  <2>2. UNCHANGED pc \/ \E label : label # "execute" /\ Goto(w, label)
    BY <1>2 DEF WorkerStep, Dequeue, Enter, Reset, UnlockDead, SubDead, Limit, NextMailbox, Sub,
       Unlock, Recheck, Activate, Spawn, Schedule, Associate, Enqueue, Refuse, Finish, Leave,
       AfterActivate
  <2>3. QED
    BY <2>1, <2>2 DEF Goto, TypeOK, Thread
<1>3. QED
  BY <1>1, <1>2 DEF Next

\* A push puts the newest message of its sender at the end of the mailbox.
LEMMA PushInOrder ==
  ASSUME TypeOK, InOrder, NEW s \in Senders, NEW k \in Mailboxes, PushMessage(s, k)
  PROVE  InOrder'
<1> DEFINE new == <<s, sent[s] + 1, k>>
<1>0. /\ sent \in [Senders -> Nat] /\ mailbox \in [Mailboxes -> Seq(Message)]
      /\ sent' = [sent EXCEPT ![s] = @ + 1]
      /\ current' = current /\ done' = done
  BY DEF TypeOK, PushMessage, workerVars
<1>1. \A x \in Senders : sent[x] <= sent'[x] /\ sent'[x] \in Nat
  BY <1>0
<1>2. \A w \in Workers : pc'[w] = "execute" <=> pc[w] = "execute"
  BY ThreadAssumption DEF PushMessage, Goto, TypeOK, Thread
<1>3. \A m \in Message : m[1] \in Senders /\ m[2] \in Nat /\ m[3] \in Mailboxes
  BY DEF Message
<1>4. CASE UNCHANGED mailbox
  <2>1. \A m : Taken(m) => Taken(m)'
    BY <1>0, <1>1, <1>3, <1>4 DEF Taken
  <2>2. MailboxSorted'
    <3>1. \A j \in Mailboxes : \A i \in 1 .. Len(mailbox[j]) : mailbox[j][i] \in Message
      BY <1>0
    <3>2. QED
      BY <1>0, <1>1, <1>3, <1>4, <3>1, SMTT(60) DEF InOrder, MailboxSorted
  <2>3. QED
    BY <1>0, <1>2, <2>1, <2>2 DEF InOrder
<1>5. CASE mailbox' = [mailbox EXCEPT ![k] = Append(@, new)]
  <2>0. new \in Message /\ new[1] = s /\ new[2] = sent'[s] /\ new[3] = k
        /\ sent'[s] = sent[s] + 1
    BY <1>0 DEF Message
  <2> HIDE DEF new
  <2>1. /\ Len(mailbox'[k]) = Len(mailbox[k]) + 1
        /\ \A i \in 1 .. Len(mailbox[k]) : mailbox'[k][i] = mailbox[k][i]
        /\ mailbox'[k][Len(mailbox[k]) + 1] = new
        /\ \A j \in Mailboxes : j # k => mailbox'[j] = mailbox[j]
        /\ Len(mailbox[k]) \in Nat
    BY <1>0, <1>5
  <2>2. \A j \in Mailboxes : \A i \in 1 .. Len(mailbox[j]) : mailbox[j][i] \in Message
    BY <1>0
  <2>3. \A m : Taken(m) => Taken(m)'
    <3> SUFFICES ASSUME NEW m, Taken(m) PROVE Taken(m)'
      OBVIOUS
    <3>1. m \in Message /\ m[1] \in Senders /\ m[2] \in Nat /\ m[3] \in Mailboxes
      BY <1>3 DEF Taken
    <3>2. m[2] <= sent'[m[1]] /\ (m[1] = s => m[2] < sent'[s])
      BY <1>0, <1>1, <2>0, <3>1 DEF Taken
    <3>3. ASSUME NEW i \in 1 .. Len(mailbox'[m[3]]), mailbox'[m[3]][i][1] = m[1]
          PROVE  m[2] < mailbox'[m[3]][i][2]
      <4>1. CASE m[3] # k
        BY <2>1, <3>1, <3>3, <4>1 DEF Taken
      <4>2. CASE m[3] = k /\ i \in 1 .. Len(mailbox[k])
        BY <2>1, <3>1, <3>3, <4>2 DEF Taken
      <4>3. CASE m[3] = k /\ i = Len(mailbox[k]) + 1
        BY <2>0, <2>1, <3>2, <3>3, <4>3
      <4>4. QED
        BY <2>1, <4>1, <4>2, <4>3
    <3>4. QED
      BY <3>1, <3>2, <3>3 DEF Taken
  <2>4. MailboxSorted'
    <3>1. ASSUME NEW j \in Mailboxes, NEW i \in 1 .. Len(mailbox'[j])
          PROVE  mailbox'[j][i][3] = j /\ mailbox'[j][i][2] <= sent'[mailbox'[j][i][1]]
      <4>1. CASE j # k \/ i \in 1 .. Len(mailbox[k])
        <5>1. mailbox'[j][i] = mailbox[j][i] /\ i \in 1 .. Len(mailbox[j])
          BY <2>1, <4>1
        <5>2. mailbox[j][i] \in Message
          BY <2>2, <5>1
        <5>3. QED
          BY <1>0, <1>1, <1>3, <5>1, <5>2 DEF InOrder, MailboxSorted
      <4>2. CASE j = k /\ i = Len(mailbox[k]) + 1
        BY <1>1, <2>0, <2>1, <4>2
      <4>3. QED
        BY <2>1, <4>1, <4>2
    <3>2. ASSUME NEW j \in Mailboxes, NEW h \in 1 .. Len(mailbox'[j]),
                 NEW i \in 1 .. Len(mailbox'[j]),
                 h < i, mailbox'[j][h][1] = mailbox'[j][i][1]
          PROVE  mailbox'[j][h][2] < mailbox'[j][i][2]
      <4>1. CASE j # k \/ i \in 1 .. Len(mailbox[k])
        <5>1. /\ mailbox'[j][i] = mailbox[j][i] /\ i \in 1 .. Len(mailbox[j])
              /\ mailbox'[j][h] = mailbox[j][h] /\ h \in 1 .. Len(mailbox[j])
          BY <2>1, <3>2, <4>1
        <5>2. QED
          BY <3>2, <5>1 DEF InOrder, MailboxSorted
      <4>2. CASE j = k /\ i = Len(mailbox[k]) + 1
        <5>1. h \in 1 .. Len(mailbox[k]) /\ mailbox'[k][h] = mailbox[k][h] /\ mailbox[k][h] \in Message
          BY <2>1, <2>2, <3>2, <4>2
        <5>2. mailbox[k][h][1] = s /\ mailbox[k][h][2] <= sent[s] /\ mailbox[k][h][2] \in Nat
          BY <1>3, <2>0, <2>1, <3>2, <4>2, <5>1 DEF InOrder, MailboxSorted
        <5>3. QED
          BY <1>0, <2>0, <2>1, <4>2, <5>1, <5>2
      <4>3. QED
        BY <2>1, <4>1, <4>2
    <3>3. QED
      BY <3>1, <3>2 DEF MailboxSorted
  <2>5. QED
    BY <1>0, <1>2, <2>3, <2>4 DEF InOrder
<1>6. QED
  BY <1>4, <1>5 DEF PushMessage

\* Pull takes the oldest message, by the only worker that may have one in hand.
LEMMA PullInOrder ==
  ASSUME TypeOK, Ownership, InOrder, NEW w \in Workers, Pull(w)
  PROVE  InOrder'
<1>a. PICK k \in Mailboxes : k = index[w]
  BY DEF TypeOK
<1>b. mailbox \in [Mailboxes -> Seq(Message)] /\ mailbox[k] # <<>>
  BY <1>a DEF TypeOK, Pull, Ready
<1>c. PICK m \in Message : m = Head(mailbox[k])
  BY <1>b
<1>0. /\ mailbox' = [mailbox EXCEPT ![k] = Tail(@)]
      /\ current' = [current EXCEPT ![w] = m] /\ pc' = [pc EXCEPT ![w] = "execute"]
      /\ sent' = sent /\ done' = done
  BY <1>a, <1>c DEF Pull, Goto, senderVars
<1>1. \A v \in Workers : v # w => pc[v] # "execute"
  BY DEF Pull, Ownership, Owns, Owning, InActor, SpawnPC, Thread
<1>2. \A v \in Workers : /\ pc'[v] = (IF v = w THEN "execute" ELSE pc[v])
                         /\ current'[v] = (IF v = w THEN m ELSE current[v])
  BY <1>0 DEF TypeOK, Thread
<1>3. /\ m = mailbox[k][1] /\ m \in Message /\ Len(mailbox[k]) \in Nat /\ Len(mailbox[k]) >= 1
      /\ Len(mailbox'[k]) = Len(mailbox[k]) - 1
      /\ \A i \in 1 .. Len(mailbox'[k]) : mailbox'[k][i] = mailbox[k][i + 1]
      /\ \A j \in Mailboxes : j # k => mailbox'[j] = mailbox[j]
  BY <1>0, <1>b, <1>c
<1>4. \A i \in 1 .. Len(mailbox'[k]) : i + 1 \in 1 .. Len(mailbox[k])
  BY <1>3
<1>5. MailboxSorted'
  <2>1. ASSUME NEW j \in Mailboxes, NEW i \in 1 .. Len(mailbox'[j])
        PROVE  mailbox'[j][i][3] = j /\ mailbox'[j][i][2] <= sent'[mailbox'[j][i][1]]
    <3>1. CASE j # k
      BY <1>0, <1>3, <3>1 DEF InOrder, MailboxSorted
    <3>2. CASE j = k
      <4>1. mailbox'[k][i] = mailbox[k][i + 1] /\ i + 1 \in 1 .. Len(mailbox[k])
        BY <1>3, <1>4, <3>2
      <4>2. QED
        BY <1>0, <3>2, <4>1 DEF InOrder, MailboxSorted
    <3>3. QED
      BY <3>1, <3>2
  <2>2. ASSUME NEW j \in Mailboxes, NEW h \in 1 .. Len(mailbox'[j]),
               NEW i \in 1 .. Len(mailbox'[j]),
               h < i, mailbox'[j][h][1] = mailbox'[j][i][1]
        PROVE  mailbox'[j][h][2] < mailbox'[j][i][2]
    <3>1. CASE j # k
      BY <1>3, <2>2, <3>1 DEF InOrder, MailboxSorted
    <3>2. CASE j = k
      <4>1. h + 1 < i + 1 /\ h + 1 \in 1 .. Len(mailbox[k]) /\ i + 1 \in 1 .. Len(mailbox[k])
        BY <1>4, <2>2, <3>2
      <4>2. QED
        BY <1>3, <2>2, <3>2, <4>1, SMTT(60) DEF InOrder, MailboxSorted
    <3>3. QED
      BY <3>1, <3>2
  <2>3. QED
    BY <2>1, <2>2 DEF MailboxSorted
<1>6. \A x : Taken(x) => Taken(x)'
  <2> SUFFICES ASSUME NEW x, Taken(x) PROVE Taken(x)'
    OBVIOUS
  <2>1. x \in Message /\ x[3] \in Mailboxes
    BY DEF Taken, Message
  <2>2. CASE x[3] # k
    BY <1>0, <1>3, <2>1, <2>2 DEF Taken
  <2>3. CASE x[3] = k
    BY <1>0, <1>3, <1>4, <2>1, <2>3 DEF Taken
  <2>4. QED
    BY <2>2, <2>3
<1>7. Taken(m)' /\ m[3] = k
  <2>1. 1 \in 1 .. Len(mailbox[k]) /\ m[3] = k /\ m[2] <= sent[m[1]]
    BY <1>0, <1>3 DEF InOrder, MailboxSorted
  <2>2. ASSUME NEW i \in 1 .. Len(mailbox'[k]), mailbox'[k][i][1] = m[1]
        PROVE  m[2] < mailbox'[k][i][2]
    <3>1. 1 < i + 1 /\ i + 1 \in 1 .. Len(mailbox[k]) /\ mailbox'[k][i] = mailbox[k][i + 1]
      BY <1>3, <1>4
    <3>2. QED
      BY <1>0, <1>3, <2>1, <2>2, <3>1 DEF InOrder, MailboxSorted
  <2>3. QED
    BY <1>0, <1>3, <2>1, <2>2 DEF Taken
<1>8. \A d \in done : d[1] = m[1] /\ d[3] = m[3] => d[2] < m[2]
  <2>1. 1 \in 1 .. Len(mailbox[k])
    BY <1>3
  <2>2. QED
    BY <1>3, <1>7, <2>1 DEF InOrder, Taken
<1>9. Taken(current[w])' /\ current'[w] = m
  <2>1. current'[w] = m
    BY <1>2
  <2>2. QED
    BY <1>7, <2>1 DEF Taken
<1>10. QED
  BY <1>0, <1>1, <1>2, <1>5, <1>6, <1>8, <1>9 DEF InOrder

\* Execute moves the message in hand to the executed ones; no other worker has one.
LEMMA ExecuteInOrder ==
  ASSUME TypeOK, Ownership, InOrder, NEW w \in Workers, Execute(w)
  PROVE  InOrder'
<1>a. PICK m : m = current[w]
  OBVIOUS
<1>0. /\ mailbox' = mailbox /\ sent' = sent /\ done' = done \cup {m}
      /\ current' = [current EXCEPT ![w] = NoMessage]
      /\ pc' = [pc EXCEPT ![w] = IF executed[w] + 1 >= limit[w] THEN "sub" ELSE "pull"]
  BY <1>a DEF Execute, Goto, sharedVars, senderVars
<1>1. \A v \in Workers : v # w => pc[v] # "execute"
  BY DEF Execute, Ownership, Owns, Owning, InActor, SpawnPC, Thread
<1>2. \A v \in Workers : pc'[v] # "execute" /\ current'[v] = NoMessage
  BY <1>0, <1>1 DEF TypeOK, Thread, InOrder
<1>3. MailboxSorted'
  BY <1>0 DEF InOrder, MailboxSorted
<1>4. \A x : Taken(x) => Taken(x)'
  BY <1>0 DEF Taken
<1>5. Taken(m)
  BY <1>a DEF InOrder, Execute
<1>6. QED
  BY <1>0, <1>2, <1>3, <1>4, <1>5 DEF InOrder

\* Messages of one sender into one mailbox are executed in the order they were pushed
\* and none twice, whichever workers run the activations.
THEOREM SendersStayInOrder == Spec => []SenderOrder
<1>1. Init => InOrder
  <2> SUFFICES ASSUME Init PROVE InOrder
    OBVIOUS
  <2>1. \A k \in Mailboxes : Len(mailbox[k]) = 0
    BY DEF Init
  <2>2. \A w \in Workers : pc[w] # "execute" /\ current[w] = NoMessage
    BY DEF Init, Thread
  <2>3. done = {}
    BY DEF Init
  <2>4. QED
    BY <2>1, <2>2, <2>3 DEF InOrder, MailboxSorted
<1>2. TypeOK /\ Ownership /\ InOrder /\ [Next]_vars => InOrder'
  <2> SUFFICES ASSUME TypeOK, Ownership, InOrder, [Next]_vars PROVE InOrder'
    OBVIOUS
  <2>1. CASE /\ UNCHANGED <<mailbox, sent, current, done>>
             /\ \A w \in Workers : pc'[w] = "execute" <=> pc[w] = "execute"
    <3>1. \A x : Taken(x) => Taken(x)'
      BY <2>1 DEF Taken
    <3>2. MailboxSorted'
      BY <2>1 DEF InOrder, MailboxSorted
    <3>3. QED
      BY <2>1, <3>1, <3>2 DEF InOrder
  <2>2. CASE UNCHANGED vars
    BY <2>1, <2>2 DEF vars, sharedVars, senderVars, workerVars
  <2>3. QED
    BY <2>1, <2>2, MessageFrame, PushInOrder, PullInOrder, ExecuteInOrder
<1>3. InOrder => SenderOrder
  <2> SUFFICES ASSUME InOrder, NEW old \in done, NEW m \in Waiting,
                      m[1] = old[1], m[3] = old[3]
               PROVE  m[2] > old[2]
    BY DEF SenderOrder
  <2>1. CASE \E k \in Mailboxes : \E i \in 1 .. Len(mailbox[k]) : m = mailbox[k][i]
    <3>0. PICK k \in Mailboxes : \E i \in 1 .. Len(mailbox[k]) : m = mailbox[k][i]
      BY <2>1
    <3>1. PICK i \in 1 .. Len(mailbox[k]) : m = mailbox[k][i]
      BY <3>0
    <3>2. m[3] = k
      BY <3>1 DEF InOrder, MailboxSorted
    <3>3. Taken(old)
      BY DEF InOrder
    <3>4. old[2] < m[2]
      BY <3>1, <3>2, <3>3 DEF Taken
    <3>5. QED
      BY <3>4
  <2>2. CASE \E w \in Workers : m = current[w] /\ m # NoMessage
    <3>1. PICK w \in Workers : m = current[w] /\ m # NoMessage
      BY <2>2
    <3>2. pc[w] = "execute"
      BY <3>1 DEF InOrder
    <3>3. old[2] < m[2]
      BY <3>1, <3>2 DEF InOrder
    <3>4. QED
      BY <3>3
  <2>3. QED
    BY <2>1, <2>2 DEF Waiting
<1>4. QED
  BY <1>1, <1>2, <1>3, TypeCorrect, OwnershipInvariant, PTL DEF Spec

(***************************************************************************)
(* Sums.  pending_message_count_ is compared with the number of messages   *)
(* in all mailboxes, a fold over a function; these lemmas say how the fold *)
(* changes when one value of the function does.                            *)
(***************************************************************************)

\* A set of naturals has a least member: the ground of every induction below.
LEMMA LeastNatural ==
  ASSUME NEW T, T \subseteq Nat, T # {}
  PROVE  \E x \in T : \A y \in T : x <= y
<1>1. PICK R : R = OpToRel(<, Nat)
  OBVIOUS
<1>2. IsWellFoundedOn(R, Nat)
  BY <1>1, NatLessThanWellFounded
<1>3. PICK x \in T : \A y \in T : ~(<<y, x>> \in R)
  BY <1>2, WFMin
<1>4. \A y \in T : ~(y < x)
  BY <1>1, <1>3 DEF OpToRel
<1>5. QED
  BY <1>4

\* The member that the fold over a set takes first.
Pick(s) == CHOOSE x \in s : TRUE
\* g satisfies the recursive equation of the sum of f, for the sets in D.
IsSum(f, g, D) ==
  g = [s \in D |-> IF s = {} THEN 0 ELSE f[Pick(s)] + g[s \ {Pick(s)}]]

\* What FoldFunction computes, once the equation is known to have a solution.
LEMMA SumUnfold ==
  ASSUME NEW f, NEW g, IsSum(f, g, SUBSET (DOMAIN f))
  PROVE  \E h : IsSum(f, h, SUBSET (DOMAIN f)) /\ FoldFunction(+, 0, f) = h[DOMAIN f]
<1> DEFINE F(h) == [s \in SUBSET (DOMAIN f) |-> IF s = {} THEN 0 ELSE f[CHOOSE x \in s : TRUE] + h[s \ {CHOOSE x \in s : TRUE}]]
<1> DEFINE it == CHOOSE h : h = F(h)
<1>1. FoldFunction(+, 0, f) = it[DOMAIN f]
  BY DEF FoldFunction, FoldFunctionOnSet, MapThenFoldSet
<1>2. it = F(it)
  <2>1. g = F(g)
    BY DEF IsSum, Pick
  <2>2. QED
    BY <2>1
<1>3. QED
  BY <1>1, <1>2 DEF IsSum, Pick

\* Taking the picked element out leaves a smaller subset.
LEMMA PickSmaller ==
  ASSUME NEW s, IsFiniteSet(s), s # {}
  PROVE  /\ Pick(s) \in s /\ IsFiniteSet(s \ {Pick(s)})
         /\ Cardinality(s) \in Nat /\ Cardinality(s \ {Pick(s)}) \in Nat
         /\ Cardinality(s \ {Pick(s)}) = Cardinality(s) - 1
<1>1. Pick(s) \in s
  BY DEF Pick
<1>2. QED
  BY <1>1, FS_RemoveElement, FS_CardinalityType

\* Induction over the subsets of a finite set, the good ones given as a set.
LEMMA SubsetInduction ==
  ASSUME NEW S, IsFiniteSet(S), NEW Good, {} \in Good,
         \A s \in SUBSET S : s # {} /\ s \ {Pick(s)} \in Good => s \in Good
  PROVE  \A s \in SUBSET S : s \in Good
<1> DEFINE Bad == {n \in Nat : \E s \in SUBSET S : s \notin Good /\ Cardinality(s) = n}
<1>1. \A s \in SUBSET S : IsFiniteSet(s) /\ Cardinality(s) \in Nat
  BY FS_Subset, FS_CardinalityType
<1>2. SUFFICES ASSUME Bad # {} PROVE FALSE
  BY <1>1
<1>3. PICK n \in Bad : \A m \in Bad : n <= m
  <2>1. Bad \subseteq Nat
    OBVIOUS
  <2> HIDE DEF Bad
  <2>2. QED
    BY <1>2, <2>1, LeastNatural
<1>4. PICK s \in SUBSET S : s \notin Good /\ Cardinality(s) = n
  BY <1>3
<1>5. s # {}
  BY <1>4
<1>6. s \ {Pick(s)} \in SUBSET S /\ s \ {Pick(s)} \notin Good
  BY <1>4, <1>5
<1>7. Cardinality(s \ {Pick(s)}) \in Nat /\ Cardinality(s \ {Pick(s)}) < n
  BY <1>1, <1>4, <1>5, PickSmaller
<1>8. Cardinality(s \ {Pick(s)}) \in Bad
  BY <1>6, <1>7
<1>9. Bad \subseteq Nat
  OBVIOUS
<1> HIDE DEF Bad
<1>10. QED
  BY <1>3, <1>7, <1>8, <1>9

\* The recursive equation of a sum over a finite set has a solution.
LEMMA SumExists ==
  ASSUME NEW f, IsFiniteSet(DOMAIN f)
  PROVE  \E g : IsSum(f, g, SUBSET (DOMAIN f))
<1> DEFINE S == DOMAIN f
           Level(n) == {s \in SUBSET S : Cardinality(s) <= n}
           Bad == {n \in Nat : ~\E g : IsSum(f, g, Level(n))}
<1>1. \A s \in SUBSET S : IsFiniteSet(s) /\ Cardinality(s) \in Nat
  BY FS_Subset, FS_CardinalityType
<1>2. Bad = {}
  <2> SUFFICES ASSUME Bad # {} PROVE FALSE
    OBVIOUS
  <2>1. PICK n \in Bad : \A m \in Bad : n <= m
    <3>1. Bad \subseteq Nat
      OBVIOUS
    <3> HIDE DEF Bad
    <3>2. QED
      BY <3>1, LeastNatural
  <2>2. n \in Nat /\ ~\E g : IsSum(f, g, Level(n))
    OBVIOUS
  <2>3. CASE n = 0
    <3>1. \A s \in Level(0) : s = {}
      <4> TAKE s \in Level(0)
      <4>1. IsFiniteSet(s) /\ Cardinality(s) = 0
        BY <1>1
      <4>2. QED
        BY <4>1, FS_EmptySet
    <3>2. PICK g : g = [s \in Level(0) |-> 0]
      OBVIOUS
    <3>3. IsSum(f, g, Level(0))
      BY <3>1, <3>2 DEF IsSum
    <3>4. QED
      BY <2>2, <2>3, <3>3
  <2>4. CASE n # 0
    <3>1. n - 1 \in Nat /\ n - 1 \notin Bad
      <4> HIDE DEF Bad
      <4>1. QED
        BY <2>1, <2>2, <2>4
    <3>2. PICK g : IsSum(f, g, Level(n - 1))
      BY <3>1
    <3>3. PICK h : h = [s \in Level(n) |-> IF s = {} THEN 0 ELSE f[Pick(s)] + g[s \ {Pick(s)}]]
      OBVIOUS
    <3>4. ASSUME NEW s \in Level(n), s # {}
          PROVE  g[s \ {Pick(s)}] = h[s \ {Pick(s)}]
      <4>1. s \ {Pick(s)} \in Level(n - 1) /\ s \ {Pick(s)} \in Level(n)
        BY <1>1, <2>2, <3>4, PickSmaller
      <4>2. PICK r : r = s \ {Pick(s)}
        OBVIOUS
      <4>3. g[r] = IF r = {} THEN 0 ELSE f[Pick(r)] + g[r \ {Pick(r)}]
        BY <3>2, <4>1, <4>2, Zenon DEF IsSum
      <4>4. h[r] = IF r = {} THEN 0 ELSE f[Pick(r)] + g[r \ {Pick(r)}]
        BY <3>3, <4>1, <4>2, Zenon
      <4>5. QED
        BY <4>2, <4>3, <4>4
    <3>5. IsSum(f, h, Level(n))
      BY <3>3, <3>4 DEF IsSum
    <3>6. QED
      BY <2>2, <3>5
  <2>5. QED
    BY <2>3, <2>4
<1>3. Level(Cardinality(S)) = SUBSET S /\ Cardinality(S) \in Nat
  <2>1. \A s \in SUBSET S : Cardinality(s) <= Cardinality(S)
    BY FS_Subset
  <2>2. QED
    BY <1>1, <2>1
<1>4. \E g : IsSum(f, g, Level(Cardinality(S)))
  BY <1>2, <1>3
<1>5. QED
  BY <1>3, <1>4

\* The sum of the values of a function.
Sum(f) == FoldFunction(+, 0, f)

\* h is the sum of f over each subset of S.
PartialSums(f, h, S) ==
  /\ Sum(f) = h[S] /\ h[{}] = 0
  /\ \A s \in SUBSET S : s # {} => h[s] = f[Pick(s)] + h[s \ {Pick(s)}]

\* Sum is the value of one solution of its recursive equation.
LEMMA SumEquation ==
  ASSUME NEW S, IsFiniteSet(S), NEW f, DOMAIN f = S
  PROVE  \E h : PartialSums(f, h, S)
<1>1. PICK h : IsSum(f, h, SUBSET S) /\ Sum(f) = h[S]
  BY SumExists, SumUnfold DEF Sum
<1>2. h[{}] = 0 /\ \A s \in SUBSET S : s # {} => h[s] = f[Pick(s)] + h[s \ {Pick(s)}]
  <2>1. \A s \in SUBSET S : h[s] = IF s = {} THEN 0 ELSE f[Pick(s)] + h[s \ {Pick(s)}]
    BY <1>1, Zenon DEF IsSum
  <2>2. QED
    BY <2>1
<1>3. QED
  BY <1>1, <1>2 DEF PartialSums

\* A sum of naturals is a natural number.
LEMMA SumNat ==
  ASSUME NEW S, IsFiniteSet(S), NEW f \in [S -> Nat]
  PROVE  Sum(f) \in Nat
<1>1. PICK h : PartialSums(f, h, S)
  <2>1. DOMAIN f = S
    OBVIOUS
  <2>2. QED
    BY <2>1, SumEquation
<1> DEFINE Good == {s \in SUBSET S : h[s] \in Nat}
<1>2. \A s \in SUBSET S : s # {} /\ s \ {Pick(s)} \in Good => s \in Good
  BY <1>1 DEF Pick, PartialSums
<1>3. {} \in Good
  BY <1>1 DEF PartialSums
<1> HIDE DEF Good
<1>4. S \in Good
  BY <1>2, <1>3, SubsetInduction
<1>5. QED
  BY <1>1, <1>4 DEF Good, PartialSums

\* A sum of zeros is zero.
LEMMA SumZero ==
  ASSUME NEW S, IsFiniteSet(S), NEW f \in [S -> {0}]
  PROVE  Sum(f) = 0
<1>1. PICK h : PartialSums(f, h, S)
  <2>1. DOMAIN f = S
    OBVIOUS
  <2>2. QED
    BY <2>1, SumEquation
<1> DEFINE Good == {s \in SUBSET S : h[s] = 0}
<1>2. \A s \in SUBSET S : s # {} /\ s \ {Pick(s)} \in Good => s \in Good
  <2> SUFFICES ASSUME NEW s \in SUBSET S, s # {}, s \ {Pick(s)} \in Good
               PROVE  h[s] = 0
    OBVIOUS
  <2>1. f[Pick(s)] = 0
    BY DEF Pick
  <2>2. h[s] = f[Pick(s)] + h[s \ {Pick(s)}]
    BY <1>1 DEF PartialSums
  <2>3. QED
    BY <2>1, <2>2
<1>3. {} \in Good
  BY <1>1 DEF PartialSums
<1> HIDE DEF Good
<1>4. S \in Good
  BY <1>2, <1>3, SubsetInduction
<1>5. QED
  BY <1>1, <1>4 DEF Good, PartialSums

\* Functions that differ in one place have sums that differ by as much.
LEMMA SumUpdate ==
  ASSUME NEW S, IsFiniteSet(S), NEW f \in [S -> Nat], NEW g \in [S -> Nat], NEW x \in S,
         \A y \in S : y # x => g[y] = f[y]
  PROVE  Sum(g) = Sum(f) + g[x] - f[x]
<1>1. PICK h : PartialSums(f, h, S)
  <2>1. DOMAIN f = S
    OBVIOUS
  <2>2. QED
    BY <2>1, SumEquation
<1>2. PICK k : PartialSums(g, k, S)
  <2>1. DOMAIN g = S
    OBVIOUS
  <2>2. QED
    BY <2>1, SumEquation
<1> DEFINE Good == {s \in SUBSET S : /\ h[s] \in Int
                                     /\ k[s] = h[s] + IF x \in s THEN g[x] - f[x] ELSE 0}
<1>3. ASSUME NEW s \in SUBSET S, s # {}, s \ {Pick(s)} \in Good PROVE s \in Good
  <2>1. PICK p \in S : p = Pick(s) /\ p \in s
    BY <1>3 DEF Pick
  <2>2. /\ h[s] = f[p] + h[s \ {p}] /\ k[s] = g[p] + k[s \ {p}]
        /\ f[p] \in Nat /\ g[p] \in Nat /\ f[x] \in Nat /\ g[x] \in Nat
    BY <1>1, <1>2, <1>3, <2>1 DEF PartialSums
  <2>3. /\ h[s \ {p}] \in Int
        /\ k[s \ {p}] = h[s \ {p}] + IF x \in s \ {p} THEN g[x] - f[x] ELSE 0
    BY <1>3, <2>1
  <2>4. CASE p = x
    BY <2>1, <2>2, <2>3, <2>4
  <2>5. CASE p # x
    <3>1. x \in s \ {p} <=> x \in s
      BY <2>5
    <3>2. g[p] = f[p]
      BY <2>5
    <3>3. QED
      BY <2>2, <2>3, <3>1, <3>2
  <2>6. QED
    BY <2>4, <2>5
<1>4. {} \in Good
  BY <1>1, <1>2 DEF PartialSums
<1>5. S \in Good
  <2> HIDE DEF Good
  <2>1. QED
    BY <1>3, <1>4, SubsetInduction
<1>6. QED
  BY <1>1, <1>2, <1>5 DEF PartialSums

\* No value is larger than the sum.
LEMMA SumMember ==
  ASSUME NEW S, IsFiniteSet(S), NEW f \in [S -> Nat], NEW x \in S
  PROVE  f[x] <= Sum(f)
<1>1. PICK g \in [S -> Nat] : g = [f EXCEPT ![x] = 0]
  OBVIOUS
<1>2. Sum(g) = Sum(f) + g[x] - f[x] /\ g[x] = 0
  <2>1. \A y \in S : y # x => g[y] = f[y]
    BY <1>1 DEF PartialSums
  <2>2. Sum(g) = Sum(f) + g[x] - f[x]
    BY <2>1, SumUpdate
  <2>3. QED
    BY <1>1, <2>2
<1>3. Sum(f) \in Nat /\ Sum(g) \in Nat /\ f[x] \in Nat
  BY SumNat
<1>4. QED
  BY <1>2, <1>3

(***************************************************************************)
(* Arithmetic of the counter, which wraps at CounterMod.                   *)
(***************************************************************************)

\* The remainder, by a name that the provers leave alone.
Rem(a, n) == a % n

\* A number and its remainder.
LEMMA Remainder ==
  ASSUME NEW n \in Nat \ {0}, NEW a \in Int
  PROVE  Rem(a, n) \in 0 .. n - 1 /\ \E q \in Int : a = n * q + Rem(a, n)
<1>1. /\ a % n \in 0 .. n - 1 /\ a \div n \in Int
      /\ a = n * (a \div n) + (a % n)
  OBVIOUS
<1>2. QED
  BY <1>1, Zenon DEF Rem

\* The only multiple of n that is closer to 0 than n is 0.
LEMMA SmallMultiple ==
  ASSUME NEW n \in Nat \ {0}, NEW k \in Int, n * k < n, -n < n * k
  PROVE  k = 0
<1>1. CASE k >= 1
  <2>1. n * k = n + n * (k - 1) /\ n * (k - 1) >= 0
    BY <1>1
  <2>2. QED
    BY <2>1
<1>2. CASE k <= -1
  <2>1. n * k = -n + n * (k + 1)
    OBVIOUS
  <2>2. n * (k + 1) <= 0
    BY <1>2
  <2>3. QED
    BY <2>1, <2>2
<1>3. QED
  BY <1>1, <1>2

\* A remainder is determined by what it leaves.
LEMMA RemainderUnique ==
  ASSUME NEW n \in Nat \ {0}, NEW q \in Int, NEW r \in 0 .. n - 1
  PROVE  Rem(n * q + r, n) = r
<1>1. PICK a \in Int : a = n * q + r
  OBVIOUS
<1>2. PICK p \in Int : a = n * p + Rem(a, n)
  BY Remainder
<1>3. PICK s \in 0 .. n - 1 : s = Rem(a, n)
  BY Remainder
<1>4. n * (p - q) = n * p - n * q
  OBVIOUS
<1>5. n * (p - q) = r - s /\ r - s < n /\ -n < r - s /\ p - q \in Int
  BY <1>1, <1>2, <1>3, <1>4
<1>6. p - q = 0
  BY <1>5, SmallMultiple
<1>7. r = s
  BY <1>5, <1>6
<1>8. QED
  BY <1>1, <1>3, <1>7

\* Whole rounds do not change a remainder.
LEMMA WholeRounds ==
  ASSUME NEW n \in Nat \ {0}, NEW q \in Int, NEW a \in Int
  PROVE  Rem(n * q + a, n) = Rem(a, n)
<1>1. PICK p \in Int : a = n * p + Rem(a, n)
  BY Remainder
<1>2. PICK s \in 0 .. n - 1 : s = Rem(a, n)
  BY Remainder
<1>3. n * q + a = n * (q + p) + s /\ q + p \in Int
  BY <1>1, <1>2
<1>4. Rem(n * (q + p) + s, n) = s
  BY <1>3, RemainderUnique
<1>5. QED
  BY <1>2, <1>3, <1>4

\* What is added after the counter has wrapped may as well be added before.
LEMMA RemainderOfSum ==
  ASSUME NEW n \in Nat \ {0}, NEW a \in Int, NEW b \in Int
  PROVE  ((a % n) + b) % n = (a + b) % n
<1>1. PICK p \in Int : a = n * p + Rem(a, n)
  BY Remainder
<1>2. PICK r \in Int : r = Rem(a, n)
  BY Remainder
<1>3. r + b = n * (-p) + (a + b) /\ -p \in Int /\ a + b \in Int
  BY <1>1, <1>2
<1>4. Rem(n * (-p) + (a + b), n) = Rem(a + b, n)
  BY <1>3, WholeRounds
<1>5. QED
  BY <1>2, <1>3, <1>4 DEF Rem

(***************************************************************************)
(* pending_message_count_.  PendingExact is inductive together with        *)
(* DeadOnce: the message of AsyncDestroy is taken off once.                *)
(***************************************************************************)

\* Labels between the reset and fetch_sub of AsyncDestroy's message.
DeadPC == {"unlockDead", "subDead"}

\* The instance is reset once, by one worker, which then takes the message of
\* AsyncDestroy off.
DeadOnce ==
  /\ \A w \in Workers : pc[w] \in DeadPC => ~alive
  /\ \A v, w \in Workers : pc[v] \in DeadPC /\ pc[w] \in DeadPC => v = w

\* How many messages each mailbox holds.
Waits == [k \in Mailboxes |-> Len(mailbox[k])]

\* What PendingExact says the counter is, before it wraps.
Total == Sum(Waits) + Sum(executed) + Cardinality(Executing) - Cardinality(Uncounted)
           + Cardinality(DestroyCounted) - DestroyTaken

\* PendingExact in these terms.
LEMMA PendingIsTotal == PendingExact <=> pending = Total % CounterMod
  BY Zenon DEF PendingExact, Total, Sum, Waits

\* Every number in Total is an integer.
LEMMA TotalTyped ==
  ASSUME TypeOK
  PROVE  /\ Waits \in [Mailboxes -> Nat] /\ IsFiniteSet(Mailboxes)
         /\ Sum(Waits) \in Nat /\ Sum(executed) \in Nat
         /\ IsFiniteSet(Executing) /\ Cardinality(Executing) \in Nat
         /\ IsFiniteSet(Uncounted) /\ Cardinality(Uncounted) \in Nat
         /\ IsFiniteSet(DestroyCounted) /\ Cardinality(DestroyCounted) \in Nat
         /\ DestroyTaken \in {0, 1} /\ Total \in Int
<1>1. Waits \in [Mailboxes -> Nat]
  <2>1. \A k \in Mailboxes : Len(mailbox[k]) \in Nat
    BY DEF TypeOK
  <2>2. QED
    BY <2>1 DEF Waits
<1>2. IsFiniteSet(Mailboxes)
  BY ConfigAssumption, FS_Interval DEF Mailboxes
<1>3. Sum(Waits) \in Nat
  BY <1>1, <1>2, SumNat
<1>4. Sum(executed) \in Nat
  BY FiniteThreads, SumNat DEF TypeOK
<1>5. IsFiniteSet(Executing) /\ Cardinality(Executing) \in Nat
  BY FiniteThreads, FS_Subset, FS_CardinalityType DEF Executing
<1>6. IsFiniteSet(Uncounted) /\ Cardinality(Uncounted) \in Nat
  BY FiniteThreads, FS_Subset, FS_CardinalityType DEF Uncounted
<1>7. IsFiniteSet(DestroyCounted) /\ Cardinality(DestroyCounted) \in Nat
  BY FiniteThreads, FS_Subset, FS_CardinalityType DEF DestroyCounted, SpawnPC
<1>8. DestroyTaken \in {0, 1}
  BY DEF DestroyTaken
<1>9. Total \in Int
  BY <1>3, <1>4, <1>5, <1>6, <1>7, <1>8 DEF Total
<1>10. QED
  BY <1>1, <1>2, <1>3, <1>4, <1>5, <1>6, <1>7, <1>8, <1>9

\* A step that adds as much to the counter as to what it should be keeps PendingExact.
LEMMA CounterFollows ==
  ASSUME TypeOK, PendingExact, NEW c \in Int, Total' = Total + c,
         pending' = (pending + c) % CounterMod
  PROVE  PendingExact'
<1>1. Total \in Int /\ pending = Total % CounterMod
  BY TotalTyped, PendingIsTotal
<1>2. CounterMod \in Nat \ {0}
  BY ConfigAssumption
<1>3. pending' = (Total + c) % CounterMod
  BY <1>1, <1>2, RemainderOfSum
<1>4. pending' = (Total') % CounterMod
  BY <1>3
<1>5. QED
  BY <1>4, Zenon DEF PendingExact, Total, Sum, Waits

\* A step that changes neither keeps PendingExact.
LEMMA CounterKept ==
  ASSUME PendingExact, Total' = Total, pending' = pending
  PROVE  PendingExact'
<1>1. pending' = (Total') % CounterMod
  BY PendingIsTotal
<1>2. QED
  BY <1>1, Zenon DEF PendingExact, Total, Sum, Waits

\* What a step leaves alone when it neither moves a message nor the counter.
CountKept ==
  /\ UNCHANGED <<mailbox, pending, executed, alive>>
  /\ \A s \in Senders : pc'[s] \in {"publish", "count"} <=> pc[s] \in {"publish", "count"}
  /\ \A w \in Workers : pc'[w] = "execute" <=> pc[w] = "execute"
  /\ \A w \in Workers : pc'[w] \in DeadPC <=> pc[w] \in DeadPC
  /\ \A d \in Destroyers : pc'[d] \in {"cas", "join", "wait", "done"} \cup SpawnPC
                             <=> pc[d] \in {"cas", "join", "wait", "done"} \cup SpawnPC

\* The other steps move a message or change the counter.
LEMMA CountFrame ==
  ASSUME TypeOK, Next
  PROVE  \/ \E s \in Senders, k \in Mailboxes : PushMessage(s, k)
         \/ \E s \in Senders : Count(s)
         \/ \E w \in Workers : Pull(w) \/ Execute(w) \/ Sub(w) \/ Reset(w) \/ SubDead(w)
         \/ \E d \in Destroyers : CountDestroy(d)
         \/ CountKept
<1>1. ASSUME NEW s \in Senders, SenderStep(s), ~Count(s), ~\E k \in Mailboxes : PushMessage(s, k)
      PROVE  CountKept
  <2>1. UNCHANGED <<mailbox, pending, executed, alive>>
    BY <1>1 DEF SenderStep, Publish, Activate, Spawn, Schedule, Associate, Enqueue, Refuse,
       sharedVars, workerVars
  <2>2. \/ pc[s] = "publish" /\ Goto(s, "count")
        \/ /\ pc[s] \in {"cas"} \cup SpawnPC
           /\ \E label \in {"idle"} \cup SpawnPC : Goto(s, label)
    BY <1>1 DEF SenderStep, Publish, Activate, Spawn, Schedule, Associate, Enqueue, Refuse,
       AfterActivate, SpawnPC
  <2>3. s \notin Workers /\ s \notin Destroyers /\ s \in Thread
    BY ThreadAssumption DEF Thread
  <2>4. \A t \in Thread : t # s => pc'[t] = pc[t]
    BY <2>2 DEF Goto, TypeOK
  <2>5. pc'[s] \in {"publish", "count"} <=> pc[s] \in {"publish", "count"}
    BY <2>2, <2>3 DEF Goto, TypeOK, SpawnPC
  <2>6. QED
    BY <2>1, <2>3, <2>4, <2>5 DEF CountKept, Thread
<1>2. ASSUME NEW w \in Workers, WorkerStep(w), ~Pull(w), ~Execute(w), ~Sub(w), ~Reset(w), ~SubDead(w)
      PROVE  CountKept
  <2>1. UNCHANGED <<mailbox, pending, executed, alive>>
    BY <1>2 DEF WorkerStep, Dequeue, Enter, UnlockDead, Limit, NextMailbox, Unlock, Recheck,
       Activate, Spawn, Schedule, Associate, Enqueue, Refuse, Finish, Leave, sharedVars, workerVars
  <2>2. \/ pc[w] = "unlockDead" /\ Goto(w, "subDead")
        \/ /\ pc[w] \notin DeadPC \cup {"execute"}
           /\ UNCHANGED pc \/ \E label : label \notin DeadPC \cup {"execute"} /\ Goto(w, label)
    BY <1>2 DEF WorkerStep, Dequeue, Enter, UnlockDead, Limit, NextMailbox, Unlock, Recheck,
       Activate, Spawn, Schedule, Associate, Enqueue, Refuse, Finish, Leave, AfterActivate, DeadPC
  <2>3. w \notin Senders /\ w \notin Destroyers /\ w \in Thread
    BY ThreadAssumption DEF Thread
  <2>4. \A t \in Thread : t # w => pc'[t] = pc[t]
    BY <2>2 DEF Goto, TypeOK
  <2>5. (pc'[w] = "execute" <=> pc[w] = "execute") /\ (pc'[w] \in DeadPC <=> pc[w] \in DeadPC)
    BY <2>2, <2>3 DEF Goto, TypeOK, DeadPC
  <2>6. QED
    BY <2>1, <2>3, <2>4, <2>5 DEF CountKept, Thread
<1>3. ASSUME NEW d \in Destroyers, DestroyerStep(d), ~CountDestroy(d)
      PROVE  CountKept
  <2>1. UNCHANGED <<mailbox, pending, executed, alive>>
    BY <1>3 DEF DestroyerStep, BeginDestroy, Activate, Spawn, Schedule, Associate, Enqueue, Refuse,
       Join, Joined, sharedVars, workerVars
  <2>2. d \notin Senders /\ d \notin Workers /\ d \in Thread
    BY ThreadAssumption DEF Thread
  <2>3. \/ pc[d] = "idle" /\ \E label \in {"returned", "count"} : Goto(d, label)
        \/ /\ pc[d] \in {"cas", "join", "wait"} \cup SpawnPC
           /\ \E label \in {"join", "wait", "done"} \cup SpawnPC : Goto(d, label)
    BY <1>3, <2>2 DEF DestroyerStep, BeginDestroy, Activate, Spawn, Schedule, Associate, Enqueue,
       Refuse, Join, Joined, AfterActivate, SpawnPC
  <2>4. \A t \in Thread : t # d => pc'[t] = pc[t]
    BY <2>3 DEF Goto, TypeOK
  <2>5. pc'[d] \in {"cas", "join", "wait", "done"} \cup SpawnPC
          <=> pc[d] \in {"cas", "join", "wait", "done"} \cup SpawnPC
    BY <2>2, <2>3 DEF Goto, TypeOK, SpawnPC
  <2>6. QED
    BY <2>1, <2>2, <2>4, <2>5 DEF CountKept, Thread
<1>4. QED
  BY <1>1, <1>2, <1>3 DEF Next

\* How the sum over the mailboxes changes with one of them.
LEMMA WaitsChange ==
  ASSUME TypeOK, TypeOK', NEW k \in Mailboxes,
         \A j \in Mailboxes : j # k => mailbox'[j] = mailbox[j]
  PROVE  Sum(Waits') = Sum(Waits) + Len(mailbox'[k]) - Len(mailbox[k])
<1>1. Waits' \in [Mailboxes -> Nat] /\ Waits \in [Mailboxes -> Nat] /\ IsFiniteSet(Mailboxes)
  <2>1. \A j \in Mailboxes : Len(mailbox'[j]) \in Nat
    BY DEF TypeOK
  <2>2. QED
    BY <2>1, TotalTyped DEF Waits
<1>2. \A j \in Mailboxes : j # k => Waits'[j] = Waits[j]
  BY DEF Waits
<1>3. Sum(Waits') = Sum(Waits) + Waits'[k] - Waits[k]
  BY <1>1, <1>2, SumUpdate
<1>4. QED
  BY <1>3 DEF Waits

\* The same for one worker's count of executed messages.
LEMMA ExecutedChange ==
  ASSUME TypeOK, TypeOK', NEW w \in Workers,
         \A v \in Workers : v # w => executed'[v] = executed[v]
  PROVE  Sum(executed') = Sum(executed) + executed'[w] - executed[w]
<1>1. executed \in [Workers -> Nat] /\ executed' \in [Workers -> Nat]
  BY DEF TypeOK
<1>2. QED
  BY <1>1, FiniteThreads, SumUpdate

\* How the sets behind the counter change with one thread.
LEMMA SetsChange ==
  ASSUME TypeOK, NEW t \in Thread, NEW label, Goto(t, label)
  PROVE  /\ t \notin Senders => Uncounted' = Uncounted
         /\ t \notin Workers => Executing' = Executing
         /\ t \notin Destroyers => DestroyCounted' = DestroyCounted
         /\ t \in Workers /\ pc[t] # "execute" /\ label # "execute" => Executing' = Executing
         /\ pc' = [pc EXCEPT ![t] = label]
         /\ \A u \in Thread : pc'[u] = IF u = t THEN label ELSE pc[u]
<1>1. pc' = [pc EXCEPT ![t] = label] /\ \A u \in Thread : pc'[u] = IF u = t THEN label ELSE pc[u]
  BY DEF Goto, TypeOK
<1>2. QED
  BY <1>1 DEF Uncounted, Executing, DestroyCounted, SpawnPC, Thread

\* Unless a worker resets the instance or takes the message of AsyncDestroy off, that
\* message is counted as before.
LEMMA TakenKept ==
  ASSUME alive' = alive, \A w \in Workers : pc'[w] \in DeadPC <=> pc[w] \in DeadPC
  PROVE  DestroyTaken' = DestroyTaken
  BY DEF DestroyTaken, DeadPC

\* A push puts one message more in a mailbox, by a sender that has yet to count it.
LEMMA PushCounted ==
  ASSUME TypeOK, TypeOK', PendingExact, NEW s \in Senders, NEW k \in Mailboxes, PushMessage(s, k)
  PROVE  PendingExact'
<1>1. UNCHANGED <<pending, executed, alive>> /\ pc[s] = "idle"
  BY DEF PushMessage, workerVars
<1>2. CASE UNCHANGED <<mailbox, pc>>
  <2>1. /\ Waits' = Waits /\ Executing' = Executing /\ Uncounted' = Uncounted
        /\ DestroyCounted' = DestroyCounted /\ DestroyTaken' = DestroyTaken
    BY <1>1, <1>2 DEF Waits, Executing, Uncounted, DestroyCounted, SpawnPC, DestroyTaken
  <2>2. Total' = Total
    BY <1>1, <2>1 DEF Total
  <2>3. QED
    BY <1>1, <2>2, CounterKept
<1>3. CASE mailbox' = [mailbox EXCEPT ![k] = Append(@, <<s, sent[s] + 1, k>>)] /\ Goto(s, "publish")
  <2>1. s \notin Workers /\ s \notin Destroyers /\ s \in Thread
    BY ThreadAssumption DEF Thread
  <2>2. /\ Executing' = Executing /\ DestroyCounted' = DestroyCounted
        /\ \A u \in Thread : pc'[u] = IF u = s THEN "publish" ELSE pc[u]
    BY <1>3, <2>1, SetsChange
  <2>3. DestroyTaken' = DestroyTaken
    BY <1>1, <2>1, <2>2, TakenKept DEF Thread
  <2>4. Uncounted' = Uncounted \cup {s} /\ s \notin Uncounted
    BY <1>1, <2>1, <2>2 DEF Uncounted, Thread
  <2>5. Cardinality(Uncounted') = Cardinality(Uncounted) + 1
    BY <2>4, TotalTyped, FS_AddElement
  <2>6. /\ \A j \in Mailboxes : j # k => mailbox'[j] = mailbox[j]
        /\ Len(mailbox'[k]) = Len(mailbox[k]) + 1 /\ Len(mailbox[k]) \in Nat
    <3>1. <<s, sent[s] + 1, k>> \in Message /\ mailbox[k] \in Seq(Message)
      BY DEF TypeOK, Message
    <3>2. QED
      BY <1>3, <3>1 DEF TypeOK
  <2>7. Sum(Waits') = Sum(Waits) + 1
    <3>1. Sum(Waits') = Sum(Waits) + Len(mailbox'[k]) - Len(mailbox[k])
      BY <2>6, WaitsChange
    <3>2. QED
      BY <2>6, <3>1, TotalTyped
  <2>8. Total' = Total
    BY <1>1, <2>2, <2>3, <2>5, <2>7, TotalTyped DEF Total
  <2>9. QED
    BY <1>1, <2>8, CounterKept
<1>4. QED
  BY <1>2, <1>3 DEF PushMessage

\* fetch_add of a push: its sender has counted its message.
LEMMA CountCounted ==
  ASSUME TypeOK, TypeOK', PendingExact, NEW s \in Senders, Count(s)
  PROVE  PendingExact'
<1>1. /\ UNCHANGED <<mailbox, executed, alive>> /\ pc[s] = "count"
      /\ pending' = (pending + 1) % CounterMod
  BY DEF Count, workerVars
<1>2. PICK label \in {"cas", "idle"} : Goto(s, label)
  BY DEF Count
<1>3. s \notin Workers /\ s \notin Destroyers /\ s \in Thread
  BY ThreadAssumption DEF Thread
<1>4. /\ Executing' = Executing /\ DestroyCounted' = DestroyCounted
      /\ \A u \in Thread : pc'[u] = IF u = s THEN label ELSE pc[u]
  BY <1>2, <1>3, SetsChange
<1>5. DestroyTaken' = DestroyTaken
  BY <1>1, <1>3, <1>4, TakenKept DEF Thread
<1>6. Uncounted' = Uncounted \ {s} /\ s \in Uncounted
  BY <1>1, <1>3, <1>4 DEF Uncounted, Thread
<1>7. Cardinality(Uncounted') = Cardinality(Uncounted) - 1
  BY <1>6, TotalTyped, FS_RemoveElement
<1>8. Waits' = Waits
  BY <1>1 DEF Waits
<1>9. Total' = Total + 1
  BY <1>1, <1>4, <1>5, <1>7, <1>8, TotalTyped DEF Total
<1>10. QED
  BY <1>1, <1>9, CounterFollows

\* Pull passes a message from its mailbox to the worker's hands.
LEMMA PullCounted ==
  ASSUME TypeOK, TypeOK', PendingExact, NEW w \in Workers, Pull(w)
  PROVE  PendingExact'
<1>1. /\ UNCHANGED <<pending, executed, alive>> /\ pc[w] = "pull" /\ Goto(w, "execute")
  BY DEF Pull
<1>2. PICK k \in Mailboxes : k = index[w]
  BY DEF TypeOK
<1>3. w \notin Senders /\ w \notin Destroyers /\ w \in Thread
  BY ThreadAssumption DEF Thread
<1>4. /\ Uncounted' = Uncounted /\ DestroyCounted' = DestroyCounted
      /\ \A u \in Thread : pc'[u] = IF u = w THEN "execute" ELSE pc[u]
  BY <1>1, <1>3, SetsChange
<1>5. DestroyTaken' = DestroyTaken
  BY <1>1, <1>3, <1>4, TakenKept DEF Thread, DeadPC
<1>6. Executing' = Executing \cup {w} /\ w \notin Executing
  BY <1>1, <1>3, <1>4 DEF Executing, Thread
<1>7. Cardinality(Executing') = Cardinality(Executing) + 1
  BY <1>6, TotalTyped, FS_AddElement
<1>8. /\ \A j \in Mailboxes : j # k => mailbox'[j] = mailbox[j]
      /\ Len(mailbox'[k]) = Len(mailbox[k]) - 1 /\ Len(mailbox[k]) \in Nat
  <2>1. mailbox[k] \in Seq(Message) /\ mailbox[k] # <<>> /\ mailbox' = [mailbox EXCEPT ![k] = Tail(@)]
    BY <1>2 DEF Pull, Ready, TypeOK
  <2>2. QED
    BY <2>1 DEF TypeOK
<1>9. Sum(Waits') = Sum(Waits) - 1
  <2>1. Sum(Waits') = Sum(Waits) + Len(mailbox'[k]) - Len(mailbox[k])
    BY <1>8, WaitsChange
  <2>2. QED
    BY <1>8, <2>1, TotalTyped
<1>10. Total' = Total
  BY <1>1, <1>4, <1>5, <1>7, <1>9, TotalTyped DEF Total
<1>11. QED
  BY <1>1, <1>10, CounterKept

\* Execute passes it on to the messages that the worker will take off.
LEMMA ExecuteCounted ==
  ASSUME TypeOK, TypeOK', PendingExact, NEW w \in Workers, Execute(w)
  PROVE  PendingExact'
<1>1. /\ UNCHANGED <<mailbox, pending, alive>> /\ pc[w] = "execute"
      /\ executed' = [executed EXCEPT ![w] = @ + 1]
  BY DEF Execute, sharedVars
<1>2. PICK label \in {"sub", "pull"} : Goto(w, label)
  BY DEF Execute
<1>3. w \notin Senders /\ w \notin Destroyers /\ w \in Thread
  BY ThreadAssumption DEF Thread
<1>4. /\ Uncounted' = Uncounted /\ DestroyCounted' = DestroyCounted
      /\ \A u \in Thread : pc'[u] = IF u = w THEN label ELSE pc[u]
  BY <1>2, <1>3, SetsChange
<1>5. DestroyTaken' = DestroyTaken
  BY <1>1, <1>3, <1>4, TakenKept DEF Thread, DeadPC
<1>6. Executing' = Executing \ {w} /\ w \in Executing
  BY <1>1, <1>3, <1>4 DEF Executing, Thread
<1>7. Cardinality(Executing') = Cardinality(Executing) - 1
  BY <1>6, TotalTyped, FS_RemoveElement
<1>8. Sum(executed') = Sum(executed) + 1
  <2>1. executed'[w] = executed[w] + 1 /\ executed[w] \in Nat
        /\ \A v \in Workers : v # w => executed'[v] = executed[v]
    BY <1>1 DEF TypeOK
  <2>2. Sum(executed') = Sum(executed) + executed'[w] - executed[w]
    BY <2>1, ExecutedChange
  <2>3. QED
    BY <2>1, <2>2, TotalTyped
<1>9. Waits' = Waits
  BY <1>1 DEF Waits
<1>10. Total' = Total
  BY <1>4, <1>5, <1>7, <1>8, <1>9, TotalTyped DEF Total
<1>11. QED
  BY <1>1, <1>10, CounterKept

\* fetch_sub of an activation takes off what it executed.
LEMMA SubCounted ==
  ASSUME TypeOK, TypeOK', PendingExact, NEW w \in Workers, Sub(w)
  PROVE  PendingExact'
<1>1. /\ UNCHANGED <<mailbox, alive>> /\ pc[w] = "sub" /\ Goto(w, "unlock")
      /\ pending' = (pending - executed[w]) % CounterMod
      /\ executed' = [executed EXCEPT ![w] = 0]
  BY DEF Sub
<1>2. w \notin Senders /\ w \notin Destroyers /\ w \in Thread
  BY ThreadAssumption DEF Thread
<1>3. /\ Uncounted' = Uncounted /\ DestroyCounted' = DestroyCounted /\ Executing' = Executing
      /\ \A u \in Thread : pc'[u] = IF u = w THEN "unlock" ELSE pc[u]
  BY <1>1, <1>2, SetsChange
<1>4. DestroyTaken' = DestroyTaken
  BY <1>1, <1>2, <1>3, TakenKept DEF Thread, DeadPC
<1>5. PICK c \in Int : c = -executed[w]
  BY DEF TypeOK
<1>6. Sum(executed') = Sum(executed) + c
  <2>1. executed'[w] = 0 /\ executed[w] \in Nat
        /\ \A v \in Workers : v # w => executed'[v] = executed[v]
    BY <1>1 DEF TypeOK
  <2>2. Sum(executed') = Sum(executed) + executed'[w] - executed[w]
    BY <2>1, ExecutedChange
  <2>3. QED
    BY <1>5, <2>1, <2>2, TotalTyped
<1>7. Waits' = Waits
  BY <1>1 DEF Waits
<1>8. Total' = Total + c
  BY <1>3, <1>4, <1>6, <1>7, TotalTyped DEF Total
<1>9. pending' = (pending + c) % CounterMod
  <2>1. pending - executed[w] = pending + c
    BY <1>5 DEF TypeOK
  <2>2. QED
    BY <1>1, <2>1
<1>10. QED
  BY <1>8, <1>9, CounterFollows

\* The reset, and fetch_sub of the message that AsyncDestroy counted.
LEMMA DeadCounted ==
  ASSUME TypeOK, TypeOK', Live, DeadOnce, PendingExact, NEW w \in Workers, Reset(w) \/ SubDead(w)
  PROVE  PendingExact'
<1>1. UNCHANGED <<mailbox, executed>>
  BY DEF Reset, SubDead, workerVars
<1>2. w \notin Senders /\ w \notin Destroyers /\ w \in Thread
  BY ThreadAssumption DEF Thread
<1>3. PICK label \in {"unlockDead", "finish"} : Goto(w, label)
  BY DEF Reset, SubDead
<1>4. /\ Uncounted' = Uncounted /\ DestroyCounted' = DestroyCounted /\ Executing' = Executing
      /\ pc' = [pc EXCEPT ![w] = label]
      /\ \A u \in Thread : pc'[u] = IF u = w THEN label ELSE pc[u]
  <2>1. pc[w] # "execute" /\ label # "execute"
    BY DEF Reset, SubDead
  <2>2. QED
    BY <1>2, <1>3, <2>1, SetsChange
<1>5. Waits' = Waits
  BY <1>1 DEF Waits
<1>6. CASE Reset(w)
  <2>1. alive /\ pending' = pending /\ pc' = [pc EXCEPT ![w] = "unlockDead"]
    BY <1>6 DEF Reset, Live, LivePC, Goto
  <2>2. pc'[w] = "unlockDead"
    BY <1>2, <2>1 DEF TypeOK
  <2>3. DestroyTaken = 0 /\ DestroyTaken' = 0
    BY <2>1, <2>2 DEF DestroyTaken
  <2>4. Total' = Total
    BY <1>1, <1>4, <1>5, <2>3 DEF Total
  <2>5. QED
    BY <2>1, <2>4, CounterKept
<1>7. CASE SubDead(w)
  <2>1. /\ pc[w] = "subDead" /\ alive' = alive /\ pending' = (pending - 1) % CounterMod
        /\ pc' = [pc EXCEPT ![w] = "finish"]
    BY <1>7 DEF SubDead, Goto
  <2>2. ~alive /\ \A v \in Workers : pc'[v] \notin DeadPC
    BY <1>2, <2>1 DEF DeadOnce, DeadPC, TypeOK, Thread
  <2>3. DestroyTaken = 0 /\ DestroyTaken' = 1
    BY <2>1, <2>2 DEF DestroyTaken, DeadPC
  <2>4. Total' = Total + (-1)
    BY <1>1, <1>4, <1>5, <2>3, TotalTyped DEF Total
  <2>5. pending' = (pending + (-1)) % CounterMod
    <3>1. pending - 1 = pending + (-1)
      BY DEF TypeOK
    <3>2. QED
      BY <2>1, <3>1
  <2>6. QED
    BY <2>4, <2>5, CounterFollows
<1>8. QED
  BY <1>6, <1>7

\* fetch_add of AsyncDestroy.
LEMMA DestroyIsCounted ==
  ASSUME TypeOK, TypeOK', PendingExact, NEW d \in Destroyers, CountDestroy(d)
  PROVE  PendingExact'
<1>1. /\ UNCHANGED <<mailbox, executed, alive>> /\ pc[d] = "count" /\ Goto(d, "cas")
      /\ pending' = (pending + 1) % CounterMod
  BY DEF CountDestroy, workerVars
<1>2. d \notin Senders /\ d \notin Workers /\ d \in Thread
  BY ThreadAssumption DEF Thread
<1>3. /\ Uncounted' = Uncounted /\ Executing' = Executing
      /\ \A u \in Thread : pc'[u] = IF u = d THEN "cas" ELSE pc[u]
  BY <1>1, <1>2, SetsChange
<1>4. DestroyTaken' = DestroyTaken
  BY <1>1, <1>2, <1>3, TakenKept DEF Thread
<1>5. DestroyCounted' = DestroyCounted \cup {d} /\ d \notin DestroyCounted
  BY <1>1, <1>2, <1>3 DEF DestroyCounted, SpawnPC, Thread
<1>6. Cardinality(DestroyCounted') = Cardinality(DestroyCounted) + 1
  BY <1>5, TotalTyped, FS_AddElement
<1>7. Waits' = Waits
  BY <1>1 DEF Waits
<1>8. Total' = Total + 1
  BY <1>1, <1>3, <1>4, <1>6, <1>7, TotalTyped DEF Total
<1>9. QED
  BY <1>1, <1>8, CounterFollows

\* A reset needs a live instance, so that there is no second one.
LEMMA DeadStep ==
  ASSUME TypeOK, Live, DeadOnce, Next
  PROVE  DeadOnce'
<1>1. ASSUME NEW w \in Workers, Reset(w) PROVE DeadOnce'
  <2>1. alive /\ alive' = FALSE /\ pc' = [pc EXCEPT ![w] = "unlockDead"]
    BY <1>1 DEF Reset, Live, LivePC, Goto
  <2>2. \A v \in Workers : v # w => pc'[v] \notin DeadPC
    BY <2>1 DEF DeadOnce, TypeOK, Thread
  <2>3. QED
    BY <2>1, <2>2 DEF DeadOnce
<1>2. CASE alive' = alive /\ \A w \in Workers : pc'[w] \in DeadPC => pc[w] \in DeadPC
  BY <1>2 DEF DeadOnce
<1>3. ASSUME NEW w \in Workers, Pull(w) \/ Execute(w) \/ Sub(w) \/ SubDead(w) PROVE DeadOnce'
  <2>1. alive' = alive /\ \E label \in {"execute", "sub", "pull", "unlock", "finish"} : Goto(w, label)
    BY <1>3 DEF Pull, Execute, Sub, SubDead, sharedVars
  <2>2. \A v \in Workers : pc'[v] \in DeadPC => pc[v] \in DeadPC
    BY <2>1 DEF Goto, TypeOK, Thread, DeadPC
  <2>3. QED
    BY <1>2, <2>1, <2>2
<1>4. ASSUME NEW t \in Senders \cup Destroyers,
             Count(t) \/ CountDestroy(t) \/ \E k \in Mailboxes : PushMessage(t, k)
      PROVE  DeadOnce'
  <2>1. alive' = alive /\ (UNCHANGED pc \/ \E label : Goto(t, label))
    BY <1>4 DEF PushMessage, Count, CountDestroy
  <2>2. t \notin Workers
    BY ThreadAssumption
  <2>3. \A v \in Workers : pc'[v] = pc[v]
    BY <2>1, <2>2 DEF Goto, TypeOK, Thread
  <2>4. QED
    BY <1>2, <2>1, <2>3
<1>5. CASE CountKept
  BY <1>2, <1>5 DEF CountKept
<1>6. QED
  BY <1>1, <1>3, <1>4, <1>5, CountFrame

\* pending_message_count_ is off from what is queued by exactly the pushes that have yet
\* to count and the messages executed and not yet taken off, plus the one AsyncDestroy
\* counts for itself; although it is updated at other times than the mailboxes, and may
\* wrap below zero.
THEOREM CounterIsExact == Spec => []PendingExact
<1>1. Init => DeadOnce /\ PendingExact
  <2> SUFFICES ASSUME Init PROVE DeadOnce /\ PendingExact
    OBVIOUS
  <2>0. TypeOK
    BY InitTypeOK
  <2>1. DeadOnce
    BY DEF Init, DeadOnce, DeadPC, Thread
  <2>2. Executing = {} /\ Uncounted = {} /\ DestroyCounted = {} /\ DestroyTaken = 0
    BY DEF Init, Executing, Uncounted, DestroyCounted, SpawnPC, DestroyTaken, Thread
  <2>3. Sum(Waits) = 0 /\ Sum(executed) = 0
    <3>1. Waits \in [Mailboxes -> {0}] /\ executed \in [Workers -> {0}]
      BY DEF Init, Waits
    <3>2. QED
      BY <2>0, <3>1, TotalTyped, FiniteThreads, SumZero
  <2>4. Cardinality({}) = 0
    BY FS_EmptySet
  <2>5. Total = 0
    BY <2>2, <2>3, <2>4 DEF Total
  <2>6. pending = 0 /\ 0 % CounterMod = 0
    BY ConfigAssumption DEF Init
  <2>7. QED
    BY <2>1, <2>5, <2>6, PendingIsTotal
<1>2. TypeOK /\ TypeOK' /\ Live /\ DeadOnce /\ PendingExact /\ [Next]_vars
        => DeadOnce' /\ PendingExact'
  <2> SUFFICES ASSUME TypeOK, TypeOK', Live, DeadOnce, PendingExact, [Next]_vars
               PROVE  DeadOnce' /\ PendingExact'
    OBVIOUS
  <2>1. CASE CountKept
    <3>1. Executing' = Executing /\ Uncounted' = Uncounted /\ DestroyCounted' = DestroyCounted
      BY <2>1 DEF CountKept, Executing, Uncounted, DestroyCounted, SpawnPC
    <3>2. DestroyTaken' = DestroyTaken /\ Waits' = Waits
      BY <2>1, TakenKept DEF CountKept, Waits
    <3>3. Total' = Total /\ pending' = pending
      BY <2>1, <3>1, <3>2 DEF CountKept, Total
    <3>4. DeadOnce'
      BY <2>1 DEF CountKept, DeadOnce
    <3>5. QED
      BY <3>3, <3>4, CounterKept
  <2>2. CASE UNCHANGED vars
    BY <2>1, <2>2 DEF vars, sharedVars, workerVars, CountKept
  <2>3. CASE Next
    BY <2>1, <2>3, DeadStep, CountFrame, PushCounted, CountCounted, PullCounted, ExecuteCounted,
       SubCounted, DeadCounted, DestroyIsCounted
  <2>4. QED
    BY <2>2, <2>3
<1>3. QED
  BY <1>1, <1>2, TypeCorrect, LiveInvariant, PTL DEF Spec

(***************************************************************************)
(* No wake-up is lost.  A message in a mailbox, or the message of          *)
(* AsyncDestroy, is attended: an activation is queued or under way, or a   *)
(* thread is on its way to activate the actor.  The step that could break  *)
(* this is the recheck that finds pending_message_count_ zero, and there   *)
(* PendingExact says that nothing is left.                                 *)
(***************************************************************************)

\* pending_message_count_ is wide enough for all messages and that of AsyncDestroy.
CounterFits == Cardinality(Senders) * MaxSends + 1 < CounterMod

\* Only an activation that is between its first pull and fetch_sub owes the counter.
NothingOwed == \A w \in Workers : executed[w] # 0 => pc[w] \in {"pull", "execute", "sub"}

\* Mailboxes hold no more than was sent.
SentBounds == (\A s \in Senders : sent[s] <= MaxSends) /\ Sum(Waits) <= Sum(sent)

\* Labels of the one AsyncDestroy call that set pending_to_be_destroyed_.
ActivePC == {"count", "cas", "join", "wait", "done"} \cup SpawnPC

\* One call of AsyncDestroy goes on; the instance is reset and the scope joined for it only.
OneDestroys ==
  /\ \A d \in Destroyers : pc[d] # "idle" => toDestroy
  /\ \A d, e \in Destroyers : pc[d] \in ActivePC /\ pc[e] \in ActivePC => d = e
  /\ ~alive => toDestroy
  /\ \A w \in Workers : pc[w] \in {"reset"} \cup DeadPC => toDestroy
  /\ scopeState # "open" => \E d \in Destroyers : pc[d] \in {"wait", "done"}

\* Only a scope whose join() has completed refuses an activation.
RefusedWhenJoined == \A t \in Thread : pc[t] = "refused" => scopeState = "joined"

\* The lock is not left behind: while the instance lives and the scope is not joined,
\* activated_ is set only on behalf of an owner that will clear it.
LockHeld ==
  activated /\ alive /\ scopeState # "joined" => QueuedTotal = 1 \/ \E t \in Thread : Owns(t)

\* The labels from which a thread will activate the actor, or look for messages again.
Stirring == Owning \cup {"publish", "count", "cas", "recheck"}

\* While a mailbox holds a message, somebody attends to it.
MessageAttended ==
  toDestroy \/ QueuedTotal = 1 \/ (\E t \in Thread : pc[t] \in Stirring)
    \/ \A k \in Mailboxes : mailbox[k] = <<>>

\* A worker that attends to AsyncDestroy: it owns the actor, or will look again.
AttendingPC == Owning \cup {"cas", "recheck"}

\* Once AsyncDestroy has begun no push is under way, and until the instance is reset some
\* activation in the scope attends to it.
DestroyAttended ==
  /\ DestroyBegun => \A s \in Senders : pc[s] = "idle"
  /\ alive /\ (\E d \in Destroyers : pc[d] \in {"join", "wait", "done"})
       => QueuedTotal = 1 \/ \E w \in Workers : pc[w] \in AttendingPC

\* A sum of bounded values is bounded.
LEMMA SumBound ==
  ASSUME NEW S, IsFiniteSet(S), NEW f \in [S -> Nat], NEW b \in Nat, \A x \in S : f[x] <= b
  PROVE  Sum(f) <= Cardinality(S) * b
<1>1. PICK h : PartialSums(f, h, S)
  <2>1. DOMAIN f = S
    OBVIOUS
  <2>2. QED
    BY <2>1, SumEquation
<1> DEFINE Good == {s \in SUBSET S : h[s] \in Int /\ h[s] <= Cardinality(s) * b}
<1>2. ASSUME NEW s \in SUBSET S, s # {}, s \ {Pick(s)} \in Good PROVE s \in Good
  <2>1. IsFiniteSet(s)
    BY FS_Subset
  <2>2. PICK p \in S : p = Pick(s)
    BY <1>2 DEF Pick
  <2>3. PICK c \in Nat : c = Cardinality(s \ {p}) /\ Cardinality(s) = c + 1
    BY <1>2, <2>1, <2>2, PickSmaller
  <2>4. PICK n \in Int : n = h[s \ {p}] /\ n <= c * b
    BY <1>2, <2>2, <2>3
  <2>5. h[s] = f[p] + n /\ f[p] \in Nat /\ f[p] <= b
    BY <1>1, <1>2, <2>2, <2>4 DEF PartialSums
  <2>6. (c + 1) * b = c * b + b /\ c * b \in Int
    OBVIOUS
  <2>7. h[s] \in Int /\ h[s] <= (c + 1) * b
    BY <2>4, <2>5, <2>6
  <2>8. QED
    BY <2>3, <2>7
<1>3. {} \in Good
  <2>1. Cardinality({}) = 0 /\ 0 * b = 0 /\ h[{}] = 0
    BY <1>1, FS_EmptySet DEF PartialSums
  <2>2. QED
    BY <2>1
<1>4. S \in Good
  <2> HIDE DEF Good
  <2>1. QED
    BY <1>2, <1>3, SubsetInduction
<1>5. QED
  BY <1>1, <1>4 DEF PartialSums

\* A push sends at most what its sender may, and only pushes fill mailboxes.
LEMMA SentStep ==
  ASSUME TypeOK, TypeOK', SentBounds, Next
  PROVE  SentBounds'
<1>1. ASSUME NEW s \in Senders, NEW k \in Mailboxes, PushMessage(s, k) PROVE SentBounds'
  <2>1. /\ sent \in [Senders -> Nat] /\ sent' \in [Senders -> Nat]
        /\ sent' = [sent EXCEPT ![s] = @ + 1] /\ sent[s] < MaxSends
    BY <1>1 DEF PushMessage, TypeOK
  <2>2. \A x \in Senders : x # s => sent'[x] = sent[x]
    BY <2>1
  <2>3. Sum(sent') = Sum(sent) + 1
    <3>1. Sum(sent') = Sum(sent) + sent'[s] - sent[s]
      <4>1. sent \in [Senders -> Nat] /\ sent' \in [Senders -> Nat]
        BY <2>1
      <4>2. QED
        BY <2>2, <4>1, FiniteThreads, SumUpdate
    <3>2. sent'[s] = sent[s] + 1 /\ sent[s] \in Nat /\ Sum(sent) \in Nat
      BY <2>1, FiniteThreads, SumNat
    <3>3. QED
      BY <3>1, <3>2
  <2>4. Sum(Waits') <= Sum(Waits) + 1
    <3>1. CASE UNCHANGED mailbox
      <4>1. Waits' = Waits
        BY <3>1 DEF Waits
      <4>2. QED
        BY <4>1, TotalTyped
    <3>2. CASE mailbox' = [mailbox EXCEPT ![k] = Append(@, <<s, sent[s] + 1, k>>)]
      <4>1. /\ \A j \in Mailboxes : j # k => mailbox'[j] = mailbox[j]
            /\ Len(mailbox'[k]) = Len(mailbox[k]) + 1 /\ Len(mailbox[k]) \in Nat
        <5>1. <<s, sent[s] + 1, k>> \in Message /\ mailbox[k] \in Seq(Message)
          BY DEF TypeOK, Message
        <5>2. QED
          BY <3>2, <5>1 DEF TypeOK
      <4>2. Sum(Waits') = Sum(Waits) + Len(mailbox'[k]) - Len(mailbox[k])
        BY <4>1, WaitsChange
      <4>3. QED
        BY <4>1, <4>2, TotalTyped
    <3>3. QED
      BY <1>1, <3>1, <3>2 DEF PushMessage
  <2>5. Sum(Waits') <= Sum(sent')
    <3>1. Sum(sent) \in Nat /\ Sum(Waits) \in Nat /\ Sum(Waits') \in Nat
      <4>1. Waits' \in [Mailboxes -> Nat]
        <5>1. \A j \in Mailboxes : Len(mailbox'[j]) \in Nat
          BY DEF TypeOK
        <5>2. QED
          BY <5>1 DEF Waits
      <4>2. QED
        BY <2>1, <4>1, FiniteThreads, SumNat, TotalTyped
    <3>2. QED
      BY <2>3, <2>4, <3>1 DEF SentBounds
  <2>6. \A x \in Senders : sent'[x] <= MaxSends
    BY <2>1, ConfigAssumption DEF SentBounds
  <2>7. QED
    BY <2>5, <2>6 DEF SentBounds
<1>2. ASSUME NEW w \in Workers, Pull(w) PROVE SentBounds'
  <2>1. PICK k \in Mailboxes : k = index[w]
    BY DEF TypeOK
  <2>2. sent' = sent
    BY <1>2 DEF Pull, senderVars
  <2>3. /\ \A j \in Mailboxes : j # k => mailbox'[j] = mailbox[j]
        /\ Len(mailbox'[k]) = Len(mailbox[k]) - 1 /\ Len(mailbox[k]) \in Nat
    <3>1. mailbox[k] \in Seq(Message) /\ mailbox[k] # <<>> /\ mailbox' = [mailbox EXCEPT ![k] = Tail(@)]
      BY <1>2, <2>1 DEF Pull, Ready, TypeOK
    <3>2. QED
      BY <3>1 DEF TypeOK
  <2>4. Sum(Waits') = Sum(Waits) + Len(mailbox'[k]) - Len(mailbox[k])
    BY <2>3, WaitsChange
  <2>5. Sum(sent) \in Nat /\ Sum(Waits) \in Nat
    BY FiniteThreads, SumNat, TotalTyped DEF TypeOK
  <2>6. Sum(Waits') <= Sum(sent')
    BY <2>2, <2>3, <2>4, <2>5 DEF SentBounds
  <2>7. QED
    BY <2>2, <2>6 DEF SentBounds
<1>3. CASE UNCHANGED <<mailbox, sent>>
  <2>1. Waits' = Waits
    BY <1>3 DEF Waits
  <2>2. QED
    BY <1>3, <2>1 DEF SentBounds
<1>4. ASSUME NEW w \in Workers, Execute(w) PROVE SentBounds'
  BY <1>3, <1>4 DEF Execute, sharedVars, senderVars
<1>5. QED
  BY <1>1, <1>2, <1>3, <1>4, MessageFrame

\* So all mailboxes together hold fewer messages than the counter can count.
LEMMA MailboxesFit ==
  ASSUME TypeOK, SentBounds, CounterFits
  PROVE  Sum(Waits) + 1 < CounterMod
<1>1. Sum(sent) <= Cardinality(Senders) * MaxSends
  <2>1. sent \in [Senders -> Nat] /\ MaxSends \in Nat
    BY ConfigAssumption DEF TypeOK
  <2>2. QED
    BY <2>1, FiniteThreads, SumBound DEF SentBounds
<1>2. Sum(sent) \in Nat /\ Sum(Waits) \in Nat
  BY FiniteThreads, SumNat, TotalTyped DEF TypeOK
<1>3. PICK n \in Nat : n = Cardinality(Senders) * MaxSends
  <2>1. Cardinality(Senders) \in Nat /\ MaxSends \in Nat
    BY ConfigAssumption, FiniteThreads, FS_CardinalityType
  <2>2. QED
    BY <2>1
<1>4. QED
  BY <1>1, <1>2, <1>3, ConfigAssumption DEF SentBounds, CounterFits

\* Between fetch_sub and the next pull a worker owes nothing.
LEMMA OwedStep ==
  ASSUME TypeOK, NothingOwed, Next
  PROVE  NothingOwed'
<1>1. ASSUME NEW w \in Workers, WorkerStep(w) PROVE NothingOwed'
  <2>1. \A v \in Workers : v # w => executed'[v] = executed[v] /\ pc'[v] = pc[v]
    BY <1>1 DEF WorkerStep, Dequeue, Enter, Reset, UnlockDead, SubDead, Limit, Pull, NextMailbox,
       Execute, Sub, Unlock, Recheck, Activate, Spawn, Schedule, Associate, Enqueue, Refuse, Finish,
       Leave, Goto, workerVars, TypeOK, Thread
  <2>2. executed'[w] # 0 => pc'[w] \in {"pull", "execute", "sub"}
    <3>1. CASE pc[w] \in {"pull", "execute"}
      BY <1>1, <3>1 DEF WorkerStep, Dequeue, Enter, Reset, UnlockDead, SubDead, Limit, Pull,
         NextMailbox, Execute, Sub, Unlock, Recheck, Activate, Spawn, Schedule, Associate, Enqueue,
         Refuse, Finish, Leave, Goto, TypeOK, Thread
    <3>2. CASE pc[w] = "sub"
      BY <1>1, <3>2 DEF WorkerStep, Dequeue, Enter, Reset, UnlockDead, SubDead, Limit, Pull,
         NextMailbox, Execute, Sub, Unlock, Recheck, Activate, Spawn, Schedule, Associate, Enqueue,
         Refuse, Finish, Leave, Goto, TypeOK, Thread
    <3>3. CASE pc[w] \notin {"pull", "execute", "sub"}
      <4>1. executed[w] = 0
        BY <3>3 DEF NothingOwed
      <4>2. executed' = executed
        BY <1>1, <3>3 DEF WorkerStep, Dequeue, Enter, Reset, UnlockDead, SubDead, Limit, Pull,
           NextMailbox, Execute, Sub, Unlock, Recheck, Activate, Spawn, Schedule, Associate,
           Enqueue, Refuse, Finish, Leave, workerVars
      <4>3. QED
        BY <4>1, <4>2
    <3>4. QED
      BY <3>1, <3>2, <3>3
  <2>3. QED
    BY <2>1, <2>2 DEF NothingOwed
<1>2. ASSUME NEW t \in Senders \cup Destroyers, SenderStep(t) \/ DestroyerStep(t) PROVE NothingOwed'
  <2>1. executed' = executed /\ (UNCHANGED pc \/ \E label : Goto(t, label))
    BY <1>2 DEF SenderStep, DestroyerStep, PushMessage, Publish, Count, Activate, Spawn, Schedule,
       Associate, Enqueue, Refuse, BeginDestroy, CountDestroy, Join, Joined, workerVars
  <2>2. \A w \in Workers : pc'[w] = pc[w]
    BY <2>1, ThreadAssumption DEF Goto, TypeOK, Thread
  <2>3. QED
    BY <2>1, <2>2 DEF NothingOwed
<1>3. QED
  BY <1>1, <1>2 DEF Next

\* Only the first AsyncDestroy finds pending_to_be_destroyed_ clear.
LEMMA OneDestroysStep ==
  ASSUME TypeOK, OneDestroys, Next
  PROVE  OneDestroys'
<1>1. ASSUME NEW s \in Senders, SenderStep(s) PROVE OneDestroys'
  <2>1. UNCHANGED <<toDestroy, alive, scopeState>> /\ (UNCHANGED pc \/ \E label : Goto(s, label))
    BY <1>1 DEF SenderStep, PushMessage, Publish, Count, Activate, Spawn, Schedule, Associate,
       Enqueue, Refuse, sharedVars, spawnVars
  <2>2. \A t \in Workers \cup Destroyers : pc'[t] = pc[t]
    BY <2>1, ThreadAssumption DEF Goto, TypeOK, Thread
  <2>3. QED
    BY <2>1, <2>2 DEF OneDestroys
<1>2. ASSUME NEW w \in Workers, WorkerStep(w) PROVE OneDestroys'
  <2>1. /\ toDestroy' = toDestroy
        /\ \A t \in Workers \cup Destroyers : t # w => pc'[t] = pc[t]
    BY <1>2, ThreadAssumption DEF WorkerStep, Dequeue, Enter, Reset, UnlockDead, SubDead, Limit,
       Pull, NextMailbox, Execute, Sub, Unlock, Recheck, Activate, Spawn, Schedule, Associate,
       Enqueue, Refuse, Finish, Leave, Goto, sharedVars, TypeOK, Thread
  <2>2. \A d \in Destroyers : pc'[d] = pc[d]
    BY <2>1, ThreadAssumption
  <2>3. scopeState' # "open" => scopeState # "open"
    BY <1>2 DEF WorkerStep, Dequeue, Enter, Reset, UnlockDead, SubDead, Limit, Pull, NextMailbox,
       Execute, Sub, Unlock, Recheck, Activate, Spawn, Schedule, Associate, Enqueue, Refuse, Finish,
       Leave, spawnVars
  <2>4. ~alive' => ~alive \/ pc[w] = "reset"
    BY <1>2 DEF WorkerStep, Dequeue, Enter, Reset, UnlockDead, SubDead, Limit, Pull, NextMailbox,
       Execute, Sub, Unlock, Recheck, Activate, Spawn, Schedule, Associate, Enqueue, Refuse, Finish,
       Leave, sharedVars
  <2>5. pc'[w] \in {"reset"} \cup DeadPC => toDestroy \/ pc[w] \in {"reset"} \cup DeadPC
    BY <1>2, ThreadAssumption DEF WorkerStep, Dequeue, Enter, Reset, UnlockDead, SubDead, Limit,
       Pull, NextMailbox, Execute, Sub, Unlock, Recheck, Activate, Spawn, Schedule, Associate,
       Enqueue, Refuse, Finish, Leave, Goto, AfterActivate, DeadPC, TypeOK, Thread
  <2>6. QED
    BY <2>1, <2>2, <2>3, <2>4, <2>5 DEF OneDestroys
<1>3. ASSUME NEW d \in Destroyers, DestroyerStep(d) PROVE OneDestroys'
  <2>1. /\ alive' = alive /\ d \notin Workers /\ d \notin Senders /\ d \in Thread
        /\ \A t \in Thread : t # d => pc'[t] = pc[t]
    BY <1>3, ThreadAssumption DEF DestroyerStep, BeginDestroy, CountDestroy, Activate, Spawn,
       Schedule, Associate, Enqueue, Refuse, Join, Joined, Goto, sharedVars, TypeOK, Thread
  <2>2. \A w \in Workers : pc'[w] = pc[w]
    BY <2>1 DEF Thread
  <2>3. CASE BeginDestroy(d)
    <3>1. toDestroy' = TRUE /\ scopeState' = scopeState /\ pc[d] = "idle"
      BY <2>3 DEF BeginDestroy, spawnVars
    <3>2. pc'[d] = IF toDestroy THEN "returned" ELSE "count"
      BY <2>1, <2>3 DEF BeginDestroy, Goto, TypeOK
    <3>3. CASE toDestroy
      BY <2>1, <2>2, <3>1, <3>2, <3>3 DEF OneDestroys, ActivePC, SpawnPC, Thread
    <3>4. CASE ~toDestroy
      BY <2>1, <2>2, <3>1, <3>2, <3>4 DEF OneDestroys, ActivePC, SpawnPC, Thread
    <3>5. QED
      BY <3>3, <3>4
  <2>4. CASE ~BeginDestroy(d)
    <3>1. toDestroy' = toDestroy /\ pc[d] \in ActivePC
      BY <1>3, <2>4 DEF DestroyerStep, CountDestroy, Activate, Spawn, Schedule, Associate, Enqueue,
         Refuse, Join, Joined, sharedVars, ActivePC, SpawnPC
    <3>2. pc'[d] \in ActivePC /\ (pc[d] \in {"wait", "done"} => pc'[d] \in {"wait", "done"})
      BY <1>3, <2>1, <2>4 DEF DestroyerStep, CountDestroy, Activate, Spawn, Schedule, Associate,
         Enqueue, Refuse, Join, Joined, Goto, AfterActivate, ActivePC, SpawnPC, TypeOK
    <3>3. scopeState' = scopeState \/ pc'[d] = "wait"
      BY <1>3, <2>1, <2>4 DEF DestroyerStep, CountDestroy, Activate, Spawn, Schedule, Associate,
         Enqueue, Refuse, Join, Joined, Goto, spawnVars, TypeOK
    <3>4. toDestroy
      BY <3>1 DEF OneDestroys, ActivePC, SpawnPC
    <3>5. scopeState' # "open" => \E e \in Destroyers : pc'[e] \in {"wait", "done"}
      BY <2>1, <3>2, <3>3 DEF OneDestroys, Thread
    <3>6. \A e \in Destroyers : pc'[e] \in ActivePC => pc[e] \in ActivePC
      BY <2>1, <3>1 DEF Thread
    <3>7. QED
      BY <2>2, <2>1, <3>1, <3>4, <3>5, <3>6 DEF OneDestroys
  <2>5. QED
    BY <2>3, <2>4
<1>4. QED
  BY <1>1, <1>2, <1>3 DEF Next

\* A joined scope stays joined, so that a refused activation can only be dropped.
LEMMA RefusedStep ==
  ASSUME TypeOK, OneDestroys, RefusedWhenJoined, Next
  PROVE  RefusedWhenJoined'
<1>1. scopeState = "joined" => scopeState' = "joined"
  <2>1. ASSUME NEW d \in Destroyers, Join(d), scopeState = "joined" PROVE FALSE
    BY <2>1 DEF Join, OneDestroys, ActivePC
  <2>2. ASSUME NEW d \in Destroyers, DestroyerStep(d), ~Join(d) PROVE scopeState' = scopeState
    BY <2>2 DEF DestroyerStep, BeginDestroy, CountDestroy, Activate, Spawn, Schedule, Associate,
       Enqueue, Refuse, Joined, spawnVars
  <2>3. ASSUME NEW s \in Senders, SenderStep(s) PROVE scopeState' = scopeState
    BY <2>3 DEF SenderStep, PushMessage, Publish, Count, Activate, Spawn, Schedule, Associate,
       Enqueue, Refuse, spawnVars
  <2>4. ASSUME NEW w \in Workers, WorkerStep(w), scopeState = "joined" PROVE scopeState' = "joined"
    BY <2>4 DEF WorkerStep, Dequeue, Enter, Reset, UnlockDead, SubDead, Limit, Pull, NextMailbox,
       Execute, Sub, Unlock, Recheck, Activate, Spawn, Schedule, Associate, Enqueue, Refuse, Finish,
       Leave, spawnVars
  <2>5. QED
    BY <2>1, <2>2, <2>3, <2>4 DEF Next
<1>2. ASSUME NEW t \in Thread, pc'[t] = "refused", pc[t] # "refused"
      PROVE  scopeState = "joined"
  <2>1. ASSUME NEW u \in Thread, SenderStep(u) \/ WorkerStep(u) \/ DestroyerStep(u)
        PROVE  \/ UNCHANGED pc
               \/ Associate(u)
               \/ \E label : label # "refused" /\ Goto(u, label)
    BY <2>1 DEF SenderStep, PushMessage, Publish, Count, Activate, Spawn, Schedule, Enqueue, Refuse,
       WorkerStep, Dequeue, Enter, Reset, UnlockDead, SubDead, Limit, Pull, NextMailbox, Execute,
       Sub, Unlock, Recheck, Finish, Leave, DestroyerStep, BeginDestroy, CountDestroy, Join, Joined,
       AfterActivate
  <2>2. ASSUME NEW u \in Thread, Associate(u), scopeState # "joined" PROVE FALSE
    BY <1>2, <2>2 DEF Associate, Goto, TypeOK
  <2>3. ASSUME NEW u \in Thread, NEW label, label # "refused", Goto(u, label) PROVE FALSE
    BY <1>2, <2>3 DEF Goto, TypeOK
  <2>4. PICK u \in Thread : SenderStep(u) \/ WorkerStep(u) \/ DestroyerStep(u)
    BY DEF Next, Thread
  <2>5. QED
    BY <1>2, <2>1, <2>2, <2>3, <2>4
<1>3. QED
  BY <1>1, <1>2 DEF RefusedWhenJoined

\* A thread that is not an owner may go on, as long as it leaves the lock alone.
LEMMA LockKept ==
  ASSUME TypeOK, LockHeld, NEW t \in Thread, NEW label, UNCHANGED pc \/ Goto(t, label),
         ~Owns(t), queued' = queued, activated' => activated, alive' => alive,
         scopeState' # "joined" => scopeState # "joined"
  PROVE  LockHeld'
<1>1. \A u \in Thread : u # t => pc'[u] = pc[u]
  BY DEF Goto, TypeOK
<1>2. QED
  BY <1>1 DEF LockHeld, QueuedTotal, Owns

\* A thread that owns the actor after the step keeps LockHeld.
LEMMA LockOwned ==
  ASSUME TypeOK, NEW t \in Thread, NEW label \in Owning, Goto(t, label)
  PROVE  LockHeld'
<1>1. pc'[t] = label
  BY DEF Goto, TypeOK
<1>2. QED
  BY <1>1 DEF LockHeld, Owns

\* TryActivate and the spawn keep LockHeld, whichever thread calls them.
LEMMA ActivateLock ==
  ASSUME TypeOK, Ownership, LockHeld, NEW t \in Thread, Activate(t) \/ Spawn(t)
  PROVE  LockHeld'
<1>1. CASE Activate(t) /\ ~activated
  BY <1>1, LockOwned DEF Activate, Owning, SpawnPC
<1>2. CASE Activate(t) /\ activated
  BY <1>2, LockKept DEF Activate, spawnVars, Owns, Owning, InActor, SpawnPC
<1>3. CASE Schedule(t)
  BY <1>3, LockOwned DEF Schedule, Owning, SpawnPC
<1>4. CASE Associate(t) /\ scopeState # "joined"
  BY <1>4, LockOwned DEF Associate, Owning, SpawnPC
<1>5. CASE Associate(t) /\ scopeState = "joined"
  BY <1>5 DEF Associate, LockHeld
<1>6. CASE Enqueue(t)
  BY <1>6, EnqueueQueues DEF LockHeld
<1>7. CASE Refuse(t)
  BY <1>7, LockKept DEF Refuse, sharedVars, Owns, Owning, InActor, SpawnPC
<1>8. QED
  BY <1>1, <1>2, <1>3, <1>4, <1>5, <1>6, <1>7 DEF Spawn

\* Only the end of an activation, or its early return on a dead instance, gives the
\* lock up.
LEMMA LockStep ==
  ASSUME TypeOK, Ownership, OneDestroys, LockHeld, Next
  PROVE  LockHeld'
<1>1. ASSUME NEW s \in Senders, SenderStep(s) PROVE LockHeld'
  <2>1. s \in Thread
    BY DEF Thread
  <2>2. CASE Activate(s) \/ Spawn(s)
    BY <2>1, <2>2, ActivateLock
  <2>3. CASE ~Activate(s) /\ ~Spawn(s)
    <3>1. /\ UNCHANGED <<queued, activated, alive, scopeState>>
          /\ pc[s] \in {"idle", "publish", "count"}
          /\ UNCHANGED pc \/ \E label : Goto(s, label)
      BY <1>1, <2>3 DEF SenderStep, PushMessage, Publish, Count, sharedVars, spawnVars
    <3>2. QED
      BY <2>1, <3>1, LockKept DEF Owns, Owning, InActor, SpawnPC
  <2>4. QED
    BY <2>2, <2>3
<1>2. ASSUME NEW w \in Workers, WorkerStep(w) PROVE LockHeld'
  <2>1. w \in Thread
    BY DEF Thread
  <2>2. CASE Activate(w) \/ Spawn(w)
    BY <2>1, <2>2, ActivateLock
  <2>3. CASE \/ \E st \in Storage : Dequeue(w, st)
             \/ Limit(w) \/ Pull(w) \/ Execute(w) \/ Sub(w)
    <3>1. PICK label \in Owning : Goto(w, label)
      BY <2>3 DEF Dequeue, Limit, Pull, Execute, Sub, Owning, InActor, SpawnPC
    <3>2. QED
      BY <2>1, <3>1, LockOwned
  <2>4. CASE NextMailbox(w)
    <3>1. pc'[w] \in Owning
      BY <2>1, <2>4 DEF NextMailbox, Goto, TypeOK, Owning, InActor, SpawnPC
    <3>2. QED
      BY <2>1, <3>1 DEF LockHeld, Owns
  <2>5. CASE Enter(w)
    <3>1. alive' = alive
      BY <2>5 DEF Enter, sharedVars
    <3>2. alive => \E label \in Owning : Goto(w, label)
      BY <2>5 DEF Enter, Owning, InActor, SpawnPC
    <3>3. CASE alive
      BY <2>1, <3>2, <3>3, LockOwned
    <3>4. CASE ~alive
      BY <3>1, <3>4 DEF LockHeld
    <3>5. QED
      BY <3>3, <3>4
  <2>6. CASE Reset(w) \/ UnlockDead(w) \/ Unlock(w)
    BY <2>6 DEF Reset, UnlockDead, Unlock, LockHeld
  <2>7. CASE SubDead(w) \/ Recheck(w) \/ Finish(w) \/ Leave(w)
    <3>1. /\ UNCHANGED <<queued, activated, alive>>
          /\ pc[w] \in {"subDead", "recheck", "finish", "leave"}
          /\ scopeState' # "joined" => scopeState # "joined"
          /\ \E label : Goto(w, label)
      BY <2>7 DEF SubDead, Recheck, Finish, Leave, sharedVars, spawnVars
    <3>2. QED
      BY <2>1, <3>1, LockKept DEF Owns, Owning, InActor, SpawnPC
  <2>8. QED
    BY <1>2, <2>2, <2>3, <2>4, <2>5, <2>6, <2>7 DEF WorkerStep
<1>3. ASSUME NEW d \in Destroyers, DestroyerStep(d) PROVE LockHeld'
  <2>1. d \in Thread
    BY DEF Thread
  <2>2. CASE Activate(d) \/ Spawn(d)
    BY <2>1, <2>2, ActivateLock
  <2>3. CASE ~Activate(d) /\ ~Spawn(d)
    <3>1. /\ UNCHANGED <<queued, activated, alive>>
          /\ pc[d] \in {"idle", "count", "join", "wait"}
          /\ \E label : Goto(d, label)
          /\ scopeState' = scopeState \/ pc[d] = "join"
      BY <1>3, <2>3 DEF DestroyerStep, BeginDestroy, CountDestroy, Join, Joined, sharedVars,
         spawnVars
    <3>2. pc[d] = "join" => scopeState = "open"
      BY DEF OneDestroys, ActivePC, SpawnPC
    <3>3. QED
      BY <2>1, <3>1, <3>2, LockKept DEF Owns, Owning, InActor, SpawnPC
  <2>4. QED
    BY <2>2, <2>3
<1>4. QED
  BY <1>1, <1>2, <1>3 DEF Next

\* When nobody owns the actor and every push has counted its message, a zero counter
\* means that nothing waits: neither a message nor AsyncDestroy.
LEMMA ZeroMeansEmpty ==
  ASSUME TypeOK, PendingExact, NothingOwed, SentBounds, CounterFits, alive, pending = 0,
         Uncounted = {}, \A w \in Workers : ~Owns(w), Cardinality(DestroyCounted) \in {0, 1}
  PROVE  Cardinality(DestroyCounted) = 0 /\ \A k \in Mailboxes : mailbox[k] = <<>>
<1>1. Executing = {} /\ DestroyTaken = 0
  BY DEF Executing, DestroyTaken, Owns, Owning, InActor, SpawnPC
<1>2. Sum(executed) = 0
  <2>1. executed \in [Workers -> {0}]
    BY DEF NothingOwed, Owns, Owning, InActor, SpawnPC, TypeOK
  <2>2. QED
    BY <2>1, FiniteThreads, SumZero
<1>3. Cardinality({}) = 0
  BY FS_EmptySet
<1>4. Total = Sum(Waits) + Cardinality(DestroyCounted)
  BY <1>1, <1>2, <1>3, TotalTyped DEF Total
<1>5. PICK n \in Nat : n = Sum(Waits)
  BY TotalTyped
<1>6. PICK c \in {0, 1} : c = Cardinality(DestroyCounted)
  OBVIOUS
<1>7. n + 1 < CounterMod
  BY <1>5, MailboxesFit
<1>8. (n + c) % CounterMod = 0
  BY <1>4, <1>5, <1>6, PendingIsTotal
<1>9. (n + c) % CounterMod = n + c
  BY <1>7, ConfigAssumption
<1>10. n = 0 /\ c = 0
  BY <1>8, <1>9
<1>11. ASSUME NEW k \in Mailboxes PROVE mailbox[k] = <<>>
  <2>1. Waits[k] <= Sum(Waits) /\ Waits[k] \in Nat
    BY TotalTyped, SumMember
  <2>2. Len(mailbox[k]) = 0
    BY <1>5, <1>10, <2>1 DEF Waits
  <2>3. QED
    BY <2>2 DEF TypeOK
<1>12. QED
  BY <1>6, <1>10, <1>11

\* A thread that stirs after the step attends to the mailboxes.
LEMMA StirringAttends ==
  ASSUME TypeOK, NEW t \in Thread, NEW label \in Stirring, Goto(t, label)
  PROVE  MessageAttended'
<1>1. pc'[t] = label
  BY DEF Goto, TypeOK
<1>2. QED
  BY <1>1 DEF MessageAttended, Stirring

\* Nor does it matter what a thread does that did not stir.
LEMMA AttendedKept ==
  ASSUME TypeOK, MessageAttended, NEW t \in Thread, NEW label, UNCHANGED pc \/ Goto(t, label),
         pc[t] \notin Stirring, UNCHANGED <<queued, mailbox, toDestroy>>
  PROVE  MessageAttended'
<1>1. \A u \in Thread : u # t => pc'[u] = pc[u]
  BY DEF Goto, TypeOK
<1>2. CASE \E u \in Thread : pc[u] \in Stirring
  BY <1>1, <1>2 DEF MessageAttended, Stirring
<1>3. CASE ~\E u \in Thread : pc[u] \in Stirring
  BY <1>3 DEF MessageAttended, QueuedTotal
<1>4. QED
  BY <1>2, <1>3

\* TryActivate: the thread becomes the owner, or there is one already that will look
\* at the mailboxes again.
LEMMA ActivateAttends ==
  ASSUME TypeOK, Ownership, OneDestroys, LockHeld, MessageAttended, ~toDestroy,
         NEW t \in Thread, Activate(t) \/ Spawn(t)
  PROVE  MessageAttended'
<1>1. alive /\ scopeState = "open"
  BY DEF OneDestroys
<1>2. CASE Activate(t) /\ ~activated
  BY <1>2, StirringAttends DEF Activate, Stirring, Owning, InActor, SpawnPC
<1>3. CASE Activate(t) /\ activated
  <2>1. QueuedTotal = 1 \/ \E u \in Thread : Owns(u)
    BY <1>1, <1>3 DEF LockHeld
  <2>2. queued' = queued /\ pc[t] = "cas" /\ \A u \in Thread : u # t => pc'[u] = pc[u]
    BY <1>3 DEF Activate, spawnVars, Goto, TypeOK
  <2>3. CASE QueuedTotal = 1
    BY <2>2, <2>3 DEF MessageAttended, QueuedTotal
  <2>4. CASE \E u \in Thread : Owns(u)
    <3>1. PICK u \in Thread : Owns(u)
      BY <2>4
    <3>2. pc'[u] \in Stirring
      BY <2>2, <3>1 DEF Owns, Owning, InActor, SpawnPC, Stirring
    <3>3. QED
      BY <3>2 DEF MessageAttended, Stirring
  <2>5. QED
    BY <2>1, <2>3, <2>4
<1>4. CASE Schedule(t)
  BY <1>4, StirringAttends DEF Schedule, Stirring, Owning, SpawnPC
<1>5. CASE Associate(t)
  BY <1>1, <1>5, StirringAttends DEF Associate, Stirring, Owning, SpawnPC
<1>6. CASE Enqueue(t)
  BY <1>6, EnqueueQueues DEF MessageAttended
<1>7. CASE Refuse(t)
  BY <1>7, AttendedKept DEF Refuse, sharedVars, Stirring, Owning, InActor, SpawnPC
<1>8. QED
  BY <1>2, <1>3, <1>4, <1>5, <1>6, <1>7 DEF Spawn

\* The recheck that ends an activation finds the counter zero only when somebody else
\* attends to the mailboxes or they are empty.
LEMMA RecheckAttends ==
  ASSUME TypeOK, OneDestroys, PendingExact, NothingOwed, SentBounds, CounterFits,
         MessageAttended, ~toDestroy, NEW w \in Workers, Recheck(w)
  PROVE  MessageAttended'
<1>0. w \in Thread /\ pc[w] = "recheck" /\ UNCHANGED <<queued, mailbox, toDestroy>>
  BY DEF Recheck, Thread, sharedVars, spawnVars
<1>1. \A u \in Thread : u # w => pc'[u] = pc[u]
  BY DEF Recheck, Goto, TypeOK
<1>2. CASE pending > 0
  BY <1>0, <1>2, StirringAttends DEF Recheck, Stirring, Owning, InActor, SpawnPC
<1>3. CASE QueuedTotal = 1
  BY <1>0, <1>3 DEF MessageAttended, QueuedTotal
<1>4. CASE \E u \in Thread : u # w /\ pc[u] \in Stirring
  BY <1>1, <1>4 DEF MessageAttended, Stirring
<1>5. CASE pending = 0 /\ \A u \in Thread : u # w => pc[u] \notin Stirring
  <2>1. Uncounted = {} /\ \A v \in Workers : ~Owns(v)
    BY <1>0, <1>5, ThreadAssumption DEF Uncounted, Owns, Stirring, Owning, InActor, SpawnPC, Thread
  <2>2. DestroyCounted = {}
    BY DEF OneDestroys, DestroyCounted, SpawnPC
  <2>3. Cardinality(DestroyCounted) = 0
    BY <2>2, FS_EmptySet
  <2>4. alive
    BY DEF OneDestroys
  <2>5. \A k \in Mailboxes : mailbox[k] = <<>>
    BY <1>5, <2>1, <2>3, <2>4, ZeroMeansEmpty
  <2>6. QED
    BY <1>0, <2>5 DEF MessageAttended
<1>6. QED
  BY <1>2, <1>3, <1>4, <1>5 DEF TypeOK

\* No step leaves a message unattended, when every mailbox activates the actor.
LEMMA AttendedStep ==
  ASSUME TypeOK, Ownership, OneDestroys, LockHeld, PendingExact, NothingOwed, SentBounds,
         CounterFits, Allowed = Mailboxes, MessageAttended, Next
  PROVE  MessageAttended'
<1>1. CASE toDestroy'
  BY <1>1 DEF MessageAttended
<1>2. ASSUME NEW s \in Senders, SenderStep(s), ~toDestroy' PROVE MessageAttended'
  <2>1. s \in Thread
    BY DEF Thread
  <2>2. CASE Activate(s) \/ Spawn(s)
    <3>1. ~toDestroy
      BY <1>2, <2>2 DEF Activate, Spawn, Schedule, Associate, Enqueue, Refuse, sharedVars
    <3>2. QED
      BY <2>1, <2>2, <3>1, ActivateAttends
  <2>3. CASE Publish(s)
    BY <2>1, <2>3, StirringAttends DEF Publish, Stirring
  <2>4. CASE Count(s)
    <3>1. target[s] \in Allowed
      BY DEF TypeOK
    <3>2. Goto(s, "cas")
      BY <2>4, <3>1 DEF Count, ShouldActivate
    <3>3. QED
      BY <2>1, <3>2, StirringAttends DEF Stirring
  <2>5. ASSUME NEW k \in Mailboxes, PushMessage(s, k) PROVE MessageAttended'
    <3>1. CASE Goto(s, "publish")
      BY <2>1, <3>1, StirringAttends DEF Stirring
    <3>2. CASE UNCHANGED <<mailbox, pc>>
      BY <2>1, <2>5, <3>2, AttendedKept DEF PushMessage, spawnVars, Stirring, Owning, InActor,
         SpawnPC
    <3>3. QED
      BY <2>5, <3>1, <3>2 DEF PushMessage
  <2>6. QED
    BY <1>2, <2>2, <2>3, <2>4, <2>5 DEF SenderStep
<1>3. ASSUME NEW w \in Workers, WorkerStep(w), ~toDestroy' PROVE MessageAttended'
  <2>1. w \in Thread /\ ~toDestroy /\ alive /\ pc[w] \notin {"reset"} \cup DeadPC
    <3>1. toDestroy' = toDestroy
      BY <1>3 DEF WorkerStep, Dequeue, Enter, Reset, UnlockDead, SubDead, Limit, Pull, NextMailbox,
         Execute, Sub, Unlock, Recheck, Activate, Spawn, Schedule, Associate, Enqueue, Refuse,
         Finish, Leave, sharedVars
    <3>2. QED
      BY <1>3, <3>1 DEF OneDestroys, Thread
  <2>2. CASE Activate(w) \/ Spawn(w)
    BY <2>1, <2>2, ActivateAttends
  <2>3. CASE Recheck(w)
    BY <2>1, <2>3, RecheckAttends
  <2>4. CASE \/ \E st \in Storage : Dequeue(w, st)
             \/ Enter(w) \/ Limit(w) \/ Pull(w) \/ Execute(w) \/ Sub(w) \/ Unlock(w)
    <3>1. PICK label \in Stirring : Goto(w, label)
      BY <2>1, <2>4 DEF Dequeue, Enter, Limit, Pull, Execute, Sub, Unlock, Stirring, Owning,
         InActor, SpawnPC
    <3>2. QED
      BY <2>1, <3>1, StirringAttends
  <2>5. CASE NextMailbox(w)
    <3>1. pc'[w] \in Stirring
      BY <2>1, <2>5 DEF NextMailbox, Goto, TypeOK, Stirring, Owning, InActor, SpawnPC
    <3>2. QED
      BY <2>1, <3>1 DEF MessageAttended, Stirring
  <2>6. CASE Finish(w) \/ Leave(w)
    BY <2>1, <2>6, AttendedKept DEF Finish, Leave, sharedVars, Stirring, Owning, InActor, SpawnPC
  <2>7. CASE Reset(w) \/ UnlockDead(w) \/ SubDead(w)
    BY <2>1, <2>7 DEF Reset, UnlockDead, SubDead, DeadPC
  <2>8. QED
    BY <1>3, <2>2, <2>3, <2>4, <2>5, <2>6, <2>7 DEF WorkerStep
<1>4. ASSUME NEW d \in Destroyers, DestroyerStep(d), ~toDestroy' PROVE MessageAttended'
  <2>1. pc[d] # "idle" /\ toDestroy' = toDestroy
    BY <1>4 DEF DestroyerStep, BeginDestroy, CountDestroy, Activate, Spawn, Schedule, Associate,
       Enqueue, Refuse, Join, Joined, sharedVars
  <2>2. QED
    BY <1>4, <2>1 DEF OneDestroys
<1>5. QED
  BY <1>1, <1>2, <1>3, <1>4 DEF Next

\* What the two theorems below have in common.
Wakeful == NothingOwed /\ SentBounds /\ OneDestroys /\ RefusedWhenJoined /\ LockHeld

\* Wakeful holds for every configuration.
LEMMA WakefulInvariant == Spec => []Wakeful
<1>1. Init => Wakeful
  <2> SUFFICES ASSUME Init PROVE Wakeful
    OBVIOUS
  <2>1. NothingOwed
    BY DEF Init, NothingOwed
  <2>2. SentBounds
    <3>1. Waits \in [Mailboxes -> {0}] /\ sent \in [Senders -> {0}]
      BY DEF Init, Waits
    <3>2. TypeOK
      BY InitTypeOK
    <3>3. Sum(Waits) = 0 /\ Sum(sent) = 0
      BY <3>1, <3>2, TotalTyped, FiniteThreads, SumZero
    <3>4. \A s \in Senders : sent[s] = 0
      BY DEF Init
    <3>5. QED
      BY <3>3, <3>4, ConfigAssumption DEF SentBounds
  <2>3. OneDestroys
    BY DEF Init, OneDestroys, ActivePC, SpawnPC, DeadPC, Thread
  <2>4. LockHeld /\ RefusedWhenJoined
    BY DEF Init, LockHeld, RefusedWhenJoined
  <2>5. QED
    BY <2>1, <2>2, <2>3, <2>4 DEF Wakeful
<1>2. TypeOK /\ TypeOK' /\ Ownership /\ Wakeful /\ [Next]_vars => Wakeful'
  <2> SUFFICES ASSUME TypeOK, TypeOK', Ownership, Wakeful, [Next]_vars
               PROVE  Wakeful'
    OBVIOUS
  <2>0. NothingOwed /\ SentBounds /\ OneDestroys /\ RefusedWhenJoined /\ LockHeld
    BY DEF Wakeful
  <2>1. CASE Next
    BY <2>0, <2>1, OwedStep, SentStep, OneDestroysStep, RefusedStep, LockStep DEF Wakeful
  <2>2. CASE UNCHANGED vars
    <3>1. UNCHANGED <<pc, executed, sent, mailbox, toDestroy, alive, scopeState, activated, queued>>
      BY <2>2 DEF vars, sharedVars, spawnVars, senderVars, workerVars
    <3>2. Waits' = Waits
      BY <3>1 DEF Waits
    <3>3. SentBounds'
      BY <2>0, <3>1, <3>2 DEF SentBounds
    <3>4. NothingOwed' /\ OneDestroys' /\ RefusedWhenJoined' /\ LockHeld'
      BY <2>0, <3>1 DEF NothingOwed, OneDestroys, RefusedWhenJoined, LockHeld, QueuedTotal, Owns
    <3>5. QED
      BY <3>3, <3>4 DEF Wakeful
  <2>3. QED
    BY <2>1, <2>2
<1>3. QED
  BY <1>1, <1>2, TypeCorrect, OwnershipInvariant, PTL DEF Spec

\* Once async_scope_.join() has completed, no activation is queued or running or will be: a
\* worker is busy, or a thread about to enqueue, only with an activation that the scope
\* counts, and the call of AsyncDestroy that joined is past its own spawn.  What a push that
\* came too late may still do is take the slot and be refused.
THEOREM JoinLeavesNothing == Spec => []NothingRunsAfterJoin
<1>1. TypeOK /\ Ownership /\ SlotHeldOnce /\ ScopeCounts /\ OneDestroys => NothingRunsAfterJoin
  <2> SUFFICES ASSUME TypeOK, Ownership, SlotHeldOnce, ScopeCounts, OneDestroys,
                      scopeState = "joined"
               PROVE  /\ QueuedTotal = 0
                      /\ Busy = {}
                      /\ slotInUse => \E s \in Senders : /\ pc[s] \in {"associate", "refused"}
                                                         /\ spawning[s] = "slot"
    BY DEF NothingRunsAfterJoin
  <2>1. /\ QueuedTotal \in Nat /\ Cardinality(Busy) \in Nat /\ Cardinality(Starting) \in Nat
        /\ QueuedTotal + Cardinality(Busy) + Cardinality(Starting) = 0
    BY FS_CardinalityType DEF ScopeCounts, Ownership
  <2>2. QueuedTotal = 0 /\ Cardinality(Busy) = 0 /\ Cardinality(Starting) = 0
    BY <2>1
  <2>3. Busy = {} /\ Starting = {}
    BY <2>2, FS_EmptySet DEF ScopeCounts
  <2>4. queued["slot"] = 0
    BY <2>2 DEF QueuedTotal, TypeOK, Storage
  <2>5. \A w \in Workers : pc[w] = "idle" /\ storage[w] # "slot"
    BY <2>3 DEF SlotHeldOnce, Busy
  <2>6. ASSUME slotInUse
        PROVE  \E s \in Senders : pc[s] \in {"associate", "refused"} /\ spawning[s] = "slot"
    <3>1. PICK t \in Thread : spawning[t] = "slot"
      BY <2>4, <2>5, <2>6 DEF SlotHeldOnce
    <3>2. pc[t] \in {"associate", "refused"}
      BY <2>3, <3>1 DEF SlotHeldOnce, Starting
    <3>3. t \notin Workers
      BY <2>5, <3>2
    <3>4. t \notin Destroyers
      BY <3>2 DEF OneDestroys, ActivePC, SpawnPC
    <3>5. QED
      BY <3>1, <3>2, <3>3, <3>4 DEF Thread
  <2>7. QED
    BY <2>2, <2>3, <2>6
<1>2. QED
  BY <1>1, TypeCorrect, OwnershipInvariant, ScopeInvariant, WakefulInvariant, PTL DEF Wakeful

\* No wake-up is lost: when every thread has returned and nothing is queued in the
\* scheduler, no mailbox holds a message, unless the actor is being destroyed.  Every
\* mailbox must activate the actor, since the counter that the activation rechecks is that
\* of all mailboxes; and the counter must be wide enough for the messages.
THEOREM NoMessageIsStranded ==
  ASSUME CounterFits, Allowed = Mailboxes
  PROVE  Spec => []NoStrandedMessage
<1>1. Init => MessageAttended
  BY DEF Init, MessageAttended
<1>2. TypeOK /\ Ownership /\ Wakeful /\ PendingExact /\ MessageAttended /\ [Next]_vars
        => MessageAttended'
  <2> SUFFICES ASSUME TypeOK, Ownership, Wakeful, PendingExact, MessageAttended, [Next]_vars
               PROVE  MessageAttended'
    OBVIOUS
  <2>1. CASE Next
    BY <2>1, AttendedStep DEF Wakeful
  <2>2. CASE UNCHANGED vars
    BY <2>2 DEF vars, sharedVars, spawnVars, MessageAttended, QueuedTotal, Stirring, Owning,
       InActor, SpawnPC
  <2>3. QED
    BY <2>1, <2>2
<1>3. MessageAttended => NoStrandedMessage
  BY DEF MessageAttended, NoStrandedMessage, Quiescent, Stirring, Owning, InActor, SpawnPC
<1>4. QED
  BY <1>1, <1>2, <1>3, TypeCorrect, OwnershipInvariant, WakefulInvariant, CounterIsExact, PTL DEF
     Spec

\* When no push overlaps AsyncDestroy, the only other owner that an activating thread can
\* meet is a worker or the queued activation.
LEMMA OwnerIsWorker ==
  ASSUME TypeOK, OneDestroys, DestroyAttended, LockHeld, activated, alive, scopeState # "joined",
         NEW d \in Destroyers, pc[d] \in {"cas", "join", "wait", "done"}
  PROVE  QueuedTotal = 1 \/ \E v \in Workers : Owns(v)
<1>1. CASE QueuedTotal = 1
  BY <1>1
<1>2. CASE \E u \in Thread : Owns(u)
  <2>1. PICK u \in Thread : Owns(u)
    BY <1>2
  <2>2. u \notin Senders
    BY <2>1 DEF DestroyAttended, DestroyBegun, Owns, Owning, InActor, SpawnPC
  <2>3. u \notin Destroyers
    <3> SUFFICES ASSUME u \in Destroyers PROVE FALSE
      OBVIOUS
    <3>1. pc[u] \in SpawnPC
      BY <2>1 DEF TypeOK, DestroyerPC, Owns, Owning, InActor, SpawnPC
    <3>2. u = d
      BY <3>1 DEF OneDestroys, ActivePC, SpawnPC
    <3>3. QED
      BY <3>1, <3>2 DEF SpawnPC
  <2>4. QED
    BY <2>1, <2>2, <2>3 DEF Thread
<1>3. QED
  BY <1>1, <1>2 DEF LockHeld

\* A step that leaves the workers and the queue alone, and by which no AsyncDestroy
\* reaches join(), keeps the activation that attends to it.
LEMMA DestroyKept ==
  ASSUME TypeOK, DestroyAttended, alive' = alive, queued' = queued,
         \A w \in Workers : pc'[w] = pc[w],
         DestroyBegun' => \A s \in Senders : pc'[s] = "idle",
         \A d \in Destroyers : pc'[d] \in {"join", "wait", "done"} => pc[d] \in {"join", "wait", "done"}
  PROVE  DestroyAttended'
  BY DEF DestroyAttended, QueuedTotal

\* Senders are done before AsyncDestroy begins, and push no more.
LEMMA SenderDestroy ==
  ASSUME TypeOK, DestroyAttended, ~PushRacesDestroy, NEW s \in Senders, SenderStep(s)
  PROVE  DestroyAttended'
<1>1. s \in Thread /\ s \notin Workers /\ s \notin Destroyers
  BY ThreadAssumption DEF Thread
<1>2. ~DestroyBegun
  BY DEF SenderStep, PushMessage, Publish, Count, Activate, Spawn, Schedule, Associate, Enqueue,
     Refuse, DestroyAttended
<1>3. UNCHANGED pc \/ \E label : Goto(s, label)
  BY DEF SenderStep, PushMessage, Publish, Count, Activate, Spawn, Schedule, Associate, Enqueue,
     Refuse
<1>4. \A u \in Thread : u # s => pc'[u] = pc[u]
  BY <1>3 DEF Goto, TypeOK
<1>5. \A d \in Destroyers : pc'[d] = "idle"
  BY <1>1, <1>2, <1>4 DEF DestroyBegun, Thread
<1>6. QED
  BY <1>5 DEF DestroyAttended, DestroyBegun

\* AsyncDestroy reaches join() only after it has activated the actor, or found it
\* activated.
LEMMA DestroyerDestroy ==
  ASSUME TypeOK, Ownership, OneDestroys, RefusedWhenJoined, LockHeld, DestroyAttended,
         ~PushRacesDestroy, NEW d \in Destroyers, DestroyerStep(d)
  PROVE  DestroyAttended'
<1>1. /\ d \in Thread /\ d \notin Workers /\ d \notin Senders /\ alive' = alive
      /\ \A u \in Thread : u # d => pc'[u] = pc[u]
  BY ThreadAssumption DEF DestroyerStep, BeginDestroy, CountDestroy, Activate, Spawn, Schedule,
     Associate, Enqueue, Refuse, Join, Joined, Goto, sharedVars, TypeOK, Thread
<1>2. (\A w \in Workers : pc'[w] = pc[w]) /\ (\A s \in Senders : pc'[s] = pc[s])
  BY <1>1 DEF Thread
<1>3. \A s \in Senders : pc'[s] = "idle"
  <2>1. CASE BeginDestroy(d)
    BY <1>2, <2>1 DEF BeginDestroy
  <2>2. CASE ~BeginDestroy(d)
    <3>1. pc[d] # "idle"
      BY <2>2 DEF DestroyerStep, CountDestroy, Activate, Spawn, Schedule, Associate, Enqueue,
         Refuse, Join, Joined
    <3>2. QED
      BY <1>2, <3>1 DEF DestroyAttended, DestroyBegun
  <2>3. QED
    BY <2>1, <2>2
<1>4. CASE BeginDestroy(d) \/ CountDestroy(d) \/ Join(d) \/ Joined(d)
  <2>1. queued' = queued
    BY <1>4 DEF BeginDestroy, CountDestroy, Join, Joined, spawnVars
  <2>2. pc'[d] \in {"join", "wait", "done"} => pc[d] \in {"join", "wait", "done"}
    BY <1>1, <1>4 DEF BeginDestroy, CountDestroy, Join, Joined, Goto, TypeOK
  <2>3. QED
    BY <1>1, <1>2, <1>3, <2>1, <2>2, DestroyKept DEF Thread
<1>5. CASE Activate(d) /\ ~activated
  <2>1. queued' = queued /\ pc'[d] = "schedule"
    BY <1>1, <1>5 DEF Activate, spawnVars, Goto, TypeOK
  <2>2. QED
    BY <1>1, <1>2, <1>3, <2>1, DestroyKept DEF Thread
<1>6. CASE Activate(d) /\ activated
  <2>1. queued' = queued /\ pc[d] = "cas"
    BY <1>6 DEF Activate, spawnVars
  <2>2. scopeState = "open"
    BY <2>1 DEF OneDestroys, ActivePC, SpawnPC
  <2>3. alive => QueuedTotal = 1 \/ \E v \in Workers : Owns(v)
    BY <1>6, <2>1, <2>2, OwnerIsWorker
  <2>4. alive' => QueuedTotal' = 1 \/ \E v \in Workers : pc'[v] \in Owning
    BY <1>1, <1>2, <2>1, <2>3 DEF QueuedTotal, Owns
  <2>5. QED
    BY <1>3, <2>4 DEF DestroyAttended, AttendingPC
<1>7. CASE Spawn(d)
  <2>1. pc[d] \in SpawnPC
    BY <1>7 DEF Spawn, Schedule, Associate, Enqueue, Refuse, SpawnPC
  <2>2. scopeState = "open"
    BY <2>1 DEF OneDestroys, ActivePC, SpawnPC
  <2>3. ~Refuse(d)
    BY <1>1, <2>2 DEF RefusedWhenJoined, Refuse
  <2>4. CASE Schedule(d) \/ Associate(d)
    <3>1. queued' = queued /\ pc'[d] \in {"associate", "enqueue", "refused"}
      BY <1>1, <2>4 DEF Schedule, Associate, Goto, TypeOK
    <3>2. QED
      BY <1>1, <1>2, <1>3, <3>1, DestroyKept DEF Thread
  <2>5. CASE Enqueue(d)
    <3>1. QueuedTotal' = 1
      BY <1>1, <2>5, EnqueueQueues
    <3>2. QED
      BY <1>3, <3>1 DEF DestroyAttended
  <2>6. QED
    BY <1>7, <2>3, <2>4, <2>5 DEF Spawn
<1>8. QED
  BY <1>4, <1>5, <1>6, <1>7 DEF DestroyerStep

\* An activation ends only when another one attends to AsyncDestroy, or when it has reset
\* the instance.
LEMMA WorkerDestroy ==
  ASSUME TypeOK, Ownership, DeadOnce, OneDestroys, LockHeld, NothingRunsAfterJoin, PendingExact,
         NothingOwed, SentBounds, CounterFits, DestroyAttended, NEW w \in Workers, WorkerStep(w)
  PROVE  DestroyAttended'
<1>1. w \in Thread /\ w \notin Senders /\ w \notin Destroyers
  BY ThreadAssumption DEF Thread
<1>2. UNCHANGED pc \/ \E label : Goto(w, label)
  BY DEF WorkerStep, Dequeue, Enter, Reset, UnlockDead, SubDead, Limit, Pull, NextMailbox, Execute,
     Sub, Unlock, Recheck, Activate, Spawn, Schedule, Associate, Enqueue, Refuse, Finish, Leave
<1>3. \A u \in Thread : u # w => pc'[u] = pc[u]
  BY <1>2 DEF Goto, TypeOK
<1>4. (\A s \in Senders : pc'[s] = pc[s]) /\ (\A d \in Destroyers : pc'[d] = pc[d])
  BY <1>1, <1>3 DEF Thread
<1>5. DestroyBegun' => \A s \in Senders : pc'[s] = "idle"
  BY <1>4 DEF DestroyAttended, DestroyBegun
<1>6. alive' => alive
  BY DEF WorkerStep, Dequeue, Enter, Reset, UnlockDead, SubDead, Limit, Pull, NextMailbox, Execute,
     Sub, Unlock, Recheck, Activate, Spawn, Schedule, Associate, Enqueue, Refuse, Finish, Leave,
     sharedVars
<1> SUFFICES ASSUME alive', NEW d \in Destroyers, pc[d] \in {"join", "wait", "done"}
             PROVE  QueuedTotal' = 1 \/ \E v \in Workers : pc'[v] \in AttendingPC
  BY <1>4, <1>5 DEF DestroyAttended
<1>7. alive /\ (QueuedTotal = 1 \/ \E v \in Workers : pc[v] \in AttendingPC)
  BY <1>6 DEF DestroyAttended
<1>8. CASE pc'[w] \in AttendingPC
  BY <1>8
<1>9. ASSUME queued' = queued, QueuedTotal = 1 \/ \E v \in Workers : v # w /\ pc[v] \in AttendingPC
      PROVE  QueuedTotal' = 1 \/ \E v \in Workers : pc'[v] \in AttendingPC
  BY <1>3, <1>9 DEF QueuedTotal, Thread
<1>10. CASE \/ \E st \in Storage : Dequeue(w, st)
            \/ Enter(w) \/ Limit(w) \/ Pull(w) \/ Execute(w) \/ Sub(w) \/ Unlock(w)
  <2>1. \E label \in AttendingPC : Goto(w, label)
    BY <1>7, <1>10 DEF Dequeue, Enter, Limit, Pull, Execute, Sub, Unlock, AttendingPC, Owning,
       InActor, SpawnPC
  <2>2. pc'[w] \in AttendingPC
    BY <1>1, <2>1 DEF Goto, TypeOK
  <2>3. QED
    BY <1>8, <2>2
<1>11. CASE NextMailbox(w)
  <2>1. pc'[w] \in AttendingPC
    BY <1>1, <1>11 DEF NextMailbox, Goto, TypeOK, AttendingPC, Owning, InActor, SpawnPC
  <2>2. QED
    BY <1>8, <2>1
<1>12. CASE Reset(w) \/ UnlockDead(w) \/ SubDead(w)
  BY <1>7, <1>12 DEF Reset, UnlockDead, SubDead, DeadOnce, DeadPC
<1>13. CASE Finish(w) \/ Leave(w) \/ Refuse(w)
  <2>1. queued' = queued /\ pc[w] \notin AttendingPC
    BY <1>13 DEF Finish, Leave, Refuse, AttendingPC, Owning, InActor, SpawnPC
  <2>2. QED
    BY <1>7, <1>9, <2>1
<1>14. ASSUME pc[w] # "idle" PROVE scopeState # "joined"
  BY <1>14 DEF NothingRunsAfterJoin, Busy
<1>15. CASE Activate(w)
  <2>1. CASE ~activated
    <3>1. pc'[w] = "schedule"
      BY <1>1, <1>15, <2>1 DEF Activate, Goto, TypeOK
    <3>2. QED
      BY <1>8, <3>1 DEF AttendingPC, Owning, InActor, SpawnPC
  <2>2. CASE activated
    <3>1. queued' = queued /\ pc[w] = "cas" /\ ~Owns(w)
      BY <1>15 DEF Activate, spawnVars, Owns, Owning, InActor, SpawnPC
    <3>2. QueuedTotal = 1 \/ \E v \in Workers : Owns(v)
      BY <1>7, <1>14, <2>2, <3>1, OwnerIsWorker
    <3>3. QueuedTotal = 1 \/ \E v \in Workers : v # w /\ pc[v] \in AttendingPC
      BY <3>1, <3>2 DEF Owns, AttendingPC
    <3>4. QED
      BY <1>9, <3>1, <3>3
  <2>3. QED
    BY <2>1, <2>2
<1>16. CASE Schedule(w) \/ Associate(w) \/ Enqueue(w)
  <2>1. CASE Enqueue(w)
    BY <1>1, <2>1, EnqueueQueues
  <2>2. CASE Schedule(w) \/ Associate(w)
    <3>1. pc'[w] \in {"associate", "enqueue"}
      BY <1>1, <1>14, <2>2 DEF Schedule, Associate, Goto, TypeOK
    <3>2. QED
      BY <1>8, <3>1 DEF AttendingPC, Owning, SpawnPC
  <2>3. QED
    BY <1>16, <2>1, <2>2
<1>17. CASE Recheck(w)
  <2>1. queued' = queued /\ pc[w] = "recheck" /\ ~Owns(w)
    BY <1>17 DEF Recheck, spawnVars, Owns, Owning, InActor, SpawnPC
  <2>2. CASE pending > 0
    <3>1. pc'[w] = "cas"
      BY <1>1, <1>17, <2>2 DEF Recheck, Goto, TypeOK
    <3>2. QED
      BY <1>8, <3>1 DEF AttendingPC
  <2>3. CASE QueuedTotal = 1 \/ \E v \in Workers : v # w /\ pc[v] \in AttendingPC
    BY <1>9, <2>1, <2>3
  <2>4. ASSUME pending = 0, \A v \in Workers : v # w => pc[v] \notin AttendingPC
        PROVE  FALSE
    <3>1. Uncounted = {}
      BY DEF Uncounted, DestroyAttended, DestroyBegun
    <3>2. \A v \in Workers : ~Owns(v)
      BY <2>1, <2>4 DEF Owns, AttendingPC
    <3>3. DestroyCounted = {d}
      BY DEF OneDestroys, ActivePC, DestroyCounted, SpawnPC
    <3>4. Cardinality(DestroyCounted) = 1
      BY <3>3, FS_Singleton
    <3>5. QED
      BY <1>7, <2>4, <3>1, <3>2, <3>4, ZeroMeansEmpty
  <2>5. QED
    BY <2>2, <2>3, <2>4 DEF TypeOK
<1>18. QED
  BY <1>10, <1>11, <1>12, <1>13, <1>15, <1>16, <1>17 DEF WorkerStep, Spawn

\* When no push overlaps AsyncDestroy and the counter is wide enough, AsyncDestroy returns
\* only after an activation has reset the instance: the activation that clears activated_
\* just before AsyncDestroy fails its compare-exchange sees the message it counted.
THEOREM InstanceIsDestroyed ==
  ASSUME CounterFits, ~PushRacesDestroy
  PROVE  Spec => []DestroyedWhenJoined
<1>1. Init => DeadOnce /\ DestroyAttended
  BY DEF Init, DeadOnce, DeadPC, DestroyAttended, DestroyBegun, Thread
<1>2. TypeOK /\ Live /\ Ownership /\ Wakeful /\ NothingRunsAfterJoin /\ PendingExact
        /\ DeadOnce /\ DestroyAttended /\ [Next]_vars
          => DeadOnce' /\ DestroyAttended'
  <2> SUFFICES ASSUME TypeOK, Live, Ownership, Wakeful, NothingRunsAfterJoin, PendingExact,
                      DeadOnce, DestroyAttended, [Next]_vars
               PROVE  DeadOnce' /\ DestroyAttended'
    OBVIOUS
  <2>0. NothingOwed /\ SentBounds /\ OneDestroys /\ RefusedWhenJoined /\ LockHeld
    BY DEF Wakeful
  <2>1. CASE Next
    BY <2>0, <2>1, DeadStep, SenderDestroy, WorkerDestroy, DestroyerDestroy DEF Next
  <2>2. CASE UNCHANGED vars
    BY <2>2 DEF vars, sharedVars, spawnVars, DeadOnce, DestroyAttended, DestroyBegun, QueuedTotal
  <2>3. QED
    BY <2>1, <2>2
<1>3. TypeOK /\ Wakeful /\ NothingRunsAfterJoin /\ DestroyAttended => DestroyedWhenJoined
  <2> SUFFICES ASSUME TypeOK, Wakeful, NothingRunsAfterJoin, DestroyAttended, scopeState = "joined", alive
               PROVE  FALSE
    BY DEF DestroyedWhenJoined
  <2>1. QueuedTotal = 0 /\ Busy = {}
    BY DEF NothingRunsAfterJoin
  <2>2. \E d \in Destroyers : pc[d] \in {"wait", "done"}
    BY DEF Wakeful, OneDestroys
  <2>3. \E w \in Workers : pc[w] # "idle"
    BY <2>1, <2>2 DEF DestroyAttended, AttendingPC, Owning, InActor, SpawnPC
  <2>4. QED
    BY <2>1, <2>3 DEF Busy
<1>4. QED
  BY <1>1, <1>2, <1>3, TypeCorrect, LiveInvariant, OwnershipInvariant, WakefulInvariant,
     JoinLeavesNothing, CounterIsExact, PTL DEF Spec
=============================================================================
