------------------------------- MODULE Actor -------------------------------
(***************************************************************************)
(* The activation protocol of one actor (include/ex_actor/internal/        *)
(* actor.h): sender threads push messages, worker threads of the scheduler *)
(* run the activations that drain the mailboxes, destroyers call           *)
(* AsyncDestroy.  Each action is one atomic access of the C++ code, so the *)
(* threads interleave between any two of them.  Memory is sequentially     *)
(* consistent.                                                             *)
(***************************************************************************)
EXTENDS Integers, Sequences, FiniteSets, Functions

CONSTANTS
  Senders,          \* threads that call PushMessage
  Workers,          \* threads of the scheduler the actor runs on
  Destroyers,       \* coroutines that call AsyncDestroy
  MailboxCount,     \* MailboxSet::MailboxCount()
  Capacity,         \* Capacity[k]: 0 for an UnboundedMailbox, else the ring's size
  Allowed,          \* mailboxes for which the user's hook always says TRUE
  MaxPerActivation, \* ActorConfig::max_message_executed_per_activation
  CounterMod,       \* 2^w for the w bits of pending_message_count_
  MaxSends,         \* bound: pushes per sender
  PushRacesDestroy  \* whether pushes and AsyncDestroy may overlap

Mailboxes == 0 .. MailboxCount - 1
Message == Senders \X Nat \X Mailboxes      \* sender, number, mailbox
NoMessage == <<>>
Thread == Senders \cup Workers \cup Destroyers

ASSUME ThreadAssumption ==
  /\ Senders \cap Workers = {}
  /\ Senders \cap Destroyers = {}
  /\ Workers \cap Destroyers = {}

ASSUME FiniteThreads == IsFiniteSet(Senders) /\ IsFiniteSet(Workers) /\ IsFiniteSet(Destroyers)

ASSUME ConfigAssumption ==
  /\ MailboxCount \in Nat \ {0}
  /\ Capacity \in [Mailboxes -> Nat]
  /\ Allowed \subseteq Mailboxes
  /\ MaxPerActivation \in Nat
  /\ CounterMod \in Nat \ {0}
  /\ MaxSends \in Nat
  /\ PushRacesDestroy \in BOOLEAN

VARIABLES
  mailbox,      \* the queues of mailbox_set_
  pending,      \* pending_message_count_
  activated,    \* activated_
  toDestroy,    \* pending_to_be_destroyed_
  alive,        \* user_class_instance_ != nullptr
  scopeCount,   \* operations associated with async_scope_
  scopeState,   \* "open", "joining" (join() waits) or "joined"
  queued,       \* activations in the scheduler's queue, by the storage they use
  slotInUse,    \* PreallocSlot::in_use_
  spawning,     \* storage of the activation each thread is spawning
  pc,           \* where each thread is
  sent,         \* pushes each sender has begun
  target,       \* mailbox of each sender's last push
  limit,        \* message_execution_limit of each worker
  executed,     \* message_executed of each worker
  index,        \* mailbox_index of each worker
  current,      \* the message each worker executes
  storage,      \* storage of the activation each worker runs
  done          \* messages whose Execute() was called

sharedVars == <<mailbox, pending, activated, toDestroy, alive>>
spawnVars == <<scopeCount, scopeState, queued, slotInUse, spawning>>
senderVars == <<sent, target>>
workerVars == <<limit, executed, index, current, storage>>
vars == <<sharedVars, spawnVars, pc, senderVars, workerVars, done>>

Storage == {"slot", "heap"}
SpawnPC == {"schedule", "associate", "enqueue", "refused"}
SenderPC == {"idle", "publish", "count", "cas"} \cup SpawnPC
WorkerPC == {"idle", "enter", "reset", "unlockDead", "subDead", "limit", "pull",
             "execute", "sub", "unlock", "recheck", "cas", "finish", "leave"} \cup SpawnPC
DestroyerPC == {"idle", "count", "cas", "join", "wait", "done", "returned"} \cup SpawnPC

\* pending_message_count_ has type Nat below CounterMod, every queue holds
\* messages of its own mailbox, and each thread is at one of its own labels.
TypeOK ==
  /\ mailbox \in [Mailboxes -> Seq(Message)]
  /\ pending \in 0 .. CounterMod - 1
  /\ activated \in BOOLEAN /\ toDestroy \in BOOLEAN /\ alive \in BOOLEAN
  /\ scopeCount \in Int
  /\ scopeState \in {"open", "joining", "joined"}
  /\ queued \in [Storage -> Nat]
  /\ slotInUse \in BOOLEAN
  /\ spawning \in [Thread -> Storage]
  /\ pc \in [Thread -> SenderPC \cup WorkerPC \cup DestroyerPC]
  /\ \A s \in Senders : pc[s] \in SenderPC
  /\ \A w \in Workers : pc[w] \in WorkerPC
  /\ \A d \in Destroyers : pc[d] \in DestroyerPC
  /\ sent \in [Senders -> Nat]
  /\ target \in [Senders -> Mailboxes]
  /\ limit \in [Workers -> Nat]
  /\ executed \in [Workers -> Nat]
  /\ index \in [Workers -> Mailboxes]
  /\ current \in [Workers -> Message \cup {NoMessage}]
  /\ storage \in [Workers -> Storage]
  /\ done \subseteq Message \cup {NoMessage}

\* A freshly constructed actor; no thread has called it yet.
Init ==
  /\ mailbox = [k \in Mailboxes |-> <<>>]
  /\ pending = 0
  /\ activated = FALSE
  /\ toDestroy = FALSE
  /\ alive = TRUE
  /\ scopeCount = 0
  /\ scopeState = "open"
  /\ queued = [st \in Storage |-> 0]
  /\ slotInUse = FALSE
  /\ spawning = [t \in Thread |-> "heap"]
  /\ pc = [t \in Thread |-> "idle"]
  /\ sent = [s \in Senders |-> 0]
  /\ target = [s \in Senders |-> 0]
  /\ limit = [w \in Workers |-> 0]
  /\ executed = [w \in Workers |-> 0]
  /\ index = [w \in Workers |-> 0]
  /\ current = [w \in Workers |-> NoMessage]
  /\ storage = [w \in Workers |-> "heap"]
  /\ done = {}

Goto(t, label) == pc' = [pc EXCEPT ![t] = label]

(***************************************************************************)
(* TryActivate and Schedule, called by every kind of thread.  Schedule is  *)
(* ex::spawn: it allocates the operation's state, asks async_scope_ for an *)
(* association and then starts the operation or releases the state.        *)
(***************************************************************************)

\* What the caller of TryActivate does once it has returned.
AfterActivate(t) ==
  IF t \in Senders THEN "idle" ELSE IF t \in Workers THEN "finish" ELSE "join"

\* Mutant: the compare-exchange is replaced by a plain store.
ActivateNoCheck(t) ==
  /\ pc[t] = "cas"
  /\ activated' = TRUE
  /\ Goto(t, "schedule")
  /\ UNCHANGED <<mailbox, pending, toDestroy, alive, spawnVars, senderVars, workerVars, done>>

\* TryActivate: the compare-exchange on activated_.
Activate(t) ==
  /\ pc[t] = "cas"
  /\ activated' = TRUE
  /\ Goto(t, IF activated THEN AfterActivate(t) ELSE "schedule")
  /\ UNCHANGED <<mailbox, pending, toDestroy, alive, spawnVars, senderVars, workerVars, done>>

\* Mutant: the allocator does not test in_use_.
AllocateAlwaysSlot == "slot"

\* PreallocSlot::TryAllocate, with the allocator's heap fallback.
Allocate == IF slotInUse THEN "heap" ELSE "slot"

\* ActorActivationContext::Schedule takes storage for the activation's state.
Schedule(t) ==
  /\ pc[t] = "schedule"
  /\ spawning' = [spawning EXCEPT ![t] = Allocate]
  /\ slotInUse' = TRUE
  /\ Goto(t, "associate")
  /\ UNCHANGED <<sharedVars, scopeCount, scopeState, queued, senderVars, workerVars, done>>

\* The scope counts the activation, unless its join() has completed.
Associate(t) ==
  /\ pc[t] = "associate"
  /\ IF scopeState # "joined"
       THEN scopeCount' = scopeCount + 1 /\ Goto(t, "enqueue")
       ELSE UNCHANGED scopeCount /\ Goto(t, "refused")
  /\ UNCHANGED <<sharedVars, scopeState, queued, slotInUse, spawning, senderVars, workerVars, done>>

\* The operation starts: it enters the scheduler's queue.
Enqueue(t) ==
  /\ pc[t] = "enqueue"
  /\ queued' = [queued EXCEPT ![spawning[t]] = @ + 1]
  /\ spawning' = [spawning EXCEPT ![t] = "heap"]
  /\ Goto(t, AfterActivate(t))
  /\ UNCHANGED <<sharedVars, scopeCount, scopeState, slotInUse, senderVars, workerVars, done>>

\* PreallocSlot::TryDeallocate
Deallocate(st) == slotInUse /\ st # "slot"

\* A refused activation is dropped with its storage; activated_ stays set.
Refuse(t) ==
  /\ pc[t] = "refused"
  /\ slotInUse' = Deallocate(spawning[t])
  /\ spawning' = [spawning EXCEPT ![t] = "heap"]
  /\ Goto(t, AfterActivate(t))
  /\ UNCHANGED <<sharedVars, scopeCount, scopeState, queued, senderVars, workerVars, done>>

Spawn(t) == Schedule(t) \/ Associate(t) \/ Enqueue(t) \/ Refuse(t)

(***************************************************************************)
(* PushMessage.                                                            *)
(***************************************************************************)

Full(k) == Capacity[k] > 0 /\ Len(mailbox[k]) >= Capacity[k]

DestroyBegun == \E d \in Destroyers : pc[d] # "idle"

\* mailbox_set_.Push begins: a full bounded mailbox makes it throw, and the
\* submission ends with set_error; otherwise the message gets its place.
PushMessage(s, k) ==
  /\ pc[s] = "idle"
  /\ sent[s] < MaxSends
  /\ PushRacesDestroy \/ ~DestroyBegun
  /\ sent' = [sent EXCEPT ![s] = @ + 1]
  /\ target' = [target EXCEPT ![s] = k]
  /\ \/ /\ Full(k)
        /\ UNCHANGED <<mailbox, pc>>
     \/ /\ ~Full(k)
        /\ mailbox' = [mailbox EXCEPT ![k] = Append(@, <<s, sent[s] + 1, k>>)]
        /\ Goto(s, "publish")
  /\ UNCHANGED <<pending, activated, toDestroy, alive, spawnVars, workerVars, done>>

\* mailbox_set_.Push ends: the consumer may now take the message.
Publish(s) ==
  /\ pc[s] = "publish"
  /\ Goto(s, "count")
  /\ UNCHANGED <<sharedVars, spawnVars, senderVars, workerVars, done>>

\* The answers ExActorShouldActivate may give for a push into mailbox k.
ShouldActivate(k) == IF k \in Allowed THEN {TRUE} ELSE BOOLEAN

\* pending_message_count_.fetch_add, then the hook.
Count(s) ==
  /\ pc[s] = "count"
  /\ pending' = (pending + 1) % CounterMod
  /\ \E yes \in ShouldActivate(target[s]) : Goto(s, IF yes THEN "cas" ELSE "idle")
  /\ UNCHANGED <<mailbox, activated, toDestroy, alive, spawnVars, senderVars, workerVars, done>>

(***************************************************************************)
(* PullMailboxAndRun, on the worker that dequeued the activation.          *)
(***************************************************************************)

\* The scheduler hands a queued activation to an idle worker.
Dequeue(w, st) ==
  /\ pc[w] = "idle"
  /\ queued[st] > 0
  /\ queued' = [queued EXCEPT ![st] = @ - 1]
  /\ storage' = [storage EXCEPT ![w] = st]
  /\ Goto(w, "enter")
  /\ UNCHANGED <<sharedVars, scopeCount, scopeState, slotInUse, spawning, senderVars,
                 limit, executed, index, current, done>>

\* The tests at the top: a destroyed actor returns at once, leaving activated_
\* set; an actor to be destroyed is reset; otherwise the mailboxes are drained.
Enter(w) ==
  /\ pc[w] = "enter"
  /\ Goto(w, IF ~alive THEN "finish" ELSE IF toDestroy THEN "reset" ELSE "limit")
  /\ UNCHANGED <<sharedVars, spawnVars, senderVars, workerVars, done>>

\* user_class_instance_.reset()
Reset(w) ==
  /\ pc[w] = "reset"
  /\ alive' = FALSE
  /\ Goto(w, "unlockDead")
  /\ UNCHANGED <<mailbox, pending, activated, toDestroy, spawnVars, senderVars, workerVars, done>>

UnlockDead(w) ==
  /\ pc[w] = "unlockDead"
  /\ activated' = FALSE
  /\ Goto(w, "subDead")
  /\ UNCHANGED <<mailbox, pending, toDestroy, alive, spawnVars, senderVars, workerVars, done>>

\* The message AsyncDestroy counted for itself is taken off.
SubDead(w) ==
  /\ pc[w] = "subDead"
  /\ pending' = (pending - 1) % CounterMod
  /\ Goto(w, "finish")
  /\ UNCHANGED <<mailbox, activated, toDestroy, alive, spawnVars, senderVars, workerVars, done>>

Limit(w) ==
  /\ pc[w] = "limit"
  /\ limit' = [limit EXCEPT ![w] = IF pending < MaxPerActivation THEN pending ELSE MaxPerActivation]
  /\ Goto(w, "pull")
  /\ UNCHANGED <<sharedVars, spawnVars, senderVars, executed, index, current, storage, done>>

\* A message whose push has taken its place but not published it yet.
Unpublished(m) == pc[m[1]] = "publish" /\ m[2] = sent[m[1]]

Ready(k) == mailbox[k] # <<>> /\ ~Unpublished(Head(mailbox[k]))

\* Mutant: the newest message of the mailbox is taken first.
PullNewest(w) ==
  /\ pc[w] = "pull"
  /\ LET q == mailbox[index[w]] IN
       /\ Ready(index[w])
       /\ current' = [current EXCEPT ![w] = q[Len(q)]]
       /\ mailbox' = [mailbox EXCEPT ![index[w]] = SubSeq(q, 1, Len(q) - 1)]
  /\ Goto(w, "execute")
  /\ UNCHANGED <<pending, activated, toDestroy, alive, spawnVars, senderVars,
                 limit, executed, index, storage, done>>

\* TryPop yields a message.
Pull(w) ==
  /\ pc[w] = "pull"
  /\ LET k == index[w] IN
       /\ Ready(k)
       /\ current' = [current EXCEPT ![w] = Head(mailbox[k])]
       /\ mailbox' = [mailbox EXCEPT ![k] = Tail(@)]
  /\ Goto(w, "execute")
  /\ UNCHANGED <<pending, activated, toDestroy, alive, spawnVars, senderVars,
                 limit, executed, index, storage, done>>

\* TryPop yields nothing: on to the next mailbox, or out of the loop.
NextMailbox(w) ==
  /\ pc[w] = "pull"
  /\ ~Ready(index[w])
  /\ IF index[w] + 1 < MailboxCount
       THEN index' = [index EXCEPT ![w] = @ + 1] /\ UNCHANGED pc
       ELSE Goto(w, "sub") /\ UNCHANGED index
  /\ UNCHANGED <<sharedVars, spawnVars, senderVars, limit, executed, current, storage, done>>

\* ActorMessage::Execute completes the receiver, with a value or stopped.
Execute(w) ==
  /\ pc[w] = "execute"
  /\ done' = done \cup {current[w]}
  /\ current' = [current EXCEPT ![w] = NoMessage]
  /\ executed' = [executed EXCEPT ![w] = @ + 1]
  /\ Goto(w, IF executed[w] + 1 >= limit[w] THEN "sub" ELSE "pull")
  /\ UNCHANGED <<sharedVars, spawnVars, senderVars, limit, index, storage>>

\* Mutant: the limit is taken off instead of the number of messages executed.
SubLimit(w) ==
  /\ pc[w] = "sub"
  /\ pending' = (pending - limit[w]) % CounterMod
  /\ executed' = [executed EXCEPT ![w] = 0]
  /\ Goto(w, "unlock")
  /\ UNCHANGED <<mailbox, activated, toDestroy, alive, spawnVars, senderVars,
                 limit, index, current, storage, done>>

\* The messages executed are taken off, possibly before they were counted.
Sub(w) ==
  /\ pc[w] = "sub"
  /\ pending' = (pending - executed[w]) % CounterMod
  /\ executed' = [executed EXCEPT ![w] = 0]
  /\ Goto(w, "unlock")
  /\ UNCHANGED <<mailbox, activated, toDestroy, alive, spawnVars, senderVars,
                 limit, index, current, storage, done>>

Unlock(w) ==
  /\ pc[w] = "unlock"
  /\ activated' = FALSE
  /\ Goto(w, "recheck")
  /\ UNCHANGED <<mailbox, pending, toDestroy, alive, spawnVars, senderVars, workerVars, done>>

\* Mutant: the activation ends without looking at the counter again.
RecheckNever(w) ==
  /\ pc[w] = "recheck"
  /\ Goto(w, "finish")
  /\ UNCHANGED <<sharedVars, spawnVars, senderVars, workerVars, done>>

Recheck(w) ==
  /\ pc[w] = "recheck"
  /\ Goto(w, IF pending > 0 THEN "cas" ELSE "finish")
  /\ UNCHANGED <<sharedVars, spawnVars, senderVars, workerVars, done>>

\* The spawned operation completes: it first releases its storage ...
Finish(w) ==
  /\ pc[w] = "finish"
  /\ slotInUse' = Deallocate(storage[w])
  /\ storage' = [storage EXCEPT ![w] = "heap"]
  /\ limit' = [limit EXCEPT ![w] = 0]
  /\ index' = [index EXCEPT ![w] = 0]
  /\ Goto(w, "leave")
  /\ UNCHANGED <<sharedVars, scopeCount, scopeState, queued, spawning, senderVars,
                 executed, current, done>>

\* Mutant: an activation that ends does not leave async_scope_.
LeaveKeepsScope(w) ==
  /\ pc[w] = "leave"
  /\ Goto(w, "idle")
  /\ UNCHANGED <<sharedVars, spawnVars, senderVars, workerVars, done>>

\* ... and then leaves async_scope_, whose join() completes with the last one.
Leave(w) ==
  /\ pc[w] = "leave"
  /\ scopeCount' = scopeCount - 1
  /\ scopeState' = IF scopeState = "joining" /\ scopeCount = 1 THEN "joined" ELSE scopeState
  /\ Goto(w, "idle")
  /\ UNCHANGED <<sharedVars, queued, slotInUse, spawning, senderVars, workerVars, done>>

(***************************************************************************)
(* AsyncDestroy.                                                           *)
(***************************************************************************)

\* Mutant: the calling thread resets the instance itself.
BeginDestroyInPlace(d) ==
  /\ pc[d] = "idle"
  /\ toDestroy' = TRUE
  /\ alive' = FALSE
  /\ Goto(d, IF toDestroy THEN "returned" ELSE "count")
  /\ UNCHANGED <<mailbox, pending, activated, spawnVars, senderVars, workerVars, done>>

\* The compare-exchange on pending_to_be_destroyed_: only the first call goes on.
BeginDestroy(d) ==
  /\ pc[d] = "idle"
  /\ PushRacesDestroy \/ \A s \in Senders : pc[s] = "idle"
  /\ toDestroy' = TRUE
  /\ Goto(d, IF toDestroy THEN "returned" ELSE "count")
  /\ UNCHANGED <<mailbox, pending, activated, alive, spawnVars, senderVars, workerVars, done>>

\* Mutant: AsyncDestroy waits for the scope without activating the actor.
CountDestroyNoActivate(d) ==
  /\ pc[d] = "count"
  /\ pending' = (pending + 1) % CounterMod
  /\ Goto(d, "join")
  /\ UNCHANGED <<mailbox, activated, toDestroy, alive, spawnVars, senderVars, workerVars, done>>

CountDestroy(d) ==
  /\ pc[d] = "count"
  /\ pending' = (pending + 1) % CounterMod
  /\ Goto(d, "cas")
  /\ UNCHANGED <<mailbox, activated, toDestroy, alive, spawnVars, senderVars, workerVars, done>>

\* Mutant: AsyncDestroy does not wait for the associated operations.
JoinAtOnce(d) ==
  /\ pc[d] = "join"
  /\ scopeState' = "joined"
  /\ Goto(d, "wait")
  /\ UNCHANGED <<sharedVars, scopeCount, queued, slotInUse, spawning, senderVars, workerVars, done>>

\* co_await async_scope_.join(): at once when nothing is associated.
Join(d) ==
  /\ pc[d] = "join"
  /\ scopeState' = IF scopeCount = 0 THEN "joined" ELSE "joining"
  /\ Goto(d, "wait")
  /\ UNCHANGED <<sharedVars, scopeCount, queued, slotInUse, spawning, senderVars, workerVars, done>>

Joined(d) ==
  /\ pc[d] = "wait"
  /\ scopeState = "joined"
  /\ Goto(d, "done")
  /\ UNCHANGED <<sharedVars, spawnVars, senderVars, workerVars, done>>

-----------------------------------------------------------------------------
SenderStep(s) ==
  \/ \E k \in Mailboxes : PushMessage(s, k)
  \/ Publish(s)
  \/ Count(s)
  \/ Activate(s)
  \/ Spawn(s)

WorkerStep(w) ==
  \/ \E st \in Storage : Dequeue(w, st)
  \/ Enter(w)
  \/ Reset(w)
  \/ UnlockDead(w)
  \/ SubDead(w)
  \/ Limit(w)
  \/ Pull(w)
  \/ NextMailbox(w)
  \/ Execute(w)
  \/ Sub(w)
  \/ Unlock(w)
  \/ Recheck(w)
  \/ Activate(w)
  \/ Spawn(w)
  \/ Finish(w)
  \/ Leave(w)

DestroyerStep(d) ==
  \/ BeginDestroy(d)
  \/ CountDestroy(d)
  \/ Activate(d)
  \/ Spawn(d)
  \/ Join(d)
  \/ Joined(d)

Next ==
  \/ \E s \in Senders : SenderStep(s)
  \/ \E w \in Workers : WorkerStep(w)
  \/ \E d \in Destroyers : DestroyerStep(d)

Spec == Init /\ [][Next]_vars

\* A thread in the middle of a call is eventually scheduled by the operating
\* system, and an idle worker takes the activations of its queue; nobody is
\* obliged to push or to destroy.
PushUnderWay(s) == Publish(s) \/ Count(s) \/ Activate(s) \/ Spawn(s)
DestroyUnderWay(d) == DestroyerStep(d) /\ pc[d] # "idle"
Fairness ==
  /\ \A s \in Senders : WF_vars(PushUnderWay(s))
  /\ \A w \in Workers : WF_vars(WorkerStep(w))
  /\ \A d \in Destroyers : WF_vars(DestroyUnderWay(d))

FairSpec == Spec /\ Fairness
-----------------------------------------------------------------------------
(***************************************************************************)
(* Properties.                                                             *)
(***************************************************************************)

\* Labels between the compare-exchange that sets activated_ and the store that
\* clears it: a thread there, or a queued activation, owns the actor.
InActor == {"enter", "reset", "unlockDead", "limit", "pull", "execute", "sub", "unlock"}
Owning == InActor \cup (SpawnPC \ {"refused"})

QueuedTotal == queued["slot"] + queued["heap"]
Busy == {w \in Workers : pc[w] # "idle"}
Quiescent == QueuedTotal = 0 /\ \A t \in Thread : pc[t] \in {"idle", "done", "returned"}

\* docs/contents/schedulers.md: "at any time, there is at most one thread
\* executing the actor".  Two activations may overlap in their tails, after
\* activated_ is cleared, but never inside the part that touches the mailboxes
\* or the instance; and one that is inside leaves none waiting in the scheduler.
SingleExecutor ==
  /\ \A v, w \in Workers : pc[v] \in InActor /\ pc[w] \in InActor => v = w
  /\ QueuedTotal <= 1
  /\ QueuedTotal = 1 => \A w \in Workers : pc[w] \notin InActor

\* A handler only ever runs on a user_class_instance_ that has not been reset,
\* whatever the order of pushes, activations and AsyncDestroy.
HandlerSeesLiveInstance ==
  \A w \in Workers : pc[w] \in {"pull", "execute"} => alive

\* Messages of one sender into one mailbox are executed in the order they were
\* pushed, and none twice: what is still queued or being executed is newer than
\* everything executed.
Waiting == (UNION {{mailbox[k][i] : i \in 1 .. Len(mailbox[k])} : k \in Mailboxes})
             \cup ({current[w] : w \in Workers} \ {NoMessage})
SenderOrder ==
  \A old \in done, m \in Waiting : m[1] = old[1] /\ m[3] = old[3] => m[2] > old[2]

\* pending_message_count_ is incremented after the message is visible, so it may
\* lag behind the mailboxes and even wrap below zero; it differs from what is
\* queued by exactly the pushes that have yet to count and the messages executed
\* and not yet taken off, plus the one that AsyncDestroy counts for itself.
Uncounted == {s \in Senders : pc[s] \in {"publish", "count"}}
Executing == {w \in Workers : pc[w] = "execute"}
DestroyCounted == {d \in Destroyers : pc[d] \in {"cas", "join", "wait", "done"} \cup SpawnPC}
DestroyTaken == IF alive \/ \E w \in Workers : pc[w] \in {"unlockDead", "subDead"} THEN 0 ELSE 1
PendingExact ==
  pending = (FoldFunction(+, 0, [k \in Mailboxes |-> Len(mailbox[k])])
             + FoldFunction(+, 0, executed) + Cardinality(Executing)
             - Cardinality(Uncounted)
             + Cardinality(DestroyCounted) - DestroyTaken) % CounterMod

\* No wake-up is lost: when every thread has returned and the scheduler's queue
\* is empty, an actor nobody destroys has no message in a mailbox whose pushes activate it
\* (docs/contents/schedulers.md:271, "If there are still messages in the mailbox,
\* the activation task will be pushed again to the scheduler").
NoStrandedMessage ==
  Quiescent /\ ~toDestroy => \A k \in Allowed : mailbox[k] = <<>>

\* Once join() has completed no activation is queued or running, and none will
\* be: the slot of the activation context (actor.h:142, "kept alive until its
\* async scope has drained") can only be in the hands of a push that came too
\* late, whose spawn the scope refuses.  A caller that frees the actor must
\* therefore still keep pushes from overlapping the call.
NothingRunsAfterJoin ==
  scopeState = "joined" =>
    /\ QueuedTotal = 0
    /\ Busy = {}
    /\ slotInUse => \E s \in Senders : pc[s] \in {"associate", "refused"} /\ spawning[s] = "slot"

\* The preallocated slot holds the state of at most one activation, although the
\* tail of one activation spawns the next while it still occupies its own state.
SlotUsers ==
  queued["slot"] + Cardinality({w \in Busy : storage[w] = "slot"})
    + Cardinality({t \in Thread : spawning[t] = "slot"})
SlotExclusive == SlotUsers = IF slotInUse THEN 1 ELSE 0

\* When no push overlaps AsyncDestroy, the call returns only after an activation
\* has reset the instance.
DestroyedWhenJoined == scopeState = "joined" => ~alive

\* Every message whose push returned is eventually executed, unless the actor is
\* asked to be destroyed first; mailboxes whose hook may refuse are left out.
EventuallyExecuted ==
  \A s \in Senders, n \in 1 .. MaxSends, k \in Allowed :
    (pc[s] = "count" /\ sent[s] = n /\ target[s] = k)
      ~> (<<s, n, k>> \in done \/ toDestroy)

\* The AsyncDestroy call that set pending_to_be_destroyed_ eventually returns.
DestroyReturns ==
  \A d \in Destroyers : pc[d] = "count" ~> pc[d] = "done"
=============================================================================
