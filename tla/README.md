# A TLA+ model of ex-actor

ex-actor is a C++20 actor framework built on `std::execution`: user classes become actors,
calls on an `ActorRef` become messages in a mailbox, and scheduler threads run the actor one
activation at a time. In distributed mode the nodes find each other by gossip and forward calls over ZeroMQ.
This directory models its concurrent core, checks it with TLC and proves the central facts with TLAPS.
File names below are relative to `include/ex_actor/internal/` (headers) and `src/ex_actor/internal/` (`.cc`).

## Inventory

| Component | State | Operations | Interacts with |
|---|---|---|---|
| `Actor` (`actor.h`) | mailboxes, `pending_message_count_`, `activated_`, `pending_to_be_destroyed_`, the instance, `async_scope_`, `ActivationContext` | `PushMessage`, `TryActivate`, `PullMailboxAndRun`, `AsyncDestroy` | pushed into by every thread; runs on a scheduler; destroyed by the registry |
| `MailboxSet` (`actor.h`) | for each mailbox one of the three queues below | `Push`, `TryPop` | the mailboxes of an actor |
| `BoundedMpscQueue` (`container.h`) | ring of cells with sequence numbers, two positions | `Push` (any thread), `Pop` (one thread) | a bounded mailbox |
| `MPSC_queue` (`3rd_lib/daking`, behind `LinearizableUnboundedMpscQueue`) | linked list with a dummy, node lists of the threads, a shared stack of chunks, pages | `emplace`, `try_dequeue` | an unbounded mailbox |
| `OneSlotUnsafeQueue` (`container.h`) | a slot and a flag | `Push`, `TryPop` | a mailbox whose users synchronize themselves |
| `Semaphore` (`util.h`) | atomic counter, list of waiting operations under a mutex | `Acquire`, `Release`, `OnDrained().start()` | process signals, tests, user code |
| `WorkSharingThreadPool` (`scheduler/work_sharing_thread_pool.cc`) | one queue, a thread-local slot for each worker, stop sources | `EnqueueOperation`, the worker loop, destructor | runs the activations |
| `WeakPriorityThreadPool` (`scheduler/`) | sub-queues of buckets with bitmaps, a local slot for each worker, a `LightweightSemaphore` | the same, with eviction from the slot and a two-choice search | the same |
| `LightweightSemaphore` (`3rd_lib/moody_camel_queue`) | a counter that goes below zero, an OS semaphore | `wait` with a time-out, `signal` | the weak priority pool |
| `PriorityThreadPool`, `CorePinnedThreadPool` (`scheduler/`) | one heap; a queue for each core | the same, without slots | the same |
| `SchedulerUnion` (`scheduler/`) | a list of schedulers | `connect`, `start`: dispatch by `scheduler_index` | several pools in one registry |
| `MessageBroker` (`network.cc`) | `node_id_to_state_`, send sockets, outstanding requests, deferred replies, cluster-state waiters, contact flag | gossip in and out, heartbeat check, `SendRequest`, request and reply handling, `WaitClusterState`, `Stop` | is an actor; the registry's backend handles its requests; driven by the two threads below |
| `PeriodicalTaskScheduler` (`network.cc`) | heap of tasks, mutex, condition variable, stop token | `Register`, `Stop`, `Loop` | sends the broker its periodic tasks |
| `RecvSocketPuller` (`network.cc`) | one socket, one thread | poll and hand on | sends the broker what peers wrote |
| `ActorRegistry` and backend (`actor_registry.h/.cc`) | three maps (id to actor, id to serialized reference, name to id) | `SpawnLocal`, `DestroyActor`, `GetActorRefByName`, handling of network requests, `AsyncDestroyAllActors`, `~ActorRegistry` | is an actor; owns the user actors and stops the broker |
| Global registry, signals (`global_registry.cc`) | a pointer, a semaphore | `Init`, `Shutdown`, wait for a signal | owns the registry |
| `ActorRef`, reflection, serialization, logging, configuration | none that changes after start-up | | |

What is hard in this code, and what must hold:

* **Actor.** Pushers, the worker that ends an activation and `AsyncDestroy` race for `activated_`, and a
  message is counted *after* it is visible, so an activation can execute a message that its sender has not counted and
  the counter can wrap below zero. Correct means: one executor at a time, no lost wake-up, messages of a sender in
  order, no handler on a reset instance, no activation queued or running once the scope is joined, and one user of the preallocated storage.
* **Ring.** Producers race with positions that were read earlier, the consumer meets places that are claimed and
  not yet written, positions wrap. Correct means: no two threads on one cell, no false "full", and first in, first out.
* **Semaphore.** A drain races with a waiter that is about to queue itself. Correct means: no waiter lost, none completed
  twice or early.
* **Broker.** Everything is asynchronous: gossip from several nodes, peers that go silent, replies after the request
  was given up, a stop with handlers under way. Correct means: the maps agree (a missing socket ends the process), every
  request ends exactly once, every handled request is answered, and `Stop` returns.
* **Cluster.** A crashed node comes back through gossip of nodes that have not noticed, a restarted one has a new id at its old
  address, and messages for the old one reach it. Correct means: the nodes come to agree on who is alive, and every request ends.
* **Threads of the broker.** Stop and registration notify a condition variable between the thread's test and its wait; `Stop` blocks
  the broker in two joins while both threads spawn into its scope. Correct means: nothing is spawned after the scope is joined, and `Stop` returns.
* **Linked-list queue.** Nodes are recycled through a lock-free stack whose links share their memory with messages. Correct
  means: no node used twice or lost, and first in, first out.
* **Pools.** An operation started on a worker goes to a slot no other thread can reach; the weak pool adds evictions, unlocked reads of
  bitmaps, and a semaphore whose time-out races with its signals. Correct means: no operation lost, hidden or run twice, one token for
  each operation, and destructors that return.
* **Registry.** Coroutines are suspended with an actor taken out of the maps while others spawn, look up or shut down.
  Correct means: the maps agree, an actor is deleted only when its scope is empty, and the shutdown ends with nothing left over.

`PROJECT.json` lists the hazards one by one at their lines, with the property that covers each or the reason why none does.

## Modules

| Module | Models | Used by |
|---|---|---|
| `Actor` | the activation protocol of one actor, one action per atomic access | `MCActor`, `ActorProofs` |
| `ActorProofs` | TLAPS proofs about `Actor` | |
| `BoundedFifo` | abstract specification: claim a place, publish it, take the oldest published one | the three queues |
| `BoundedMpscQueue` | the ring, one action per atomic access | `MailboxSet`, `BoundedMpscQueueProofs` |
| `BoundedMpscQueueProofs` | TLAPS proofs about the ring | `MailboxSetProofs` |
| `MpscQueue` | the linked list with its chunk stack, one action per access of a shared word | `MailboxSet` |
| `OneSlotUnsafeQueue` | the slot and its flag, under exclusive access | `MailboxSet` |
| `MailboxSet` | the dispatch to the queue a mailbox holds | `MCMailboxSet`, `MailboxSetProofs` |
| `MailboxSetProofs` | TLAPS proofs about the three queues of a mailbox: the ring by way of `BoundedMpscQueueProofs`, the linked list and the slot here | |
| `Semaphore` | `Semaphore` and its `OnDrained` operation states | `MCSemaphore`, `SemaphoreProofs` |
| `SemaphoreProofs` | TLAPS proofs about `Semaphore` | |
| `WorkSharingThreadPool` | queue, local slots, worker loop, destruction | `SchedulerUnion` |
| `LightweightSemaphore` | the counting semaphore with time-outs | `WeakPriorityThreadPool` |
| `WeakPriorityThreadPool` | sub-queues, bitmaps, slots, tokens | `SchedulerUnion` |
| `PriorityThreadPool`, `CorePinnedThreadPool` | the heap; the queue of each core | `SchedulerUnion` |
| `SchedulerUnion` | the four pools behind one scheduler index | `MCSchedulerUnion`, `SchedulerUnionProofs` |
| `SchedulerUnionProofs` | TLAPS proofs about the four pools and `LightweightSemaphore` | |
| `PeriodicalTaskScheduler` | the timer thread | `BrokerThreads` |
| `BrokerThreads` | timer thread, receiving thread and the broker actor through Start and Stop | `MCBrokerThreads`, `BrokerThreadsProofs` |
| `BrokerThreadsProofs` | TLAPS proofs about `BrokerThreads` | |
| `Cluster` | several brokers that gossip, crashes and restarts, one request | `MCCluster` |
| `MessageBroker` | the broker of one node among arbitrary peers | `MCMessageBroker`, `MessageBrokerProofs` |
| `MessageBrokerProofs` | TLAPS proofs about `MessageBroker` | |
| `ActorRegistry` | the backend of one node, actors abstracted to what `Actor` shows of them, and the shutdown | `MCActorRegistry`, `ActorRegistryProofs` |
| `ActorRegistryProofs` | TLAPS proofs about `ActorRegistry` | |

The `MC*` modules only add model values and constant functions; each `.cfg` is one run.

**How they compose.** `Actor` treats a mailbox as a queue with two steps to a push, claim and publish, and a consumer that
does not go past an unpublished head; `BoundedFifo` states this, and each of the three queues of `MailboxSet` is checked to implement
it. `SchedulerUnion` instantiates the four pools on variables of their own; an operation that runs in one may start one of another.
`ActorRegistry` and `MessageBroker` are actors themselves: what they do between two `co_await`s is one action, which is
`SingleExecutor` of `Actor`; the result of a `co_await` is an action of its own. `ActorRegistry` keeps of
each user actor what `Actor` establishes: an activation runs one message or resets the instance, a second `AsyncDestroy`
returns at once, and the scope is empty once it is joined. `MessageBroker!Stop` appears in `ActorRegistry` as "stopping", which
waits for the remote calls under way. `BrokerThreads` instantiates `PeriodicalTaskScheduler` and justifies the fairness of the
broker's timers and messages (`ThreadsDeliver`). `MessageBroker` looks at one node among peers that do anything, which is right for safety
and too weak for agreement; `Cluster` makes every peer a broker, keeps of each what membership and one request need, and adds
processes that end and start again. Where a run covers several instances, the instance is a variable that `Init` chooses and no step
changes (`scenario` of `MessageBroker`, `deployment` of `Cluster`, `config` of `MailboxSet`, `index` of `SchedulerUnion`).

**State and actions.** The comment on each variable names the C++ member, the operators keep the names of the
functions (`PushMessage`, `AsyncDestroy`, `CheckHeartbeatTimeout`, ...), and `PROJECT.json` maps each to its lines.
Where a function performs several atomic accesses it is a chain of actions through a program counter:

* `Actor`: `PushMessage`, `Publish`, `Count`, `Activate` for a sender; `Dequeue`, `Enter`, then `Reset`,
  `UnlockDead`, `SubDead` or `Limit`, `Pull`/`NextMailbox`, `Execute`, `SubLimit`/`Sub`, `Unlock`, `Recheck`, `Finish`, `Leave` for a worker;
  `BeginDestroy`, `CountDestroy`, `Join`, `Joined` for `AsyncDestroy`. Whoever wins the compare-exchange of `Activate` spawns an
  activation in the steps of `stdexec::spawn`: `Schedule` takes storage, `Associate` asks the scope, and then either `Enqueue` or, when the
  scope is joined, `Refuse`, which gives the storage back.
* `BoundedMpscQueue`: `BeginPush`, `LoadSequence`, `Claim`/`ClaimFails`, `Reload`, `WriteData`, `Publish`; `BeginPop`, `ReadData`, `FreeCell`.
* `MpscQueue`: `Emplace`, `LoadTop`, `ReadChunk`, `PopChunk` or `Reserve`, `Take`, `Exchange`, `Link` for a push; `TryDequeue`, and
  `LinkChunk`, `PushChunk` for a chunk. What a thread reads through a stale pointer is whatever the union holds: `Garbage` for a message.
* `WeakPriorityThreadPool`: `EnqueueOperation` or `StartOnWorker` (the section under the lock), `SignalSema` in two steps; `CheckStop`,
  `WaitSema` in up to five, `PeekFirst`, `PeekSecond`, `TryPop`, `Executed`.
* `Cluster`: the unit of time is the heartbeat check interval; timestamps are ages, which are not told apart from the time-out on, so that the
  state space is finite without a bound on time. Messages to a running process arrive within a tick; one to an address
  without a process is kept by the socket for the next one there, or lost.
* `Semaphore`: `Acquire` (the subtraction), `TakeWaiters` (under the mutex), `CompleteMoved` (outside it); `Start`, `CheckCount`, `Enlist`.

Operators whose comment begins with "Mutant:" are wrong variants of the operator after them, as a plausible bug would make it. No
specification uses them; putting one in the place of the original makes TLC report the property it is paired with in `PROJECT.json`.

## Runs

Every run is small enough for a few minutes and large enough for the case it is about.

| Run | Instance | Result |
|---|---|---|
| `actor_safety` | 2 senders of 2 messages each, 2 workers, 1 destroyer, one mailbox of 2 places, at most 2 messages per activation, counter modulo 8, pushes race with destruction | holds, 944k states |
| `actor_liveness` | 2 senders, 2 workers, 2 unbounded mailboxes, 1 message per activation, pushes are over when destruction begins | holds, 85k states |
| `actor_hook` | the same with `ExActorShouldActivate` refusing pushes into one mailbox | **violated**, see below |
| `mailboxes` | ring: 3 producers of 2 pushes each on 2 cells, positions modulo 16 starting at 14; list: 2 threads of 2 pushes each, one node per chunk, up to 8 nodes; slot: 3 callers | holds, 264k states |
| `semaphore` | 2 acquirers, 1 releaser, 2 waiters, 2 calls each of amount 1 or 2, initial value 2 | holds |
| `broker` | three scenarios: 2 peers and 2 requests; 2 peers with clocks up to 1 ahead and an incoming request whose handler calls back; 1 peer, a wait, an incoming request and a clock that goes past every time-out | holds, 222k states |
| `broker_stop` | 1 peer, an incoming request whose handler sends a request | **violated**, see below |
| `broker_threads` | tasks with intervals 5 and 1, 2 messages, Start and Stop at any time | holds, 37k states |
| `cluster` | 3 nodes of which one may crash; 2 nodes that may crash and restart, with a request between them; gossip every 3 checks, time-out after 8 | holds, 333k states |
| `schedulers` | 2 workers in each of 4 pools, 3 operations of two priorities, started from outside or on a worker, again after they ran; each pool alone, two mixes, an index out of range | holds, 82k states |
| `registry` | 2 ids, 2 objects, 1 name, 2 local and 2 remote calls that spawn, destroy, look up or call, user code done before shutdown | holds, 152k states |
| `registry_overlap` | 2 local calls that spawn or destroy, also during shutdown | **violated**, see below |

Why the bounds are enough. *Actor:* the hard case is three parties around one release of `activated_`: the
worker that releases, a pusher that fails its compare-exchange and one that succeeds; two senders, two workers and a destroyer
supply them, and two messages each let an activation meet a message that is not counted, a limit that is reached, and a full
mailbox. The proofs remove the bounds for most of the invariants (see Proofs). *Ring:* with three producers on two cells, one can hold a
stale position while the two others fill and the consumer frees the cells; starting at 14 of 16 makes the positions wrap. 16
is a multiple of the size, as 2^64 is. *Semaphore:* amounts 1 and 2 from 2 let either acquirer, or both, cross zero and go below. *Broker:* two
peers make gossip about a third party, a known one and a forgotten one; the clock runs past one time-out. *List:* chunks of
one node make every push and pop go through the shared stack, and the first page, a second and a third are allocated; two threads suffice to take
a node, use it and put it back under a thread that has read its link. *Schedulers:* three operations fill a slot, evict from it and leave one
for the other worker; two sub-queues make both peeks miss. *Cluster:* three nodes are the fewest where a dead one can come back through a
third party; the time-out must exceed twice the gossip interval for a node two hops away to stay alive, hence 3 and 8. *Registry:* two objects
and two ids make a name, an id and a mailbox free again while an earlier destroy is suspended. Further bounds are named in the
modules (`MaxSends`, `MaxPushes`, `MaxCalls`, `MaxRequests`, `MaxBacklog`, `MaxMessages`, `MaxNodes`, `MaxStarts`, the fields of `Scenarios` and `Deployments`, and one local message at a time in
`ActorRegistry!SendLocal`).

Deadlock is not checked where the system really comes to rest: after the last call of a bounded instance, or after stop,
shutdown or destruction. The liveness properties say where it may not.

### What the properties say

`TypeOK` of `Actor`, `ActorRegistry`, `Semaphore`, `MessageBroker` and the ring is proved (see below); in the other modules that have one it documents the variables.

* `Actor`: `SingleExecutor`, `HandlerSeesLiveInstance`, `SenderOrder`, `PendingExact` (by how much the
  counter may differ from the mailboxes, wrap included), `NoStrandedMessage` (no lost wake-up), `NothingRunsAfterJoin` (no
  activation is queued or running after the join, and the slot is in use only by a late push whose spawn is refused; it does not say that the actor may
  be freed while pushes overlap), `SlotExclusive`,
  `DestroyedWhenJoined`; liveness `EventuallyExecuted`, `DestroyReturns`.
* `MailboxSet`: `NoCellRace` and `RejectsOnlyWhenFull` of the ring, `NodeOnce` of the list (every node of a page is in exactly one
  place, although threads pop with stale pointers), and the refinement `ImplementsFifo` of all three.
* `Semaphore`: `NoLostWaiter`, `CompletedOnce`, `DrainedCompletes`; `CompletedOnlyWhenDrained` (no early completion without `Release`) is proved and not run.
* `MessageBroker`: `SocketsMatchStates`, `OutstandingIsWatched`, `HandledIsReplied` (a handled request is answered, and its reply waits only
  while the requester is unknown); the action properties `DropsOnlySilentPeers`, `OutcomeIsFinal` and `UnmetAgreesWithState` (a wait
  that reports its condition as not met returns a cluster state that does not meet it, although the deadline and the gossip race); liveness
  `SilentPeerFailsRequests`, `WaitReturns`, `StopReturnsUnlessNested`.
* `BrokerThreads`: `NothingAfterStop`; liveness `ThreadsDeliver`, `StopReturns`.
* `Cluster`: liveness `Converges` (once nothing starts or ends any more and the contact node runs, all agree for good on who is alive) and
  `RequestEnds` (a request ends with a reply or an error, whoever crashes or restarts).
* `SchedulerUnion`: `EachOwedOnce` (an operation that was started waits in exactly one place that a worker of its own pool looks at),
  `TokensAccounted` (signals, tokens, waiters and operations of the weak pool balance); liveness `StartedIsExecuted`, `DestructorReturns`.
* `ActorRegistry`: `NamesResolve`, `FreedOnlyWhenDrained`, `ShutdownLeavesNoActor`; liveness `CallsReturn`,
  `ShutdownReturnsUnlessStranded`.

### Fairness

Weak fairness, and only for steps that a thread or a scheduler is bound to take: a thread in the middle of a call is
scheduled again; a worker of a pool takes what is in its queue; a coroutine whose result is there is resumed (it is an operation in
a pool's queue); the timer thread runs its tasks and the receiving thread its messages (`ThreadsDeliver`); time passes; in `Cluster`
timers fire and messages to running processes arrive. Nobody is obliged to push, call, answer, gossip about others, stop, crash,
restart or destroy. One strong fairness: `Start` of the broker obtains the timer's mutex, which the timer thread takes and releases for ever; a
mutex that starves a waiter for ever would break the code, too.

Three properties have premises that the code does not ensure, and say so:

* `StartedIsExecuted`: workers come back from their local slots (a worker serves its slot until it is empty), and the operations that
  go first in a pool with priorities stop coming.
* `DestructorReturns`: from some time on no operation starts another (the slots are served past the stop token).
* `Converges`: the contact node runs, and processes stop starting and ending; and the gossip interval is long enough against the heartbeat check
  interval, which the constants of the run fix (3 to 1; see Findings for 2 to 1) and the configuration does not enforce (5 to 1 by default).

## Findings

* **`actor_hook`** (`actor.h:442`). With a hook that may refuse, an activation can execute a message that its sender has not counted
  yet. The counter then shows zero at the recheck although a message of the allowed mailbox waits, and the
  late sender does not activate because the hook refuses it. The message stays until someone pushes again;
  `docs/contents/schedulers.md` says that the activation is pushed again while there are messages.
* **`broker_stop`** (`network.cc:195`). `Stop` ends the threads that deliver replies and detect dead peers, then joins the
  scope. A handler that awaits a request of its own is never resumed and the join never completes.
* **`registry_overlap`** (`actor.h:341`). A second `AsyncDestroy` returns at once. `DestroyActor` called while `AsyncDestroyAllActors`
  waits deletes the actor with its activation still under way.

* **Gossip interval** (`network.cc:401`, no run of its own). `HandleGossipMessage` adds a node it does not know without looking at
  the age of the entry. A node whose entry has timed out at one survivor comes back from another that checks a little later, and can be handed on
  before it is dropped again. With a gossip interval of 2 checks and two survivors, TLC finds the dead entry circulating for ever; with the 3 of
  `cluster` it dies out, because between two gossips every holder checks. The defaults are 500 ms and 100 ms, a ratio of 5.
* **Restart at an address** (`network.cc:227`, no run of its own). A two-way message for a process that crashed reaches its successor at the same
  address, whose `DispatchReceivedMessage` throws, and `DiscardResult` ends the process. `Cluster` has this step (`Misaddressed`); both properties hold with it.

Smaller observations: a priority out of range ends the process (`start` is `noexcept`); `SendRequest` keeps an iterator of an
unordered map across its `co_await`; `ShouldActivate` reads the instance on the pushing thread; requests outstanding when `Stop` returns are never completed; a remote call whose actor is destroyed first is never answered, and
holds up the shutdown; a task registered during a longer sleep of the timer runs late; a wait whose
condition comes true after the deadline may be reported as met; the contact flag is cleared for a contact node that
restarted under a new id; with `Release`, a semaphore may complete a waiter although the counter is above zero again; an actor
that re-activates itself keeps a worker of the work-sharing pool for itself.

## Proofs

Checked by TLAPS for every value of the constants that satisfies the named assumptions.

`ActorProofs` (from `ThreadAssumption`: senders, workers and destroyers are different threads; `ConfigAssumption`: the constants have
their types, there is at least one mailbox and the counter has a positive modulus; `FiniteThreads`: there are finitely many threads):

* `TypeCorrect`: `Spec => []TypeOK`, one lemma per kind of thread.
* `OwnershipInvariant`: `Spec => []Ownership`. `SingleExecutor` is not inductive: it does not mention `activated_`, nor the threads
  between a successful compare-exchange and the spawn, and from a state with `activated_` clear and a worker inside a second
  activation could start. `Ownership` says that `activated_` is a lock: at most one owner among all threads and queued
  activations, and set while there is one. Each action takes, passes on, or gives up ownership, or leaves it alone; there is a lemma for each of these.
* `AtMostOneExecutor`: `Spec => []SingleExecutor`, from `Ownership`.
* `HandlersRunOnLiveInstance`: `Spec => []HandlerSeesLiveInstance`. Only the owner resets the instance, and a worker past the
  test of it is the owner, so nobody else can reset it in between.
* `ScopeInvariant`: `Spec => [](SlotHeldOnce /\ ScopeCounts)`; from it `SlotIsExclusive` (`SlotExclusive`). The property only compares; the
  invariant says which activation occupies the slot, a spawned, a queued or a running one, and that the scope counts the activations about to be
  enqueued, the queued ones and the busy workers, so that a join that sees zero sees that there are none.
* `JoinLeavesNothing`: `Spec => []NothingRunsAfterJoin`, from `ScopeInvariant` and `OneDestroys`: in a joined scope, which counts nothing, a thread with storage in hand
  still waits for the scope's answer or was refused; it is a pusher, since no worker is busy and the destroyer that joined is past its own spawn.
* `SendersStayInOrder`: `Spec => []SenderOrder`, from `InOrder`: each mailbox is sorted by the numbers of each sender, and what was
  taken or executed lies before what is still in it. Two workers inside would break it, so the proof uses `Ownership`.
* `CounterIsExact`: `Spec => []PendingExact`, inductive together with `DeadOnce` (one worker resets the instance, and takes the message
  of `AsyncDestroy` off once). Every action adds as much to the counter as to `Total`, the number the property compares it with,
  or moves a message from one term of it to another; `RemainderOfSum` carries that across the wrap. The terms are folds over the
  mailboxes and the workers. The section on sums proves what is needed of a fold (`SumUpdate`: how it changes when one value does, `SumMember`,
  `SumBound`) from its recursive definition: the function it is defined by exists for every finite set (`SumExists`), by an induction that takes the
  smallest set without one (`SubsetInduction`, from the well-foundedness of the naturals).
* `NoMessageIsStranded`: `Spec => []NoStrandedMessage`, from `CounterFits` and `Allowed = Mailboxes`. The property speaks of quiescent states
  only. `MessageAttended` speaks of all: while a mailbox holds a message an activation is queued, or some thread is on its way to activate the actor
  or to look at the counter again. A thread may stop attending when it finds the actor activated (then `LockHeld` names the owner that will
  look again) or when an activation finds the counter zero at its recheck (then `PendingExact` says that nothing waits, `ZeroMeansEmpty`).
  `Allowed = Mailboxes` is needed: `actor_hook` violates the property without it. `CounterFits` says that the counter is wide enough for every
  message and that of `AsyncDestroy`; with more than 2^w messages waiting it would read zero.
* `InstanceIsDestroyed`: `Spec => []DestroyedWhenJoined`, from `CounterFits` and `~PushRacesDestroy`, by the same argument for the message that `AsyncDestroy`
  counts (`DestroyAttended`). A push that overlaps may take the lock and then find the scope joined, which drops its activation.

`ActorRegistryProofs` (from `RegistryAssumption`: local and remote calls are different, the operations are known ones, "none" and "self" name nothing
else):

* `RegistryInvariant`: `Spec => []IInv`, with `IInv` the conjunction of `TypeOK`, `NamesResolve`, `RegisteredBorn`, `ActiveBorn` and
  `MailboxCalls`. `NamesResolve` alone is not inductive: a spawn keeps it only because the new object is in no map
  yet (`RegisteredBorn`), and `TypeOK` needs that an activation has a message to take (`ActiveBorn`) which is that of a
  call that has begun (`MailboxCalls`).
* `RegistryTypeCorrect`: `Spec => []TypeOK`, and `NamesAlwaysResolve`: `Spec => []NamesResolve`, with or without calls during the shutdown.

* `LifetimeInvariant`, `DeletedAtRest` (`FreedOnlyWhenDrained`), `ShutdownIsComplete` (`ShutdownLeavesNoActor`), under the premise
  `~OverlapShutdown`, which the run `registry_overlap` shows to be needed. `FreedOnlyWhenDrained` does not say who may still delete
  an actor: `Lifetimes` adds that every actor is held by the maps or by one suspended destroy (`Held`, `OneId`), and how far the phases of
  the shutdown have brought the registered ones (`RegisteredLife`, `NoLateDestroy`).

`SemaphoreProofs` (from `SemaphoreAssumption` and `HolderAssumption`: types of the constants): `SemaphoreInvariant`, and from it `NoWaiterIsLost`
(`NoLostWaiter`), `CompletedAtMostOnce` (`CompletedOnce`) and `CompletionMeansDrained` (`CompletedOnlyWhenDrained`). The invariant gives every
operation one custodian (`Custody`, `InHand`): without it two acquirers could hold the same waiter. `StaysDrained` says that without `Release` the
counter only falls, so an acquirer past its test leaves it drained.

`BoundedMpscQueueProofs` (from `RingConstants`): `RingInvariant`, and from it `NoDataRace` (`NoCellRace`), `FullWhenRejected`
(`RejectsOnlyWhenFull`) and `RingIsFifo` (the refinement `ImplementsFifo`). Each has `RingConstants` as a premise: the module is only
instantiated, and `MailboxSet` assumes it. `RingConstants` says that the size is at least 2 and divides the range of
positions, as a power of two divides 2^64 (that `Size` is a number at all needs an induction over its definition, hence it is
assumed), and that the pushes of the queue's whole life are fewer than half that range. Beyond that a push that was suspended for 2^63 other
pushes would take an old cell for a new one. No property above is inductive: none says what a sequence number means. `RingInv` counts pushes and pops
without wrapping (`Ends`, with `Counted` as the bound) and derives every position, sequence number and content from the two counts: the cell of a position is
free, claimed, published or being read according to where it lies between them (`SequenceNumbers`, `Writers`, `Consumer`, `Contents`), and
a producer's stale position lies at most half the range behind (`Tryers`). The refinement then maps `Claim`, `Publish` and `FreeCell` to
the steps of `BoundedFifo` and every other action to a stutter.

`MailboxSetProofs` (from `MailboxAssumption`): a mailbox takes steps of its ring or leaves it alone, so `MailboxHasNoCellRace`,
`MailboxRejectsOnlyWhenFull` and `BoundedMailboxIsFifo` follow; `OneSlotMailboxIsFifo` has an invariant of its own (`SlotInv`: who
is inside, and that the slot holds a message then). The linked list has the longest argument:

* `ListHolds`: `ListInv` is an invariant of `MpscQueue`. Neither `NodeOnce` nor the refinement mapping is inductive, and both follow pointers, which a
  proof step by step cannot. `ListInv` says instead that there are sequences, one for each holder (the queue, the list and the hand of each thread, each chunk),
  which partition the allocated nodes (`Partition`, `Held`) and along which the pointers run (`Linked`); that the chunks are in
  turn partitioned between the stack and the threads that push them, and the stack is linked (`Stacked`); that a thread whose old top has the
  present tag has the present top and read its successor (`TagsFresh`, the reason why a compare-exchange never succeeds with a stale
  pointer); what each label says of a thread's list and of the mutex (`Phases`); that pages are whole chunks (`Pages`, `PageCut`: how a page is
  cut); and that a missing link of the queue has a thread that is about to store it (`Chained`). There is one lemma per step.
* `MailboxNodesOnce`: `Spec => []NodeOnce`. The path along the pointers from a holder's first node is the holder's sequence (`PathIs`, `LinkedPath`, `StackPath`: by
  the smallest position at which they would differ), so that the places that `NodeOnce` counts and the allocated nodes correspond
  one to one (`OnePlaceHeld`, `HeldHasPlace`, `NodesArePlaced`).
* `UnboundedMailboxIsFifo`: `Exchange`, `Link` and `TryDequeue` are `Claim`, `Publish` and `Take` of `BoundedFifo`, and every other step a
  stutter (`ExchangeClaims`, `LinkPublishes`, `DequeueTakes`, `PlacesKept`).
* `MailboxIsFifo`: `Spec => ImplementsFifo`, all three queues.

`QueueConstants` says that there is a thread and that the first page fits below `MaxNodes`, the bound of the model on the
nodes. The tag is a natural number: that it does not wrap around between a load of the top and the compare-exchange (2^64 pushes and pops) is assumed.

`SchedulerUnionProofs` (from `UnionAssumption`): `PoolsInvariant`, and from it `OperationsWaitOnce` (`EachOwedOnce`) and `TokensMatch`
(`TokensAccounted`). Each pool has a conjunct that says in which places an operation can be and that it is owed exactly when it is in one
(`SharePlaced`, `WeakPlaced`, `StrictPlaced`, `PinnedPlaced`); `WeakBuckets` says that bits and buckets agree and that buckets of different
sub-queues share nothing. `TokensAccounted` is inductive together with these: a deposit adds an operation and a signal under way, and a worker leaves the
search exactly when it takes an operation. That the lowest bit of a bitmap exists uses the well-foundedness of the naturals.

`MessageBrokerProofs` (from `BrokerAssumption`): `BrokerInvariant`; from it the invariants `SocketsAlwaysMatch` (`SocketsMatchStates`),
`NoOrphanedRequest` (`OutstandingIsWatched`), `EveryHandledIsReplied` (`HandledIsReplied`), and the action properties
`OnlySilentPeersDropped` (`DropsOnlySilentPeers`), `OutcomesAreFinal` (`OutcomeIsFinal`) and `UnmetIsTrue` (`UnmetAgreesWithState`). The strengthening is
`FreshIds` (an id the counter has not reached is used nowhere), `EndedIsErased` and `RepliesOfEnded`; for the last theorem `ConditionNoticed`: a wait whose
condition holds has been told so, because whoever changes the membership evaluates the waiters in the same handler.

`BrokerThreadsProofs` (from `ThreadsAssumption`): `NothingRunsAfterStop` (`NothingAfterStop`), by following the order of the joins: past
each join its thread has ended or never had anything to do (`TimerJoined`, `TimerQuiet`, `PullerQuiet`).

Only model-checked: all liveness (fairness and `ENABLED` are out of the prover's reach); everything about `Cluster`, whose properties are
liveness.

## Assumptions and what is left out

* Memory is sequentially consistent. The code's acquire/release orderings are not modelled.
* Coroutines of an actor are resumed through its mailbox (the task type is scheduler-affine), so that code between two
  `co_await`s is atomic with respect to the other handlers of that actor.
* The queue behind `UnboundedBlockingQueue` (moodycamel) is taken as first in, first out. `sem_timedwait` does not time out while
  the semaphore can be taken. `OneSlotUnsafeQueue` is used exclusively, as its comment asks.
* User code: handlers end; `ExActorOnSpawned` does nothing; predicates of `WaitClusterState` ask for
  nodes to be alive; user code is done before shutdown unless `OverlapShutdown`.
* The broker's peers may gossip anything about each other with timestamps up to `skew` ahead, answer or not. The address and the name of a node id
  never change, so the two checks of `HandleGossipMessage` (`network.cc:409-414`), which throw on a conflicting one, have no step.
* `ActorRegistry!MethodCall` has one error reply for an unknown id, an unknown handler and a mailbox that is full (`actor_registry.cc:136-172`), and may give it
  whenever a call arrives. The branches of spawning, `DestroyActor` and `GetActorRefByName` that forward to another node only send a request and wait for
  the reply (`actor_registry.h:71-84`, `104-108`, `134-138`), which is `SendRequest` of `MessageBroker`; they change nothing in the maps and are left out.
* In `BrokerThreads`, `Stop` comes after `Start` has returned, or without any `Start`. With a timer that has no task registered
  the lost notification described at the hazard would be final.
* In `Cluster` clocks agree (their skew is in `MessageBroker`), a socket to an address reconnects by itself, so that the
  contact flag, which only decides about rebuilding one, is left out, and of the messages one sender has waiting for an address without a process
  one is kept. A message to a running process arrives. Dropping a peer closes the send socket (`network.cc:490`), but what is queued in it still goes out for
  `kDefaultSocketLingerMs` (1 s, `constants.h:64`), so a reply is lost only when there is no process at the address; a connection that fails in one
  direction for longer, with both processes running, is not modelled.
* Payloads, serialization, reflection, ZeroMQ options, logging, core pinning and allocation sizes are data or input/output and are left out.

### Not modelled

* `WorkStealingThreadPool`: an alias of a pool of `stdexec`, whose source is not in the repository.
* The global registry and the signal handlers: a pointer that is documented as not thread-safe, and handlers whose difficulty is the
  signal context (a mutex held by the interrupted thread, a stack object that ends), not the protocol of `Semaphore`.
* `StartOrJoinCluster`: runs once before any remote call; its effect is in the `Init` of `ActorRegistry`. One that overlaps other
  calls is excluded by its documentation.
* Of the vendored linked-list queue: the bulk and blocking operations, which the framework does not call, the destructor, and
  the recycling of the lists of threads that end.
* The other vendored code (moodycamel's queues, the ZeroMQ binding, absl), about three quarters of the lines under
  `include/`: third-party containers and bindings, without a protocol of this program. The framework's own sources have about 5,900 lines, a third of them
  templates for reflection, serialization, configuration and sender adaptors that keep no state.

## Plan

Done, in this order: `Actor`, `BoundedFifo` and `BoundedMpscQueue`, `Semaphore`, `MessageBroker`, `PeriodicalTaskScheduler`,
`WorkSharingThreadPool`, `ActorRegistry`; `ActorProofs`, `ActorRegistryProofs`; then `LightweightSemaphore`, the remaining pools and
`SchedulerUnion`; `MpscQueue`, `OneSlotUnsafeQueue` and `MailboxSet`; `BrokerThreads`; `Cluster`; then the other proof modules.

To do: an abstract actor (one message at a time, in order, destroyed once) that `Actor` implements.
