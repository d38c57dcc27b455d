----------------------------- MODULE MailboxSet -----------------------------
(***************************************************************************)
(* A mailbox of an actor (MailboxSet in actor.h): a variant of three queue *)
(* types, chosen by the mailbox's configuration when it is constructed and *)
(* never changed.  Push and TryPop visit the alternative it holds.  Each   *)
(* queue has its own state; the two that a mailbox does not hold stay in   *)
(* their initial state.  Threads push; the one that runs the actor pops.   *)
(***************************************************************************)
EXTENDS Integers, Sequences, FiniteSets

CONSTANTS
  Threads,
  Configs,       \* the configurations of a mailbox that are tried
  RingCapacity, RingPosMod, RingStartPos, RingPushes,   \* BoundedMpscQueue
  ListCapacity, ListPushes, ListNodes,                  \* MPSC_queue
  ListThreads,
  SlotPushes                                            \* OneSlotUnsafeQueue

MailboxConfigs == {"UnboundedMailbox", "UnsafeOneSlotMailbox", "BoundedMailbox"}

VARIABLES
  config,
  rSequence, rData, rEnqueuePos, rDequeuePos, rPc, rPos, rPushes, rCpc, rGot, rPopped,
  qNext, qNextChunk, qValue, qNodeCount, qTop, qMutex, qList, qSize, qHead, qTail,
  qPc, qOld, qHand, qChunks, qPushes, qPopped, qChain,
  sSlot, sHasValue, sOwner, sPushes, sPopped

ringVars == <<rSequence, rData, rEnqueuePos, rDequeuePos, rPc, rPos, rPushes, rCpc, rGot, rPopped>>
listVars == <<qNext, qNextChunk, qValue, qNodeCount, qTop, qMutex, qList, qSize, qHead, qTail,
              qPc, qOld, qHand, qChunks, qPushes, qPopped, qChain>>
slotVars == <<sSlot, sHasValue, sOwner, sPushes, sPopped>>
vars == <<config, ringVars, listVars, slotVars>>

Ring == INSTANCE BoundedMpscQueue WITH
  Producers <- Threads, Requested <- RingCapacity, PosMod <- RingPosMod,
  StartPos <- RingStartPos, MaxPushes <- RingPushes,
  sequence <- rSequence, data <- rData, enqueuePos <- rEnqueuePos, dequeuePos <- rDequeuePos,
  pc <- rPc, pos <- rPos, pushes <- rPushes, cpc <- rCpc, got <- rGot, popped <- rPopped

List == INSTANCE MpscQueue WITH
  Threads <- ListThreads, Capacity <- ListCapacity, MaxPushes <- ListPushes,
  MaxNodes <- ListNodes, next <- qNext, nextChunk <- qNextChunk, value <- qValue,
  nodeCount <- qNodeCount, top <- qTop, mutex <- qMutex, list <- qList, size <- qSize,
  head <- qHead, tail <- qTail, pc <- qPc, old <- qOld, hand <- qHand, chunks <- qChunks,
  pushes <- qPushes, popped <- qPopped, chain <- qChain

Slot == INSTANCE OneSlotUnsafeQueue WITH
  Callers <- Threads, MaxPushes <- SlotPushes,
  slot <- sSlot, hasValue <- sHasValue, owner <- sOwner, pushes <- sPushes, popped <- sPopped

ASSUME MailboxAssumption ==
  /\ Configs \subseteq MailboxConfigs
  /\ ListThreads \subseteq Threads
  /\ Ring!RingConstants /\ List!QueueConstants /\ SlotPushes \in Nat

\* The constructor: one alternative, by the type of the configuration.
Init ==
  /\ config \in Configs
  /\ Ring!Init /\ List!Init /\ Slot!Init

\* std::visit: the queue that the mailbox holds takes the step of Push or TryPop.
Visit ==
  \/ config = "BoundedMailbox" /\ Ring!Next /\ UNCHANGED <<listVars, slotVars>>
  \/ config = "UnboundedMailbox" /\ List!Next /\ UNCHANGED <<ringVars, slotVars>>
  \/ config = "UnsafeOneSlotMailbox" /\ Slot!Next /\ UNCHANGED <<ringVars, listVars>>

Next == Visit /\ UNCHANGED config

Spec == Init /\ [][Next]_vars
-----------------------------------------------------------------------------
\* No two threads touch the data of a cell of the ring at once, and the consumer never
\* meets a cell of a later round (BoundedMpscQueue).
NoCellRace == Ring!NoCellRace

\* MailboxSet::Push throws only when the bounded mailbox was full at that instant
\* (BoundedMpscQueue).
RejectsOnlyWhenFull == Ring!RejectsOnlyWhenFull

\* No node of the linked list is used twice or lost (MpscQueue).
NodeOnce == List!NodeOnce

\* Whatever the configuration, the mailbox implements BoundedFifo, on which Actor.tla
\* relies: no message is lost, duplicated or overtaken between Push and TryPop.
ImplementsFifo == Ring!ImplementsFifo /\ List!ImplementsFifo /\ Slot!ImplementsFifo
=============================================================================
