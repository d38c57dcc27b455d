------------------------- MODULE OneSlotUnsafeQueue -------------------------
(***************************************************************************)
(* The queue behind UnsafeOneSlotMailbox (container.h): a slot and a flag, *)
(* without synchronization.  "The caller must ensure exclusive access":    *)
(* owner is the caller inside Push or TryPop, and the next call begins     *)
(* after it.  Each action is one assignment.                               *)
(***************************************************************************)
EXTENDS Integers, Sequences

CONSTANTS
  Callers,
  MaxPushes   \* bound: pushes per caller

Values == Callers \X (1 .. MaxPushes)
NoValue == <<>>
Nobody == "nobody"

VARIABLES
  slot,       \* slot_
  hasValue,   \* has_value_
  owner,      \* the caller inside the queue, and what it does
  pushes,     \* pushes each caller has begun
  popped      \* the messages TryPop returned, oldest first

vars == <<slot, hasValue, owner, pushes, popped>>

Free == <<Nobody, "idle">>

Init ==
  /\ slot = NoValue /\ hasValue = FALSE
  /\ owner = Free
  /\ pushes = [c \in Callers |-> 0]
  /\ popped = <<>>

\* Mutant: an occupied slot is overwritten.
PushOverwrite(c) ==
  /\ owner = Free
  /\ pushes[c] < MaxPushes
  /\ pushes' = [pushes EXCEPT ![c] = @ + 1]
  /\ slot' = <<c, pushes[c] + 1>> /\ owner' = <<c, "push">>
  /\ UNCHANGED <<hasValue, popped>>

\* Push returns false on an occupied slot, or fills it.
Push(c) ==
  /\ owner = Free
  /\ pushes[c] < MaxPushes
  /\ pushes' = [pushes EXCEPT ![c] = @ + 1]
  /\ IF hasValue
       THEN UNCHANGED <<slot, owner>>
       ELSE slot' = <<c, pushes[c] + 1>> /\ owner' = <<c, "push">>
  /\ UNCHANGED <<hasValue, popped>>

SetFlag(c) ==
  /\ owner = <<c, "push">>
  /\ hasValue' = TRUE
  /\ owner' = Free
  /\ UNCHANGED <<slot, pushes, popped>>

\* TryPop clears the flag, then moves the message out of the slot.
TryPop(c) ==
  /\ owner = Free /\ hasValue
  /\ hasValue' = FALSE
  /\ owner' = <<c, "pop">>
  /\ UNCHANGED <<slot, pushes, popped>>

MoveOut(c) ==
  /\ owner = <<c, "pop">>
  /\ popped' = Append(popped, slot)
  /\ owner' = Free
  /\ UNCHANGED <<slot, hasValue, pushes>>

Next == \E c \in Callers : Push(c) \/ SetFlag(c) \/ TryPop(c) \/ MoveOut(c)

Spec == Init /\ [][Next]_vars
-----------------------------------------------------------------------------
\* The slot is a mailbox of one place.
Occupied == hasValue \/ owner # Free

Fifo == INSTANCE BoundedFifo
          WITH Producers <- Callers, Limit <- 1, taken <- popped,
               places <- IF ~Occupied THEN <<>>
                         ELSE <<[val |-> slot, by |-> slot[1], ready |-> owner[2] # "push"]>>

ImplementsFifo == Fifo!Spec
=============================================================================
