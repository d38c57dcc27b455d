-------------------------- MODULE BoundedMpscQueue --------------------------
(***************************************************************************)
(* The lock-free ring buffer behind BoundedMailbox (container.h): many     *)
(* producers, one consumer.  Each action is one access of a shared atomic  *)
(* or of a cell's data.  Positions are size_t and wrap at PosMod.          *)
(***************************************************************************)
EXTENDS Integers, Sequences, FiniteSets

CONSTANTS
  Producers,
  Requested,   \* the capacity asked for
  PosMod,      \* 2^w for the w bits of size_t
  StartPos,    \* pushes and pops done before, to reach the wrap-around
  MaxPushes    \* bound: pushes per producer

\* std::bit_ceil(std::max(capacity, 2))
Size ==
  LET Powers == {2^k : k \in 1 .. Requested + 1} IN
  CHOOSE c \in Powers :
    c >= Requested /\ \A b \in Powers : b >= Requested => c <= b

Cells == 0 .. Size - 1
Pos == 0 .. PosMod - 1
Values == Producers \X (1 .. MaxPushes)
None == <<>>

\* The ring has two cells or more, size_t counts a whole number of rounds, and less than
\* half of its range is used up in the life of a queue: more pushes than that, during
\* one Push, would turn the sign of its diff around.
RingConstants ==
  /\ Requested \in Nat /\ MaxPushes \in Nat
  /\ PosMod \in Nat /\ StartPos \in Pos
  /\ Size \in Nat /\ Size >= 2 /\ PosMod % Size = 0
  /\ IsFiniteSet(Values) /\ Cardinality(Values) + Size <= PosMod \div 2

VARIABLES
  sequence,    \* cell_t::sequence
  data,        \* cell_t::data
  enqueuePos,  \* enqueue_pos_
  dequeuePos,  \* dequeue_pos_
  pc,          \* where each producer is in Push
  pos,         \* local variable pos of each producer
  pushes,      \* pushes each producer has begun
  cpc,         \* where the consumer is in Pop
  got,         \* the consumer's out parameter
  popped       \* the messages Pop returned, oldest first

producerVars == <<pc, pos, pushes>>
consumerVars == <<cpc, got, popped>>
vars == <<sequence, data, enqueuePos, dequeuePos, producerVars, consumerVars>>

\* Every shared word is a position, and each side is at one of its labels.
TypeOK ==
  /\ sequence \in [Cells -> Pos]
  /\ data \in [Cells -> Values \cup {None}]
  /\ enqueuePos \in Pos /\ dequeuePos \in Pos
  /\ pc \in [Producers -> {"idle", "load", "cas", "reload", "write", "publish"}]
  /\ pos \in [Producers -> Pos]
  /\ pushes \in [Producers -> 0 .. MaxPushes]
  /\ cpc \in {"idle", "read", "free", "thrown"}
  /\ got \in Values \cup {None}
  /\ popped \in Seq(Values)

Add(a, n) == (a + n) % PosMod
Cell(p) == p % Size

\* The signed difference of two size_t values.
Diff(a, b) ==
  LET d == (a - b) % PosMod IN IF d < PosMod \div 2 THEN d ELSE d - PosMod

\* The constructor, followed by StartPos pushes and pops.
Init ==
  /\ sequence = [c \in Cells |->
                   LET d == (c - StartPos) % Size IN Add(StartPos, d)]
  /\ data = [c \in Cells |-> None]
  /\ enqueuePos = StartPos
  /\ dequeuePos = StartPos
  /\ pc = [p \in Producers |-> "idle"]
  /\ pos = [p \in Producers |-> StartPos]
  /\ pushes = [p \in Producers |-> 0]
  /\ cpc = "idle"
  /\ got = None
  /\ popped = <<>>

Value(p) == <<p, pushes[p]>>

Goto(p, label) == pc' = [pc EXCEPT ![p] = label]

(***************************************************************************)
(* Push                                                                    *)
(***************************************************************************)

BeginPush(p) ==
  /\ pc[p] = "idle"
  /\ pushes[p] < MaxPushes
  /\ pushes' = [pushes EXCEPT ![p] = @ + 1]
  /\ pos' = [pos EXCEPT ![p] = enqueuePos]
  /\ Goto(p, "load")
  /\ UNCHANGED <<sequence, data, enqueuePos, dequeuePos, consumerVars>>

\* Mutant: a producer overtaken by another reports a full queue.
LoadSequenceStale(p) ==
  /\ pc[p] = "load"
  /\ LET diff == Diff(sequence[Cell(pos[p])], pos[p]) IN
       Goto(p, IF diff = 0 THEN "cas" ELSE "idle")
  /\ UNCHANGED <<sequence, data, enqueuePos, dequeuePos, pos, pushes, consumerVars>>

\* The cell is free for this position, still occupied (Push returns false), or
\* already taken by a producer that was faster.
LoadSequence(p) ==
  /\ pc[p] = "load"
  /\ LET diff == Diff(sequence[Cell(pos[p])], pos[p]) IN
       Goto(p, IF diff = 0 THEN "cas" ELSE IF diff < 0 THEN "idle" ELSE "reload")
  /\ UNCHANGED <<sequence, data, enqueuePos, dequeuePos, pos, pushes, consumerVars>>

\* Mutant: the position is claimed without a compare-exchange.
ClaimNoCheck(p) ==
  /\ pc[p] = "cas"
  /\ enqueuePos' = Add(pos[p], 1)
  /\ Goto(p, "write")
  /\ UNCHANGED <<sequence, data, dequeuePos, pos, pushes, consumerVars>>

\* compare_exchange_weak succeeds
Claim(p) ==
  /\ pc[p] = "cas"
  /\ enqueuePos = pos[p]
  /\ enqueuePos' = Add(pos[p], 1)
  /\ Goto(p, "write")
  /\ UNCHANGED <<sequence, data, dequeuePos, pos, pushes, consumerVars>>

\* compare_exchange_weak fails, possibly spuriously, and reloads pos
ClaimFails(p) ==
  /\ pc[p] = "cas"
  /\ pos' = [pos EXCEPT ![p] = enqueuePos]
  /\ Goto(p, "load")
  /\ UNCHANGED <<sequence, data, enqueuePos, dequeuePos, pushes, consumerVars>>

Reload(p) ==
  /\ pc[p] = "reload"
  /\ pos' = [pos EXCEPT ![p] = enqueuePos]
  /\ Goto(p, "load")
  /\ UNCHANGED <<sequence, data, enqueuePos, dequeuePos, pushes, consumerVars>>

WriteData(p) ==
  /\ pc[p] = "write"
  /\ data' = [data EXCEPT ![Cell(pos[p])] = Value(p)]
  /\ Goto(p, "publish")
  /\ UNCHANGED <<sequence, enqueuePos, dequeuePos, pos, pushes, consumerVars>>

Publish(p) ==
  /\ pc[p] = "publish"
  /\ sequence' = [sequence EXCEPT ![Cell(pos[p])] = Add(pos[p], 1)]
  /\ Goto(p, "idle")
  /\ UNCHANGED <<data, enqueuePos, dequeuePos, pos, pushes, consumerVars>>

(***************************************************************************)
(* Pop                                                                     *)
(***************************************************************************)

\* Nothing published at dequeue_pos_ (Pop returns false), a message, or the
\* sequence check fails.
BeginPop ==
  /\ cpc = "idle"
  /\ LET diff == Diff(sequence[Cell(dequeuePos)], Add(dequeuePos, 1)) IN
       cpc' = IF diff < 0 THEN "idle" ELSE IF diff = 0 THEN "read" ELSE "thrown"
  /\ UNCHANGED <<sequence, data, enqueuePos, dequeuePos, producerVars, got, popped>>

ReadData ==
  /\ cpc = "read"
  /\ got' = data[Cell(dequeuePos)]
  /\ cpc' = "free"
  /\ UNCHANGED <<sequence, data, enqueuePos, dequeuePos, producerVars, popped>>

\* Mutant: dequeue_pos_ is not advanced.
FreeCellNoAdvance ==
  /\ cpc = "free"
  /\ sequence' = [sequence EXCEPT ![Cell(dequeuePos)] = Add(dequeuePos, Size)]
  /\ popped' = Append(popped, got)
  /\ got' = None
  /\ cpc' = "idle"
  /\ UNCHANGED <<data, enqueuePos, dequeuePos, producerVars>>

\* The cell is given back for the position one round later.
FreeCell ==
  /\ cpc = "free"
  /\ sequence' = [sequence EXCEPT ![Cell(dequeuePos)] = Add(dequeuePos, Size)]
  /\ dequeuePos' = Add(dequeuePos, 1)
  /\ popped' = Append(popped, got)
  /\ got' = None
  /\ cpc' = "idle"
  /\ UNCHANGED <<data, enqueuePos, producerVars>>

-----------------------------------------------------------------------------
PushStep(p) ==
  \/ BeginPush(p)
  \/ LoadSequence(p)
  \/ Claim(p)
  \/ ClaimFails(p)
  \/ Reload(p)
  \/ WriteData(p)
  \/ Publish(p)

PopStep == BeginPop \/ ReadData \/ FreeCell

Next == (\E p \in Producers : PushStep(p)) \/ PopStep

Spec == Init /\ [][Next]_vars
-----------------------------------------------------------------------------
\* A producer that has claimed a position and not published it.
Writing(p) == pc[p] \in {"write", "publish"}
Used == (enqueuePos - dequeuePos) % PosMod

\* A cell's plain data is never written by two producers, nor written while the
\* consumer reads it: only the sequence numbers keep them apart.  Nor does Pop meet a
\* cell of a later round (container.h:244, "diff > 0 should never happen with a
\* single consumer").
NoCellRace ==
  /\ cpc # "thrown"
  /\ \A p, q \in Producers : p # q /\ Writing(p) /\ Writing(q) => Cell(pos[p]) # Cell(pos[q])
  /\ cpc \in {"read", "free"} =>
       \A p \in Producers : Writing(p) => Cell(pos[p]) # Cell(dequeuePos)

\* Push returns false only when at that instant every cell is occupied, although
\* the position it compares with may be stale.
RejectsOnlyWhenFull ==
  [][\A p \in Producers : pc[p] = "load" /\ pc'[p] = "idle" => Used = Size]_vars

\* The ring implements the bounded queue: the places are the positions from
\* dequeue_pos_ to enqueue_pos_, ready unless their producer is still writing.
Place(i) ==
  LET at == Add(dequeuePos, i - 1)
      writers == {p \in Producers : Writing(p) /\ pos[p] = at}
  IN IF writers # {}
       THEN LET p == CHOOSE p \in writers : TRUE IN [val |-> Value(p), by |-> p, ready |-> FALSE]
       ELSE [val |-> data[Cell(at)], by |-> data[Cell(at)][1], ready |-> TRUE]

Fifo == INSTANCE BoundedFifo
          WITH Limit <- Size, places <- [i \in 1 .. Used |-> Place(i)], taken <- popped

ImplementsFifo == Fifo!Spec
=============================================================================
