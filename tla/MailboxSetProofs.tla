-------------------------- MODULE MailboxSetProofs --------------------------
(***************************************************************************)
(* Proofs about the mailbox of an actor: what BoundedMpscQueueProofs shows *)
(* of the ring holds of a mailbox; the linked list never uses a node twice *)
(* nor loses one, and implements BoundedFifo, and so does the one-slot     *)
(* queue.                                                                  *)
(***************************************************************************)
EXTENDS MailboxSet, FiniteSetTheorems, FunctionTheorems, SequenceTheorems, NaturalsInduction,
        WellFoundedInduction, TLAPS

RingP == INSTANCE BoundedMpscQueueProofs WITH
  Producers <- Threads, Requested <- RingCapacity, PosMod <- RingPosMod,
  StartPos <- RingStartPos, MaxPushes <- RingPushes,
  sequence <- rSequence, data <- rData, enqueuePos <- rEnqueuePos, dequeuePos <- rDequeuePos,
  pc <- rPc, pos <- rPos, pushes <- rPushes, cpc <- rCpc, got <- rGot, popped <- rPopped

\* What the module of the ring and the module of its proofs call by the same names.
LEMMA SameRing ==
  /\ Ring!RingConstants => RingP!RingConstants
  /\ Ring!Init => RingP!Init
  /\ Ring!Next => RingP!Next
  /\ Ring!vars = RingP!vars
  /\ RingP!NoCellRace => Ring!NoCellRace
<1>1. Ring!RingConstants => RingP!RingConstants
  <2>1. Ring!Size = RingP!Size /\ Ring!Values = RingP!Values /\ Ring!Pos = RingP!Pos
    BY Zenon DEF Ring!Size, RingP!Size, Ring!Values, RingP!Values, Ring!Pos, RingP!Pos
  <2>2. QED
    BY <2>1, Zenon
    DEF Ring!RingConstants, RingP!RingConstants, Ring!IsFiniteSet, RingP!IsFiniteSet,
        Ring!Cardinality, RingP!Cardinality
<1>2. Ring!Init => RingP!Init
  BY Zenon
  DEF Ring!Init, RingP!Init, Ring!Cells, RingP!Cells, Ring!Size, RingP!Size,
       Ring!None, RingP!None, Ring!Add, RingP!Add
<1>3. Ring!Next => RingP!Next
  BY Zenon
  DEF Ring!Next, RingP!Next, Ring!PushStep, RingP!PushStep, Ring!PopStep,
       RingP!PopStep, Ring!BeginPush, RingP!BeginPush, Ring!LoadSequence,
       RingP!LoadSequence, Ring!Claim, RingP!Claim, Ring!ClaimFails, RingP!ClaimFails,
       Ring!Reload, RingP!Reload, Ring!WriteData, RingP!WriteData, Ring!Publish,
       RingP!Publish, Ring!BeginPop, RingP!BeginPop, Ring!ReadData, RingP!ReadData,
       Ring!FreeCell, RingP!FreeCell, Ring!Goto, RingP!Goto, Ring!Value, RingP!Value,
       Ring!Diff, RingP!Diff, Ring!Cell, RingP!Cell, Ring!Add, RingP!Add,
       Ring!producerVars, RingP!producerVars, Ring!consumerVars, RingP!consumerVars,
       Ring!None, RingP!None, Ring!Size, RingP!Size
<1>4. Ring!vars = RingP!vars
  BY Zenon
  DEF Ring!vars, RingP!vars, Ring!producerVars, RingP!producerVars, Ring!consumerVars,
       RingP!consumerVars
<1>5. RingP!NoCellRace => Ring!NoCellRace
  BY Zenon
  DEF Ring!NoCellRace, RingP!NoCellRace, Ring!Writing, RingP!Writing, Ring!Cell,
       RingP!Cell, Ring!Size, RingP!Size
<1>6. QED
  BY <1>1, <1>2, <1>3, <1>4, <1>5

\* A mailbox takes steps of its ring, or leaves the ring alone.
LEMMA MailboxRing == Spec => RingP!Spec
<1>1. Init => RingP!Init
  BY SameRing DEF Init
<1>2. [Next]_vars => [RingP!Next]_(RingP!vars)
  <2>1. CASE Next
    <3>1. Ring!Next \/ UNCHANGED ringVars
      BY <2>1 DEF Next, Visit
    <3>2. UNCHANGED ringVars => UNCHANGED RingP!vars
      BY DEF ringVars, RingP!vars, RingP!producerVars, RingP!consumerVars
    <3>3. QED
      BY <3>1, <3>2, SameRing
  <2>2. CASE UNCHANGED vars
    BY <2>2 DEF vars, ringVars, RingP!vars, RingP!producerVars, RingP!consumerVars
  <2>3. QED
    BY <2>1, <2>2
<1>3. QED
  BY <1>1, <1>2, PTL DEF Spec, RingP!Spec

\* Threads that push to a bounded mailbox and the one that runs the actor never touch the
\* data of a cell at once (container.h, BoundedMpscQueue).
THEOREM MailboxHasNoCellRace == Spec => []NoCellRace
<1>1. RingP!RingConstants
  BY MailboxAssumption, SameRing
<1>2. RingP!Spec => []RingP!NoCellRace
  BY <1>1, RingP!NoDataRace
<1>3. RingP!NoCellRace => NoCellRace
  BY SameRing DEF NoCellRace
<1>4. QED
  BY <1>2, <1>3, MailboxRing, PTL

\* MailboxSet::Push throws for a bounded mailbox only when it is full at that instant.
THEOREM MailboxRejectsOnlyWhenFull == Spec => RejectsOnlyWhenFull
<1>1. RingP!RingConstants
  BY MailboxAssumption, SameRing
<1>2. RingP!Spec => RingP!RejectsOnlyWhenFull
  BY <1>1, RingP!FullWhenRejected
<1>3. [\A p \in Threads : rPc[p] = "load" /\ rPc'[p] = "idle" => RingP!Used = RingP!Size]_(RingP!vars)
        => [\A p \in Threads : rPc[p] = "load" /\ rPc'[p] = "idle" => Ring!Used = Ring!Size]_(Ring!vars)
  <2>1. Ring!Used = RingP!Used /\ Ring!Size = RingP!Size
    BY Zenon DEF Ring!Used, RingP!Used, Ring!Size, RingP!Size
  <2>2. UNCHANGED RingP!vars => UNCHANGED Ring!vars
    BY Zenon
    DEF Ring!vars, RingP!vars, Ring!producerVars, RingP!producerVars, Ring!consumerVars,
        RingP!consumerVars
  <2>3. QED
    BY <2>1, <2>2
<1>4. RingP!RejectsOnlyWhenFull => RejectsOnlyWhenFull
  BY <1>3, PTL DEF RejectsOnlyWhenFull, Ring!RejectsOnlyWhenFull, RingP!RejectsOnlyWhenFull
<1>5. QED
  BY <1>2, <1>4, MailboxRing, PTL

\* The two names of the ring's refinement mapping.
LEMMA SameMapping == RingP!ImplementsFifo => Ring!ImplementsFifo
<1>1. RingP!Fifo!Init => Ring!Fifo!Init
    BY Zenon
    DEF Ring!Fifo!Init, RingP!Fifo!Init, Ring!Place, RingP!Place, Ring!Used,
        RingP!Used, Ring!Size, RingP!Size, Ring!Add, RingP!Add, Ring!Cell, RingP!Cell,
        Ring!Writing, RingP!Writing, Ring!Value, RingP!Value, Ring!Values,
        RingP!Values
<1>2. [RingP!Fifo!Next]_(RingP!Fifo!fifoVars) => [Ring!Fifo!Next]_(Ring!Fifo!fifoVars)
    BY Zenon
    DEF Ring!Fifo!Claim, RingP!Fifo!Claim, Ring!Fifo!Publish, RingP!Fifo!Publish,
        Ring!Fifo!Take, RingP!Fifo!Take, Ring!Fifo!Next, RingP!Fifo!Next,
        Ring!Fifo!fifoVars, RingP!Fifo!fifoVars, Ring!Place, RingP!Place, Ring!Used,
        RingP!Used, Ring!Size, RingP!Size, Ring!Add, RingP!Add, Ring!Cell, RingP!Cell,
        Ring!Writing, RingP!Writing, Ring!Value, RingP!Value, Ring!Values,
        RingP!Values
<1>3. QED
  BY <1>1, <1>2, PTL
  DEF Ring!ImplementsFifo, RingP!ImplementsFifo, Ring!Fifo!Spec, RingP!Fifo!Spec

\* The ring of a mailbox is a bounded first-in first-out queue, on which Actor.tla relies:
\* no message is lost, duplicated or overtaken (container.h, BoundedMpscQueue).
THEOREM BoundedMailboxIsFifo == Spec => Ring!ImplementsFifo
<1>1. RingP!RingConstants
  BY MailboxAssumption, SameRing
<1>2. RingP!Spec => RingP!ImplementsFifo
  BY <1>1, RingP!RingIsFifo
<1>3. QED
  BY <1>2, MailboxRing, SameMapping, PTL

(***************************************************************************)
(* Sequences of distinct members.  s[o] for o in O partition A: each       *)
(* member of A is in one of them, in one place.                            *)
(***************************************************************************)

Partition(s, O, A) ==
  /\ s \in [O -> Seq(A)]
  /\ \A o, p \in O : \A i \in 1 .. Len(s[o]), j \in 1 .. Len(s[p]) :
       s[o][i] = s[p][j] => o = p /\ i = j
  /\ \A n \in A : \E o \in O : \E i \in 1 .. Len(s[o]) : s[o][i] = n

\* r is s, but the last or the first member of s[o] has gone to the end of r[p].
MovesLast(s, r, O, o, p) ==
  /\ o \in O /\ p \in O /\ o # p /\ Len(s[o]) > 0
  /\ DOMAIN r = O /\ r = [q \in O |-> r[q]] /\ \A q \in O : q # o /\ q # p => r[q] = s[q]
  /\ Len(r[o]) = Len(s[o]) - 1 /\ \A i \in 1 .. Len(r[o]) : r[o][i] = s[o][i]
  /\ r[p] = Append(s[p], s[o][Len(s[o])])

MovesFirst(s, r, O, o, p) ==
  /\ o \in O /\ p \in O /\ o # p /\ Len(s[o]) > 0
  /\ DOMAIN r = O /\ r = [q \in O |-> r[q]] /\ \A q \in O : q # o /\ q # p => r[q] = s[q]
  /\ r[o] = Tail(s[o]) /\ r[p] = Append(s[p], s[o][1])

\* r is s with x at the end of r[o].
Adds(s, r, O, o, x) ==
  /\ o \in O /\ DOMAIN r = O /\ r = [q \in O |-> r[q]] /\ \A q \in O : q # o => r[q] = s[q]
  /\ r[o] = Append(s[o], x)

\* r is s but for the members of N, which are empty in s.
AddsMany(s, r, O, N) ==
  /\ N \subseteq O /\ \A o \in N : s[o] = <<>>
  /\ DOMAIN r = O /\ r = [o \in O |-> r[o]] /\ \A o \in O : o \notin N => r[o] = s[o]

\* Each member of s but the first points to the one before it.
Linked(f, s) == \A i \in 2 .. Len(s) : f[s[i]] = s[i - 1]

(***************************************************************************)
(* Who holds a node: the queue, the list of a thread, a thread between     *)
(* _allocate and its exchange of head_, or a chunk, named by its first     *)
(* node.  Lists and chunks are written with the first node last.           *)
(***************************************************************************)

\* The holders, as pairs of a kind and a name.
Queue == <<"queue", List!Null>>
ListOf(t) == <<"list", t>>
HandOf(t) == <<"hand", t>>
ChunkOf(c) == <<"chunk", c>>
Holders == {Queue} \cup {ListOf(t) : t \in ListThreads} \cup {HandOf(t) : t \in ListThreads}
             \cup {ChunkOf(c) : c \in List!Nodes}

\* Where a thread can be, and where it pushes chunks.
Labels == {"idle", "loadTop", "readChunk", "popChunk", "reserve", "take", "exchange", "link",
           "linkChunk", "pushChunk"}
Pushing == {"linkChunk", "pushChunk"}

\* The types of the variables.
ListTypeOK ==
  /\ qNext \in [List!Nodes -> List!Nodes \cup {List!Null}]
  /\ qNextChunk \in [List!Nodes -> List!Nodes \cup {List!Null, List!Garbage}]
  /\ qValue \in [List!Nodes -> List!Values \cup {List!NoValue}]
  /\ qNodeCount \in Nat
  /\ qTop \in (List!Nodes \cup {List!Null}) \X Nat
  /\ qList \in [ListThreads -> List!Nodes \cup {List!Null}]
  /\ qSize \in [ListThreads -> 0 .. ListCapacity]
  /\ qPc \in [ListThreads -> Labels]
  /\ qOld \in [ListThreads -> (List!Nodes \cup {List!Null}) \X Nat]
  /\ qHand \in [ListThreads -> List!Nodes \cup {List!Null, List!Garbage}]
  /\ qChunks \in [ListThreads -> Seq(List!Nodes)]
  /\ qPushes \in [ListThreads -> 0 .. ListPushes]
  /\ qChain \in Seq(List!Nodes)

\* One thread at a time has global_mutex_.
MutexOK == qMutex = {} \/ \E t \in ListThreads : qMutex = {t}

\* Where a thread is in its call says what it has in its list and its hands.
Phase(t) ==
  /\ qPc[t] \in {"loadTop", "readChunk", "popChunk", "reserve"} \cup Pushing => qSize[t] = 0
  /\ IF qPc[t] = "take" THEN qSize[t] > 0 ELSE qSize[t] < ListCapacity
  /\ qPc[t] \in Pushing <=> qChunks[t] # <<>>
  /\ qMutex = {t} => qPc[t] \in Pushing
  /\ qPc[t] \in {"loadTop", "readChunk", "popChunk", "reserve", "take"} \/ qMutex = {t} => qPushes[t] > 0

Phases == \A t \in ListThreads : Phase(t)

\* Pages are whole chunks, and fit.
Pages ==
  /\ \E m \in Nat \ {0} : qNodeCount = m * ListCapacity
  /\ qNodeCount + (IF qMutex = {} THEN 0 ELSE List!PageSize) <= ListNodes

\* What a thread has: the list from its last node on, and the node it is about to add.
HeldBy(seg, t) ==
  /\ seg[HandOf(t)] = IF qPc[t] = "exchange" THEN <<qHand[t]>> ELSE <<>>
  /\ Len(seg[ListOf(t)]) = qSize[t]
  /\ qSize[t] > 0 => qList[t] = seg[ListOf(t)][qSize[t]]
  /\ Linked(qNext, seg[ListOf(t)])

\* A chunk is full, linked, and starts at its first node.
HeldInChunk(seg, c) ==
  seg[ChunkOf(c)] # <<>> =>
    /\ Len(seg[ChunkOf(c)]) = ListCapacity
    /\ seg[ChunkOf(c)][ListCapacity] = c
    /\ Linked(qNext, seg[ChunkOf(c)])

\* Every node of a page is held by one, and lists and chunks are linked.
Held(seg) ==
  /\ Partition(seg, Holders, List!Allocated)
  /\ seg[Queue] = qChain
  /\ \A t \in ListThreads : HeldBy(seg, t)
  /\ \A c \in List!Nodes : HeldInChunk(seg, c)

\* Who holds a chunk: the stack, or a thread that pushes it.
Stack == <<"stack", List!Null>>
PushesOf(t) == <<"pushes", t>>
ChunkHolders == {Stack} \cup {PushesOf(t) : t \in ListThreads}
HeldChunks(st) == [o \in ChunkHolders |-> IF o = Stack THEN st ELSE qChunks[o[2]]]
ChunkHeads(seg) == {c \in List!Nodes : seg[ChunkOf(c)] # <<>>}

\* The stack is linked from top_ down to the null pointer.
Stacked(st) ==
  /\ qTop[1] = IF st = <<>> THEN List!Null ELSE st[Len(st)]
  /\ st # <<>> => qNextChunk[st[1]] = List!Null
  /\ Linked(qNextChunk, st)

\* The tag: a thread whose old_top has the tag of the top has the top, and the next_chunk_
\* it read is that of the top.
TagsFresh ==
  \A t \in ListThreads :
    /\ qPc[t] \in {"readChunk", "popChunk"} =>
          /\ qOld[t][1] \in List!Nodes /\ qOld[t][2] <= qTop[2]
          /\ qOld[t][2] = qTop[2] =>
               qOld[t] = qTop /\ (qPc[t] = "popChunk" => qHand[t] = qNextChunk[qTop[1]])
    /\ qPc[t] = "pushChunk" => qNextChunk[Head(qChunks[t])] = qOld[t][1]

\* A node is linked to its successor, or the thread whose value the successor holds is about
\* to link it.
ChainLink(i) ==
  /\ qValue[qChain[i + 1]] \in List!Values
  /\ \/ qNext[qChain[i]] = qChain[i + 1]
     \/ /\ qNext[qChain[i]] = List!Null
        /\ qPc[qValue[qChain[i + 1]][1]] = "link"
        /\ qHand[qValue[qChain[i + 1]][1]] = qChain[i + 1]

\* A thread that adds a node has it in its hands, then in the queue after the one it links.
ChainEnd(t) ==
  /\ qPc[t] \in {"exchange", "link"} =>
        qHand[t] \in List!Nodes /\ qValue[qHand[t]] = <<t, qPushes[t]>> /\ qPushes[t] > 0
  /\ qPc[t] = "exchange" => qNext[qHand[t]] = List!Null
  /\ qPc[t] = "link" =>
        \E i \in 1 .. Len(qChain) - 1 :
          qOld[t][1] = qChain[i] /\ qHand[t] = qChain[i + 1] /\ qNext[qChain[i]] = List!Null

\* The queue from tail_ to head_.
Chained ==
  /\ Len(qChain) > 0 /\ qTail = qChain[1] /\ qHead = qChain[Len(qChain)]
  /\ qNext[qChain[Len(qChain)]] = List!Null
  /\ \A i \in 1 .. Len(qChain) - 1 : ChainLink(i)
  /\ \A t \in ListThreads : ChainEnd(t)

\* What holds of the queue when seg says who holds which nodes and st is the stack.
ListParts(seg, st) ==
  /\ seg \in [Holders -> Seq(List!Nodes)] /\ st \in Seq(List!Nodes)
  /\ ListTypeOK /\ MutexOK /\ Phases /\ Pages /\ Held(seg)
  /\ Partition(HeldChunks(st), ChunkHolders, ChunkHeads(seg))
  /\ Stacked(st) /\ TagsFresh /\ Chained

\* The inductive invariant: some division of the nodes among the holders, and some stack.
ListInv == \E seg \in [Holders -> Seq(List!Nodes)], st \in Seq(List!Nodes) : ListParts(seg, st)

\* A function on 1 .. n is a sequence of length n.
LEMMA FunctionIsSeq ==
  ASSUME NEW n \in Nat, NEW A, NEW f, f = [i \in 1 .. n |-> f[i]], \A i \in 1 .. n : f[i] \in A
  PROVE  f \in Seq(A) /\ Len(f) = n
  BY IsASeq, SMT

\* What a partition says of one holder, of two places with the same member, and of a member.
LEMMA PartTyped ==
  ASSUME NEW O, NEW A, NEW s, Partition(s, O, A), NEW p \in O
  PROVE  s[p] \in Seq(A) /\ Len(s[p]) \in Nat /\ \A i \in 1 .. Len(s[p]) : s[p][i] \in A
<1>1. s[p] \in Seq(A)
  BY DEF Partition
<1>2. QED
  BY <1>1

\* A member is in one sequence, in one place.
LEMMA PartOnce ==
  ASSUME NEW O, NEW A, NEW s, Partition(s, O, A), NEW p \in O, NEW q \in O,
         NEW i \in 1 .. Len(s[p]), NEW j \in 1 .. Len(s[q]), s[p][i] = s[q][j]
  PROVE  p = q /\ i = j
  BY DEF Partition

\* Each member is in a sequence.
LEMMA PartHas ==
  ASSUME NEW O, NEW A, NEW s, Partition(s, O, A), NEW n \in A
  PROVE  \E p \in O : \E i \in 1 .. Len(s[p]) : s[p][i] = n
  BY DEF Partition

\* The last member of o leaves.
LEMMA DropLast ==
  ASSUME NEW O, NEW A, NEW s, Partition(s, O, A), NEW o \in O, Len(s[o]) > 0,
         NEW r, DOMAIN r = O, r = [p \in O |-> r[p]], \A p \in O : p # o => r[p] = s[p],
         Len(r[o]) = Len(s[o]) - 1, r[o] \in Seq(A),
         \A i \in 1 .. Len(r[o]) : r[o][i] = s[o][i]
  PROVE  Partition(r, O, A \ {s[o][Len(s[o])]})
<1>1. \A p \in O : s[p] \in Seq(A) /\ Len(s[p]) \in Nat
  BY PartTyped
<1>2. PICK x : x = s[o][Len(s[o])]
  OBVIOUS
<1>3. \A p \in O : Len(s[p]) \in Nat /\ Len(r[p]) \in Nat
  <2> SUFFICES ASSUME NEW p \in O PROVE Len(s[p]) \in Nat /\ Len(r[p]) \in Nat
    OBVIOUS
  <2>1. Len(r[o]) \in Nat
    BY <1>1
  <2>2. QED
    BY <1>1, <2>1
<1>4. \A p \in O : \A i \in 1 .. Len(r[p]) :
        i \in 1 .. Len(s[p]) /\ r[p][i] = s[p][i] /\ (p = o => i # Len(s[o]))
  BY <1>3
<1>5. Len(s[o]) \in 1 .. Len(s[o])
  BY <1>3
<1>6. \A p \in O : \A i \in 1 .. Len(r[p]) : r[p][i] \in A \ {x}
  <2> SUFFICES ASSUME NEW p \in O, NEW i \in 1 .. Len(r[p]) PROVE r[p][i] \in A \ {x}
    OBVIOUS
  <2>1. i \in 1 .. Len(s[p]) /\ r[p][i] = s[p][i] /\ (p = o => i # Len(s[o]))
    BY <1>4
  <2>2. s[p][i] \in A
    BY <2>1, PartTyped
  <2>3. s[p][i] # x
    BY <1>2, <1>5, <2>1, PartOnce
  <2>4. QED
    BY <2>1, <2>2, <2>3
<1>7. r \in [O -> Seq(A \ {x})]
  <2>1. \A p \in O : r[p] \in Seq(A)
    BY <1>1
  <2>2. \A p \in O : r[p] \in Seq(A \ {x})
    <3> SUFFICES ASSUME NEW p \in O PROVE r[p] \in Seq(A \ {x})
      OBVIOUS
    <3>1. r[p] = [i \in 1 .. Len(r[p]) |-> r[p][i]]
      BY <2>1
    <3>2. QED
      BY <1>3, <1>6, <3>1, FunctionIsSeq
  <2>3. QED
    BY <2>2
<1>8. ASSUME NEW q \in O, NEW p \in O, NEW i \in 1 .. Len(r[q]), NEW j \in 1 .. Len(r[p]),
             r[q][i] = r[p][j]
      PROVE  q = p /\ i = j
  <2>1. i \in 1 .. Len(s[q]) /\ j \in 1 .. Len(s[p]) /\ s[q][i] = s[p][j]
    BY <1>4, <1>8
  <2>2. QED
    BY <2>1, PartOnce
<1>9. ASSUME NEW n \in A \ {x} PROVE \E p \in O : \E i \in 1 .. Len(r[p]) : r[p][i] = n
  <2>1. PICK p \in O : \E i \in 1 .. Len(s[p]) : s[p][i] = n
    BY <1>9, PartHas
  <2>2. PICK i \in 1 .. Len(s[p]) : s[p][i] = n
    BY <2>1
  <2>3. i \in 1 .. Len(r[p]) /\ r[p][i] = n
    BY <1>2, <1>3, <1>9, <2>2
  <2>4. QED
    BY <2>3
<1>10. QED
  BY <1>2, <1>7, <1>8, <1>9 DEF Partition

\* The first member of o leaves.
LEMMA DropFirst ==
  ASSUME NEW O, NEW A, NEW s, Partition(s, O, A), NEW o \in O, Len(s[o]) > 0,
         NEW r, DOMAIN r = O, r = [p \in O |-> r[p]], \A p \in O : p # o => r[p] = s[p],
         r[o] = Tail(s[o])
  PROVE  Partition(r, O, A \ {s[o][1]})
<1>1. \A p \in O : s[p] \in Seq(A) /\ Len(s[p]) \in Nat
  BY PartTyped
<1>2. PICK x : x = s[o][1]
  OBVIOUS
<1>a. /\ s[o] # <<>> /\ r[o] \in Seq(A) /\ Len(r[o]) = Len(s[o]) - 1
      /\ \A i \in 1 .. Len(r[o]) : r[o][i] = s[o][i + 1]
  <2>1. s[o] \in Seq(A) /\ s[o] # <<>>
    BY <1>1
  <2>2. PICK z \in Seq(A) : z = s[o] /\ z # <<>>
    BY <2>1
  <2>3. Tail(z) \in Seq(A) /\ Len(Tail(z)) = Len(z) - 1
        /\ \A i \in 1 .. Len(Tail(z)) : Tail(z)[i] = z[i + 1]
    BY <2>2
  <2>4. QED
    BY <2>2, <2>3
<1>3. \A p \in O : Len(s[p]) \in Nat /\ Len(r[p]) \in Nat
  <2> SUFFICES ASSUME NEW p \in O PROVE Len(s[p]) \in Nat /\ Len(r[p]) \in Nat
    OBVIOUS
  <2>1. Len(r[o]) \in Nat
    BY <1>a
  <2>2. QED
    BY <1>1, <2>1
<1>c. PICK k : k = [p \in O |-> IF p = o THEN 1 ELSE 0]
  OBVIOUS
<1>b. k \in [O -> {0, 1}] /\ \A p \in O : k[p] = IF p = o THEN 1 ELSE 0
  BY <1>c
<1>4. \A p \in O : \A i \in 1 .. Len(r[p]) :
        i + k[p] \in 1 .. Len(s[p]) /\ r[p][i] = s[p][i + k[p]] /\ (p = o => i + k[p] # 1)
  BY <1>3, <1>a, <1>b
<1>5. 1 \in 1 .. Len(s[o])
  BY <1>3
<1>6. \A p \in O : \A i \in 1 .. Len(r[p]) : r[p][i] \in A \ {x}
  <2> SUFFICES ASSUME NEW p \in O, NEW i \in 1 .. Len(r[p]) PROVE r[p][i] \in A \ {x}
    OBVIOUS
  <2>1. PICK j \in 1 .. Len(s[p]) : j = i + k[p] /\ r[p][i] = s[p][j] /\ (p = o => j # 1)
    BY <1>4
  <2>2. s[p][j] \in A
    BY <2>1, PartTyped
  <2>3. s[p][j] # x
    BY <1>2, <1>5, <2>1, PartOnce
  <2>4. QED
    BY <2>1, <2>2, <2>3
<1>7. r \in [O -> Seq(A \ {x})]
  <2>1. \A p \in O : r[p] \in Seq(A)
    BY <1>1, <1>a
  <2>2. \A p \in O : r[p] \in Seq(A \ {x})
    <3> SUFFICES ASSUME NEW p \in O PROVE r[p] \in Seq(A \ {x})
      OBVIOUS
    <3>1. r[p] = [i \in 1 .. Len(r[p]) |-> r[p][i]]
      BY <2>1
    <3>2. QED
      BY <1>3, <1>6, <3>1, FunctionIsSeq
  <2>3. QED
    BY <2>2
<1>8. ASSUME NEW q \in O, NEW p \in O, NEW i \in 1 .. Len(r[q]), NEW j \in 1 .. Len(r[p]),
             r[q][i] = r[p][j]
      PROVE  q = p /\ i = j
  <2>1. s[q][i + k[q]] = s[p][j + k[p]] /\ i + k[q] \in 1 .. Len(s[q]) /\ j + k[p] \in 1 .. Len(s[p])
    BY <1>4, <1>8
  <2>2. q = p /\ i + k[q] = j + k[p]
    BY <2>1, PartOnce, SMTT(30)
  <2>3. QED
    BY <1>b, <2>2
<1>9. ASSUME NEW n \in A \ {x} PROVE \E p \in O : \E i \in 1 .. Len(r[p]) : r[p][i] = n
  <2>1. PICK p \in O : \E i \in 1 .. Len(s[p]) : s[p][i] = n
    BY <1>9, PartHas
  <2>2. PICK i \in 1 .. Len(s[p]) : s[p][i] = n
    BY <2>1
  <2>3. i - k[p] \in 1 .. Len(r[p]) /\ r[p][i - k[p]] = n
    <3>1. CASE p # o
      BY <1>b, <2>2, <3>1
    <3>2. CASE p = o
      <4>1. i # 1 /\ k[o] = 1 /\ i - 1 \in 1 .. Len(r[o])
        BY <1>2, <1>3, <1>9, <1>a, <1>b, <2>2, <3>2
      <4>2. r[o][i - 1] = s[o][i]
        BY <1>3, <1>a, <2>2, <3>2, <4>1
      <4>3. QED
        BY <2>2, <3>2, <4>1, <4>2
    <3>3. QED
      BY <3>1, <3>2
  <2>4. QED
    BY <2>3
<1>10. QED
  BY <1>2, <1>7, <1>8, <1>9 DEF Partition

\* A new member comes to the end of o.
LEMMA AddLast ==
  ASSUME NEW O, NEW A, NEW s, Partition(s, O, A), NEW o \in O, NEW x, x \notin A,
         NEW r, DOMAIN r = O, r = [p \in O |-> r[p]], \A p \in O : p # o => r[p] = s[p],
         r[o] = Append(s[o], x)
  PROVE  Partition(r, O, A \cup {x})
<1>1. \A p \in O : s[p] \in Seq(A) /\ Len(s[p]) \in Nat
  BY PartTyped
<1>2. /\ s[o] \in Seq(A \cup {x}) /\ r[o] \in Seq(A \cup {x}) /\ Len(r[o]) = Len(s[o]) + 1
      /\ Len(s[o]) \in Nat
      /\ \A i \in 1 .. Len(s[o]) : r[o][i] = s[o][i]
      /\ r[o][Len(s[o]) + 1] = x
  <2>1. s[o] \in Seq(A \cup {x})
    <3>1. s[o] \in Seq(A)
      BY <1>1
    <3>2. QED
      BY <3>1
  <2>2. QED
    BY <2>1
<1>3. r \in [O -> Seq(A \cup {x})]
  <2>1. \A p \in O : r[p] \in Seq(A \cup {x})
    <3> SUFFICES ASSUME NEW p \in O PROVE r[p] \in Seq(A \cup {x})
      OBVIOUS
    <3>1. s[p] \in Seq(A)
      BY <1>1
    <3>2. s[p] \in Seq(A \cup {x})
      BY <3>1
    <3>3. QED
      BY <1>2, <3>2
  <2>2. QED
    BY <2>1
<1>4. \A p \in O : Len(s[p]) \in Nat
  BY <1>1
<1>5. ASSUME NEW p \in O, NEW i \in 1 .. Len(r[p])
      PROVE  \/ i \in 1 .. Len(s[p]) /\ r[p][i] = s[p][i] /\ r[p][i] \in A
             \/ p = o /\ i = Len(s[o]) + 1 /\ r[p][i] = x
  <2>1. CASE p # o
    BY <2>1, PartTyped
  <2>2. CASE p = o /\ i \in 1 .. Len(s[o])
    BY <1>2, <2>2, PartTyped
  <2>3. CASE p = o /\ i \notin 1 .. Len(s[o])
    BY <1>2, <2>3
  <2>4. QED
    BY <2>1, <2>2, <2>3
<1>6. ASSUME NEW q \in O, NEW p \in O, NEW i \in 1 .. Len(r[q]), NEW j \in 1 .. Len(r[p]),
             r[q][i] = r[p][j]
      PROVE  q = p /\ i = j
  <2>1. CASE r[q][i] = x
    BY <1>5, <1>6, <2>1
  <2>2. CASE r[q][i] # x
    <3>1. i \in 1 .. Len(s[q]) /\ j \in 1 .. Len(s[p]) /\ s[q][i] = s[p][j]
      BY <1>5, <1>6, <2>2
    <3>2. QED
      BY <3>1, PartOnce
  <2>3. QED
    BY <2>1, <2>2
<1>7. ASSUME NEW n \in A \cup {x} PROVE \E p \in O : \E i \in 1 .. Len(r[p]) : r[p][i] = n
  <2>1. CASE n = x
    <3>1. Len(s[o]) + 1 \in 1 .. Len(r[o])
      BY <1>2
    <3>2. QED
      BY <1>2, <2>1, <3>1
  <2>2. CASE n \in A
    <3>1. PICK p \in O : \E i \in 1 .. Len(s[p]) : s[p][i] = n
      BY <2>2, PartHas
    <3>2. PICK i \in 1 .. Len(s[p]) : s[p][i] = n
      BY <3>1
    <3>3. i \in 1 .. Len(r[p]) /\ r[p][i] = n
      BY <1>2, <3>2
    <3>4. QED
      BY <3>3
  <2>3. QED
    BY <2>1, <2>2
<1>8. QED
  BY <1>3, <1>6, <1>7 DEF Partition

\* Two of them are exchanged.
LEMMA Swap ==
  ASSUME NEW O, NEW A, NEW s, Partition(s, O, A), NEW o \in O, NEW p \in O,
         NEW r, DOMAIN r = O, r = [q \in O |-> r[q]],
         \A q \in O : q # o /\ q # p => r[q] = s[q], r[o] = s[p], r[p] = s[o]
  PROVE  Partition(r, O, A)
<1>1. \A q \in O : s[q] \in Seq(A)
  BY PartTyped
<1>2. PICK k : k = [q \in O |-> IF q = o THEN p ELSE IF q = p THEN o ELSE q]
  OBVIOUS
<1>3. \A q \in O : k[q] \in O /\ r[q] = s[k[q]] /\ k[k[q]] = q
  BY <1>2
<1>4. r \in [O -> Seq(A)]
  <2>1. \A q \in O : s[k[q]] \in Seq(A)
    BY <1>1, <1>3
  <2>2. QED
    BY <1>3, <2>1
<1>5. ASSUME NEW q \in O, NEW u \in O, NEW i \in 1 .. Len(r[q]), NEW j \in 1 .. Len(r[u]),
             r[q][i] = r[u][j]
      PROVE  q = u /\ i = j
  <2>1. k[q] = k[u] /\ i = j
    <3>1. k[q] \in O /\ k[u] \in O /\ i \in 1 .. Len(s[k[q]]) /\ j \in 1 .. Len(s[k[u]])
          /\ s[k[q]][i] = s[k[u]][j]
      BY <1>3, <1>5
    <3>2. QED
      BY <3>1, PartOnce
  <2>2. QED
    BY <1>3, <2>1
<1>6. ASSUME NEW n \in A PROVE \E u \in O : \E i \in 1 .. Len(r[u]) : r[u][i] = n
  <2>1. PICK u \in O : \E i \in 1 .. Len(s[u]) : s[u][i] = n
    BY PartHas
  <2>2. r[k[u]] = s[u] /\ k[u] \in O
    BY <1>3
  <2>3. QED
    BY <2>1, <2>2
<1>7. QED
  BY <1>4, <1>5, <1>6 DEF Partition

\* Members of a new set come into empty ones.
LEMMA AddMany ==
  ASSUME NEW O, NEW A, NEW B, NEW s, Partition(s, O, A), NEW N, N \subseteq O, A \cap B = {},
         \A o \in N : s[o] = <<>>,
         NEW r, DOMAIN r = O, r = [o \in O |-> r[o]], \A o \in O : o \notin N => r[o] = s[o],
         Partition([o \in N |-> r[o]], N, B)
  PROVE  Partition(r, O, A \cup B)
<1>1. PICK f : f = [o \in N |-> r[o]]
  OBVIOUS
<1>2. Partition(f, N, B) /\ \A u \in N : f[u] = r[u]
  BY <1>1
<1>3. ASSUME NEW q \in O, NEW i \in 1 .. Len(r[q])
      PROVE  IF q \in N THEN r[q][i] \in B ELSE r[q] = s[q] /\ r[q][i] \in A
  <2>1. CASE q \in N
    <3>1. f[q][i] \in B
      BY <1>2, <2>1, PartTyped
    <3>2. QED
      BY <1>2, <2>1, <3>1
  <2>2. CASE q \notin N
    BY <2>2, PartTyped
  <2>3. QED
    BY <2>1, <2>2
<1>4. r \in [O -> Seq(A \cup B)]
  <2> SUFFICES ASSUME NEW q \in O PROVE r[q] \in Seq(A \cup B)
    OBVIOUS
  <2>1. CASE q \in N
    <3>1. f[q] \in Seq(B) /\ f[q] = r[q]
      BY <1>2, <2>1, PartTyped
    <3>2. QED
      BY <3>1
  <2>2. CASE q \notin N
    <3>1. s[q] \in Seq(A) /\ r[q] = s[q]
      BY <2>2, PartTyped
    <3>2. QED
      BY <3>1
  <2>3. QED
    BY <2>1, <2>2
<1>5. ASSUME NEW q \in O, NEW u \in O, NEW i \in 1 .. Len(r[q]), NEW j \in 1 .. Len(r[u]),
             r[q][i] = r[u][j]
      PROVE  q = u /\ i = j
  <2>1. CASE q \in N /\ u \in N
    <3>1. f[q][i] = f[u][j] /\ i \in 1 .. Len(f[q]) /\ j \in 1 .. Len(f[u])
      BY <1>2, <1>5, <2>1
    <3>2. QED
      BY <1>2, <2>1, <3>1, PartOnce
  <2>2. CASE q \notin N /\ u \notin N
    <3>1. s[q][i] = s[u][j] /\ i \in 1 .. Len(s[q]) /\ j \in 1 .. Len(s[u])
      BY <1>5, <2>2
    <3>2. QED
      BY <3>1, PartOnce
  <2>3. CASE (q \in N) # (u \in N)
    BY <1>3, <1>5, <2>3
  <2>4. QED
    BY <2>1, <2>2, <2>3
<1>6. ASSUME NEW n \in A \cup B PROVE \E u \in O : \E i \in 1 .. Len(r[u]) : r[u][i] = n
  <2>1. CASE n \in B
    <3>1. PICK u \in N : \E i \in 1 .. Len(f[u]) : f[u][i] = n
      BY <1>2, <2>1, PartHas
    <3>2. u \in O /\ f[u] = r[u]
      BY <1>2
    <3>3. QED
      BY <3>1, <3>2
  <2>2. CASE n \in A
    <3>1. PICK u \in O : \E i \in 1 .. Len(s[u]) : s[u][i] = n
      BY <2>2, PartHas
    <3>2. u \notin N
      <4> SUFFICES ASSUME u \in N PROVE FALSE
        OBVIOUS
      <4>1. Len(s[u]) = 0
        OBVIOUS
      <4>2. QED
        BY <3>1, <4>1
    <3>3. QED
      BY <3>1, <3>2
  <2>3. QED
    BY <2>1, <2>2
<1>7. QED
  BY <1>4, <1>5, <1>6 DEF Partition

\* Numbers that name nodes.
LEMMA NodeNames ==
  ASSUME List!QueueConstants
  PROVE  /\ List!Null \notin List!Nodes /\ List!Garbage \notin List!Nodes /\ List!Null # List!Garbage
         /\ List!Nodes \subseteq Nat /\ \A n \in List!Nodes : n > 0 /\ n <= ListNodes
         /\ ListNodes \in Nat /\ ListCapacity \in Nat /\ ListCapacity > 0 /\ ListPushes \in Nat
  BY DEF List!QueueConstants, List!Null, List!Garbage, List!Nodes

\* A new page has as many nodes as there are.
LEMMA PageDoubles ==
  ASSUME List!QueueConstants, Pages
  PROVE  List!PageSize = qNodeCount /\ qNodeCount \in Nat /\ qNodeCount > 0
<1>1. PICK m \in Nat \ {0} : qNodeCount = m * ListCapacity
  BY DEF Pages
<1>2. m * ListCapacity \in Nat /\ (m = 1 \/ m * ListCapacity > ListCapacity)
  BY NodeNames
<1>3. QED
  BY <1>1, <1>2, NodeNames DEF List!PageSize

(***************************************************************************)
(* What a step leaves alone keeps its part of the invariant.               *)
(***************************************************************************)

\* Who holds which nodes.
LEMMA HeldKept ==
  ASSUME NEW seg, Held(seg), UNCHANGED <<qNext, qNodeCount, qMutex, qList, qSize, qChain>>,
         \A u \in ListThreads : /\ qPc'[u] = "exchange" <=> qPc[u] = "exchange"
                                /\ qPc[u] = "exchange" => qHand'[u] = qHand[u]
  PROVE  Held(seg)' /\ ChunkHeads(seg)' = ChunkHeads(seg)
<1>1. List!Allocated' = List!Allocated
  BY DEF List!Allocated, List!PageSize
<1>2. Partition(seg, Holders, List!Allocated)'
  BY <1>1 DEF Held
<1>3. \A u \in ListThreads : HeldBy(seg, u)'
  BY DEF Held, HeldBy
<1>4. \A c \in List!Nodes : HeldInChunk(seg, c)'
  BY DEF Held, HeldInChunk
<1>5. QED
  BY <1>2, <1>3, <1>4 DEF Held, ChunkHeads

\* The stack of chunks.
LEMMA StackKept ==
  ASSUME NEW seg, NEW st \in Seq(List!Nodes), Partition(HeldChunks(st), ChunkHolders, ChunkHeads(seg)),
         Stacked(st), UNCHANGED <<qTop, qChunks>>,
         \A i \in 1 .. Len(st) : qNextChunk'[st[i]] = qNextChunk[st[i]]
  PROVE  /\ Partition(HeldChunks(st), ChunkHolders, ChunkHeads(seg))'
         /\ Stacked(st)'
<1>1. HeldChunks(st)' = HeldChunks(st)
  BY DEF HeldChunks
<1>2. Stacked(st)'
  BY DEF Stacked, Linked
<1>3. QED
  BY <1>1, <1>2 DEF ChunkHeads

\* The tops that threads have read.
LEMMA TagsKept ==
  ASSUME TagsFresh, UNCHANGED qTop,
         qNextChunk'[qTop[1]] = qNextChunk[qTop[1]],
         NEW t \in ListThreads, qPc'[t] \notin {"readChunk", "popChunk", "pushChunk"},
         \A u \in ListThreads : u # t =>
           /\ qPc'[u] = qPc[u] /\ qOld'[u] = qOld[u] /\ qHand'[u] = qHand[u] /\ qChunks'[u] = qChunks[u]
           /\ qPc[u] = "pushChunk" => qNextChunk'[Head(qChunks[u])] = qNextChunk[Head(qChunks[u])]
  PROVE  TagsFresh'
  BY DEF TagsFresh

\* The links of the queue.
LEMMA ChainedKept ==
  ASSUME Chained, UNCHANGED <<qNext, qValue, qHead, qTail, qChain>>,
         ListTypeOK,
         \A u \in ListThreads :
           /\ qPc'[u] \in {"exchange", "link"} \/ qPc[u] \in {"exchange", "link"} =>
                 qPc'[u] = qPc[u] /\ qOld'[u] = qOld[u] /\ qHand'[u] = qHand[u] /\ qPushes'[u] = qPushes[u]
  PROVE  Chained'
<1>1. ASSUME NEW i \in 1 .. Len(qChain) - 1
      PROVE  ChainLink(i)'
  <2>1. ChainLink(i) /\ qValue[qChain[i + 1]] \in List!Values
    BY DEF Chained, ChainLink
  <2>2. qValue[qChain[i + 1]][1] \in ListThreads
    BY <2>1 DEF List!Values
  <2>3. QED
    BY <2>1, <2>2 DEF ChainLink
<1>2. ASSUME NEW u \in ListThreads PROVE ChainEnd(u)'
  <2>1. ChainEnd(u)
    BY DEF Chained
  <2>2. QED
    BY <2>1 DEF ChainEnd
<1>3. QED
  BY <1>1, <1>2 DEF Chained

\* What the label of each thread says of its state.
LEMMA PhasesKept ==
  ASSUME Phases, NEW t \in ListThreads, UNCHANGED qMutex, Phase(t)',
         \A u \in ListThreads : u # t =>
           qPc'[u] = qPc[u] /\ qSize'[u] = qSize[u] /\ qChunks'[u] = qChunks[u] /\ qPushes'[u] = qPushes[u]
  PROVE  Phases'
  BY DEF Phases, Phase

\* The number of nodes.
LEMMA PagesKept ==
  ASSUME Pages, UNCHANGED <<qNodeCount, qMutex>>
  PROVE  Pages'
  BY DEF Pages, List!PageSize

\* The chunks on the stack and those of the threads are chunks, and all different.
LEMMA ChunksApart ==
  ASSUME NEW seg, NEW st, ListParts(seg, st)
  PROVE  /\ \A i \in 1 .. Len(st) : st[i] \in ChunkHeads(seg)
         /\ \A u \in ListThreads : \A i \in 1 .. Len(qChunks[u]) :
              /\ qChunks[u][i] \in ChunkHeads(seg)
              /\ \A j \in 1 .. Len(st) : qChunks[u][i] # st[j]
              /\ \A v \in ListThreads : \A j \in 1 .. Len(qChunks[v]) :
                   qChunks[u][i] = qChunks[v][j] => u = v /\ i = j
         /\ \A i, j \in 1 .. Len(st) : st[i] = st[j] => i = j
<1> DEFINE s == HeldChunks(st)
<1>1. Partition(s, ChunkHolders, ChunkHeads(seg))
  BY DEF ListParts
<1>2. Stack \in ChunkHolders /\ s[Stack] = st
  BY DEF ChunkHolders, HeldChunks
<1>3. \A u \in ListThreads : PushesOf(u) \in ChunkHolders /\ s[PushesOf(u)] = qChunks[u] /\ PushesOf(u) # Stack
  BY DEF ChunkHolders, HeldChunks, PushesOf, Stack
<1>4. \A u, v \in ListThreads : PushesOf(u) = PushesOf(v) => u = v
  BY DEF PushesOf
<1> HIDE DEF s
<1>5. \A i \in 1 .. Len(st) : st[i] \in ChunkHeads(seg)
  BY <1>1, <1>2, PartTyped
<1>6. ASSUME NEW u \in ListThreads, NEW i \in 1 .. Len(qChunks[u])
      PROVE  /\ qChunks[u][i] \in ChunkHeads(seg)
             /\ \A j \in 1 .. Len(st) : qChunks[u][i] # st[j]
             /\ \A v \in ListThreads : \A j \in 1 .. Len(qChunks[v]) :
                   qChunks[u][i] = qChunks[v][j] => u = v /\ i = j
  <2>1. qChunks[u][i] \in ChunkHeads(seg)
    BY <1>1, <1>3, PartTyped
  <2>2. \A j \in 1 .. Len(st) : qChunks[u][i] # st[j]
    BY <1>1, <1>2, <1>3, PartOnce
  <2>3. ASSUME NEW v \in ListThreads, NEW j \in 1 .. Len(qChunks[v]), qChunks[u][i] = qChunks[v][j]
        PROVE  u = v /\ i = j
    BY <1>1, <1>3, <1>4, <2>3, PartOnce
  <2>4. QED
    BY <2>1, <2>2, <2>3
<1>7. \A i, j \in 1 .. Len(st) : st[i] = st[j] => i = j
  BY <1>1, <1>2, PartOnce
<1>8. QED
  BY <1>5, <1>6, <1>7

\* Who holds nodes is named apart.
LEMMA HoldersApart ==
  /\ Queue \in Holders
  /\ \A t \in ListThreads : ListOf(t) \in Holders /\ HandOf(t) \in Holders
  /\ \A c \in List!Nodes : ChunkOf(c) \in Holders
  /\ \A t \in ListThreads : Queue # ListOf(t) /\ Queue # HandOf(t)
  /\ \A c \in List!Nodes : Queue # ChunkOf(c)
  /\ \A t, u \in ListThreads : /\ ListOf(t) # HandOf(u)
                               /\ ListOf(t) = ListOf(u) => t = u
                               /\ HandOf(t) = HandOf(u) => t = u
  /\ \A t \in ListThreads, c \in List!Nodes : ListOf(t) # ChunkOf(c) /\ HandOf(t) # ChunkOf(c)
  /\ \A c, d \in List!Nodes : ChunkOf(c) = ChunkOf(d) => c = d
  BY DEF Holders, Queue, ListOf, HandOf, ChunkOf

\* A chunk has its first node.
LEMMA HeadOfChunk ==
  ASSUME List!QueueConstants, NEW seg, Held(seg), NEW c \in ChunkHeads(seg)
  PROVE  /\ c \in List!Nodes /\ ChunkOf(c) \in Holders
         /\ Len(seg[ChunkOf(c)]) = ListCapacity /\ ListCapacity \in 1 .. Len(seg[ChunkOf(c)])
         /\ seg[ChunkOf(c)][ListCapacity] = c
         /\ c \in List!Allocated
<1>1. c \in List!Nodes /\ seg[ChunkOf(c)] # <<>>
  BY DEF ChunkHeads
<1>2. Len(seg[ChunkOf(c)]) = ListCapacity /\ seg[ChunkOf(c)][ListCapacity] = c
  BY <1>1 DEF Held, HeldInChunk
<1>3. ChunkOf(c) \in Holders
  BY <1>1, HoldersApart
<1>4. Partition(seg, Holders, List!Allocated)
  BY DEF Held
<1>5. ListCapacity \in 1 .. Len(seg[ChunkOf(c)])
  BY <1>2, NodeNames
<1>6. c \in List!Allocated
  BY <1>2, <1>3, <1>4, <1>5, PartTyped
<1>7. QED
  BY <1>1, <1>2, <1>3, <1>5, <1>6

(***************************************************************************)
(* One lemma per step of the queue.                                        *)
(***************************************************************************)

\* emplace begins.
LEMMA EmplaceStep ==
  ASSUME List!QueueConstants, NEW seg, NEW st, ListParts(seg, st), NEW t \in ListThreads, List!Emplace(t)
  PROVE  ListParts(seg, st)'
<1> USE DEF List!memory, List!locals
<1>1. /\ qPc[t] = "idle" /\ qPushes' = [qPushes EXCEPT ![t] = qPushes[t] + 1]
      /\ qPc' = [qPc EXCEPT ![t] = IF qSize[t] = 0 THEN "loadTop" ELSE "take"]
      /\ qPushes[t] < ListPushes
      /\ UNCHANGED <<qNext, qNextChunk, qValue, qNodeCount, qTop, qMutex, qList, qSize, qHead, qTail,
                     qOld, qHand, qChunks, qPopped, qChain>>
  BY DEF List!Emplace, List!Goto
<1>2. ListTypeOK /\ MutexOK /\ Phases /\ Pages /\ Held(seg) /\ Stacked(st) /\ TagsFresh /\ Chained
      /\ seg \in [Holders -> Seq(List!Nodes)] /\ st \in Seq(List!Nodes)
      /\ Partition(HeldChunks(st), ChunkHolders, ChunkHeads(seg))
  BY DEF ListParts
<1>3. qPc' \in [ListThreads -> Labels] /\ qPushes' \in [ListThreads -> 0 .. ListPushes]
  BY <1>1, <1>2, NodeNames DEF ListTypeOK, Labels
<1>4. ListTypeOK' /\ MutexOK'
  BY <1>1, <1>2, <1>3 DEF ListTypeOK, MutexOK
<1>5. /\ qPc'[t] = (IF qSize[t] = 0 THEN "loadTop" ELSE "take") /\ qPushes'[t] > 0
      /\ \A u \in ListThreads : u # t => qPc'[u] = qPc[u] /\ qPushes'[u] = qPushes[u]
  BY <1>1, <1>2 DEF ListTypeOK
<1>6. Phase(t)'
  <2>1. Phase(t) /\ qSize[t] \in 0 .. ListCapacity /\ ListCapacity \in Nat /\ ListCapacity > 0
    BY <1>2, NodeNames DEF ListTypeOK, Phases
  <2>2. qSize'[t] = qSize[t] /\ qChunks'[t] = qChunks[t] /\ qMutex' = qMutex
    BY <1>1
  <2>3. QED
    BY <1>1, <1>5, <2>1, <2>2 DEF Phase, Pushing
<1>7. Phases' /\ Pages'
  BY <1>1, <1>2, <1>5, <1>6, PhasesKept, PagesKept
<1>8. Held(seg)'
  BY <1>1, <1>2, <1>5, HeldKept
<1>9. Partition(HeldChunks(st), ChunkHolders, ChunkHeads(seg))' /\ Stacked(st)'
  BY <1>1, <1>2, StackKept
<1>10. TagsFresh'
  BY <1>1, <1>2, <1>5, TagsKept
<1>11. Chained'
  BY <1>1, <1>2, <1>5, ChainedKept
<1>12. QED
  BY <1>1, <1>2, <1>4, <1>7, <1>8, <1>9, <1>10, <1>11 DEF ListParts

\* A thread loads top_, at first or after a compare-exchange of try_pop that failed.
LEMMA LoadStep ==
  ASSUME List!QueueConstants, NEW seg, NEW st, ListParts(seg, st), NEW t \in ListThreads,
         qPc[t] \in {"loadTop", "popChunk"}, qOld' = [qOld EXCEPT ![t] = qTop],
         qPc' = [qPc EXCEPT ![t] = IF qTop[1] = List!Null THEN "reserve" ELSE "readChunk"],
         \E h \in {qHand[t], List!Null} : qHand' = [qHand EXCEPT ![t] = h],
         UNCHANGED <<qNext, qNextChunk, qValue, qNodeCount, qTop, qMutex, qList, qSize, qHead, qTail,
                     qChunks, qPushes, qPopped, qChain>>
  PROVE  ListParts(seg, st)'
<1>2. ListTypeOK /\ MutexOK /\ Phases /\ Pages /\ Held(seg) /\ Stacked(st) /\ TagsFresh /\ Chained
      /\ seg \in [Holders -> Seq(List!Nodes)] /\ st \in Seq(List!Nodes)
      /\ Partition(HeldChunks(st), ChunkHolders, ChunkHeads(seg))
  BY DEF ListParts
<1>3. /\ qPc' \in [ListThreads -> Labels] /\ qOld' \in [ListThreads -> (List!Nodes \cup {List!Null}) \X Nat]
      /\ qHand' \in [ListThreads -> List!Nodes \cup {List!Null, List!Garbage}]
  BY <1>2 DEF ListTypeOK, Labels
<1>4. ListTypeOK' /\ MutexOK'
  BY <1>2, <1>3 DEF ListTypeOK, MutexOK
<1>5. /\ qPc'[t] = (IF qTop[1] = List!Null THEN "reserve" ELSE "readChunk") /\ qOld'[t] = qTop
      /\ \A u \in ListThreads : u # t => qPc'[u] = qPc[u] /\ qOld'[u] = qOld[u] /\ qHand'[u] = qHand[u]
  BY <1>2 DEF ListTypeOK
<1>6. Phase(t)'
  BY <1>2, <1>5 DEF ListTypeOK, Phases, Phase, Pushing
<1>7. Phases' /\ Pages'
  BY <1>2, <1>5, <1>6, PhasesKept, PagesKept
<1>8. Held(seg)'
  BY <1>2, <1>5, HeldKept
<1>9. Partition(HeldChunks(st), ChunkHolders, ChunkHeads(seg))' /\ Stacked(st)'
  BY <1>2, StackKept
<1>10. TagsFresh'
  <2>1. qTop \in (List!Nodes \cup {List!Null}) \X Nat /\ qTop[2] <= qTop[2]
    BY <1>2 DEF ListTypeOK
  <2>2. QED
    BY <1>2, <1>5, <2>1 DEF TagsFresh
<1>11. Chained'
  BY <1>2, <1>5, ChainedKept
<1>12. QED
  BY <1>2, <1>4, <1>7, <1>8, <1>9, <1>10, <1>11 DEF ListParts

\* next_chunk_ of the top that was read: with its tag, it is that of the top.
LEMMA ReadChunkStep ==
  ASSUME List!QueueConstants, NEW seg, NEW st, ListParts(seg, st), NEW t \in ListThreads, List!ReadChunk(t)
  PROVE  ListParts(seg, st)'
<1> USE DEF List!memory, List!locals
<1>1. /\ qPc[t] = "readChunk" /\ qHand' = [qHand EXCEPT ![t] = qNextChunk[qOld[t][1]]]
      /\ qPc' = [qPc EXCEPT ![t] = "popChunk"]
      /\ UNCHANGED <<qNext, qNextChunk, qValue, qNodeCount, qTop, qMutex, qList, qSize, qHead, qTail,
                     qOld, qChunks, qPushes, qPopped, qChain>>
  BY DEF List!ReadChunk, List!Goto
<1>2. ListTypeOK /\ MutexOK /\ Phases /\ Pages /\ Held(seg) /\ Stacked(st) /\ TagsFresh /\ Chained
      /\ seg \in [Holders -> Seq(List!Nodes)] /\ st \in Seq(List!Nodes)
      /\ Partition(HeldChunks(st), ChunkHolders, ChunkHeads(seg))
  BY DEF ListParts
<1>3. /\ qPc' \in [ListThreads -> Labels]
      /\ qHand' \in [ListThreads -> List!Nodes \cup {List!Null, List!Garbage}]
  <2>1. qOld[t][1] \in List!Nodes
    BY <1>1, <1>2 DEF TagsFresh
  <2>2. QED
    BY <1>1, <1>2, <2>1 DEF ListTypeOK, Labels
<1>4. ListTypeOK' /\ MutexOK'
  BY <1>1, <1>2, <1>3 DEF ListTypeOK, MutexOK
<1>5. /\ qPc'[t] = "popChunk" /\ qHand'[t] = qNextChunk[qOld[t][1]]
      /\ \A u \in ListThreads : u # t => qPc'[u] = qPc[u] /\ qHand'[u] = qHand[u]
  BY <1>1, <1>2 DEF ListTypeOK
<1>6. Phase(t)'
  BY <1>1, <1>2, <1>5 DEF ListTypeOK, Phases, Phase, Pushing
<1>7. Phases' /\ Pages'
  BY <1>1, <1>2, <1>5, <1>6, PhasesKept, PagesKept
<1>8. Held(seg)'
  BY <1>1, <1>2, <1>5, HeldKept
<1>9. Partition(HeldChunks(st), ChunkHolders, ChunkHeads(seg))' /\ Stacked(st)'
  BY <1>1, <1>2, StackKept
<1>10. TagsFresh'
  BY <1>1, <1>2, <1>5 DEF TagsFresh
<1>11. Chained'
  BY <1>1, <1>2, <1>5, ChainedKept
<1>12. QED
  BY <1>1, <1>2, <1>4, <1>7, <1>8, <1>9, <1>10, <1>11 DEF ListParts

\* The top of the stack is a chunk.
LEMMA TopIsChunk ==
  ASSUME List!QueueConstants, NEW seg, NEW st, ListParts(seg, st), qTop[1] # List!Null
  PROVE  /\ st # <<>> /\ st \in Seq(List!Nodes) /\ Len(st) \in Nat /\ Len(st) > 0
         /\ qTop[1] = st[Len(st)] /\ Len(st) \in 1 .. Len(st)
         /\ qTop[1] \in ChunkHeads(seg) /\ qTop[1] \in List!Nodes
         /\ \A u \in ListThreads : \A i \in 1 .. Len(qChunks[u]) : qChunks[u][i] # qTop[1]
<1>1. st # <<>> /\ st \in Seq(List!Nodes) /\ qTop[1] = st[Len(st)]
  BY DEF ListParts, Stacked
<1>2. Len(st) \in Nat /\ Len(st) > 0
  BY <1>1
<1>3. Len(st) \in 1 .. Len(st)
  BY <1>2
<1>4. QED
  BY <1>1, <1>2, <1>3, ChunksApart DEF ChunkHeads

\* The first chunk of a thread that pushes.
LEMMA FirstChunk ==
  ASSUME NEW seg, NEW st, ListParts(seg, st), NEW t \in ListThreads, qPc[t] \in Pushing
  PROVE  /\ qChunks[t] \in Seq(List!Nodes) /\ qChunks[t] # <<>>
         /\ Len(qChunks[t]) \in Nat /\ 1 \in 1 .. Len(qChunks[t])
         /\ Head(qChunks[t]) = qChunks[t][1] /\ Head(qChunks[t]) \in ChunkHeads(seg)
         /\ Head(qChunks[t]) \in List!Nodes
<1>1. qChunks[t] \in Seq(List!Nodes) /\ qChunks[t] # <<>>
  BY DEF ListParts, ListTypeOK, Phases, Phase
<1>2. Len(qChunks[t]) \in Nat /\ 1 \in 1 .. Len(qChunks[t]) /\ Head(qChunks[t]) = qChunks[t][1]
  BY <1>1
<1>3. QED
  BY <1>1, <1>2, ChunksApart DEF ChunkHeads

\* The first chunk is linked to the top that was loaded.
LEMMA LinkChunkStep ==
  ASSUME List!QueueConstants, NEW seg, NEW st, ListParts(seg, st), NEW t \in ListThreads, List!LinkChunk(t)
  PROVE  ListParts(seg, st)'
<1> USE DEF List!memory, List!locals
<1> DEFINE c == Head(qChunks[t])
<1>1. /\ qPc[t] = "linkChunk" /\ qOld' = [qOld EXCEPT ![t] = qTop]
      /\ qNextChunk' = [qNextChunk EXCEPT ![c] = qTop[1]]
      /\ qPc' = [qPc EXCEPT ![t] = "pushChunk"]
      /\ UNCHANGED <<qNext, qValue, qNodeCount, qTop, qMutex, qList, qSize, qHead, qTail,
                     qHand, qChunks, qPushes, qPopped, qChain>>
  BY DEF List!LinkChunk, List!Goto
<1>2. ListTypeOK /\ MutexOK /\ Phases /\ Pages /\ Held(seg) /\ Stacked(st) /\ TagsFresh /\ Chained
      /\ seg \in [Holders -> Seq(List!Nodes)] /\ st \in Seq(List!Nodes)
      /\ Partition(HeldChunks(st), ChunkHolders, ChunkHeads(seg))
  BY DEF ListParts
<1>3. c \in List!Nodes /\ c = qChunks[t][1] /\ 1 \in 1 .. Len(qChunks[t])
  BY <1>1, FirstChunk DEF Pushing
<1>4. ListTypeOK' /\ MutexOK'
  <2>1. /\ qPc' \in [ListThreads -> Labels] /\ qOld' \in [ListThreads -> (List!Nodes \cup {List!Null}) \X Nat]
        /\ qNextChunk' \in [List!Nodes -> List!Nodes \cup {List!Null, List!Garbage}]
    BY <1>1, <1>2, <1>3 DEF ListTypeOK, Labels
  <2>2. QED
    BY <1>1, <1>2, <2>1 DEF ListTypeOK, MutexOK
<1>5. /\ qPc'[t] = "pushChunk" /\ qOld'[t] = qTop
      /\ \A u \in ListThreads : u # t => qPc'[u] = qPc[u] /\ qOld'[u] = qOld[u]
  BY <1>1, <1>2 DEF ListTypeOK
<1>6. Phase(t)'
  BY <1>1, <1>2, <1>5 DEF ListTypeOK, Phases, Phase, Pushing
<1>7. Phases' /\ Pages'
  BY <1>1, <1>2, <1>5, <1>6, PhasesKept, PagesKept
<1>8. Held(seg)'
  BY <1>1, <1>2, <1>5, HeldKept
<1>9. qNextChunk'[c] = qTop[1] /\ \A n \in List!Nodes : n # c => qNextChunk'[n] = qNextChunk[n]
  BY <1>1, <1>2, <1>3 DEF ListTypeOK
<1> HIDE DEF c
<1>10. Partition(HeldChunks(st), ChunkHolders, ChunkHeads(seg))' /\ Stacked(st)'
  <2>1. \A i \in 1 .. Len(st) : st[i] \in List!Nodes /\ st[i] # c
    BY <1>3, ChunksApart DEF ChunkHeads
  <2>2. QED
    BY <1>1, <1>2, <1>9, <2>1, StackKept
<1>11. TagsFresh'
  <2>1. ASSUME NEW u \in ListThreads, qPc'[u] \in {"readChunk", "popChunk"}
        PROVE  /\ qOld'[u][1] \in List!Nodes /\ qOld'[u][2] <= qTop'[2]
               /\ qOld'[u][2] = qTop'[2] =>
                    qOld'[u] = qTop' /\ (qPc'[u] = "popChunk" => qHand'[u] = qNextChunk'[qTop'[1]])
    <3>1. u # t /\ qPc[u] = qPc'[u] /\ qOld'[u] = qOld[u]
      BY <1>5, <2>1
    <3>2. /\ qOld[u][1] \in List!Nodes /\ qOld[u][2] <= qTop[2]
          /\ qOld[u][2] = qTop[2] => qOld[u] = qTop /\ (qPc[u] = "popChunk" => qHand[u] = qNextChunk[qTop[1]])
      BY <1>2, <2>1, <3>1 DEF TagsFresh
    <3>3. qOld[u] = qTop => qNextChunk'[qTop[1]] = qNextChunk[qTop[1]]
      BY <1>3, <1>9, <3>2, NodeNames, TopIsChunk
    <3>4. QED
      BY <1>1, <3>1, <3>2, <3>3
  <2>2. ASSUME NEW u \in ListThreads, qPc'[u] = "pushChunk"
        PROVE  qNextChunk'[Head(qChunks'[u])] = qOld'[u][1]
    <3>1. CASE u = t
      BY <1>1, <1>5, <1>9, <3>1 DEF c
    <3>2. CASE u # t
      <4>1. qPc[u] = "pushChunk" /\ qOld'[u] = qOld[u] /\ qChunks'[u] = qChunks[u]
        BY <1>1, <1>5, <2>2, <3>2
      <4>2. Head(qChunks[u]) \in List!Nodes /\ Head(qChunks[u]) # c
        BY <1>3, <3>2, <4>1, FirstChunk, ChunksApart DEF Pushing
      <4>3. QED
        BY <1>2, <1>9, <4>1, <4>2 DEF TagsFresh
    <3>3. QED
      BY <3>1, <3>2
  <2>3. QED
    BY <2>1, <2>2 DEF TagsFresh
<1>12. Chained'
  BY <1>1, <1>2, <1>5, ChainedKept
<1>13. QED
  BY <1>1, <1>2, <1>4, <1>7, <1>8, <1>10, <1>11, <1>12 DEF ListParts

\* The thread loads top_ again, after a reserve with nothing to do or a push that failed.
LEMMA AgainStep ==
  ASSUME List!QueueConstants, NEW seg, NEW st, ListParts(seg, st), NEW t \in ListThreads,
         NEW l, (qPc[t] = "reserve" /\ l = "loadTop") \/ (qPc[t] = "pushChunk" /\ l = "linkChunk"),
         NEW o \in {qOld[t], List!NoTop}, qPc' = [qPc EXCEPT ![t] = l], qOld' = [qOld EXCEPT ![t] = o],
         UNCHANGED <<qNext, qNextChunk, qValue, qNodeCount, qTop, qMutex, qList, qSize, qHead, qTail,
                     qHand, qChunks, qPushes, qPopped, qChain>>
  PROVE  ListParts(seg, st)'
<1>2. ListTypeOK /\ MutexOK /\ Phases /\ Pages /\ Held(seg) /\ Stacked(st) /\ TagsFresh /\ Chained
      /\ seg \in [Holders -> Seq(List!Nodes)] /\ st \in Seq(List!Nodes)
      /\ Partition(HeldChunks(st), ChunkHolders, ChunkHeads(seg))
  BY DEF ListParts
<1>1. o \in (List!Nodes \cup {List!Null}) \X Nat
  BY <1>2 DEF ListTypeOK, List!NoTop
<1>3. qPc' \in [ListThreads -> Labels] /\ qOld' \in [ListThreads -> (List!Nodes \cup {List!Null}) \X Nat]
  BY <1>1, <1>2 DEF ListTypeOK, Labels
<1>4. ListTypeOK' /\ MutexOK'
  BY <1>2, <1>3 DEF ListTypeOK, MutexOK
<1>5. /\ (qPc[t] = "reserve" /\ qPc'[t] = "loadTop") \/ (qPc[t] = "pushChunk" /\ qPc'[t] = "linkChunk")
      /\ \A u \in ListThreads : u # t => qPc'[u] = qPc[u] /\ qOld'[u] = qOld[u]
  BY <1>1, <1>2 DEF ListTypeOK
<1>6. Phase(t)'
  BY <1>2, <1>5 DEF ListTypeOK, Phases, Phase, Pushing
<1>7. Phases' /\ Pages'
  BY <1>2, <1>5, <1>6, PhasesKept, PagesKept
<1>8. Held(seg)'
  BY <1>2, <1>5, HeldKept
<1>9. Partition(HeldChunks(st), ChunkHolders, ChunkHeads(seg))' /\ Stacked(st)'
  BY <1>2, StackKept
<1>10. TagsFresh'
  BY <1>2, <1>5, TagsKept
<1>11. Chained'
  BY <1>2, <1>5, ChainedKept
<1>12. QED
  BY <1>2, <1>4, <1>7, <1>8, <1>9, <1>10, <1>11 DEF ListParts

\* Pages fit, so every node held is one of Nodes.
LEMMA AllocatedNodes ==
  ASSUME List!QueueConstants, Pages, ListTypeOK
  PROVE  List!Allocated \subseteq List!Nodes
<1>1. List!PageSize = qNodeCount /\ qNodeCount \in Nat
  BY PageDoubles
<1>2. QED
  BY <1>1, NodeNames DEF Pages, List!Allocated, List!Nodes

\* A place in who holds what names its holder.
LEMMA HeldOnce ==
  ASSUME NEW seg, Held(seg), NEW o \in Holders, NEW p \in Holders,
         NEW i \in 1 .. Len(seg[o]), NEW j \in 1 .. Len(seg[p]), seg[o][i] = seg[p][j]
  PROVE  o = p /\ i = j
  BY PartOnce DEF Held

\* The first node of a chunk is not held outside of it.
LEMMA HeadsApart ==
  ASSUME List!QueueConstants, NEW seg, Held(seg), NEW o \in Holders, NEW i \in 1 .. Len(seg[o]),
         NEW c \in ChunkHeads(seg), seg[o][i] = c
  PROVE  o = ChunkOf(c) /\ i = ListCapacity
<1>1. /\ ChunkOf(c) \in Holders /\ ListCapacity \in 1 .. Len(seg[ChunkOf(c)])
      /\ seg[ChunkOf(c)][ListCapacity] = c
  BY HeadOfChunk
<1>2. QED
  BY <1>1, HeldOnce

\* The pointers of nodes that a step does not write.
LEMMA LinkedKept ==
  ASSUME NEW f, NEW g, NEW s, Len(s) \in Nat, Linked(f, s), \A i \in 1 .. Len(s) : g[s[i]] = f[s[i]]
  PROVE  Linked(g, s)
<1> SUFFICES ASSUME NEW i \in 2 .. Len(s) PROVE g[s[i]] = s[i - 1]
  BY DEF Linked
<1>1. i \in 1 .. Len(s)
  OBVIOUS
<1>2. f[s[i]] = s[i - 1]
  BY DEF Linked
<1>3. QED
  BY <1>1, <1>2

\* What a thread of the linked list holds, as sequences of nodes.
LEMMA HeldTyped ==
  ASSUME NEW seg, Held(seg), NEW o \in Holders
  PROVE  /\ seg[o] \in Seq(List!Allocated) /\ Len(seg[o]) \in Nat
         /\ \A i \in 1 .. Len(seg[o]) : seg[o][i] \in List!Allocated
  BY PartTyped DEF Held

\* A sequence without its last member.
LEMMA Front ==
  ASSUME NEW A, NEW s \in Seq(A), Len(s) > 0
  PROVE  \E f \in Seq(A) : Len(f) = Len(s) - 1 /\ \A i \in 1 .. Len(f) : f[i] = s[i]
<1>1. PICK k \in Nat : k = Len(s) - 1
  OBVIOUS
<1>2. PICK f : f = [i \in 1 .. k |-> s[i]]
  OBVIOUS
<1>3. f = [i \in 1 .. k |-> f[i]] /\ \A i \in 1 .. k : f[i] \in A /\ f[i] = s[i]
  BY <1>1, <1>2
<1>4. f \in Seq(A) /\ Len(f) = k
  BY <1>3, FunctionIsSeq
<1>5. QED
  BY <1>1, <1>3, <1>4

\* A node leaves one holder at its end for the end of another.
LEMMA MoveNode ==
  ASSUME NEW O, NEW A, NEW s, Partition(s, O, A), NEW o, NEW p, NEW r,
         MovesLast(s, r, O, o, p), r[o] \in Seq(A)
  PROVE  Partition(r, O, A)
<1>a. /\ o \in O /\ p \in O /\ o # p /\ Len(s[o]) > 0
      /\ DOMAIN r = O /\ r = [q \in O |-> r[q]] /\ \A q \in O : q # o /\ q # p => r[q] = s[q]
      /\ Len(r[o]) = Len(s[o]) - 1 /\ \A i \in 1 .. Len(r[o]) : r[o][i] = s[o][i]
  BY DEF MovesLast
<1>b. PICK n : n = s[o][Len(s[o])] /\ r[p] = Append(s[p], n)
  BY DEF MovesLast
<1>1. s[o] \in Seq(A) /\ Len(s[o]) \in Nat /\ \A i \in 1 .. Len(s[o]) : s[o][i] \in A
  BY <1>a, PartTyped
<1>2. n \in A
  BY <1>1, <1>a, <1>b
<1>3. PICK m : m = [q \in O |-> IF q = o THEN r[o] ELSE s[q]]
  OBVIOUS
<1>4. DOMAIN m = O /\ m = [q \in O |-> m[q]] /\ m[o] = r[o] /\ \A q \in O : q # o => m[q] = s[q]
  BY <1>3, <1>a
<1>5. PICK B : B = A \ {n}
  OBVIOUS
<1>6. Partition(m, O, B) /\ n \notin B
  <2>1. /\ Len(m[o]) = Len(s[o]) - 1 /\ m[o] \in Seq(A)
        /\ \A i \in 1 .. Len(m[o]) : m[o][i] = s[o][i]
    BY <1>4, <1>a
  <2>2. Partition(m, O, A \ {s[o][Len(s[o])]})
    BY <1>4, <1>a, <2>1, DropLast
  <2>3. QED
    BY <1>5, <1>b, <2>2
<1>7. r[p] = Append(m[p], n) /\ \A q \in O : q # p => r[q] = m[q]
  BY <1>4, <1>a, <1>b
<1>8. Partition(r, O, B \cup {n})
  BY <1>6, <1>7, <1>a, AddLast
<1>9. B \cup {n} = A
  BY <1>2, <1>5
<1>10. QED
  BY <1>2, <1>8, <1>9

\* A node leaves one holder at its start for the end of another.
LEMMA MoveFirst ==
  ASSUME NEW O, NEW A, NEW s, Partition(s, O, A), NEW o, NEW p, NEW r, MovesFirst(s, r, O, o, p)
  PROVE  Partition(r, O, A)
<1>a. /\ o \in O /\ p \in O /\ o # p /\ Len(s[o]) > 0
      /\ DOMAIN r = O /\ r = [q \in O |-> r[q]] /\ \A q \in O : q # o /\ q # p => r[q] = s[q]
      /\ r[o] = Tail(s[o])
  BY DEF MovesFirst
<1>b. PICK n : n = s[o][1] /\ r[p] = Append(s[p], n)
  BY DEF MovesFirst
<1>1. s[o] \in Seq(A) /\ Len(s[o]) \in Nat /\ \A i \in 1 .. Len(s[o]) : s[o][i] \in A
  BY <1>a, PartTyped
<1>2. n \in A
  BY <1>1, <1>a, <1>b
<1>3. PICK m : m = [q \in O |-> IF q = o THEN r[o] ELSE s[q]]
  OBVIOUS
<1>4. DOMAIN m = O /\ m = [q \in O |-> m[q]] /\ m[o] = r[o] /\ \A q \in O : q # o => m[q] = s[q]
  BY <1>3, <1>a
<1>5. PICK B : B = A \ {n}
  OBVIOUS
<1>6. Partition(m, O, B) /\ n \notin B
  <2>1. m[o] = Tail(s[o])
    BY <1>4, <1>a
  <2>2. Partition(m, O, A \ {s[o][1]})
    BY <1>4, <1>a, <2>1, DropFirst
  <2>3. QED
    BY <1>5, <1>b, <2>2
<1>7. r[p] = Append(m[p], n) /\ \A q \in O : q # p => r[q] = m[q]
  BY <1>4, <1>a, <1>b
<1>8. Partition(r, O, B \cup {n})
  BY <1>6, <1>7, <1>a, AddLast
<1>9. B \cup {n} = A
  BY <1>2, <1>5
<1>10. QED
  BY <1>2, <1>8, <1>9

\* A holder that a step leaves alone.
LEMMA HeldByKept ==
  ASSUME NEW seg, NEW r, NEW u \in ListThreads, HeldBy(seg, u), Len(seg[ListOf(u)]) \in Nat,
         r[HandOf(u)] = seg[HandOf(u)], r[ListOf(u)] = seg[ListOf(u)],
         \A i \in 1 .. Len(seg[ListOf(u)]) : qNext'[seg[ListOf(u)][i]] = qNext[seg[ListOf(u)][i]],
         qPc'[u] = "exchange" <=> qPc[u] = "exchange", qPc[u] = "exchange" => qHand'[u] = qHand[u],
         qSize'[u] = qSize[u], qList'[u] = qList[u]
  PROVE  HeldBy(r, u)'
<1>1. Linked(qNext', seg[ListOf(u)])
  BY LinkedKept DEF HeldBy
<1>2. QED
  BY <1>1 DEF HeldBy

\* A chunk whose nodes keep their pointers stays a chunk.
LEMMA HeldInChunkKept ==
  ASSUME NEW seg, NEW r, NEW c \in List!Nodes, HeldInChunk(seg, c), Len(seg[ChunkOf(c)]) \in Nat,
         r[ChunkOf(c)] = seg[ChunkOf(c)],
         \A i \in 1 .. Len(seg[ChunkOf(c)]) : qNext'[seg[ChunkOf(c)][i]] = qNext[seg[ChunkOf(c)][i]]
  PROVE  HeldInChunk(r, c)'
<1>1. seg[ChunkOf(c)] # <<>> => Linked(qNext', seg[ChunkOf(c)])
  BY LinkedKept DEF HeldInChunk
<1>2. QED
  BY <1>1 DEF HeldInChunk

\* The nodes of the queue, and the node in the hands of a thread.
LEMMA ChainHeld ==
  ASSUME List!QueueConstants, NEW seg, Held(seg), ListTypeOK, Pages
  PROVE  /\ Queue \in Holders /\ seg[Queue] = qChain /\ qChain \in Seq(List!Nodes) /\ Len(qChain) \in Nat
         /\ \A i \in 1 .. Len(qChain) : qChain[i] \in List!Nodes /\ qChain[i] \in List!Allocated
         /\ \A i, j \in 1 .. Len(qChain) : qChain[i] = qChain[j] => i = j
<1>1. Queue \in Holders /\ seg[Queue] = qChain /\ qChain \in Seq(List!Nodes)
  BY HoldersApart DEF Held, ListTypeOK
<1>2. Len(qChain) \in Nat /\ \A i \in 1 .. Len(qChain) : qChain[i] \in List!Nodes
  BY <1>1
<1>3. \A i \in 1 .. Len(qChain) : qChain[i] \in List!Allocated
  BY <1>1, HeldTyped
<1>4. \A i, j \in 1 .. Len(qChain) : qChain[i] = qChain[j] => i = j
  BY <1>1, HeldOnce
<1>5. QED
  BY <1>1, <1>2, <1>3, <1>4

\* A node in the hand of a thread is allocated, and only there.
LEMMA HandHeld ==
  ASSUME List!QueueConstants, NEW seg, Held(seg), ListTypeOK, Pages, NEW u \in ListThreads, qPc[u] = "exchange"
  PROVE  /\ HandOf(u) \in Holders /\ 1 \in 1 .. Len(seg[HandOf(u)]) /\ seg[HandOf(u)][1] = qHand[u]
         /\ qHand[u] \in List!Allocated /\ qHand[u] \in List!Nodes
<1>1. HandOf(u) \in Holders /\ seg[HandOf(u)] = <<qHand[u]>>
  BY HoldersApart DEF Held, HeldBy
<1>2. 1 \in 1 .. Len(seg[HandOf(u)]) /\ seg[HandOf(u)][1] = qHand[u]
  BY <1>1
<1>3. qHand[u] \in List!Allocated
  BY <1>1, <1>2, HeldTyped
<1>4. QED
  BY <1>1, <1>2, <1>3, AllocatedNodes

\* Nodes that are written outside of the queue, by a thread that adds none.
LEMMA ChainApart ==
  ASSUME List!QueueConstants, NEW seg, Held(seg), ListTypeOK, Pages, Chained, NEW W, NEW t \in ListThreads,
         UNCHANGED <<qHead, qTail, qChain>>,
         \A n \in List!Nodes : n \notin W => qNext'[n] = qNext[n] /\ qValue'[n] = qValue[n],
         \A i \in 1 .. Len(qChain) : qChain[i] \notin W,
         \A u \in ListThreads : u # t /\ qPc[u] = "exchange" => qHand[u] \notin W,
         qPc[t] \notin {"exchange", "link"}, ChainEnd(t)',
         \A u \in ListThreads : u # t =>
           qPc'[u] = qPc[u] /\ qOld'[u] = qOld[u] /\ qHand'[u] = qHand[u] /\ qPushes'[u] = qPushes[u]
  PROVE  Chained'
<1>1. /\ qChain \in Seq(List!Nodes) /\ Len(qChain) \in Nat
      /\ \A i \in 1 .. Len(qChain) : qChain[i] \in List!Nodes /\ qNext'[qChain[i]] = qNext[qChain[i]]
                                     /\ qValue'[qChain[i]] = qValue[qChain[i]]
  BY ChainHeld
<1>2. Len(qChain') > 0 /\ qTail' = qChain'[1] /\ qHead' = qChain'[Len(qChain')]
        /\ qNext'[qChain'[Len(qChain')]] = List!Null
  BY <1>1 DEF Chained
<1>3. ASSUME NEW i \in 1 .. Len(qChain) - 1 PROVE ChainLink(i)'
  <2>1. i \in 1 .. Len(qChain) /\ i + 1 \in 1 .. Len(qChain)
    BY <1>1
  <2>2. ChainLink(i) /\ qValue[qChain[i + 1]] \in List!Values
    BY DEF Chained, ChainLink
  <2>3. qValue[qChain[i + 1]][1] \in ListThreads
    BY <2>2 DEF List!Values
  <2>4. PICK u \in ListThreads : u = qValue[qChain[i + 1]][1]
    BY <2>3
  <2>5. /\ qNext'[qChain'[i]] = qNext[qChain[i]] /\ qValue'[qChain'[i + 1]] = qValue[qChain[i + 1]]
        /\ qChain'[i + 1] = qChain[i + 1]
    BY <1>1, <2>1
  <2>6. qPc[u] = "link" => qPc'[u] = "link" /\ qHand'[u] = qHand[u]
    OBVIOUS
  <2>7. QED
    BY <2>2, <2>4, <2>5, <2>6 DEF ChainLink
<1>4. ASSUME NEW u \in ListThreads, u # t PROVE ChainEnd(u)'
  <2>1. /\ ChainEnd(u)
        /\ qPc'[u] = qPc[u] /\ qOld'[u] = qOld[u] /\ qHand'[u] = qHand[u] /\ qPushes'[u] = qPushes[u]
    BY <1>4 DEF Chained
  <2>2. CASE qPc[u] = "exchange"
    <3>1. qHand[u] \in List!Nodes /\ qNext'[qHand[u]] = qNext[qHand[u]] /\ qValue'[qHand[u]] = qValue[qHand[u]]
      BY <1>4, <2>2, HandHeld
    <3>2. QED
      BY <2>1, <2>2, <3>1 DEF ChainEnd
  <2>3. CASE qPc[u] = "link"
    <3>1. PICK i \in 1 .. Len(qChain) - 1 :
              qOld[u][1] = qChain[i] /\ qHand[u] = qChain[i + 1] /\ qNext[qChain[i]] = List!Null
      BY <2>1, <2>3 DEF ChainEnd
    <3>2. i \in 1 .. Len(qChain) /\ i + 1 \in 1 .. Len(qChain)
      BY <1>1
    <3>3. qNext'[qChain[i]] = List!Null /\ qValue'[qHand[u]] = qValue[qHand[u]]
      BY <1>1, <3>1, <3>2
    <3>4. QED
      BY <2>1, <2>3, <3>1, <3>3 DEF ChainEnd
  <2>4. CASE qPc[u] \notin {"exchange", "link"}
    BY <2>1, <2>4 DEF ChainEnd
  <2>5. QED
    BY <2>2, <2>3, <2>4
<1>5. QED
  BY <1>2, <1>3, <1>4 DEF Chained

\* Who holds which nodes, as sequences of nodes.
LEMMA PartNodes ==
  ASSUME List!QueueConstants, Pages, ListTypeOK, NEW r, Partition(r, Holders, List!Allocated),
         r = [q \in Holders |-> r[q]]
  PROVE  r \in [Holders -> Seq(List!Nodes)]
<1>1. \A q \in Holders : r[q] \in Seq(List!Nodes)
  <2> SUFFICES ASSUME NEW q \in Holders PROVE r[q] \in Seq(List!Nodes)
    OBVIOUS
  <2>1. r[q] \in Seq(List!Allocated) /\ List!Allocated \subseteq List!Nodes
    BY PartTyped, AllocatedNodes
  <2>2. QED
    BY <2>1
<1>2. QED
  BY <1>1

\* A new member at the end of one sequence.
LEMMA AddNode ==
  ASSUME NEW O, NEW A, NEW s, Partition(s, O, A), NEW o, NEW x, x \notin A, NEW r, Adds(s, r, O, o, x)
  PROVE  Partition(r, O, A \cup {x})
  BY AddLast DEF Adds

\* New sequences, of new members.
LEMMA AddNodes ==
  ASSUME NEW O, NEW A, NEW B, NEW s, NEW N, NEW r, Partition(s, O, A), A \cap B = {},
         AddsMany(s, r, O, N), Partition([o \in N |-> r[o]], N, B)
  PROVE  Partition(r, O, A \cup B)
  BY AddMany DEF AddsMany

\* A node leaves the list of its thread.
LEMMA TakeStep ==
  ASSUME List!QueueConstants, NEW seg, NEW st, ListParts(seg, st), NEW t \in ListThreads, List!Take(t)
  PROVE  ListInv'
<1> USE DEF List!memory, List!locals
<1>1. PICK n : n = qList[t]
  OBVIOUS
<1>2. /\ qPc[t] = "take" /\ qList' = [qList EXCEPT ![t] = qNext[n]]
      /\ qSize' = [qSize EXCEPT ![t] = qSize[t] - 1]
      /\ qNext' = [qNext EXCEPT ![n] = List!Null] /\ qValue' = [qValue EXCEPT ![n] = <<t, qPushes[t]>>]
      /\ qNextChunk' = [qNextChunk EXCEPT ![n] = List!Garbage] /\ qHand' = [qHand EXCEPT ![t] = n]
      /\ qPc' = [qPc EXCEPT ![t] = "exchange"]
      /\ UNCHANGED <<qNodeCount, qTop, qMutex, qHead, qTail, qOld, qChunks, qPushes, qPopped, qChain>>
  BY <1>1 DEF List!Take, List!Goto
<1>3. ListTypeOK /\ MutexOK /\ Phases /\ Pages /\ Held(seg) /\ Stacked(st) /\ TagsFresh /\ Chained
      /\ seg \in [Holders -> Seq(List!Nodes)] /\ st \in Seq(List!Nodes)
      /\ Partition(HeldChunks(st), ChunkHolders, ChunkHeads(seg))
  BY DEF ListParts
<1>4. Phase(t) /\ qSize[t] \in 1 .. ListCapacity /\ ListCapacity \in Nat /\ ListCapacity > 0
        /\ qPushes[t] \in 1 .. ListPushes
  BY <1>2, <1>3, NodeNames DEF ListTypeOK, Phases, Phase
<1>5. PICK o : o = ListOf(t)
  OBVIOUS
<1>6. /\ o \in Holders /\ Len(seg[o]) = qSize[t] /\ n = seg[o][qSize[t]]
      /\ qSize[t] \in 1 .. Len(seg[o]) /\ seg[o] \in Seq(List!Allocated)
  <2>1. o \in Holders /\ HeldBy(seg, t)
    BY <1>3, <1>5, HoldersApart DEF Held
  <2>2. Len(seg[o]) = qSize[t] /\ n = seg[o][qSize[t]]
    BY <1>1, <1>4, <1>5, <2>1 DEF HeldBy
  <2>3. QED
    BY <1>3, <1>4, <2>1, <2>2, HeldTyped
<1>7. n \in List!Allocated /\ n \in List!Nodes
  BY <1>3, <1>6, HeldTyped, AllocatedNodes
<1>8. PICK f \in Seq(List!Allocated) : Len(f) = Len(seg[o]) - 1 /\ \A i \in 1 .. Len(f) : f[i] = seg[o][i]
  BY <1>4, <1>6, Front
<1>9. PICK h : h = HandOf(t)
  OBVIOUS
<1>10. h \in Holders /\ seg[h] = <<>> /\ h # o
  BY <1>2, <1>3, <1>5, <1>9, HoldersApart DEF Held, HeldBy
<1>11. PICK r : r = [q \in Holders |-> IF q = o THEN f ELSE IF q = h THEN Append(seg[h], n) ELSE seg[q]]
  OBVIOUS
<1>12. /\ DOMAIN r = Holders /\ r = [q \in Holders |-> r[q]] /\ r[o] = f /\ r[h] = Append(seg[h], n)
       /\ \A q \in Holders : q # o /\ q # h => r[q] = seg[q]
  BY <1>6, <1>10, <1>11
<1>13. Partition(r, Holders, List!Allocated)
  <2>1. MovesLast(seg, r, Holders, o, h)
    BY <1>4, <1>6, <1>8, <1>10, <1>12 DEF MovesLast
  <2>2. Partition(seg, Holders, List!Allocated) /\ r[o] \in Seq(List!Allocated)
    BY <1>3, <1>8, <1>12 DEF Held
  <2>3. QED
    BY <2>1, <2>2, MoveNode
<1>14. r[h] = <<n>>
  BY <1>10, <1>12
<1>15. /\ qPc'[t] = "exchange" /\ qHand'[t] = n /\ qSize'[t] = qSize[t] - 1 /\ qList'[t] = qNext[n]
       /\ qNext'[n] = List!Null /\ qValue'[n] = <<t, qPushes[t]>>
       /\ \A u \in ListThreads : u # t => qPc'[u] = qPc[u] /\ qHand'[u] = qHand[u] /\ qSize'[u] = qSize[u]
            /\ qList'[u] = qList[u]
       /\ \A m \in List!Nodes : m # n => qNext'[m] = qNext[m] /\ qValue'[m] = qValue[m]
            /\ qNextChunk'[m] = qNextChunk[m]
  BY <1>2, <1>3, <1>7 DEF ListTypeOK
<1>16. ListTypeOK' /\ MutexOK'
  <2>1. /\ qPc' \in [ListThreads -> Labels]
        /\ qHand' \in [ListThreads -> List!Nodes \cup {List!Null, List!Garbage}]
        /\ qList' \in [ListThreads -> List!Nodes \cup {List!Null}]
        /\ qNext' \in [List!Nodes -> List!Nodes \cup {List!Null}]
        /\ qNextChunk' \in [List!Nodes -> List!Nodes \cup {List!Null, List!Garbage}]
    BY <1>2, <1>3, <1>7 DEF ListTypeOK, Labels
  <2>2. qSize' \in [ListThreads -> 0 .. ListCapacity]
    BY <1>2, <1>3, <1>4 DEF ListTypeOK
  <2>3. qValue' \in [List!Nodes -> List!Values \cup {List!NoValue}]
    <3>1. <<t, qPushes[t]>> \in List!Values
      BY <1>4 DEF List!Values
    <3>2. QED
      BY <1>2, <1>3, <3>1 DEF ListTypeOK
  <2>4. QED
    BY <1>2, <1>3, <2>1, <2>2, <2>3 DEF ListTypeOK, MutexOK
<1>17. Phase(t)'
  BY <1>2, <1>4, <1>15 DEF Phase, Pushing
<1>18. Phases' /\ Pages'
  BY <1>2, <1>3, <1>15, <1>17, PhasesKept, PagesKept
<1>19. \A q \in Holders : \A i \in 1 .. Len(seg[q]) : ~(q = o /\ i = qSize[t]) => seg[q][i] # n
  BY <1>3, <1>6, HeldOnce
<1>20. Held(r)'
  <2>1. Partition(r, Holders, List!Allocated)' /\ r[Queue] = qChain'
    <3>1. List!Allocated' = List!Allocated
      BY <1>2 DEF List!Allocated, List!PageSize
    <3>2. QED
      BY <1>2, <1>3, <1>5, <1>9, <1>12, <1>13, <3>1, HoldersApart DEF Held
  <2>2. \A q \in Holders : q # o => /\ Len(seg[q]) \in Nat
                                    /\ \A i \in 1 .. Len(seg[q]) : qNext'[seg[q][i]] = qNext[seg[q][i]]
    BY <1>3, <1>15, <1>19, HeldTyped, AllocatedNodes
  <2>3. ASSUME NEW u \in ListThreads, u # t PROVE HeldBy(r, u)'
    <3>1. r[HandOf(u)] = seg[HandOf(u)] /\ r[ListOf(u)] = seg[ListOf(u)] /\ ListOf(u) \in Holders
            /\ ListOf(u) # o
      BY <1>5, <1>9, <1>12, <2>3, HoldersApart
    <3>2. HeldBy(seg, u)
      BY <1>3 DEF Held
    <3>3. QED
      BY <1>15, <2>2, <2>3, <3>1, <3>2, HeldByKept
  <2>4. HeldBy(r, t)'
    <3>1. Linked(qNext, seg[o])
      BY <1>3, <1>5 DEF Held, HeldBy
    <3>2. Len(f) \in Nat /\ \A i \in 1 .. Len(f) : i \in 1 .. Len(seg[o]) /\ i # qSize[t]
      BY <1>4, <1>6, <1>8
    <3>3. Linked(qNext', f)
      <4>1. \A i \in 1 .. Len(f) : f[i] \in List!Nodes /\ f[i] # n
        BY <1>3, <1>6, <1>8, <1>19, <3>2, HeldTyped, AllocatedNodes
      <4>2. Linked(qNext, f)
        <5> SUFFICES ASSUME NEW i \in 2 .. Len(f) PROVE qNext[f[i]] = f[i - 1]
          BY DEF Linked
        <5>1. i \in 2 .. Len(seg[o]) /\ i \in 1 .. Len(f) /\ i - 1 \in 1 .. Len(f)
          BY <1>6, <1>8, <3>2
        <5>2. QED
          BY <1>8, <3>1, <5>1 DEF Linked
      <4>3. QED
        BY <1>15, <3>2, <4>1, <4>2, LinkedKept
    <3>4. qSize'[t] > 0 => qNext[n] = f[qSize'[t]]
      <4> SUFFICES ASSUME qSize'[t] > 0 PROVE qNext[n] = f[qSize'[t]]
        OBVIOUS
      <4>1. qSize[t] \in 2 .. Len(seg[o]) /\ qSize'[t] = qSize[t] - 1 /\ qSize'[t] \in 1 .. Len(f)
        BY <1>4, <1>6, <1>8, <1>15
      <4>2. qNext[seg[o][qSize[t]]] = seg[o][qSize[t] - 1]
        BY <3>1, <4>1 DEF Linked
      <4>3. QED
        BY <1>6, <1>8, <4>1, <4>2
    <3>5. r[ListOf(t)] = f /\ r[HandOf(t)] = <<n>> /\ Len(f) = qSize'[t]
      BY <1>4, <1>5, <1>6, <1>8, <1>9, <1>12, <1>14, <1>15
    <3>6. QED
      BY <1>15, <3>3, <3>4, <3>5 DEF HeldBy
  <2>5. ASSUME NEW c \in List!Nodes PROVE HeldInChunk(r, c)'
    <3>1. r[ChunkOf(c)] = seg[ChunkOf(c)] /\ ChunkOf(c) \in Holders /\ ChunkOf(c) # o
      BY <1>5, <1>9, <1>12, HoldersApart
    <3>2. HeldInChunk(seg, c)
      BY <1>3 DEF Held
    <3>3. QED
      BY <2>2, <3>1, <3>2, HeldInChunkKept
  <2>6. QED
    BY <2>1, <2>3, <2>4, <2>5 DEF Held
<1>21. ChunkHeads(r)' = ChunkHeads(seg)
  BY <1>5, <1>9, <1>12, HoldersApart DEF ChunkHeads
<1>22. \A c \in ChunkHeads(seg) : c # n /\ c \in List!Nodes
  <2> SUFFICES ASSUME NEW c \in ChunkHeads(seg) PROVE c # n /\ c \in List!Nodes
    OBVIOUS
  <2>1. c \in List!Nodes
    BY DEF ChunkHeads
  <2>2. o # ChunkOf(c)
    BY <1>5, <2>1, HoldersApart
  <2>3. QED
    BY <1>3, <1>6, <2>1, <2>2, HeadsApart
<1>23. Partition(HeldChunks(st), ChunkHolders, ChunkHeads(r))' /\ Stacked(st)'
  <2>1. \A i \in 1 .. Len(st) : qNextChunk'[st[i]] = qNextChunk[st[i]]
    BY <1>15, <1>22, ChunksApart
  <2>2. Partition(HeldChunks(st), ChunkHolders, ChunkHeads(seg))' /\ Stacked(st)'
    BY <1>2, <1>3, <2>1, StackKept
  <2>3. QED
    BY <1>21, <2>2 DEF ChunkHeads
<1>24. TagsFresh'
  <2>1. \A u \in ListThreads : qPc[u] = "pushChunk"
          => qNextChunk'[Head(qChunks[u])] = qNextChunk[Head(qChunks[u])]
    BY <1>15, <1>22, FirstChunk DEF Pushing
  <2>2. qTop[1] # List!Null => qNextChunk'[qTop[1]] = qNextChunk[qTop[1]]
    BY <1>15, <1>22, TopIsChunk
  <2>3. QED
    BY <1>2, <1>3, <1>15, <2>1, <2>2, NodeNames DEF TagsFresh
<1>25. Chained'
  <2>1. \A i \in 1 .. Len(qChain) : qChain[i] \notin {n}
    BY <1>3, <1>5, <1>19, ChainHeld, HoldersApart
  <2>2. \A u \in ListThreads : u # t /\ qPc[u] = "exchange" => qHand[u] \notin {n}
    <3> SUFFICES ASSUME NEW u \in ListThreads, qPc[u] = "exchange" PROVE qHand[u] # n
      OBVIOUS
    <3>1. HandOf(u) \in Holders /\ 1 \in 1 .. Len(seg[HandOf(u)]) /\ seg[HandOf(u)][1] = qHand[u]
      BY <1>3, HandHeld
    <3>2. HandOf(u) # o
      BY <1>5, HoldersApart
    <3>3. QED
      BY <1>19, <3>1, <3>2
  <2>3. ChainEnd(t)'
    BY <1>2, <1>4, <1>7, <1>15 DEF ChainEnd
  <2>4. QED
    BY <1>2, <1>3, <1>15, <2>1, <2>2, <2>3, ChainApart
<1>26. r \in [Holders -> Seq(List!Nodes)]
  BY <1>3, <1>12, <1>13, PartNodes
<1>27. QED
  BY <1>2, <1>3, <1>16, <1>18, <1>20, <1>23, <1>24, <1>25, <1>26 DEF ListInv, ListParts

\* The exchange of head_: the node is the last of the queue.
LEMMA ExchangeStep ==
  ASSUME List!QueueConstants, NEW seg, NEW st, ListParts(seg, st), NEW t \in ListThreads, List!Exchange(t)
  PROVE  ListInv'
<1> USE DEF List!memory, List!locals
<1>1. PICK n : n = qHand[t]
  OBVIOUS
<1>2. /\ qPc[t] = "exchange" /\ qOld' = [qOld EXCEPT ![t] = <<qHead, 0>>] /\ qHead' = n
      /\ qChain' = Append(qChain, n) /\ qPc' = [qPc EXCEPT ![t] = "link"]
      /\ UNCHANGED <<qNext, qNextChunk, qValue, qNodeCount, qTop, qMutex, qList, qSize, qTail, qHand, qChunks,
                     qPushes, qPopped>>
  BY <1>1 DEF List!Exchange, List!Goto
<1>3. ListTypeOK /\ MutexOK /\ Phases /\ Pages /\ Held(seg) /\ Stacked(st) /\ TagsFresh /\ Chained
      /\ seg \in [Holders -> Seq(List!Nodes)] /\ st \in Seq(List!Nodes)
      /\ Partition(HeldChunks(st), ChunkHolders, ChunkHeads(seg))
  BY DEF ListParts
<1>4. n \in List!Allocated /\ n \in List!Nodes /\ qValue[n] = <<t, qPushes[t]>> /\ qPushes[t] > 0
        /\ qNext[n] = List!Null
  BY <1>1, <1>2, <1>3, HandHeld DEF Chained, ChainEnd
<1>5. PICK h : h = HandOf(t)
  OBVIOUS
<1>6. h \in Holders /\ seg[h] = <<n>> /\ h # Queue
  BY <1>1, <1>2, <1>3, <1>5, HoldersApart DEF Held, HeldBy
<1>7. /\ Queue \in Holders /\ seg[Queue] = qChain /\ qChain \in Seq(List!Nodes) /\ Len(qChain) \in Nat
      /\ \A i \in 1 .. Len(qChain) : qChain[i] \in List!Nodes
  BY <1>3, ChainHeld
<1>8. PICK r : r = [q \in Holders |-> IF q = h THEN <<>> ELSE IF q = Queue THEN Append(qChain, n) ELSE seg[q]]
  OBVIOUS
<1>9. /\ DOMAIN r = Holders /\ r = [q \in Holders |-> r[q]] /\ r[h] = <<>> /\ r[Queue] = Append(qChain, n)
      /\ \A q \in Holders : q # h /\ q # Queue => r[q] = seg[q]
  BY <1>6, <1>7, <1>8
<1>10. Partition(r, Holders, List!Allocated)
  <2>1. MovesLast(seg, r, Holders, h, Queue)
    <3>1. Len(seg[h]) = 1 /\ seg[h][1] = n
      BY <1>6
    <3>2. QED
      BY <1>6, <1>7, <1>9, <3>1 DEF MovesLast
  <2>2. Partition(seg, Holders, List!Allocated) /\ r[h] \in Seq(List!Allocated)
    <3>1. <<>> \in Seq(List!Allocated)
      OBVIOUS
    <3>2. QED
      BY <1>3, <1>9, <3>1 DEF Held
  <2>3. QED
    BY <2>1, <2>2, MoveNode
<1>11. qPc'[t] = "link" /\ qOld'[t][1] = qHead /\ \A u \in ListThreads : u # t
         => qPc'[u] = qPc[u] /\ qOld'[u] = qOld[u]
  BY <1>2, <1>3 DEF ListTypeOK
<1>12. qHead \in List!Nodes /\ Len(qChain) > 0 /\ qHead = qChain[Len(qChain)]
  BY <1>3, <1>7 DEF Chained
<1>13. ListTypeOK' /\ MutexOK'
  <2>1. qPc' \in [ListThreads -> Labels]
    BY <1>2, <1>3 DEF ListTypeOK, Labels
  <2>2. qOld' \in [ListThreads -> (List!Nodes \cup {List!Null}) \X Nat]
    BY <1>2, <1>3, <1>12 DEF ListTypeOK
  <2>3. qChain' \in Seq(List!Nodes)
    BY <1>2, <1>4, <1>7
  <2>4. QED
    BY <1>2, <1>3, <2>1, <2>2, <2>3 DEF ListTypeOK, MutexOK
<1>14. Phase(t)'
  BY <1>2, <1>3, <1>11 DEF Phases, Phase, Pushing
<1>15. Phases' /\ Pages'
  BY <1>2, <1>3, <1>11, <1>14, PhasesKept, PagesKept
<1>16. Held(r)'
  <2>1. Partition(r, Holders, List!Allocated)' /\ r[Queue] = qChain'
    <3>1. List!Allocated' = List!Allocated
      BY <1>2 DEF List!Allocated, List!PageSize
    <3>2. QED
      BY <1>2, <1>9, <1>10, <3>1
  <2>2. ASSUME NEW u \in ListThreads, u # t PROVE HeldBy(r, u)'
    <3>1. r[HandOf(u)] = seg[HandOf(u)] /\ r[ListOf(u)] = seg[ListOf(u)] /\ ListOf(u) \in Holders
      BY <1>5, <1>9, <2>2, HoldersApart
    <3>2. HeldBy(seg, u) /\ Len(seg[ListOf(u)]) \in Nat
      BY <1>3, <3>1, HeldTyped DEF Held
    <3>3. QED
      BY <1>2, <1>11, <2>2, <3>1, <3>2, HeldByKept
  <2>3. HeldBy(r, t)'
    <3>1. r[HandOf(t)] = <<>> /\ r[ListOf(t)] = seg[ListOf(t)] /\ HeldBy(seg, t)
      BY <1>3, <1>5, <1>9, HoldersApart DEF Held
    <3>2. QED
      BY <1>2, <1>11, <3>1 DEF HeldBy
  <2>4. ASSUME NEW c \in List!Nodes PROVE HeldInChunk(r, c)'
    <3>1. r[ChunkOf(c)] = seg[ChunkOf(c)] /\ ChunkOf(c) \in Holders
      BY <1>5, <1>9, HoldersApart
    <3>2. HeldInChunk(seg, c) /\ Len(seg[ChunkOf(c)]) \in Nat
      BY <1>3, <3>1, HeldTyped DEF Held
    <3>3. QED
      BY <1>2, <3>1, <3>2, HeldInChunkKept
  <2>5. QED
    BY <2>1, <2>2, <2>3, <2>4 DEF Held
<1>17. ChunkHeads(r)' = ChunkHeads(seg)
  BY <1>5, <1>9, HoldersApart DEF ChunkHeads
<1>18. Partition(HeldChunks(st), ChunkHolders, ChunkHeads(r))' /\ Stacked(st)'
  <2>1. Partition(HeldChunks(st), ChunkHolders, ChunkHeads(seg))' /\ Stacked(st)'
    BY <1>2, <1>3, StackKept
  <2>2. QED
    BY <1>17, <2>1 DEF ChunkHeads
<1>19. TagsFresh'
  BY <1>2, <1>3, <1>11, TagsKept
<1>20. Chained'
  <2>1. /\ Len(qChain') = Len(qChain) + 1 /\ qChain'[Len(qChain) + 1] = n
        /\ \A i \in 1 .. Len(qChain) : qChain'[i] = qChain[i]
    BY <1>2, <1>4, <1>7
  <2>2. Len(qChain') > 0 /\ qTail' = qChain'[1] /\ qHead' = qChain'[Len(qChain')]
          /\ qNext'[qChain'[Len(qChain')]] = List!Null
    BY <1>2, <1>3, <1>4, <1>7, <2>1 DEF Chained
  <2>3. ASSUME NEW i \in 1 .. Len(qChain) - 1 PROVE ChainLink(i)'
    <3>1. qChain'[i] = qChain[i] /\ qChain'[i + 1] = qChain[i + 1]
      BY <1>7, <2>1
    <3>2. ChainLink(i) /\ qValue[qChain[i + 1]] \in List!Values
      BY <1>3 DEF Chained, ChainLink
    <3>3. PICK u \in ListThreads : u = qValue[qChain[i + 1]][1]
      BY <3>2 DEF List!Values
    <3>4. qPc[u] = "link" => qPc'[u] = "link"
      BY <1>2, <1>11
    <3>5. QED
      BY <1>2, <3>1, <3>2, <3>3, <3>4 DEF ChainLink
  <2>a. PICK k \in Nat : k = Len(qChain)
    BY <1>7
  <2>4. ChainLink(k)'
    <3>1. qChain'[k] = qChain[k] /\ qChain'[k + 1] = n /\ qNext[qChain[k]] = List!Null
      BY <2>a, <1>3, <1>7, <1>12, <2>1 DEF Chained
    <3>2. <<t, qPushes[t]>> \in List!Values
      BY <1>3, <1>4 DEF List!Values, ListTypeOK
    <3>3. PICK v : v = qValue'[qChain'[k + 1]]
      OBVIOUS
    <3>4. v \in List!Values /\ v[1] = t
      <4>1. qValue' = qValue /\ qChain'[k + 1] = n
        BY <1>2, <3>1
      <4>2. v = <<t, qPushes[t]>>
        BY <1>4, <3>3, <4>1
      <4>3. QED
        BY <3>2, <4>2
    <3>5. QED
      BY <1>1, <1>2, <1>11, <3>1, <3>3, <3>4 DEF ChainLink
  <2>5. ASSUME NEW u \in ListThreads, u # t PROVE ChainEnd(u)'
    <3>1. ChainEnd(u) /\ qPc'[u] = qPc[u] /\ qOld'[u] = qOld[u]
      BY <1>3, <1>11, <2>5 DEF Chained
    <3>2. CASE qPc[u] = "link"
      <4>1. PICK i \in 1 .. Len(qChain) - 1 :
              qOld[u][1] = qChain[i] /\ qHand[u] = qChain[i + 1] /\ qNext[qChain[i]] = List!Null
        BY <3>1, <3>2 DEF ChainEnd
      <4>2. qChain'[i] = qChain[i] /\ qChain'[i + 1] = qChain[i + 1] /\ i \in 1 .. Len(qChain') - 1
        BY <1>7, <2>1
      <4>3. QED
        BY <1>2, <3>1, <3>2, <4>1, <4>2 DEF ChainEnd
    <3>3. CASE qPc[u] # "link"
      BY <1>2, <3>1, <3>3 DEF ChainEnd
    <3>4. QED
      BY <3>2, <3>3
  <2>6. ChainEnd(t)'
    <3>1. Len(qChain) \in 1 .. Len(qChain') - 1 /\ qChain'[Len(qChain)] = qChain[Len(qChain)]
          /\ qNext[qChain[Len(qChain)]] = List!Null
      BY <1>3, <1>7, <1>12, <2>1 DEF Chained
    <3>2. \E i \in 1 .. Len(qChain') - 1 :
            qOld'[t][1] = qChain'[i] /\ qHand'[t] = qChain'[i + 1] /\ qNext'[qChain'[i]] = List!Null
      BY <1>1, <1>2, <1>11, <1>12, <2>1, <3>1
    <3>3. QED
      BY <1>1, <1>2, <1>4, <1>11, <3>2 DEF ChainEnd
  <2>7. \A i \in 1 .. Len(qChain') - 1 : ChainLink(i)'
    BY <1>7, <2>1, <2>3, <2>4, <2>a
  <2>8. QED
    BY <2>2, <2>5, <2>6, <2>7 DEF Chained
<1>21. r \in [Holders -> Seq(List!Nodes)]
  BY <1>3, <1>9, <1>10, PartNodes
<1>22. QED
  BY <1>2, <1>3, <1>13, <1>15, <1>16, <1>18, <1>19, <1>20, <1>21 DEF ListInv, ListParts

\* The node before is linked: the consumer can see the new one.
LEMMA LinkStep ==
  ASSUME List!QueueConstants, NEW seg, NEW st, ListParts(seg, st), NEW t \in ListThreads, List!Link(t)
  PROVE  ListParts(seg, st)'
<1> USE DEF List!memory, List!locals
<1>1. PICK n : n = qOld[t][1]
  OBVIOUS
<1>2. /\ qPc[t] = "link" /\ qNext' = [qNext EXCEPT ![n] = qHand[t]] /\ qHand' = [qHand EXCEPT ![t] = List!Null]
      /\ qOld' = [qOld EXCEPT ![t] = List!NoTop] /\ qPc' = [qPc EXCEPT ![t] = "idle"]
      /\ UNCHANGED <<qNextChunk, qValue, qNodeCount, qTop, qMutex, qList, qSize, qHead, qTail, qChunks, qPushes,
                     qPopped, qChain>>
  BY <1>1 DEF List!Link, List!Goto
<1>3. ListTypeOK /\ MutexOK /\ Phases /\ Pages /\ Held(seg) /\ Stacked(st) /\ TagsFresh /\ Chained
      /\ seg \in [Holders -> Seq(List!Nodes)] /\ st \in Seq(List!Nodes)
      /\ Partition(HeldChunks(st), ChunkHolders, ChunkHeads(seg))
  BY DEF ListParts
<1>4. ChainEnd(t)
  BY <1>3 DEF Chained
<1>5. PICK k \in 1 .. Len(qChain) - 1 : n = qChain[k] /\ qHand[t] = qChain[k + 1]
             /\ qNext[qChain[k]] = List!Null
  BY <1>1, <1>2, <1>4 DEF ChainEnd
<1>6. /\ Queue \in Holders /\ seg[Queue] = qChain /\ qChain \in Seq(List!Nodes) /\ Len(qChain) \in Nat
      /\ \A i \in 1 .. Len(qChain) : qChain[i] \in List!Nodes
      /\ \A i, j \in 1 .. Len(qChain) : qChain[i] = qChain[j] => i = j
  BY <1>3, ChainHeld
<1>7. k \in 1 .. Len(qChain) /\ k + 1 \in 1 .. Len(qChain) /\ n \in List!Nodes /\ qHand[t] \in List!Nodes
  BY <1>5, <1>6
<1>8. /\ qPc'[t] = "idle" /\ qNext'[n] = qHand[t]
      /\ \A u \in ListThreads : u # t => qPc'[u] = qPc[u] /\ qOld'[u] = qOld[u] /\ qHand'[u] = qHand[u]
      /\ \A m \in List!Nodes : m # n => qNext'[m] = qNext[m]
  BY <1>2, <1>3, <1>7 DEF ListTypeOK
<1>9. ListTypeOK' /\ MutexOK'
  <2>1. /\ qPc' \in [ListThreads -> Labels]
        /\ qHand' \in [ListThreads -> List!Nodes \cup {List!Null, List!Garbage}]
        /\ qNext' \in [List!Nodes -> List!Nodes \cup {List!Null}]
    BY <1>2, <1>3, <1>7 DEF ListTypeOK, Labels
  <2>2. qOld' \in [ListThreads -> (List!Nodes \cup {List!Null}) \X Nat]
    BY <1>2, <1>3 DEF ListTypeOK, List!NoTop
  <2>3. QED
    BY <1>2, <1>3, <2>1, <2>2 DEF ListTypeOK, MutexOK
<1>10. Phase(t)'
  BY <1>2, <1>3, <1>8 DEF Phases, Phase, Pushing
<1>11. Phases' /\ Pages'
  BY <1>2, <1>3, <1>8, <1>10, PhasesKept, PagesKept
<1>12. Held(seg)'
  <2>1. \A q \in Holders : q # Queue =>
          /\ Len(seg[q]) \in Nat
          /\ \A i \in 1 .. Len(seg[q]) : qNext'[seg[q][i]] = qNext[seg[q][i]]
    <3> SUFFICES ASSUME NEW q \in Holders, q # Queue
                 PROVE  /\ Len(seg[q]) \in Nat
                        /\ \A i \in 1 .. Len(seg[q]) : qNext'[seg[q][i]] = qNext[seg[q][i]]
      OBVIOUS
    <3>1. Len(seg[q]) \in Nat /\ \A i \in 1 .. Len(seg[q]) : seg[q][i] \in List!Nodes
      BY <1>3, HeldTyped, AllocatedNodes
    <3>2. \A i \in 1 .. Len(seg[q]) : seg[q][i] # n
      BY <1>3, <1>5, <1>6, <1>7, HeldOnce
    <3>3. QED
      BY <1>8, <3>1, <3>2
  <2>2. Partition(seg, Holders, List!Allocated)' /\ seg[Queue] = qChain'
    <3>1. List!Allocated' = List!Allocated
      BY <1>2 DEF List!Allocated, List!PageSize
    <3>2. QED
      BY <1>2, <1>3, <3>1 DEF Held
  <2>3. ASSUME NEW u \in ListThreads PROVE HeldBy(seg, u)'
    <3>1. HeldBy(seg, u) /\ ListOf(u) \in Holders /\ ListOf(u) # Queue
      BY <1>3, HoldersApart DEF Held
    <3>2. (qPc'[u] = "exchange" <=> qPc[u] = "exchange") /\ (qPc[u] = "exchange" => qHand'[u] = qHand[u])
      BY <1>2, <1>8
    <3>3. QED
      BY <1>2, <2>1, <3>1, <3>2, HeldByKept
  <2>4. ASSUME NEW c \in List!Nodes PROVE HeldInChunk(seg, c)'
    <3>1. HeldInChunk(seg, c) /\ ChunkOf(c) \in Holders /\ ChunkOf(c) # Queue
      BY <1>3, HoldersApart DEF Held
    <3>2. QED
      BY <2>1, <3>1, HeldInChunkKept
  <2>5. QED
    BY <2>2, <2>3, <2>4 DEF Held
<1>13. Partition(HeldChunks(st), ChunkHolders, ChunkHeads(seg))' /\ Stacked(st)'
  BY <1>2, <1>3, StackKept
<1>14. TagsFresh'
  BY <1>2, <1>3, <1>8, TagsKept
<1>15. Chained'
  <2>1. Len(qChain') > 0 /\ qTail' = qChain'[1] /\ qHead' = qChain'[Len(qChain')]
          /\ qNext'[qChain'[Len(qChain')]] = List!Null
    <3>1. qChain[Len(qChain)] # n /\ qChain[Len(qChain)] \in List!Nodes
      BY <1>5, <1>6, <1>7
    <3>2. QED
      BY <1>2, <1>3, <1>8, <3>1 DEF Chained
  <2>2. ASSUME NEW i \in 1 .. Len(qChain) - 1 PROVE ChainLink(i)'
    <3>1. ChainLink(i) /\ qValue[qChain[i + 1]] \in List!Values
      BY <1>3 DEF Chained, ChainLink
    <3>2. CASE i = k
      BY <1>2, <1>5, <1>8, <3>1, <3>2 DEF ChainLink
    <3>3. CASE i # k
      <4>1. i \in 1 .. Len(qChain) /\ i + 1 \in 1 .. Len(qChain)
        BY <1>6
      <4>2. qChain[i] # n /\ qChain[i + 1] # qHand[t] /\ qChain[i] \in List!Nodes
        BY <1>5, <1>6, <1>7, <3>3, <4>1
      <4>3. PICK u \in ListThreads : u = qValue[qChain[i + 1]][1]
        BY <3>1 DEF List!Values
      <4>4. qHand[u] = qChain[i + 1] => qPc'[u] = qPc[u] /\ qHand'[u] = qHand[u]
        BY <1>8, <4>2
      <4>5. QED
        BY <1>2, <1>8, <3>1, <4>2, <4>3, <4>4 DEF ChainLink
    <3>4. QED
      BY <3>2, <3>3
  <2>3. ASSUME NEW u \in ListThreads PROVE ChainEnd(u)'
    <3>1. CASE u = t
      BY <1>8, <3>1 DEF ChainEnd
    <3>2. CASE u # t
      <4>1. ChainEnd(u) /\ qPc'[u] = qPc[u] /\ qOld'[u] = qOld[u] /\ qHand'[u] = qHand[u]
        BY <1>3, <1>8, <3>2 DEF Chained
      <4>2. CASE qPc[u] = "link"
        <5>1. PICK i \in 1 .. Len(qChain) - 1 :
                qOld[u][1] = qChain[i] /\ qHand[u] = qChain[i + 1] /\ qNext[qChain[i]] = List!Null
          BY <4>1, <4>2 DEF ChainEnd
        <5>2. qValue[qHand[u]] = <<u, qPushes[u]>> /\ qValue[qHand[t]] = <<t, qPushes[t]>>
          BY <1>2, <1>4, <4>1, <4>2 DEF ChainEnd
        <5>3. i # k
          BY <1>5, <3>2, <5>1, <5>2
        <5>4. qChain[i] # n /\ qChain[i] \in List!Nodes
          BY <1>5, <1>6, <1>7, <5>3
        <5>5. QED
          BY <1>2, <1>8, <4>1, <4>2, <5>1, <5>4 DEF ChainEnd
      <4>3. CASE qPc[u] = "exchange"
        <5>1. qHand[u] \in List!Nodes /\ qNext[qHand[u]] = List!Null
          BY <4>1, <4>3 DEF ChainEnd
        <5>2. qHand[u] # n
          <6>1. HandOf(u) \in Holders /\ 1 \in 1 .. Len(seg[HandOf(u)]) /\ seg[HandOf(u)][1] = qHand[u]
            BY <1>3, <4>3, HandHeld
          <6>2. HandOf(u) # Queue
            BY HoldersApart
          <6>3. QED
            BY <1>3, <1>5, <1>6, <1>7, <6>1, <6>2, HeldOnce
        <5>3. QED
          BY <1>2, <1>8, <4>1, <4>3, <5>1, <5>2 DEF ChainEnd
      <4>4. CASE qPc[u] \notin {"exchange", "link"}
        BY <4>1, <4>4 DEF ChainEnd
      <4>5. QED
        BY <4>2, <4>3, <4>4
    <3>3. QED
      BY <3>1, <3>2
  <2>4. QED
    BY <1>2, <2>1, <2>2, <2>3 DEF Chained
<1>16. QED
  BY <1>2, <1>3, <1>9, <1>11, <1>12, <1>13, <1>14, <1>15 DEF ListParts

\* The value of the node after the dummy is taken: it is the second of the queue.
LEMMA Dequeued ==
  ASSUME List!QueueConstants, NEW seg, Held(seg), ListTypeOK, Pages, Chained, qNext[qTail] # List!Null
  PROVE  /\ Len(qChain) \in Nat /\ Len(qChain) > 1 /\ qTail = qChain[1] /\ qNext[qTail] = qChain[2]
         /\ ChainLink(1)
<1>1. Len(qChain) \in Nat /\ Len(qChain) > 0 /\ qTail = qChain[1] /\ qNext[qChain[Len(qChain)]] = List!Null
  BY ChainHeld DEF Chained
<1>2. Len(qChain) > 1
  BY <1>1
<1>3. ChainLink(1)
  BY <1>1, <1>2 DEF Chained
<1>4. qNext[qChain[1]] = qChain[1 + 1]
  BY <1>1, <1>3 DEF ChainLink
<1>5. QED
  BY <1>1, <1>2, <1>3, <1>4

\* The queue without its dummy is a queue, with the next node as the dummy.
LEMMA ChainShorter ==
  ASSUME List!QueueConstants, NEW seg, Held(seg), ListTypeOK, Pages, Chained, NEW t \in ListThreads,
         NEW d, NEW n, d = qTail, n = qNext[qTail], n # List!Null, qPc[t] = "idle",
         qPc'[t] \notin {"exchange", "link"},
         qTail' = n, qChain' = Tail(qChain), UNCHANGED <<qHead, qOld, qHand, qPushes>>,
         qValue'[n] = List!NoValue, \A m \in List!Nodes : m # n => qValue'[m] = qValue[m],
         \A m \in List!Nodes : m # d => qNext'[m] = qNext[m],
         \A u \in ListThreads : u # t => qPc'[u] = qPc[u]
  PROVE  Chained'
<1>1. /\ Len(qChain) \in Nat /\ Len(qChain) > 1 /\ d = qChain[1] /\ n = qChain[2]
  BY Dequeued
<1>2. /\ Queue \in Holders /\ seg[Queue] = qChain /\ qChain \in Seq(List!Nodes)
      /\ \A i \in 1 .. Len(qChain) : qChain[i] \in List!Nodes
      /\ \A i, j \in 1 .. Len(qChain) : qChain[i] = qChain[j] => i = j
  BY ChainHeld
<1>3. Len(qChain') = Len(qChain) - 1 /\ \A i \in 1 .. Len(qChain') : qChain'[i] = qChain[i + 1]
  BY <1>1, <1>2
<1>4. \A i \in 2 .. Len(qChain) : qChain[i] \in List!Nodes /\ qNext'[qChain[i]] = qNext[qChain[i]]
  BY <1>1, <1>2
<1>5. \A i \in 3 .. Len(qChain) : qChain[i] \in List!Nodes /\ qValue'[qChain[i]] = qValue[qChain[i]]
  BY <1>1, <1>2
<1>6. Len(qChain') > 0 /\ qTail' = qChain'[1] /\ qHead' = qChain'[Len(qChain')]
        /\ qNext'[qChain'[Len(qChain')]] = List!Null
  <2>1. qChain'[Len(qChain')] = qChain[Len(qChain)] /\ Len(qChain) \in 2 .. Len(qChain)
    BY <1>1, <1>3
  <2>2. QED
    BY <1>1, <1>3, <1>4, <2>1 DEF Chained
<1>7. ASSUME NEW i \in 1 .. Len(qChain') - 1 PROVE ChainLink(i)'
  <2>1. i + 1 \in 1 .. Len(qChain) - 1 /\ i + 1 \in 2 .. Len(qChain) /\ i + 2 \in 3 .. Len(qChain)
        /\ i + 1 + 1 = i + 2
    BY <1>1, <1>3
  <2>2. PICK k \in 1 .. Len(qChain) - 1 : k = i + 1
    BY <2>1
  <2>3. ChainLink(k) /\ qValue[qChain[k + 1]] \in List!Values
    BY DEF Chained, ChainLink
  <2>4. PICK u \in ListThreads : u = qValue[qChain[k + 1]][1]
    BY <2>3 DEF List!Values
  <2>5. /\ qChain'[i] = qChain[k] /\ qChain'[i + 1] = qChain[k + 1]
        /\ qNext'[qChain[k]] = qNext[qChain[k]] /\ qValue'[qChain[k + 1]] = qValue[qChain[k + 1]]
    BY <1>1, <1>3, <1>4, <1>5, <2>1, <2>2
  <2>6. qPc[u] = "link" => qPc'[u] = "link"
    OBVIOUS
  <2>7. QED
    BY <2>3, <2>4, <2>5, <2>6 DEF ChainLink
<1>8. ASSUME NEW u \in ListThreads, u # t PROVE ChainEnd(u)'
  <2>1. ChainEnd(u) /\ qPc'[u] = qPc[u]
    BY <1>8 DEF Chained
  <2>2. CASE qPc[u] = "exchange"
    <3>1. HandOf(u) \in Holders /\ 1 \in 1 .. Len(seg[HandOf(u)]) /\ seg[HandOf(u)][1] = qHand[u]
          /\ qHand[u] \in List!Nodes /\ HandOf(u) # Queue
      BY <2>2, HandHeld, HoldersApart
    <3>2. \A i \in 1 .. Len(qChain) : qChain[i] # qHand[u]
      BY <1>2, <3>1, HeldOnce
    <3>3. qHand[u] # d /\ qHand[u] # n
      BY <1>1, <3>2
    <3>4. QED
      BY <2>1, <2>2, <3>1, <3>3 DEF ChainEnd
  <2>3. CASE qPc[u] = "link"
    <3>1. PICK i \in 1 .. Len(qChain) - 1 :
              qOld[u][1] = qChain[i] /\ qHand[u] = qChain[i + 1] /\ qNext[qChain[i]] = List!Null
      BY <2>1, <2>3 DEF ChainEnd
    <3>2. i # 1
      BY <1>1, <3>1
    <3>3. PICK k \in 1 .. Len(qChain') - 1 : k + 1 = i
      BY <1>1, <1>3, <3>2
    <3>4. /\ qChain'[k] = qChain[i] /\ qChain'[k + 1] = qChain[i + 1] /\ i \in 2 .. Len(qChain)
          /\ i + 1 \in 3 .. Len(qChain)
      BY <1>1, <1>3, <3>3
    <3>5. qNext'[qChain[i]] = List!Null /\ qValue'[qChain[i + 1]] = qValue[qChain[i + 1]]
      BY <1>4, <1>5, <3>1, <3>4
    <3>6. QED
      BY <2>1, <2>3, <3>1, <3>3, <3>4, <3>5 DEF ChainEnd
  <2>4. CASE qPc[u] \notin {"exchange", "link"}
    BY <2>1, <2>4 DEF ChainEnd
  <2>5. QED
    BY <2>2, <2>3, <2>4
<1>9. ChainEnd(t)'
  BY DEF ChainEnd
<1>10. QED
  BY <1>6, <1>7, <1>8, <1>9 DEF Chained

\* Who holds what, in r, when the dummy d is in the list of t.
DummyMoved(seg, r, t, d) ==
  /\ DOMAIN r = Holders /\ r = [q \in Holders |-> r[q]] /\ Partition(r, Holders, List!Allocated)
  /\ r[Queue] = Tail(qChain) /\ r[ListOf(t)] \in Seq(List!Nodes)
  /\ Len(r[ListOf(t)]) = qSize[t] + 1 /\ r[ListOf(t)][qSize[t] + 1] = d
  /\ Linked(qNext', r[ListOf(t)]) /\ d \in List!Nodes /\ d \in List!Allocated
  /\ d \notin ChunkHeads(seg)
  /\ \A q \in Holders : q # Queue /\ q # ListOf(t) => r[q] = seg[q]
  /\ \A q \in Holders : q # Queue =>
       /\ Len(seg[q]) \in Nat
       /\ \A i \in 1 .. Len(seg[q]) : qNext'[seg[q][i]] = qNext[seg[q][i]]

\* The dummy goes into the list of the thread; the list stays linked.
LEMMA DummyMoves ==
  ASSUME List!QueueConstants, NEW seg, NEW st, ListParts(seg, st), NEW t \in ListThreads,
         NEW d, d = qTail, qNext[qTail] # List!Null, qPc[t] # "exchange",
         qNext' = [qNext EXCEPT ![d] = qList[t]]
  PROVE  \E r : DummyMoved(seg, r, t, d)
<1>1. ListTypeOK /\ Pages /\ Held(seg) /\ Chained
  BY DEF ListParts
<1>2. Len(qChain) \in Nat /\ Len(qChain) > 1 /\ d = qChain[1]
  BY <1>1, Dequeued
<1>3. /\ Queue \in Holders /\ seg[Queue] = qChain /\ qChain \in Seq(List!Nodes)
      /\ d \in List!Nodes /\ d \in List!Allocated
  BY <1>1, <1>2, ChainHeld
<1>4. PICK o : o = ListOf(t)
  OBVIOUS
<1>5. o \in Holders /\ o # Queue /\ HeldBy(seg, t) /\ seg[o] \in Seq(List!Allocated) /\ Len(seg[o]) \in Nat
      /\ Len(seg[o]) = qSize[t]
  BY <1>1, <1>4, HoldersApart, HeldTyped DEF Held, HeldBy
<1>6. PICK r : r = [q \in Holders |-> IF q = Queue THEN Tail(qChain) ELSE IF q = o THEN Append(seg[o], d) ELSE seg[q]]
  OBVIOUS
<1>7. /\ DOMAIN r = Holders /\ r = [q \in Holders |-> r[q]] /\ r[Queue] = Tail(qChain)
      /\ r[o] = Append(seg[o], d)
      /\ \A q \in Holders : q # Queue /\ q # o => r[q] = seg[q]
  BY <1>3, <1>5, <1>6
<1>8. Partition(r, Holders, List!Allocated)
  <2>1. MovesFirst(seg, r, Holders, Queue, o)
    BY <1>2, <1>3, <1>5, <1>7 DEF MovesFirst
  <2>2. QED
    BY <1>1, <2>1, MoveFirst DEF Held
<1>9. \A q \in Holders : q # Queue =>
        /\ Len(seg[q]) \in Nat
        /\ \A i \in 1 .. Len(seg[q]) : seg[q][i] \in List!Nodes /\ qNext'[seg[q][i]] = qNext[seg[q][i]]
  <2> SUFFICES ASSUME NEW q \in Holders, q # Queue
               PROVE  /\ Len(seg[q]) \in Nat
                      /\ \A i \in 1 .. Len(seg[q]) : seg[q][i] \in List!Nodes
                           /\ qNext'[seg[q][i]] = qNext[seg[q][i]]
    OBVIOUS
  <2>1. Len(seg[q]) \in Nat /\ \A i \in 1 .. Len(seg[q]) : seg[q][i] \in List!Nodes
    BY <1>1, HeldTyped, AllocatedNodes
  <2>2. \A i \in 1 .. Len(seg[q]) : seg[q][i] # d
    BY <1>1, <1>2, <1>3, HeldOnce
  <2>3. QED
    BY <1>1, <2>1, <2>2 DEF ListTypeOK
<1>10. seg[o] \in Seq(List!Nodes)
  BY <1>1, <1>5, AllocatedNodes
<1>11. /\ r[o] \in Seq(List!Nodes) /\ Len(r[o]) = qSize[t] + 1 /\ r[o][qSize[t] + 1] = d
       /\ \A i \in 1 .. qSize[t] : r[o][i] = seg[o][i]
  <2>1. PICK z \in Seq(List!Nodes) : z = seg[o]
    BY <1>10
  <2>2. /\ Append(z, d) \in Seq(List!Nodes) /\ Len(Append(z, d)) = Len(z) + 1 /\ Append(z, d)[Len(z) + 1] = d
        /\ \A i \in 1 .. Len(z) : Append(z, d)[i] = z[i]
    BY <1>3
  <2>3. QED
    BY <1>5, <1>7, <2>1, <2>2
<1>12. Linked(qNext', r[o])
  <2> SUFFICES ASSUME NEW i \in 2 .. qSize[t] + 1 PROVE qNext'[r[o][i]] = r[o][i - 1]
    BY <1>11 DEF Linked
  <2>1. CASE i = qSize[t] + 1
    <3>1. qNext'[d] = qList[t]
      BY <1>1, <1>3 DEF ListTypeOK
    <3>2. qList[t] = seg[o][qSize[t]] /\ qSize[t] \in 1 .. qSize[t]
      BY <1>4, <1>5, <2>1 DEF HeldBy
    <3>3. i - 1 = qSize[t]
      BY <1>5, <2>1
    <3>4. QED
      BY <1>11, <2>1, <3>1, <3>2, <3>3
  <2>2. CASE i # qSize[t] + 1
    <3>1. i \in 2 .. Len(seg[o]) /\ i \in 1 .. qSize[t] /\ i - 1 \in 1 .. qSize[t]
      BY <1>5, <2>2
    <3>2. qNext[seg[o][i]] = seg[o][i - 1]
      BY <1>4, <1>5, <3>1 DEF HeldBy, Linked
    <3>3. QED
      BY <1>5, <1>9, <1>11, <3>1, <3>2
  <2>3. QED
    BY <2>1, <2>2
<1>13. d \notin ChunkHeads(seg)
  <2>1. SUFFICES ASSUME d \in ChunkHeads(seg) PROVE FALSE
    OBVIOUS
  <2>2. 1 \in 1 .. Len(seg[Queue]) /\ seg[Queue][1] = d
    BY <1>2, <1>3
  <2>3. Queue = ChunkOf(d)
    BY <1>1, <1>3, <2>1, <2>2, HeadsApart
  <2>4. QED
    BY <1>3, <2>3, HoldersApart
<1>14. QED
  <2>1. DummyMoved(seg, r, t, d)
    BY <1>3, <1>4, <1>7, <1>8, <1>9, <1>11, <1>12, <1>13 DEF DummyMoved
  <2>2. QED
    BY <2>1

\* try_dequeue with room in the list of the thread.
LEMMA DequeueStep ==
  ASSUME List!QueueConstants, NEW seg, NEW st, ListParts(seg, st), NEW t \in ListThreads, List!TryDequeue(t),
         qSize[t] + 1 < ListCapacity
  PROVE  ListInv'
<1> USE DEF List!memory, List!locals
<1>1. PICK d, n : d = qTail /\ n = qNext[qTail]
  OBVIOUS
<1>2. /\ qPc[t] = "idle" /\ n # List!Null /\ qValue' = [qValue EXCEPT ![n] = List!NoValue] /\ qTail' = n
      /\ qChain' = Tail(qChain) /\ qNext' = [qNext EXCEPT ![d] = qList[t]]
      /\ qList' = [qList EXCEPT ![t] = d] /\ qSize' = [qSize EXCEPT ![t] = qSize[t] + 1]
      /\ UNCHANGED <<qChunks, qPc, qNextChunk, qNodeCount, qTop, qMutex, qHead, qOld, qHand, qPushes>>
  <2>1. qSize[t] \in 0 .. ListCapacity /\ ListCapacity \in Nat
    BY NodeNames DEF ListParts, ListTypeOK
  <2>2. ~(qSize[t] + 1 >= ListCapacity)
    BY <2>1
  <2>3. QED
    BY <1>1, <2>2 DEF List!TryDequeue, List!Deallocate
<1>3. ListTypeOK /\ MutexOK /\ Phases /\ Pages /\ Held(seg) /\ Stacked(st) /\ TagsFresh /\ Chained
      /\ seg \in [Holders -> Seq(List!Nodes)] /\ st \in Seq(List!Nodes)
      /\ Partition(HeldChunks(st), ChunkHolders, ChunkHeads(seg))
  BY DEF ListParts
<1>a. PICK r : DummyMoved(seg, r, t, d)
  BY <1>1, <1>2, DummyMoves
<1>4. /\ DOMAIN r = Holders /\ r = [q \in Holders |-> r[q]] /\ Partition(r, Holders, List!Allocated)
      /\ r[Queue] = Tail(qChain) /\ r[ListOf(t)] \in Seq(List!Nodes)
      /\ Len(r[ListOf(t)]) = qSize[t] + 1 /\ r[ListOf(t)][qSize[t] + 1] = d
      /\ Linked(qNext', r[ListOf(t)]) /\ d \in List!Nodes /\ d \in List!Allocated
      /\ d \notin ChunkHeads(seg)
      /\ \A q \in Holders : q # Queue /\ q # ListOf(t) => r[q] = seg[q]
      /\ \A q \in Holders : q # Queue =>
           /\ Len(seg[q]) \in Nat
           /\ \A i \in 1 .. Len(seg[q]) : qNext'[seg[q][i]] = qNext[seg[q][i]]
  BY <1>a DEF DummyMoved
<1>5. n \in List!Nodes
  BY <1>1, <1>2, <1>3, <1>4 DEF ListTypeOK
<1>6. /\ qSize'[t] = qSize[t] + 1 /\ qList'[t] = d /\ qValue'[n] = List!NoValue
      /\ \A u \in ListThreads : u # t => qSize'[u] = qSize[u] /\ qList'[u] = qList[u]
      /\ \A m \in List!Nodes : m # n => qValue'[m] = qValue[m]
      /\ \A m \in List!Nodes : m # d => qNext'[m] = qNext[m]
  BY <1>2, <1>3, <1>4, <1>5 DEF ListTypeOK
<1>7. ListTypeOK' /\ MutexOK'
  <2>1. /\ qNext' \in [List!Nodes -> List!Nodes \cup {List!Null}]
        /\ qList' \in [ListThreads -> List!Nodes \cup {List!Null}]
        /\ qValue' \in [List!Nodes -> List!Values \cup {List!NoValue}]
    BY <1>2, <1>3, <1>4, <1>5 DEF ListTypeOK
  <2>2. qSize' \in [ListThreads -> 0 .. ListCapacity]
    BY <1>2, <1>3, NodeNames, SMTT(30) DEF ListTypeOK
  <2>3. qChain' \in Seq(List!Nodes)
    <3>1. qChain \in Seq(List!Nodes) /\ Len(qChain) > 0
      BY <1>3 DEF ListTypeOK, Chained
    <3>2. QED
      BY <1>2, <3>1
  <2>4. QED
    BY <1>2, <1>3, <2>1, <2>2, <2>3 DEF ListTypeOK, MutexOK
<1>8. Phase(t)'
  BY <1>2, <1>3, <1>6 DEF Phases, Phase, Pushing
<1>9. Phases' /\ Pages'
  BY <1>2, <1>3, <1>6, <1>8, PhasesKept, PagesKept
<1>10. Held(r)'
  <2>1. Partition(r, Holders, List!Allocated)' /\ r[Queue] = qChain'
    <3>1. List!Allocated' = List!Allocated
      BY <1>2 DEF List!Allocated, List!PageSize
    <3>2. QED
      BY <1>2, <1>4, <3>1
  <2>2. ASSUME NEW u \in ListThreads, u # t PROVE HeldBy(r, u)'
    <3>1. r[HandOf(u)] = seg[HandOf(u)] /\ r[ListOf(u)] = seg[ListOf(u)] /\ ListOf(u) \in Holders
            /\ ListOf(u) # Queue
      BY <1>4, <2>2, HoldersApart
    <3>2. HeldBy(seg, u)
      BY <1>3 DEF Held
    <3>3. QED
      BY <1>2, <1>4, <1>6, <2>2, <3>1, <3>2, HeldByKept
  <2>3. HeldBy(r, t)'
    <3>1. r[HandOf(t)] = seg[HandOf(t)] /\ HeldBy(seg, t)
      BY <1>3, <1>4, HoldersApart DEF Held
    <3>2. QED
      BY <1>2, <1>4, <1>6, <3>1 DEF HeldBy
  <2>4. ASSUME NEW c \in List!Nodes PROVE HeldInChunk(r, c)'
    <3>1. r[ChunkOf(c)] = seg[ChunkOf(c)] /\ ChunkOf(c) \in Holders /\ ChunkOf(c) # Queue
      BY <1>4, HoldersApart
    <3>2. HeldInChunk(seg, c)
      BY <1>3 DEF Held
    <3>3. QED
      BY <1>4, <3>1, <3>2, HeldInChunkKept
  <2>5. QED
    BY <2>1, <2>2, <2>3, <2>4 DEF Held
<1>11. ChunkHeads(r)' = ChunkHeads(seg)
  BY <1>4, HoldersApart DEF ChunkHeads
<1>12. Partition(HeldChunks(st), ChunkHolders, ChunkHeads(r))' /\ Stacked(st)'
  <2>1. Partition(HeldChunks(st), ChunkHolders, ChunkHeads(seg))' /\ Stacked(st)'
    BY <1>2, <1>3, StackKept
  <2>2. QED
    BY <1>11, <2>1 DEF ChunkHeads
<1>13. TagsFresh'
  BY <1>2, <1>3, TagsKept
<1>14. Chained'
  BY <1>1, <1>2, <1>3, <1>6, ChainShorter, SMTT(60)
<1>15. r \in [Holders -> Seq(List!Nodes)]
  BY <1>3, <1>4, PartNodes
<1>16. QED
  BY <1>2, <1>3, <1>7, <1>9, <1>10, <1>12, <1>13, <1>14, <1>15 DEF ListInv, ListParts

\* A chunk comes to the chunks that a thread pushes.
LEMMA ChunkAdded ==
  ASSUME NEW seg, NEW st, Partition(HeldChunks(st), ChunkHolders, ChunkHeads(seg)), NEW t \in ListThreads,
         qChunks \in [ListThreads -> Seq(List!Nodes)], NEW d, d \notin ChunkHeads(seg), qChunks[t] = <<>>,
         qChunks' = [qChunks EXCEPT ![t] = <<d>>]
  PROVE  Partition(HeldChunks(st)', ChunkHolders, ChunkHeads(seg) \cup {d})
<1>1. PICK s : s = HeldChunks(st)
  OBVIOUS
<1>2. PICK r : r = HeldChunks(st)'
  OBVIOUS
<1>3. PICK o : o = PushesOf(t)
  OBVIOUS
<1>4. o \in ChunkHolders /\ Stack \in ChunkHolders /\ \A u \in ListThreads : PushesOf(u) \in ChunkHolders
      /\ (PushesOf(u) = o => u = t) /\ PushesOf(u) # Stack
  BY <1>3 DEF ChunkHolders, PushesOf, Stack
<1>a. DOMAIN r = ChunkHolders /\ r = [p \in ChunkHolders |-> r[p]]
  BY <1>2 DEF HeldChunks
<1>5. s[o] = <<>> /\ r[o] = <<d>>
  BY <1>1, <1>2, <1>3, <1>4 DEF HeldChunks, PushesOf, Stack
<1>6. \A p \in ChunkHolders : p # o => r[p] = s[p]
  <2> SUFFICES ASSUME NEW p \in ChunkHolders, p # o PROVE r[p] = s[p]
    OBVIOUS
  <2>1. CASE p = Stack
    BY <1>1, <1>2, <2>1 DEF HeldChunks
  <2>2. ASSUME NEW u \in ListThreads, p = PushesOf(u) PROVE r[p] = s[p]
    <3>1. u # t /\ p # Stack /\ p[2] = u
      BY <1>3, <1>4, <2>2 DEF PushesOf
    <3>2. qChunks'[u] = qChunks[u]
      BY <3>1
    <3>3. QED
      BY <1>1, <1>2, <3>1, <3>2 DEF HeldChunks
  <2>3. QED
    BY <2>1, <2>2 DEF ChunkHolders
<1>7. r[o] = Append(s[o], d)
  <2>1. Append(<<>>, d) = <<d>>
    OBVIOUS
  <2>2. QED
    BY <1>5, <2>1
<1>8. Partition(s, ChunkHolders, ChunkHeads(seg))
  BY <1>1
<1>9. Partition(r, ChunkHolders, ChunkHeads(seg) \cup {d})
  <2>1. PICK A : A = ChunkHeads(seg)
    OBVIOUS
  <2>2. Partition(s, ChunkHolders, A) /\ d \notin A /\ o \in ChunkHolders
    BY <1>4, <1>8, <2>1
  <2>3. Partition(r, ChunkHolders, A \cup {d})
    <3>1. Adds(s, r, ChunkHolders, o, d)
      BY <1>6, <1>7, <1>a, <2>2 DEF Adds
    <3>2. QED
      BY <2>2, <3>1, AddNode
  <2>4. QED
    BY <2>1, <2>3
<1>10. QED
  BY <1>2, <1>9

\* The list of the thread is full: it becomes a chunk, and the thread pushes it.
LEMMA DequeueFullStep ==
  ASSUME List!QueueConstants, NEW seg, NEW st, ListParts(seg, st), NEW t \in ListThreads, List!TryDequeue(t),
         ~(qSize[t] + 1 < ListCapacity)
  PROVE  ListInv'
<1> USE DEF List!memory, List!locals
<1>1. PICK d, n : d = qTail /\ n = qNext[qTail]
  OBVIOUS
<1>2. /\ qPc[t] = "idle" /\ n # List!Null /\ qValue' = [qValue EXCEPT ![n] = List!NoValue] /\ qTail' = n
      /\ qChain' = Tail(qChain) /\ qNext' = [qNext EXCEPT ![d] = qList[t]]
      /\ qList' = [qList EXCEPT ![t] = List!Null] /\ qSize' = [qSize EXCEPT ![t] = 0]
      /\ qChunks' = [qChunks EXCEPT ![t] = <<d>>] /\ qPc' = [qPc EXCEPT ![t] = "linkChunk"]
      /\ UNCHANGED <<qNextChunk, qNodeCount, qTop, qMutex, qHead, qOld, qHand, qPushes>>
  <2>1. qSize[t] \in 0 .. ListCapacity /\ ListCapacity \in Nat
    BY NodeNames DEF ListParts, ListTypeOK
  <2>2. qSize[t] + 1 >= ListCapacity
    BY <2>1
  <2>3. QED
    BY <1>1, <2>2 DEF List!TryDequeue, List!Deallocate, List!Goto
<1>3. ListTypeOK /\ MutexOK /\ Phases /\ Pages /\ Held(seg) /\ Stacked(st) /\ TagsFresh /\ Chained
      /\ seg \in [Holders -> Seq(List!Nodes)] /\ st \in Seq(List!Nodes)
      /\ Partition(HeldChunks(st), ChunkHolders, ChunkHeads(seg))
  BY DEF ListParts
<1>b. qSize[t] + 1 = ListCapacity /\ ListCapacity \in Nat /\ ListCapacity > 0 /\ qChunks[t] = <<>>
        /\ qMutex # {t}
  <2>1. Phase(t) /\ qSize[t] \in 0 .. ListCapacity /\ ListCapacity \in Nat /\ ListCapacity > 0
    BY <1>3, NodeNames DEF ListTypeOK, Phases
  <2>2. qSize[t] < ListCapacity /\ qChunks[t] = <<>> /\ qMutex # {t}
    BY <1>2, <2>1 DEF Phase, Pushing
  <2>3. QED
    BY <2>1, <2>2
<1>a. PICK r : DummyMoved(seg, r, t, d)
  BY <1>1, <1>2, DummyMoves
<1>4. /\ DOMAIN r = Holders /\ r = [q \in Holders |-> r[q]] /\ Partition(r, Holders, List!Allocated)
      /\ r[Queue] = Tail(qChain) /\ r[ListOf(t)] \in Seq(List!Nodes)
      /\ Len(r[ListOf(t)]) = qSize[t] + 1 /\ r[ListOf(t)][qSize[t] + 1] = d
      /\ Linked(qNext', r[ListOf(t)]) /\ d \in List!Nodes /\ d \in List!Allocated
      /\ d \notin ChunkHeads(seg)
      /\ \A q \in Holders : q # Queue /\ q # ListOf(t) => r[q] = seg[q]
      /\ \A q \in Holders : q # Queue =>
           /\ Len(seg[q]) \in Nat
           /\ \A i \in 1 .. Len(seg[q]) : qNext'[seg[q][i]] = qNext[seg[q][i]]
  BY <1>a DEF DummyMoved
<1>5. n \in List!Nodes
  BY <1>1, <1>2, <1>3, <1>4 DEF ListTypeOK
<1>6. /\ qSize'[t] = 0 /\ qList'[t] = List!Null /\ qValue'[n] = List!NoValue /\ qChunks'[t] = <<d>>
      /\ qPc'[t] = "linkChunk"
      /\ \A u \in ListThreads : u # t => qSize'[u] = qSize[u] /\ qList'[u] = qList[u]
           /\ qChunks'[u] = qChunks[u] /\ qPc'[u] = qPc[u]
      /\ \A m \in List!Nodes : m # n => qValue'[m] = qValue[m]
      /\ \A m \in List!Nodes : m # d => qNext'[m] = qNext[m]
  BY <1>2, <1>3, <1>4, <1>5 DEF ListTypeOK
<1>c. PICK o, c : o = ListOf(t) /\ c = ChunkOf(d)
  OBVIOUS
<1>d. o \in Holders /\ c \in Holders /\ o # c /\ o # Queue /\ c # Queue /\ r[c] = <<>>
  BY <1>4, <1>c, HoldersApart DEF ChunkHeads
<1>e. PICK s : s = [q \in Holders |-> IF q = o THEN r[c] ELSE IF q = c THEN r[o] ELSE r[q]]
  OBVIOUS
<1>f. /\ DOMAIN s = Holders /\ s = [q \in Holders |-> s[q]] /\ s[o] = r[c] /\ s[c] = r[o]
      /\ \A q \in Holders : q # o /\ q # c => s[q] = r[q]
  BY <1>d, <1>e
<1>g. Partition(s, Holders, List!Allocated)
  BY <1>4, <1>d, <1>f, Swap
<1>7. ListTypeOK' /\ MutexOK'
  <2>1. /\ qNext' \in [List!Nodes -> List!Nodes \cup {List!Null}]
        /\ qList' \in [ListThreads -> List!Nodes \cup {List!Null}]
        /\ qValue' \in [List!Nodes -> List!Values \cup {List!NoValue}] /\ qPc' \in [ListThreads -> Labels]
    BY <1>2, <1>3, <1>4, <1>5 DEF ListTypeOK, Labels
  <2>2. qSize' \in [ListThreads -> 0 .. ListCapacity]
    BY <1>2, <1>3, NodeNames DEF ListTypeOK
  <2>3. qChain' \in Seq(List!Nodes)
    <3>1. qChain \in Seq(List!Nodes) /\ Len(qChain) > 0
      BY <1>3 DEF ListTypeOK, Chained
    <3>2. QED
      BY <1>2, <3>1
  <2>4. qChunks' \in [ListThreads -> Seq(List!Nodes)]
    <3>1. <<d>> \in Seq(List!Nodes)
      BY <1>4
    <3>2. QED
      BY <1>2, <1>3, <3>1 DEF ListTypeOK
  <2>5. QED
    BY <1>2, <1>3, <2>1, <2>2, <2>3, <2>4 DEF ListTypeOK, MutexOK
<1>8. Phase(t)'
  <2>1. <<d>> # <<>>
    OBVIOUS
  <2>2. QED
    BY <1>2, <1>6, <1>b, <2>1 DEF Phase, Pushing
<1>9. Phases' /\ Pages'
  BY <1>2, <1>3, <1>6, <1>8, PhasesKept, PagesKept
<1>10. Held(s)'
  <2>1. Partition(s, Holders, List!Allocated)' /\ s[Queue] = qChain'
    <3>1. List!Allocated' = List!Allocated
      BY <1>2 DEF List!Allocated, List!PageSize
    <3>2. s[Queue] = r[Queue]
      BY <1>d, <1>f, HoldersApart
    <3>3. QED
      BY <1>2, <1>4, <1>g, <3>1, <3>2
  <2>2. ASSUME NEW u \in ListThreads, u # t PROVE HeldBy(s, u)'
    <3>1. s[HandOf(u)] = seg[HandOf(u)] /\ s[ListOf(u)] = seg[ListOf(u)] /\ ListOf(u) \in Holders
            /\ ListOf(u) # Queue
      BY <1>4, <1>c, <1>f, <2>2, HoldersApart
    <3>2. HeldBy(seg, u)
      BY <1>3 DEF Held
    <3>3. QED
      BY <1>2, <1>4, <1>6, <2>2, <3>1, <3>2, HeldByKept
  <2>3. HeldBy(s, t)'
    <3>1. s[HandOf(t)] = seg[HandOf(t)] /\ HeldBy(seg, t) /\ s[ListOf(t)] = <<>>
      BY <1>3, <1>4, <1>c, <1>d, <1>f, HoldersApart DEF Held
    <3>2. Linked(qNext', <<>>) /\ Len(<<>>) = 0
      BY DEF Linked
    <3>3. QED
      BY <1>2, <1>6, <3>1, <3>2 DEF HeldBy
  <2>4. ASSUME NEW e \in List!Nodes PROVE HeldInChunk(s, e)'
    <3>1. CASE e = d
      BY <1>4, <1>b, <1>c, <1>f, <3>1 DEF HeldInChunk
    <3>2. CASE e # d
      <4>1. s[ChunkOf(e)] = seg[ChunkOf(e)] /\ ChunkOf(e) \in Holders /\ ChunkOf(e) # Queue
        BY <1>4, <1>c, <1>f, <3>2, HoldersApart
      <4>2. HeldInChunk(seg, e)
        BY <1>3 DEF Held
      <4>3. QED
        BY <1>4, <4>1, <4>2, HeldInChunkKept
    <3>3. QED
      BY <3>1, <3>2
  <2>5. QED
    BY <2>1, <2>2, <2>3, <2>4 DEF Held
<1>11. ChunkHeads(s)' = ChunkHeads(seg) \cup {d}
  <2>1. s[ChunkOf(d)] # <<>>
    BY <1>4, <1>b, <1>c, <1>f
  <2>2. \A e \in List!Nodes : e # d => s[ChunkOf(e)] = seg[ChunkOf(e)]
    BY <1>4, <1>c, <1>f, HoldersApart
  <2>3. QED
    BY <1>4, <2>1, <2>2 DEF ChunkHeads
<1>12. Partition(HeldChunks(st), ChunkHolders, ChunkHeads(s))' /\ Stacked(st)'
  <2>1. Partition(HeldChunks(st)', ChunkHolders, ChunkHeads(seg) \cup {d})
    <3>1. /\ qChunks \in [ListThreads -> Seq(List!Nodes)] /\ qChunks[t] = <<>>
          /\ qChunks' = [qChunks EXCEPT ![t] = <<d>>] /\ d \notin ChunkHeads(seg)
      BY <1>2, <1>3, <1>4, <1>b DEF ListTypeOK
    <3>2. Partition(HeldChunks(st), ChunkHolders, ChunkHeads(seg))
      BY <1>3
    <3>3. QED
      BY <3>1, <3>2, ChunkAdded
  <2>2. Stacked(st)'
    BY <1>2, <1>3 DEF Stacked
  <2>3. QED
    BY <1>11, <2>1, <2>2
<1>13. TagsFresh'
  BY <1>2, <1>3, <1>6, TagsKept
<1>14. Chained'
  BY <1>1, <1>2, <1>3, <1>6, ChainShorter, SMTT(60)
<1>15. s \in [Holders -> Seq(List!Nodes)]
  BY <1>3, <1>f, <1>g, PartNodes
<1>16. QED
  BY <1>2, <1>3, <1>7, <1>9, <1>10, <1>12, <1>13, <1>14, <1>15 DEF ListInv, ListParts

\* Who holds which chunks.
LEMMA ChunkHoldersApart ==
  /\ Stack \in ChunkHolders
  /\ \A u \in ListThreads : PushesOf(u) \in ChunkHolders /\ PushesOf(u) # Stack
  /\ \A u, v \in ListThreads : PushesOf(u) = PushesOf(v) => u = v
  /\ \A o \in ChunkHolders : o = Stack \/ \E u \in ListThreads : o = PushesOf(u)
  BY DEF ChunkHolders, PushesOf, Stack

\* What the holders of chunks hold.
LEMMA HeldChunksAre ==
  ASSUME NEW st
  PROVE  /\ DOMAIN HeldChunks(st) = ChunkHolders
         /\ HeldChunks(st) = [o \in ChunkHolders |-> HeldChunks(st)[o]]
         /\ HeldChunks(st)[Stack] = st /\ \A u \in ListThreads : HeldChunks(st)[PushesOf(u)] = qChunks[u]
  BY ChunkHoldersApart DEF HeldChunks, PushesOf, Stack

\* What they hold after a step.
LEMMA HeldChunksNext ==
  ASSUME NEW st
  PROVE  /\ DOMAIN HeldChunks(st)' = ChunkHolders
         /\ HeldChunks(st)' = [o \in ChunkHolders |-> HeldChunks(st)'[o]]
         /\ HeldChunks(st)'[Stack] = st /\ \A u \in ListThreads : HeldChunks(st)'[PushesOf(u)] = qChunks'[u]
  BY ChunkHoldersApart DEF HeldChunks, PushesOf, Stack

\* The top of the stack leaves it.
LEMMA StackPopped ==
  ASSUME NEW seg, NEW st \in Seq(List!Nodes), Len(st) > 0, NEW st2 \in Seq(List!Nodes), Len(st2) = Len(st) - 1,
         \A i \in 1 .. Len(st2) : st2[i] = st[i], UNCHANGED qChunks,
         Partition(HeldChunks(st), ChunkHolders, ChunkHeads(seg))
  PROVE  Partition(HeldChunks(st2)', ChunkHolders, ChunkHeads(seg) \ {st[Len(st)]})
<1>1. PICK s : s = HeldChunks(st)
  OBVIOUS
<1>2. PICK r : r = HeldChunks(st2)'
  OBVIOUS
<1>3. /\ DOMAIN r = ChunkHolders /\ r = [o \in ChunkHolders |-> r[o]] /\ r[Stack] = st2 /\ s[Stack] = st
      /\ Stack \in ChunkHolders
      /\ \A p \in ChunkHolders : p # Stack => r[p] = s[p]
  BY <1>1, <1>2, HeldChunksAre, HeldChunksNext, ChunkHoldersApart
<1>4. PICK A : A = ChunkHeads(seg)
  OBVIOUS
<1>5. Partition(s, ChunkHolders, A) /\ r[Stack] \in Seq(A)
  <2>1. Partition(s, ChunkHolders, A)
    BY <1>1, <1>4
  <2>2. st \in Seq(A)
    BY <1>3, <2>1, PartTyped
  <2>3. \A i \in 1 .. Len(st2) : st2[i] \in A
    BY <2>2
  <2>4. st2 = [i \in 1 .. Len(st2) |-> st2[i]] /\ Len(st2) \in Nat
    OBVIOUS
  <2>5. st2 \in Seq(A)
    BY <2>3, <2>4, FunctionIsSeq
  <2>6. QED
    BY <1>3, <2>1, <2>5
<1>6. /\ Len(s[Stack]) > 0 /\ Len(r[Stack]) = Len(s[Stack]) - 1
      /\ \A i \in 1 .. Len(r[Stack]) : r[Stack][i] = s[Stack][i]
  BY <1>3
<1>7. Partition(r, ChunkHolders, A \ {s[Stack][Len(s[Stack])]})
  BY <1>3, <1>5, <1>6, DropLast
<1>8. QED
  BY <1>2, <1>3, <1>4, <1>7

\* The first chunk of a thread comes onto the stack.
LEMMA StackPushed ==
  ASSUME NEW seg, NEW st \in Seq(List!Nodes), NEW t \in ListThreads,
         qChunks \in [ListThreads -> Seq(List!Nodes)],
         Len(qChunks[t]) > 0, qChunks' = [qChunks EXCEPT ![t] = Tail(qChunks[t])],
         Partition(HeldChunks(st), ChunkHolders, ChunkHeads(seg)), NEW st2, st2 = Append(st, qChunks[t][1])
  PROVE  Partition(HeldChunks(st2)', ChunkHolders, ChunkHeads(seg))
<1>1. PICK s : s = HeldChunks(st)
  OBVIOUS
<1>2. PICK r : r = HeldChunks(st2)'
  OBVIOUS
<1>3. PICK o : o = PushesOf(t)
  OBVIOUS
<1>4. /\ DOMAIN r = ChunkHolders /\ r = [p \in ChunkHolders |-> r[p]] /\ r[Stack] = Append(s[Stack], s[o][1])
      /\ Stack \in ChunkHolders /\ o \in ChunkHolders /\ o # Stack /\ r[o] = Tail(s[o]) /\ s[o] = qChunks[t]
  <2>1. DOMAIN r = ChunkHolders /\ r = [p \in ChunkHolders |-> r[p]]
    BY <1>2, HeldChunksNext
  <2>2. s[Stack] = st /\ r[Stack] = st2 /\ s[o] = qChunks[t] /\ r[o] = qChunks'[t]
    BY <1>1, <1>2, <1>3, HeldChunksAre, HeldChunksNext
  <2>3. qChunks'[t] = Tail(qChunks[t])
    OBVIOUS
  <2>4. QED
    BY <1>3, <2>1, <2>2, <2>3, ChunkHoldersApart
<1>5. \A p \in ChunkHolders : p # Stack /\ p # o => r[p] = s[p]
  <2> SUFFICES ASSUME NEW p \in ChunkHolders, p # Stack, p # o PROVE r[p] = s[p]
    OBVIOUS
  <2>1. PICK u \in ListThreads : p = PushesOf(u)
    BY ChunkHoldersApart
  <2>2. u # t
    BY <1>3, <2>1
  <2>3. qChunks'[u] = qChunks[u]
    BY <2>2
  <2>4. QED
    BY <1>1, <1>2, <2>1, <2>3, HeldChunksAre, HeldChunksNext
<1>6. MovesFirst(s, r, ChunkHolders, o, Stack)
  BY <1>4, <1>5 DEF MovesFirst
<1>7. Partition(s, ChunkHolders, ChunkHeads(seg))
  BY <1>1
<1>8. QED
  BY <1>2, <1>6, <1>7, MoveFirst

\* A chunk of the stack becomes the list of the thread.
LEMMA PopChunkStep ==
  ASSUME List!QueueConstants, NEW seg, NEW st, ListParts(seg, st), NEW t \in ListThreads, List!PopChunk(t),
         qTop = qOld[t]
  PROVE  ListInv'
<1> USE DEF List!memory, List!locals
<1>1. PICK d : d = qTop[1]
  OBVIOUS
<1>2. /\ qPc[t] = "popChunk" /\ qHand' = [qHand EXCEPT ![t] = List!Null] /\ qTop' = <<qHand[t], qTop[2] + 1>>
      /\ qList' = [qList EXCEPT ![t] = d] /\ qSize' = [qSize EXCEPT ![t] = ListCapacity]
      /\ qOld' = [qOld EXCEPT ![t] = List!NoTop] /\ qPc' = [qPc EXCEPT ![t] = "take"]
      /\ UNCHANGED <<qNext, qNextChunk, qValue, qNodeCount, qMutex, qHead, qTail, qChunks, qPushes, qPopped,
           qChain>>
  BY <1>1 DEF List!PopChunk, List!Goto
<1>3. ListTypeOK /\ MutexOK /\ Phases /\ Pages /\ Held(seg) /\ Stacked(st) /\ TagsFresh /\ Chained
      /\ seg \in [Holders -> Seq(List!Nodes)] /\ st \in Seq(List!Nodes)
      /\ Partition(HeldChunks(st), ChunkHolders, ChunkHeads(seg))
  BY DEF ListParts
<1>4. d \in List!Nodes /\ qHand[t] = qNextChunk[d] /\ qTop \in (List!Nodes \cup {List!Null}) \X Nat
  BY <1>1, <1>2, <1>3 DEF TagsFresh, ListTypeOK
<1>5. /\ st # <<>> /\ Len(st) \in Nat /\ Len(st) > 0 /\ d = st[Len(st)] /\ Len(st) \in 1 .. Len(st)
      /\ d \in ChunkHeads(seg)
  BY <1>1, <1>4, NodeNames, TopIsChunk
<1>6. PICK st2 \in Seq(List!Nodes) : Len(st2) = Len(st) - 1 /\ \A i \in 1 .. Len(st2) : st2[i] = st[i]
  BY <1>3, <1>5, Front
<1>7. qNextChunk[d] = IF st2 = <<>> THEN List!Null ELSE st2[Len(st2)]
  <2>1. CASE Len(st) = 1
    <3>1. st2 = <<>>
      BY <1>6, <2>1
    <3>2. QED
      BY <1>3, <1>5, <2>1, <3>1 DEF Stacked
  <2>2. CASE Len(st) # 1
    <3>1. Len(st) \in 2 .. Len(st) /\ Len(st2) \in 1 .. Len(st2) /\ st2 # <<>>
      BY <1>5, <1>6, <2>2
    <3>2. qNextChunk[st[Len(st)]] = st[Len(st) - 1]
      BY <1>3, <3>1 DEF Stacked, Linked
    <3>3. QED
      BY <1>5, <1>6, <3>1, <3>2
  <2>3. QED
    BY <2>1, <2>2
<1>8. qHand[t] \in List!Nodes \cup {List!Null}
  BY <1>4, <1>6, <1>7
<1>b. Phase(t) /\ qSize[t] = 0 /\ ListCapacity \in Nat /\ ListCapacity > 0 /\ qChunks[t] = <<>> /\ qMutex # {t}
        /\ qPushes[t] > 0
  BY <1>2, <1>3, NodeNames DEF Phases, Phase, Pushing
<1>9. /\ qSize'[t] = ListCapacity /\ qList'[t] = d /\ qPc'[t] = "take" /\ qTop'[1] = qHand[t]
      /\ qTop'[2] = qTop[2] + 1
      /\ \A u \in ListThreads : u # t => qSize'[u] = qSize[u] /\ qList'[u] = qList[u] /\ qPc'[u] = qPc[u]
                                         /\ qOld'[u] = qOld[u] /\ qHand'[u] = qHand[u]
  BY <1>2, <1>3 DEF ListTypeOK
<1>10. ListTypeOK' /\ MutexOK'
  <2>1. /\ qList' \in [ListThreads -> List!Nodes \cup {List!Null}] /\ qPc' \in [ListThreads -> Labels]
        /\ qHand' \in [ListThreads -> List!Nodes \cup {List!Null, List!Garbage}]
    BY <1>2, <1>3, <1>4 DEF ListTypeOK, Labels
  <2>2. qSize' \in [ListThreads -> 0 .. ListCapacity]
    BY <1>2, <1>3, <1>b DEF ListTypeOK
  <2>3. qOld' \in [ListThreads -> (List!Nodes \cup {List!Null}) \X Nat]
    BY <1>2, <1>3 DEF ListTypeOK, List!NoTop
  <2>4. qTop' \in (List!Nodes \cup {List!Null}) \X Nat
    BY <1>2, <1>4, <1>8
  <2>5. QED
    BY <1>2, <1>3, <2>1, <2>2, <2>3, <2>4 DEF ListTypeOK, MutexOK
<1>11. Phase(t)'
  BY <1>2, <1>9, <1>b DEF Phase, Pushing
<1>12. Phases' /\ Pages'
  BY <1>2, <1>3, <1>9, <1>11, PhasesKept, PagesKept
<1>c. PICK o, c : o = ListOf(t) /\ c = ChunkOf(d)
  OBVIOUS
<1>d. o \in Holders /\ c \in Holders /\ o # c /\ o # Queue /\ c # Queue
  BY <1>4, <1>c, HoldersApart
<1>e. PICK s : s = [q \in Holders |-> IF q = o THEN seg[c] ELSE IF q = c THEN seg[o] ELSE seg[q]]
  OBVIOUS
<1>f. /\ DOMAIN s = Holders /\ s = [q \in Holders |-> s[q]] /\ s[o] = seg[c] /\ s[c] = seg[o]
      /\ \A q \in Holders : q # o /\ q # c => s[q] = seg[q]
  BY <1>d, <1>e
<1>g. Partition(s, Holders, List!Allocated)
  <2>1. Partition(seg, Holders, List!Allocated)
    BY <1>3 DEF Held
  <2>2. QED
    BY <1>d, <1>f, <2>1, Swap
<1>h. s[c] = <<>>
  <2>1. Len(seg[o]) = 0 /\ seg[o] \in Seq(List!Allocated)
    BY <1>3, <1>b, <1>c, <1>d, HeldTyped DEF Held, HeldBy
  <2>2. QED
    BY <1>f, <2>1
<1>13. Held(s)'
  <2>1. Partition(s, Holders, List!Allocated)' /\ s[Queue] = qChain'
    <3>1. List!Allocated' = List!Allocated
      BY <1>2 DEF List!Allocated, List!PageSize
    <3>2. s[Queue] = seg[Queue]
      BY <1>d, <1>f, HoldersApart
    <3>3. QED
      BY <1>2, <1>3, <1>g, <3>1, <3>2 DEF Held
  <2>2. ASSUME NEW u \in ListThreads, u # t PROVE HeldBy(s, u)'
    <3>1. s[HandOf(u)] = seg[HandOf(u)] /\ s[ListOf(u)] = seg[ListOf(u)] /\ ListOf(u) \in Holders
      BY <1>c, <1>f, <1>4, <2>2, HoldersApart
    <3>2. HeldBy(seg, u) /\ Len(seg[ListOf(u)]) \in Nat
      BY <1>3, <3>1, HeldTyped DEF Held
    <3>3. QED
      BY <1>2, <1>9, <2>2, <3>1, <3>2, HeldByKept
  <2>3. HeldBy(s, t)'
    <3>1. s[HandOf(t)] = seg[HandOf(t)] /\ HeldBy(seg, t) /\ s[ListOf(t)] = seg[ChunkOf(d)]
      BY <1>3, <1>4, <1>c, <1>f, HoldersApart DEF Held
    <3>2. /\ Len(seg[ChunkOf(d)]) = ListCapacity /\ seg[ChunkOf(d)][ListCapacity] = d
          /\ Linked(qNext, seg[ChunkOf(d)])
      BY <1>3, <1>4, <1>5 DEF Held, HeldInChunk, ChunkHeads
    <3>3. s[HandOf(t)] = <<>>
      BY <1>2, <3>1 DEF HeldBy
    <3>4. QED
      BY <1>2, <1>9, <3>1, <3>2, <3>3 DEF HeldBy
  <2>4. ASSUME NEW e \in List!Nodes PROVE HeldInChunk(s, e)'
    <3>1. CASE e = d
      BY <1>c, <1>h, <3>1 DEF HeldInChunk
    <3>2. CASE e # d
      <4>1. s[ChunkOf(e)] = seg[ChunkOf(e)] /\ ChunkOf(e) \in Holders
        BY <1>4, <1>c, <1>f, <3>2, HoldersApart
      <4>2. HeldInChunk(seg, e) /\ Len(seg[ChunkOf(e)]) \in Nat
        BY <1>3, <4>1, HeldTyped DEF Held
      <4>3. QED
        BY <1>2, <4>1, <4>2, HeldInChunkKept
    <3>3. QED
      BY <3>1, <3>2
  <2>5. QED
    BY <2>1, <2>2, <2>3, <2>4 DEF Held
<1>14. ChunkHeads(s)' = ChunkHeads(seg) \ {d}
  <2>1. \A e \in List!Nodes : e # d => s[ChunkOf(e)] = seg[ChunkOf(e)]
    BY <1>4, <1>c, <1>f, HoldersApart
  <2>2. QED
    BY <1>4, <1>c, <1>h, <2>1 DEF ChunkHeads
<1>15. Partition(HeldChunks(st2), ChunkHolders, ChunkHeads(s))' /\ Stacked(st2)'
  <2>1. Partition(HeldChunks(st2)', ChunkHolders, ChunkHeads(seg) \ {st[Len(st)]})
    BY <1>2, <1>3, <1>5, <1>6, StackPopped
  <2>2. Stacked(st2)'
    <3>1. qTop'[1] = IF st2 = <<>> THEN List!Null ELSE st2[Len(st2)]
      BY <1>4, <1>7, <1>9
    <3>2. Len(st2) \in Nat /\ (st2 # <<>> => st2[1] = st[1])
      BY <1>6
    <3>3. Linked(qNextChunk, st2)
      <4> SUFFICES ASSUME NEW i \in 2 .. Len(st2) PROVE qNextChunk[st2[i]] = st2[i - 1]
        BY DEF Linked
      <4>1. i \in 2 .. Len(st) /\ i \in 1 .. Len(st2) /\ i - 1 \in 1 .. Len(st2)
        BY <1>5, <1>6
      <4>2. QED
        BY <1>3, <1>6, <4>1 DEF Stacked, Linked
    <3>4. QED
      BY <1>2, <1>3, <1>5, <3>1, <3>2, <3>3 DEF Stacked
  <2>3. QED
    BY <1>5, <1>14, <2>1, <2>2
<1>16. TagsFresh'
  <2>1. ASSUME NEW u \in ListThreads, qPc'[u] \in {"readChunk", "popChunk"}
        PROVE  qOld'[u][1] \in List!Nodes /\ qOld'[u][2] <= qTop'[2] /\ qOld'[u][2] # qTop'[2]
    <3>1. u # t /\ qPc[u] = qPc'[u] /\ qOld'[u] = qOld[u]
      BY <1>9, <2>1
    <3>2. qOld[u][1] \in List!Nodes /\ qOld[u][2] <= qTop[2] /\ qOld[u] \in (List!Nodes \cup {List!Null}) \X Nat
      BY <1>3, <2>1, <3>1 DEF TagsFresh, ListTypeOK
    <3>3. QED
      BY <1>4, <1>9, <3>1, <3>2
  <2>2. ASSUME NEW u \in ListThreads, qPc'[u] = "pushChunk"
        PROVE  qNextChunk'[Head(qChunks'[u])] = qOld'[u][1]
    BY <1>2, <1>3, <1>9, <2>2 DEF TagsFresh
  <2>3. QED
    BY <2>1, <2>2 DEF TagsFresh
<1>17. Chained'
  BY <1>2, <1>3, <1>9, ChainedKept
<1>18. s \in [Holders -> Seq(List!Nodes)]
  BY <1>3, <1>f, <1>g, PartNodes
<1>19. QED
  BY <1>2, <1>3, <1>6, <1>10, <1>12, <1>13, <1>15, <1>16, <1>17, <1>18 DEF ListInv, ListParts

\* The compare-exchange of push: the chunk is the top of the stack.
LEMMA PushChunkStep ==
  ASSUME List!QueueConstants, NEW seg, NEW st, ListParts(seg, st), NEW t \in ListThreads, List!PushChunk(t),
         qTop = qOld[t]
  PROVE  ListInv'
<1> USE DEF List!memory, List!locals
<1>1. PICK d : d = Head(qChunks[t])
  OBVIOUS
<1>2. /\ qPc[t] = "pushChunk" /\ qTop' = <<d, qTop[2] + 1>>
      /\ qChunks' = [qChunks EXCEPT ![t] = Tail(qChunks[t])]
      /\ qOld' = [qOld EXCEPT ![t] = List!NoTop]
      /\ qPc' = [qPc EXCEPT ![t] = IF Len(qChunks[t]) # 1 THEN "linkChunk"
                                     ELSE IF qMutex = {t} THEN "loadTop" ELSE "idle"]
      /\ qMutex' = IF Len(qChunks[t]) = 1 THEN qMutex \ {t} ELSE qMutex
      /\ qNodeCount' = IF Len(qChunks[t]) = 1 /\ qMutex = {t} THEN qNodeCount + List!PageSize ELSE qNodeCount
      /\ UNCHANGED <<qNext, qNextChunk, qValue, qList, qSize, qHead, qTail, qHand, qPushes, qPopped, qChain>>
  BY <1>1 DEF List!PushChunk, List!Goto
<1>3. ListTypeOK /\ MutexOK /\ Phases /\ Pages /\ Held(seg) /\ Stacked(st) /\ TagsFresh /\ Chained
      /\ seg \in [Holders -> Seq(List!Nodes)] /\ st \in Seq(List!Nodes)
      /\ Partition(HeldChunks(st), ChunkHolders, ChunkHeads(seg))
  BY DEF ListParts
<1>4. /\ qChunks[t] \in Seq(List!Nodes) /\ qChunks[t] # <<>> /\ Len(qChunks[t]) \in Nat /\ Len(qChunks[t]) > 0
      /\ d = qChunks[t][1] /\ d \in List!Nodes /\ d \in ChunkHeads(seg)
  <2>1. /\ qChunks[t] \in Seq(List!Nodes) /\ qChunks[t] # <<>> /\ d = qChunks[t][1] /\ d \in List!Nodes
        /\ d \in ChunkHeads(seg)
    BY <1>1, <1>2, FirstChunk DEF Pushing
  <2>2. QED
    BY <2>1
<1>5. qNextChunk[d] = qTop[1] /\ qTop \in (List!Nodes \cup {List!Null}) \X Nat
  BY <1>1, <1>2, <1>3 DEF TagsFresh, ListTypeOK
<1>6. PICK tl \in Seq(List!Nodes) : tl = Tail(qChunks[t]) /\ Len(tl) = Len(qChunks[t]) - 1
                                    /\ (tl = <<>> <=> Len(qChunks[t]) = 1)
  <2>1. PICK z \in Seq(List!Nodes) : z = qChunks[t] /\ z # <<>>
    BY <1>4
  <2>2. Tail(z) \in Seq(List!Nodes) /\ Len(Tail(z)) = Len(z) - 1 /\ (Tail(z) = <<>> <=> Len(z) = 1)
    <3>1. Tail(z) \in Seq(List!Nodes) /\ Len(Tail(z)) = Len(z) - 1 /\ Len(z) \in Nat
      BY <2>1
    <3>2. Tail(z) = <<>> <=> Len(Tail(z)) = 0
      <4>1. PICK w \in Seq(List!Nodes) : w = Tail(z)
        BY <3>1
      <4>2. w = <<>> <=> Len(w) = 0
        OBVIOUS
      <4>3. QED
        BY <4>1, <4>2
    <3>3. QED
      BY <3>1, <3>2
  <2>3. QED
    BY <2>1, <2>2
<1>8. List!PageSize = qNodeCount /\ qNodeCount \in Nat /\ qNodeCount > 0
  BY <1>3, PageDoubles
<1>9. qMutex' \in {qMutex, {}} /\ (qMutex' # qMutex => qMutex = {t} /\ Len(qChunks[t]) = 1 /\ qMutex' = {})
      /\ (qMutex = {t} /\ Len(qChunks[t]) = 1 => qMutex' = {})
      /\ (qMutex' = qMutex => qMutex # {t} \/ Len(qChunks[t]) # 1)
  <2>1. CASE qMutex = {}
    BY <1>2, <2>1
  <2>2. CASE qMutex = {t}
    BY <1>2, <2>2
  <2>3. ASSUME NEW u \in ListThreads, qMutex = {u}, u # t PROVE qMutex' = qMutex /\ qMutex # {t}
    <3>1. qMutex # {t} /\ qMutex \ {t} = qMutex
      BY <2>3
    <3>2. QED
      BY <1>2, <3>1
  <2>4. CASE \E u \in ListThreads : qMutex = {u} /\ u # t
    BY <2>3, <2>4
  <2>5. QED
    BY <1>3, <2>1, <2>2, <2>4 DEF MutexOK
<1>10. /\ qChunks'[t] = tl /\ qTop'[1] = d /\ qTop'[2] = qTop[2] + 1
       /\ qPc'[t] = (IF Len(qChunks[t]) # 1 THEN "linkChunk" ELSE IF qMutex = {t} THEN "loadTop" ELSE "idle")
       /\ \A u \in ListThreads : u # t => qChunks'[u] = qChunks[u] /\ qPc'[u] = qPc[u] /\ qOld'[u] = qOld[u]
  BY <1>2, <1>3, <1>6 DEF ListTypeOK
<1>11. Pages' /\ List!Allocated' = List!Allocated
  <2>1. CASE qMutex = {t} /\ Len(qChunks[t]) = 1
    <3>1. PICK m \in Nat \ {0} : qNodeCount = m * ListCapacity
      BY <1>3 DEF Pages
    <3>2. qNodeCount' = qNodeCount + qNodeCount /\ qMutex' = {} /\ qMutex # {}
      BY <1>2, <1>8, <1>9, <2>1
    <3>3. m + m \in Nat \ {0} /\ qNodeCount' = (m + m) * ListCapacity
      BY <3>1, <3>2, NodeNames
    <3>4. qNodeCount + qNodeCount <= ListNodes
      BY <1>3, <1>8, <3>2 DEF Pages
    <3>5. qNodeCount' <= ListNodes /\ qNodeCount' \in Nat
      BY <1>8, <3>2, <3>4
    <3>6. Pages'
      BY <3>2, <3>3, <3>5, NodeNames DEF Pages
    <3>7. List!Allocated' = List!Allocated
      BY <1>8, <3>2 DEF List!Allocated
    <3>8. QED
      BY <3>6, <3>7
  <2>2. CASE ~(qMutex = {t} /\ Len(qChunks[t]) = 1)
    <3>1. qMutex' = qMutex /\ qNodeCount' = qNodeCount
      BY <1>2, <1>9, <2>2
    <3>2. QED
      BY <1>3, <3>1, PagesKept DEF List!Allocated, List!PageSize
  <2>3. QED
    BY <2>1, <2>2
<1>12. ListTypeOK'
  <2>1. qPc' \in [ListThreads -> Labels]
    BY <1>2, <1>3 DEF ListTypeOK, Labels
  <2>2. qChunks' \in [ListThreads -> Seq(List!Nodes)]
    BY <1>2, <1>3, <1>6 DEF ListTypeOK
  <2>3. qOld' \in [ListThreads -> (List!Nodes \cup {List!Null}) \X Nat]
    BY <1>2, <1>3 DEF ListTypeOK, List!NoTop
  <2>4. qTop' \in (List!Nodes \cup {List!Null}) \X Nat
    BY <1>2, <1>4, <1>5
  <2>5. qNodeCount' \in Nat
    BY <1>2, <1>8
  <2>6. QED
    BY <1>2, <1>3, <2>1, <2>2, <2>3, <2>4, <2>5 DEF ListTypeOK
<1>13. MutexOK'
  BY <1>3, <1>9 DEF MutexOK
<1>14. Phases'
  <2>1. ASSUME NEW u \in ListThreads, u # t PROVE Phase(u)'
    <3>1. Phase(u) /\ (qMutex' = {u} => qMutex = {u})
      BY <1>3, <1>9 DEF Phases
    <3>2. QED
      BY <1>2, <1>10, <2>1, <3>1 DEF Phase
  <2>2. Phase(t)'
    <3>1. Phase(t) /\ qSize[t] = 0 /\ ListCapacity \in Nat /\ ListCapacity > 0
      BY <1>2, <1>3, NodeNames DEF Phases, Phase, Pushing
    <3>2. qMutex' = {t} => qMutex = {t} /\ Len(qChunks[t]) # 1
      BY <1>9
    <3>3. qMutex = {t} => qPushes[t] > 0
      BY <3>1 DEF Phase
    <3>4. qSize'[t] = 0 /\ qPushes'[t] = qPushes[t]
      BY <1>2, <3>1
    <3>5. CASE Len(qChunks[t]) = 1
      <4>1. qChunks'[t] = <<>> /\ qPc'[t] = (IF qMutex = {t} THEN "loadTop" ELSE "idle") /\ qMutex' # {t}
        BY <1>6, <1>10, <3>2, <3>5
      <4>2. QED
        BY <3>1, <3>3, <3>4, <4>1 DEF Phase, Pushing
    <3>6. CASE Len(qChunks[t]) # 1
      <4>1. qChunks'[t] # <<>> /\ qPc'[t] = "linkChunk"
        BY <1>6, <1>10, <3>6
      <4>2. QED
        BY <3>1, <3>2, <3>3, <3>4, <4>1 DEF Phase, Pushing
    <3>7. QED
      BY <3>5, <3>6
  <2>3. QED
    BY <2>1, <2>2 DEF Phases
<1>15. Held(seg)' /\ ChunkHeads(seg)' = ChunkHeads(seg)
  <2>1. ASSUME NEW u \in ListThreads PROVE HeldBy(seg, u)'
    <3>1. HeldBy(seg, u)
      BY <1>3 DEF Held
    <3>2. qPc'[u] = "exchange" <=> qPc[u] = "exchange"
      BY <1>2, <1>10
    <3>3. QED
      BY <1>2, <3>1, <3>2 DEF HeldBy
  <2>2. ASSUME NEW c \in List!Nodes PROVE HeldInChunk(seg, c)'
    <3>1. HeldInChunk(seg, c)
      BY <1>3 DEF Held
    <3>2. QED
      BY <1>2, <3>1 DEF HeldInChunk
  <2>3. QED
    BY <1>2, <1>3, <1>11, <2>1, <2>2 DEF Held, ChunkHeads
<1>16. PICK st2 : st2 = Append(st, d)
  OBVIOUS
<1>17. /\ st2 \in Seq(List!Nodes) /\ Len(st2) = Len(st) + 1 /\ Len(st) \in Nat /\ st2[Len(st) + 1] = d
       /\ \A i \in 1 .. Len(st) : st2[i] = st[i]
  BY <1>3, <1>4, <1>16
<1>18. Partition(HeldChunks(st2), ChunkHolders, ChunkHeads(seg))' /\ Stacked(st2)'
  <2>1. Partition(HeldChunks(st2)', ChunkHolders, ChunkHeads(seg))
    BY <1>2, <1>3, <1>4, <1>16, StackPushed DEF ListTypeOK
  <2>2. st2 # <<>> /\ qTop'[1] = st2[Len(st2)]
    BY <1>10, <1>17
  <2>3. qNextChunk[st2[1]] = List!Null
    <3>1. CASE st = <<>>
      BY <1>3, <1>5, <1>17, <3>1 DEF Stacked
    <3>2. CASE st # <<>>
      <4>1. 1 \in 1 .. Len(st)
        BY <1>3, <3>2
      <4>2. QED
        BY <1>3, <1>17, <3>2, <4>1 DEF Stacked
    <3>3. QED
      BY <3>1, <3>2
  <2>4. Linked(qNextChunk, st2)
    <3> SUFFICES ASSUME NEW i \in 2 .. Len(st2) PROVE qNextChunk[st2[i]] = st2[i - 1]
      BY DEF Linked
    <3>1. CASE i = Len(st) + 1
      <4>1. Len(st) \in 1 .. Len(st) /\ st # <<>> /\ i - 1 = Len(st)
        BY <1>3, <1>17, <3>1
      <4>2. qTop[1] = st[Len(st)]
        BY <1>3, <4>1 DEF Stacked
      <4>3. QED
        BY <1>5, <1>17, <3>1, <4>1, <4>2
    <3>2. CASE i # Len(st) + 1
      <4>1. i \in 2 .. Len(st) /\ i \in 1 .. Len(st) /\ i - 1 \in 1 .. Len(st)
        BY <1>17, <3>2
      <4>2. QED
        BY <1>3, <1>17, <4>1 DEF Stacked, Linked
    <3>3. QED
      BY <3>1, <3>2
  <2>5. Stacked(st2)'
    BY <1>2, <2>2, <2>3, <2>4 DEF Stacked
  <2>6. QED
    BY <1>15, <2>1, <2>5
<1>19. TagsFresh'
  <2>1. ASSUME NEW u \in ListThreads, qPc'[u] \in {"readChunk", "popChunk"}
        PROVE  qOld'[u][1] \in List!Nodes /\ qOld'[u][2] <= qTop'[2] /\ qOld'[u][2] # qTop'[2]
    <3>1. u # t /\ qPc[u] = qPc'[u] /\ qOld'[u] = qOld[u]
      BY <1>10, <2>1
    <3>2. qOld[u][1] \in List!Nodes /\ qOld[u][2] <= qTop[2] /\ qOld[u] \in (List!Nodes \cup {List!Null}) \X Nat
      BY <1>3, <2>1, <3>1 DEF TagsFresh, ListTypeOK
    <3>3. QED
      BY <1>5, <1>10, <3>1, <3>2
  <2>2. ASSUME NEW u \in ListThreads, qPc'[u] = "pushChunk"
        PROVE  qNextChunk'[Head(qChunks'[u])] = qOld'[u][1]
    <3>1. u # t
      BY <1>10, <2>2
    <3>2. QED
      BY <1>2, <1>3, <1>10, <2>2, <3>1 DEF TagsFresh
  <2>3. QED
    BY <2>1, <2>2 DEF TagsFresh
<1>20. Chained'
  BY <1>2, <1>3, <1>10, ChainedKept
<1>21. QED
  BY <1>2, <1>3, <1>11, <1>12, <1>13, <1>14, <1>15, <1>17, <1>18, <1>19, <1>20 DEF ListInv, ListParts

(***************************************************************************)
(* A page, cut into chunks.                                                *)
(***************************************************************************)

\* The only multiple of n that is closer to 0 than n is 0.
LEMMA NoSmallMultiple ==
  ASSUME NEW n \in Nat \ {0}, NEW k \in Int, n * k < n, -n < n * k
  PROVE  k = 0
<1>1. CASE k >= 1
  <2>1. n * k = n + n * (k - 1) /\ n * (k - 1) >= 0
    BY <1>1
  <2>2. QED
    BY <2>1
<1>2. CASE k <= -1
  <2>1. n * k = -n + n * (k + 1)
    OBVIOUS
  <2>2. n * (k + 1) <= 0
    BY <1>2
  <2>3. QED
    BY <2>1, <2>2
<1>3. QED
  BY <1>1, <1>2

\* A number is its whole chunks and the rest in one way.
LEMMA WholeAndRest ==
  ASSUME NEW n \in Nat \ {0}, NEW p \in Int, NEW q \in Int, NEW x \in 0 .. n - 1, NEW y \in 0 .. n - 1,
         n * p + x = n * q + y
  PROVE  p = q /\ x = y
<1>1. n * (p - q) = n * p - n * q /\ p - q \in Int /\ n * p \in Int /\ n * q \in Int
  OBVIOUS
<1>2. n * (p - q) = y - x
  BY <1>1
<1>3. n * (p - q) < n /\ -n < n * (p - q)
  BY <1>2
<1>4. p - q = 0
  BY <1>1, <1>3, NoSmallMultiple
<1>5. QED
  BY <1>2, <1>4

\* Division with remainder has one result.
LEMMA Quotient ==
  ASSUME NEW n \in Nat \ {0}, NEW q \in Int, NEW x \in 0 .. n - 1, NEW a, a = n * q + x
  PROVE  a \div n = q /\ a % n = x
<1>1. a \in Int
  OBVIOUS
<1>2. PICK p, y : p = a \div n /\ y = a % n
  OBVIOUS
<1>3. y \in 0 .. n - 1 /\ p \in Int /\ a = n * p + y
  BY <1>1, <1>2
<1>a. n * p + y = n * q + x
  BY <1>3
<1>4. p = q /\ y = x
  BY <1>3, <1>a, WholeAndRest
<1>5. QED
  BY <1>2, <1>4

\* The node at place j, counted from the last, of the i-th chunk of a page that follows b nodes.
PageNode(b, i, j) == b + ListCapacity * (i - 1) + (ListCapacity - j) + 1

\* m chunks after b nodes are the nodes of the page, each once, and their order is that of the page.
IsCut(b, m) ==
  /\ b \in Nat /\ b \div ListCapacity = m
  /\ \A i \in 1 .. m, j \in 1 .. ListCapacity : PageNode(b, i, j) \in b + 1 .. b + b
  /\ \A i, k \in 1 .. m, j, l \in 1 .. ListCapacity : PageNode(b, i, j) = PageNode(b, k, l) => i = k /\ j = l
  /\ \A n \in b + 1 .. b + b : \E i \in 1 .. m, j \in 1 .. ListCapacity : n = PageNode(b, i, j)
  /\ \A i \in 1 .. m, j \in 2 .. ListCapacity :
       /\ (PageNode(b, i, j) - b) % ListCapacity # 0
       /\ PageNode(b, i, j) + 1 = PageNode(b, i, j - 1)

\* A page of m times ListCapacity nodes is cut into m chunks of ListCapacity nodes each.
LEMMA PageCut ==
  ASSUME List!QueueConstants, NEW m \in Nat \ {0}, NEW b, b = ListCapacity * m
  PROVE  IsCut(b, m)
<1>1. PICK c \in Nat \ {0} : c = ListCapacity
  BY NodeNames
<1>2. b \in Nat /\ b = c * m
  BY <1>1
<1>3. b \div ListCapacity = m
  <2>1. b = c * m + 0 /\ 0 \in 0 .. c - 1
    BY <1>1, <1>2
  <2>2. QED
    BY <1>1, <2>1, Quotient
<1>4. ASSUME NEW i \in 1 .. m, NEW j \in 1 .. c
      PROVE  PageNode(b, i, j) \in b + 1 .. b + b
  <2>1. PICK k \in Nat : k = i - 1 /\ k <= m - 1
    OBVIOUS
  <2>2. c * k \in Nat /\ c * k <= c * (m - 1) /\ c * (m - 1) = c * m - c
    BY <2>1
  <2>3. PageNode(b, i, j) = b + c * k + (c - j) + 1
    BY <1>1, <2>1 DEF PageNode
  <2>4. QED
    BY <1>2, <2>2, <2>3
<1>5. ASSUME NEW i \in 1 .. m, NEW k \in 1 .. m, NEW j \in 1 .. c, NEW l \in 1 .. c,
             PageNode(b, i, j) = PageNode(b, k, l)
      PROVE  i = k /\ j = l
  <2>1. PICK p \in Int, q \in Int : p = i - 1 /\ q = k - 1
    OBVIOUS
  <2>2. PICK x \in 0 .. c - 1, y \in 0 .. c - 1 : x = c - j /\ y = c - l
    OBVIOUS
  <2>3. b + c * p + x + 1 = b + c * q + y + 1
    BY <1>1, <1>5, <2>1, <2>2 DEF PageNode
  <2>4. c * p \in Int /\ c * q \in Int
    BY <2>1
  <2>5. c * p + x = c * q + y
    BY <1>2, <2>3, <2>4
  <2>6. p = q /\ x = y
    BY <2>5, WholeAndRest
  <2>7. QED
    BY <2>1, <2>2, <2>6
<1>6. ASSUME NEW n \in b + 1 .. b + b
      PROVE  \E i \in 1 .. m, j \in 1 .. c : n = PageNode(b, i, j)
  <2>1. PICK a \in Nat : a = n - b - 1 /\ a < b
    BY <1>2
  <2>2. PICK q, x : q = a \div c /\ x = a % c
    OBVIOUS
  <2>3. q \in Int /\ x \in 0 .. c - 1 /\ a = c * q + x
    BY <2>2
  <2>4. q >= 0
    <3>1. SUFFICES ASSUME q <= -1 PROVE FALSE
      BY <2>3
    <3>2. c * (q + 1) <= 0 /\ c * (q + 1) = c * q + c
      BY <2>3, <3>1
    <3>3. QED
      BY <2>3, <3>2
  <2>5. q <= m - 1
    <3>1. SUFFICES ASSUME q >= m PROVE FALSE
      BY <2>3
    <3>2. c * (q - m) >= 0 /\ c * (q - m) = c * q - c * m
      BY <2>3, <3>1
    <3>3. QED
      BY <1>2, <2>1, <2>3, <3>2
  <2>6. q + 1 \in 1 .. m /\ c - x \in 1 .. c
    BY <2>3, <2>4, <2>5
  <2>7. PICK i \in 1 .. m, j \in 1 .. c : i - 1 = q /\ c - j = x
    BY <2>3, <2>6
  <2>8. c * q \in Int
    BY <2>3
  <2>9. n = PageNode(b, i, j)
    BY <1>1, <1>2, <2>1, <2>3, <2>7, <2>8 DEF PageNode
  <2>10. QED
    BY <2>9
<1>7. ASSUME NEW i \in 1 .. m, NEW j \in 2 .. c
      PROVE  /\ (PageNode(b, i, j) - b) % ListCapacity # 0
             /\ PageNode(b, i, j) + 1 = PageNode(b, i, j - 1)
  <2>1. PICK p \in Int : p = i - 1
    OBVIOUS
  <2>2. PICK x \in 0 .. c - 1 : x = c - j + 1 /\ x # 0
    OBVIOUS
  <2>3. c * p \in Int
    BY <2>1
  <2>4. PICK a : a = PageNode(b, i, j) - b
    OBVIOUS
  <2>5. a = c * p + x
    BY <1>1, <1>2, <2>1, <2>2, <2>3, <2>4 DEF PageNode
  <2>6. a % c = x
    BY <2>5, Quotient
  <2>7. PageNode(b, i, j) + 1 = PageNode(b, i, j - 1)
    BY <1>1, <1>2, <2>1, <2>3 DEF PageNode
  <2>8. QED
    BY <1>1, <2>2, <2>4, <2>6, <2>7
<1>8. QED
  BY <1>1, <1>2, <1>3, <1>4, <1>5, <1>6, <1>7 DEF IsCut

\* Who holds what, in r, when a page of m chunks follows b nodes.
PageAdded(seg, r, m, b) ==
  /\ DOMAIN r = Holders /\ r = [q \in Holders |-> r[q]] /\ Partition(r, Holders, 1 .. b + b)
  /\ \A i \in 1 .. m :
       /\ PageNode(b, i, ListCapacity) \in List!Nodes /\ PageNode(b, i, ListCapacity) \notin ChunkHeads(seg)
       /\ Len(r[ChunkOf(PageNode(b, i, ListCapacity))]) = ListCapacity
       /\ \A j \in 1 .. ListCapacity : r[ChunkOf(PageNode(b, i, ListCapacity))][j] = PageNode(b, i, j)
  /\ \A q \in Holders : (\A i \in 1 .. m : q # ChunkOf(PageNode(b, i, ListCapacity))) => r[q] = seg[q]

\* The chunks of a new page are held by nobody else.
LEMMA PageHeld ==
  ASSUME List!QueueConstants, NEW seg, Held(seg), NEW m \in Nat \ {0}, NEW b, IsCut(b, m),
         List!Allocated = 1 .. b, b + b <= ListNodes
  PROVE  \E r : PageAdded(seg, r, m, b)
<1>1. /\ b \in Nat
      /\ \A i \in 1 .. m, j \in 1 .. ListCapacity : PageNode(b, i, j) \in b + 1 .. b + b
      /\ \A i, k \in 1 .. m, j, l \in 1 .. ListCapacity : PageNode(b, i, j) = PageNode(b, k, l)
           => i = k /\ j = l
      /\ \A n \in b + 1 .. b + b : \E i \in 1 .. m, j \in 1 .. ListCapacity : n = PageNode(b, i, j)
  BY DEF IsCut
<1>2. ListCapacity \in Nat /\ ListCapacity \in 1 .. ListCapacity /\ ListNodes \in Nat
  BY NodeNames
<1>3. \A i \in 1 .. m : PageNode(b, i, ListCapacity) \in List!Nodes
        /\ PageNode(b, i, ListCapacity) \notin List!Allocated
  <2> SUFFICES ASSUME NEW i \in 1 .. m
               PROVE  PageNode(b, i, ListCapacity) \in List!Nodes
                        /\ PageNode(b, i, ListCapacity) \notin List!Allocated
    OBVIOUS
  <2>1. PageNode(b, i, ListCapacity) \in b + 1 .. b + b
    BY <1>1, <1>2
  <2>2. PICK n \in b + 1 .. b + b : n = PageNode(b, i, ListCapacity)
    BY <2>1
  <2>3. n \in 1 .. ListNodes /\ n \notin 1 .. b
    BY <1>1, <1>2
  <2>4. QED
    BY <2>2, <2>3 DEF List!Nodes
<1>4. PICK N : N = {ChunkOf(PageNode(b, i, ListCapacity)) : i \in 1 .. m}
  OBVIOUS
<1>5. PICK r : r = [q \in Holders |-> IF q \in N THEN [j \in 1 .. ListCapacity |-> q[2] + (ListCapacity - j)] ELSE seg[q]]
  OBVIOUS
<1>6. ASSUME NEW i \in 1 .. m
      PROVE  /\ ChunkOf(PageNode(b, i, ListCapacity)) \in N /\ ChunkOf(PageNode(b, i, ListCapacity)) \in Holders
             /\ r[ChunkOf(PageNode(b, i, ListCapacity))] = [j \in 1 .. ListCapacity |-> PageNode(b, i, j)]
             /\ r[ChunkOf(PageNode(b, i, ListCapacity))] \in Seq(b + 1 .. b + b)
             /\ Len(r[ChunkOf(PageNode(b, i, ListCapacity))]) = ListCapacity
             /\ seg[ChunkOf(PageNode(b, i, ListCapacity))] = <<>>
             /\ PageNode(b, i, ListCapacity) \notin ChunkHeads(seg)
  <2>1. PICK c \in List!Nodes : c = PageNode(b, i, ListCapacity)
    BY <1>3
  <2>2. ChunkOf(c) \in N /\ ChunkOf(c) \in Holders /\ ChunkOf(c)[2] = c
    BY <1>4, <2>1, HoldersApart DEF ChunkOf
  <2>3. \A j \in 1 .. ListCapacity : c + (ListCapacity - j) = PageNode(b, i, j)
    <3>1. ListCapacity * (i - 1) \in Int
      BY <1>2
    <3>2. QED
      BY <1>1, <1>2, <2>1, <3>1 DEF PageNode
  <2>4. r[ChunkOf(c)] = [j \in 1 .. ListCapacity |-> PageNode(b, i, j)]
    <3>1. r[ChunkOf(c)] = [j \in 1 .. ListCapacity |-> c + (ListCapacity - j)]
      BY <1>5, <2>2
    <3>2. QED
      BY <2>3, <3>1
  <2>5. PICK f : f = r[ChunkOf(c)]
    OBVIOUS
  <2>6. f = [j \in 1 .. ListCapacity |-> f[j]] /\ \A j \in 1 .. ListCapacity : f[j] \in b + 1 .. b + b
    BY <1>1, <2>4, <2>5
  <2>7. f \in Seq(b + 1 .. b + b) /\ Len(f) = ListCapacity
    <3>1. PICK B : B = b + 1 .. b + b
      OBVIOUS
    <3>2. \A j \in 1 .. ListCapacity : f[j] \in B
      BY <2>6, <3>1
    <3>3. f \in Seq(B) /\ Len(f) = ListCapacity
      BY <1>2, <2>6, <3>2, FunctionIsSeq
    <3>4. QED
      BY <3>1, <3>3
  <2>8. c \notin ChunkHeads(seg)
    BY <1>3, <2>1, HeadOfChunk
  <2>9. seg[ChunkOf(c)] = <<>>
    BY <2>1, <2>8 DEF ChunkHeads
  <2>10. QED
    BY <2>1, <2>2, <2>4, <2>5, <2>7, <2>8, <2>9
<1>7. ASSUME NEW o \in N PROVE \E i \in 1 .. m : o = ChunkOf(PageNode(b, i, ListCapacity))
  BY <1>4
<1>8. N \subseteq Holders
  BY <1>6, <1>7
<1>9. PICK f : f = [o \in N |-> r[o]]
  OBVIOUS
<1>10. Partition(f, N, b + 1 .. b + b)
  <2>1. f \in [N -> Seq(b + 1 .. b + b)]
    BY <1>6, <1>7, <1>9
  <2>2. ASSUME NEW o \in N, NEW p \in N, NEW j \in 1 .. Len(f[o]), NEW l \in 1 .. Len(f[p]), f[o][j] = f[p][l]
        PROVE  o = p /\ j = l
    <3>1. PICK i \in 1 .. m : o = ChunkOf(PageNode(b, i, ListCapacity))
      BY <1>7
    <3>2. PICK k \in 1 .. m : p = ChunkOf(PageNode(b, k, ListCapacity))
      BY <1>7
    <3>3. j \in 1 .. ListCapacity /\ f[o][j] = PageNode(b, i, j)
      <4>1. f[o] = [x \in 1 .. ListCapacity |-> PageNode(b, i, x)] /\ Len(f[o]) = ListCapacity
        BY <1>6, <1>9, <3>1
      <4>2. QED
        BY <4>1
    <3>4. l \in 1 .. ListCapacity /\ f[p][l] = PageNode(b, k, l)
      <4>1. f[p] = [x \in 1 .. ListCapacity |-> PageNode(b, k, x)] /\ Len(f[p]) = ListCapacity
        BY <1>6, <1>9, <3>2
      <4>2. QED
        BY <4>1
    <3>a. PageNode(b, i, j) = PageNode(b, k, l)
      BY <2>2, <3>3, <3>4
    <3>b. \A x, y \in 1 .. m, v, w \in 1 .. ListCapacity : PageNode(b, x, v) = PageNode(b, y, w)
            => x = y /\ v = w
      BY <1>1
    <3>c. j \in 1 .. ListCapacity /\ l \in 1 .. ListCapacity
      BY <3>3, <3>4
    <3>5. i = k /\ j = l
      BY <3>a, <3>b, <3>c
    <3>6. QED
      BY <3>1, <3>2, <3>5
  <2>3. ASSUME NEW n \in b + 1 .. b + b PROVE \E o \in N : \E j \in 1 .. Len(f[o]) : f[o][j] = n
    <3>1. PICK i \in 1 .. m, j \in 1 .. ListCapacity : n = PageNode(b, i, j)
      BY <1>1
    <3>2. PICK o \in N : o = ChunkOf(PageNode(b, i, ListCapacity))
      BY <1>6
    <3>3. f[o] = [k \in 1 .. ListCapacity |-> PageNode(b, i, k)] /\ Len(f[o]) = ListCapacity
      BY <1>6, <1>9, <3>2
    <3>4. QED
      BY <3>1, <3>3
  <2>4. QED
    BY <2>1, <2>2, <2>3 DEF Partition
<1>11. Partition(r, Holders, (1 .. b) \cup (b + 1 .. b + b))
  <2>1. Partition(seg, Holders, 1 .. b)
    BY DEF Held
  <2>2. DOMAIN r = Holders /\ r = [q \in Holders |-> r[q]] /\ \A q \in Holders : q \notin N => r[q] = seg[q]
    BY <1>5
  <2>3. \A o \in N : seg[o] = <<>>
    BY <1>6, <1>7
  <2>4. PICK A, B : A = 1 .. b /\ B = b + 1 .. b + b
    OBVIOUS
  <2>5. A \cap B = {}
    BY <1>1, <2>4
  <2>6. Partition([o \in N |-> r[o]], N, B) /\ Partition(seg, Holders, A)
    BY <1>9, <1>10, <2>1, <2>4
  <2>7. AddsMany(seg, r, Holders, N)
    BY <1>8, <2>2, <2>3 DEF AddsMany
  <2>a. Partition(r, Holders, A \cup B)
    BY <2>5, <2>6, <2>7, AddNodes
  <2>8. QED
    BY <2>4, <2>a
<1>12. (1 .. b) \cup (b + 1 .. b + b) = 1 .. b + b
  BY <1>1
<1>13. PageAdded(seg, r, m, b)
  <2>1. DOMAIN r = Holders /\ r = [q \in Holders |-> r[q]] /\ Partition(r, Holders, 1 .. b + b)
    BY <1>5, <1>11, <1>12
  <2>2. \A q \in Holders : (\A i \in 1 .. m : q # ChunkOf(PageNode(b, i, ListCapacity))) => r[q] = seg[q]
    BY <1>4, <1>5
  <2>3. ASSUME NEW i \in 1 .. m
        PROVE  /\ PageNode(b, i, ListCapacity) \in List!Nodes
               /\ PageNode(b, i, ListCapacity) \notin ChunkHeads(seg)
               /\ Len(r[ChunkOf(PageNode(b, i, ListCapacity))]) = ListCapacity
               /\ \A j \in 1 .. ListCapacity : r[ChunkOf(PageNode(b, i, ListCapacity))][j] = PageNode(b, i, j)
    BY <1>3, <1>6
  <2>4. QED
    BY <2>1, <2>2, <2>3 DEF PageAdded
<1>14. QED
  BY <1>13

\* Chunks come to the chunks that a thread pushes.
LEMMA ChunksAdded ==
  ASSUME NEW seg, NEW st, Partition(HeldChunks(st), ChunkHolders, ChunkHeads(seg)), NEW t \in ListThreads,
         qChunks \in [ListThreads -> Seq(List!Nodes)], qChunks[t] = <<>>, NEW B, NEW cs, cs \in Seq(B),
         \A i, j \in 1 .. Len(cs) : cs[i] = cs[j] => i = j,
         \A d \in B : d \notin ChunkHeads(seg) /\ \E i \in 1 .. Len(cs) : cs[i] = d,
         qChunks' = [qChunks EXCEPT ![t] = cs]
  PROVE  Partition(HeldChunks(st)', ChunkHolders, ChunkHeads(seg) \cup B)
<1>1. PICK s : s = HeldChunks(st)
  OBVIOUS
<1>2. PICK r : r = HeldChunks(st)'
  OBVIOUS
<1>3. PICK o : o = PushesOf(t)
  OBVIOUS
<1>4. o \in ChunkHolders /\ Stack \in ChunkHolders /\ \A u \in ListThreads : PushesOf(u) \in ChunkHolders
      /\ (PushesOf(u) = o => u = t) /\ PushesOf(u) # Stack
  BY <1>3 DEF ChunkHolders, PushesOf, Stack
<1>a. DOMAIN r = ChunkHolders /\ r = [p \in ChunkHolders |-> r[p]]
  BY <1>2 DEF HeldChunks
<1>5. s[o] = <<>> /\ r[o] = cs
  BY <1>1, <1>2, <1>3, <1>4 DEF HeldChunks, PushesOf, Stack
<1>6. \A p \in ChunkHolders : p # o => r[p] = s[p]
  <2> SUFFICES ASSUME NEW p \in ChunkHolders, p # o PROVE r[p] = s[p]
    OBVIOUS
  <2>1. CASE p = Stack
    BY <1>1, <1>2, <2>1 DEF HeldChunks
  <2>2. ASSUME NEW u \in ListThreads, p = PushesOf(u) PROVE r[p] = s[p]
    <3>1. u # t /\ p # Stack /\ p[2] = u
      BY <1>3, <1>4, <2>2 DEF PushesOf
    <3>2. qChunks'[u] = qChunks[u]
      BY <3>1
    <3>3. QED
      BY <1>1, <1>2, <3>1, <3>2 DEF HeldChunks
  <2>3. QED
    BY <2>1, <2>2 DEF ChunkHolders
<1>7. PICK N : N = {o}
  OBVIOUS
<1>8. AddsMany(s, r, ChunkHolders, N)
  BY <1>4, <1>5, <1>6, <1>7, <1>a DEF AddsMany
<1>9. Partition([p \in N |-> r[p]], N, B)
  <2>1. PICK f : f = [p \in N |-> r[p]]
    OBVIOUS
  <2>2. f \in [N -> Seq(B)] /\ \A p \in N : f[p] = cs
    BY <1>5, <1>7, <2>1
  <2>3. o \in N /\ \A p, q \in N : p = q
    BY <1>7
  <2>4. ASSUME NEW p \in N, NEW q \in N, NEW i \in 1 .. Len(f[p]), NEW j \in 1 .. Len(f[q]), f[p][i] = f[q][j]
        PROVE  p = q /\ i = j
    <3>1. f[p] = cs /\ f[q] = cs
      BY <2>2
    <3>2. QED
      BY <2>3, <2>4, <3>1
  <2>a. ASSUME NEW d \in B PROVE \E p \in N : \E i \in 1 .. Len(f[p]) : f[p][i] = d
    <3>1. f[o] = cs /\ o \in N
      BY <2>2, <2>3
    <3>2. PICK i \in 1 .. Len(cs) : cs[i] = d
      OBVIOUS
    <3>3. QED
      BY <3>1, <3>2
  <2>b. Partition(f, N, B)
    BY <2>2, <2>4, <2>a DEF Partition
  <2>5. QED
    BY <2>1, <2>b
<1>10. PICK A : A = ChunkHeads(seg)
  OBVIOUS
<1>11. Partition(s, ChunkHolders, A) /\ A \cap B = {}
  BY <1>1, <1>10
<1>12. Partition(r, ChunkHolders, A \cup B)
  BY <1>8, <1>9, <1>11, AddNodes
<1>13. QED
  BY <1>2, <1>10, <1>12

\* The first nodes of the chunks of a page.
LEMMA PageChunks ==
  ASSUME List!QueueConstants, NEW m \in Nat \ {0}, NEW b, IsCut(b, m), NEW cs,
         cs = [i \in 1 .. m |-> cs[i]], \A i \in 1 .. m : cs[i] = b + (i - 1) * ListCapacity + 1,
         b + b <= ListNodes
  PROVE  /\ cs \in Seq(List!Nodes) /\ Len(cs) = m
         /\ \A i \in 1 .. m : cs[i] = PageNode(b, i, ListCapacity)
         /\ \A i, j \in 1 .. m : cs[i] = cs[j] => i = j
<1>1. /\ b \in Nat
      /\ \A i \in 1 .. m, j \in 1 .. ListCapacity : PageNode(b, i, j) \in b + 1 .. b + b
      /\ \A i, k \in 1 .. m, j, l \in 1 .. ListCapacity : PageNode(b, i, j) = PageNode(b, k, l)
           => i = k /\ j = l
  BY DEF IsCut
<1>2. ListCapacity \in Nat /\ ListCapacity \in 1 .. ListCapacity /\ ListNodes \in Nat
  BY NodeNames
<1>3. ASSUME NEW i \in 1 .. m PROVE cs[i] = PageNode(b, i, ListCapacity)
  <2>1. PICK k \in Nat : k = i - 1
    OBVIOUS
  <2>2. PICK c \in Nat : c = ListCapacity
    BY <1>2
  <2>3. cs[i] = b + k * c + 1 /\ PageNode(b, i, ListCapacity) = b + c * k + (c - c) + 1
    BY <2>1, <2>2 DEF PageNode
  <2>4. k * c = c * k /\ c * k \in Nat
    OBVIOUS
  <2>5. QED
    BY <1>1, <2>3, <2>4
<1>4. \A i \in 1 .. m : cs[i] \in List!Nodes
  <2> SUFFICES ASSUME NEW i \in 1 .. m PROVE cs[i] \in List!Nodes
    OBVIOUS
  <2>1. PageNode(b, i, ListCapacity) \in b + 1 .. b + b
    BY <1>1, <1>2
  <2>2. PICK n \in b + 1 .. b + b : n = cs[i]
    BY <1>3, <2>1
  <2>3. n \in 1 .. ListNodes
    BY <1>1, <1>2
  <2>4. QED
    BY <2>2, <2>3 DEF List!Nodes
<1>5. cs = [i \in 1 .. m |-> cs[i]]
  OBVIOUS
<1>6. cs \in Seq(List!Nodes) /\ Len(cs) = m
  BY <1>4, <1>5, FunctionIsSeq
<1>7. \A i, j \in 1 .. m : cs[i] = cs[j] => i = j
  <2> SUFFICES ASSUME NEW i \in 1 .. m, NEW j \in 1 .. m, cs[i] = cs[j] PROVE i = j
    OBVIOUS
  <2>1. PageNode(b, i, ListCapacity) = PageNode(b, j, ListCapacity)
    BY <1>3
  <2>2. QED
    BY <1>1, <1>2, <2>1
<1>8. QED
  BY <1>3, <1>6, <1>7

\* The pointers of the nodes of a page follow it within a chunk.
LEMMA PageLinked ==
  ASSUME List!QueueConstants, NEW m \in Nat \ {0}, NEW b, IsCut(b, m), b + b <= ListNodes, NEW f,
         \A n \in b + 1 .. b + b : (n - b) % ListCapacity # 0 => f[n] = n + 1,
         NEW i \in 1 .. m, NEW s, Len(s) = ListCapacity, \A j \in 1 .. ListCapacity : s[j] = PageNode(b, i, j)
  PROVE  Linked(f, s)
<1> SUFFICES ASSUME NEW j \in 2 .. Len(s) PROVE f[s[j]] = s[j - 1]
  BY DEF Linked
<1>1. ListCapacity \in Nat /\ j \in 1 .. ListCapacity /\ j - 1 \in 1 .. ListCapacity /\ j \in 2 .. ListCapacity
  BY NodeNames
<1>2. s[j] = PageNode(b, i, j) /\ s[j - 1] = PageNode(b, i, j - 1)
  BY <1>1
<1>3. PageNode(b, i, j) \in b + 1 .. b + b
  BY <1>1 DEF IsCut
<1>4. /\ (PageNode(b, i, j) - b) % ListCapacity # 0
      /\ PageNode(b, i, j) + 1 = PageNode(b, i, j - 1)
  <2>1. \A x \in 1 .. m, y \in 2 .. ListCapacity :
          /\ (PageNode(b, x, y) - b) % ListCapacity # 0
          /\ PageNode(b, x, y) + 1 = PageNode(b, x, y - 1)
    BY DEF IsCut
  <2>2. QED
    BY <1>1, <2>1
<1>5. QED
  BY <1>2, <1>3, <1>4

\* A new page: its chunks are the thread's to push.
LEMMA ReservePageStep ==
  ASSUME List!QueueConstants, NEW seg, NEW st, ListParts(seg, st), NEW t \in ListThreads, List!Reserve(t),
         qTop[1] = List!Null
  PROVE  ListInv'
<1> USE DEF List!memory, List!locals
<1>1. PICK b : b = qNodeCount
  OBVIOUS
<1>2. ListTypeOK /\ MutexOK /\ Phases /\ Pages /\ Held(seg) /\ Stacked(st) /\ TagsFresh /\ Chained
      /\ seg \in [Holders -> Seq(List!Nodes)] /\ st \in Seq(List!Nodes)
      /\ Partition(HeldChunks(st), ChunkHolders, ChunkHeads(seg))
  BY DEF ListParts
<1>3. List!PageSize = b /\ b \in Nat /\ b > 0 /\ ListNodes \in Nat /\ ListCapacity \in Nat /\ ListCapacity > 0
  BY <1>1, <1>2, PageDoubles, NodeNames
<1>4. PICK m \in Nat \ {0} : b = ListCapacity * m
  <2>1. PICK k \in Nat \ {0} : qNodeCount = k * ListCapacity
    BY <1>2 DEF Pages
  <2>2. k * ListCapacity = ListCapacity * k
    BY <1>3
  <2>3. QED
    BY <1>1, <2>1, <2>2
<1>5. IsCut(b, m) /\ b \div ListCapacity = m
  <2>1. IsCut(b, m)
    BY <1>4, PageCut
  <2>2. QED
    BY <2>1 DEF IsCut
<1>6. PICK cs : cs = [i \in 1 .. m |-> b + (i - 1) * ListCapacity + 1]
  OBVIOUS
<1>7. /\ qPc[t] = "reserve" /\ qMutex = {} /\ qOld' = [qOld EXCEPT ![t] = List!NoTop] /\ b + b <= ListNodes
      /\ qNext' = [n \in List!Nodes |-> IF n \in b + 1 .. b + b
                                          THEN IF (n - b) % ListCapacity = 0 THEN List!Null ELSE n + 1
                                          ELSE qNext[n]]
      /\ qChunks' = [qChunks EXCEPT ![t] = cs] /\ qMutex' = {t} /\ qPc' = [qPc EXCEPT ![t] = "linkChunk"]
      /\ UNCHANGED <<qNextChunk, qValue, qNodeCount, qTop, qList, qSize, qHead, qTail, qHand, qPushes, qChain>>
  BY <1>1, <1>3, <1>5, <1>6 DEF List!Reserve, List!NewPage, List!Goto
<1>8. /\ cs \in Seq(List!Nodes) /\ Len(cs) = m
      /\ \A i \in 1 .. m : cs[i] = PageNode(b, i, ListCapacity)
      /\ \A i, j \in 1 .. m : cs[i] = cs[j] => i = j
  <2>1. b + b <= ListNodes
    BY <1>7
  <2>2. cs = [i \in 1 .. m |-> cs[i]] /\ \A i \in 1 .. m : cs[i] = b + (i - 1) * ListCapacity + 1
    BY <1>6
  <2>3. QED
    BY <1>5, <2>1, <2>2, PageChunks
<1>9. List!Allocated = 1 .. b /\ List!Allocated' = 1 .. b + b
  <2>1. List!Allocated = 1 .. b
    BY <1>1, <1>3, <1>7 DEF List!Allocated
  <2>2. List!PageSize' = b /\ qMutex' # {} /\ qNodeCount' = b
    BY <1>1, <1>3, <1>7 DEF List!PageSize
  <2>3. QED
    BY <2>1, <2>2 DEF List!Allocated
<1>10. PICK r : PageAdded(seg, r, m, b)
  BY <1>2, <1>5, <1>7, <1>9, PageHeld
<1>11. /\ DOMAIN r = Holders /\ r = [q \in Holders |-> r[q]] /\ Partition(r, Holders, 1 .. b + b)
       /\ \A i \in 1 .. m :
            /\ PageNode(b, i, ListCapacity) \in List!Nodes
            /\ PageNode(b, i, ListCapacity) \notin ChunkHeads(seg)
            /\ Len(r[ChunkOf(PageNode(b, i, ListCapacity))]) = ListCapacity
            /\ \A j \in 1 .. ListCapacity : r[ChunkOf(PageNode(b, i, ListCapacity))][j] = PageNode(b, i, j)
       /\ \A q \in Holders : (\A i \in 1 .. m : q # ChunkOf(PageNode(b, i, ListCapacity))) => r[q] = seg[q]
  BY <1>10 DEF PageAdded
<1>12. /\ qChunks'[t] = cs /\ qPc'[t] = "linkChunk" /\ qOld'[t] = List!NoTop
       /\ \A u \in ListThreads : u # t => qChunks'[u] = qChunks[u] /\ qPc'[u] = qPc[u] /\ qOld'[u] = qOld[u]
       /\ \A n \in List!Nodes : n \in 1 .. b => qNext'[n] = qNext[n]
       /\ \A n \in b + 1 .. b + b : (n - b) % ListCapacity # 0 => qNext'[n] = n + 1
  <2>1. qChunks'[t] = cs /\ qPc'[t] = "linkChunk" /\ qOld'[t] = List!NoTop
       /\ \A u \in ListThreads : u # t => qChunks'[u] = qChunks[u] /\ qPc'[u] = qPc[u] /\ qOld'[u] = qOld[u]
    BY <1>2, <1>7 DEF ListTypeOK
  <2>2. ASSUME NEW n \in List!Nodes, n \in 1 .. b PROVE qNext'[n] = qNext[n]
    <3>1. n \notin b + 1 .. b + b
      BY <1>3, <2>2
    <3>2. QED
      BY <1>7, <3>1
  <2>3. ASSUME NEW n \in b + 1 .. b + b, (n - b) % ListCapacity # 0 PROVE qNext'[n] = n + 1
    <3>1. n \in List!Nodes
      BY <1>3, <1>7 DEF List!Nodes
    <3>2. QED
      BY <1>7, <2>3, <3>1
  <2>4. QED
    BY <2>1, <2>2, <2>3
<1>13. ASSUME NEW q \in Holders
       PROVE  /\ Len(seg[q]) \in Nat
              /\ \A i \in 1 .. Len(seg[q]) : qNext'[seg[q][i]] = qNext[seg[q][i]]
  <2>1. Len(seg[q]) \in Nat /\ \A i \in 1 .. Len(seg[q]) : seg[q][i] \in List!Allocated
    BY <1>2, HeldTyped
  <2>2. List!Allocated \subseteq List!Nodes
    BY <1>2, AllocatedNodes
  <2>3. QED
    BY <1>9, <1>12, <2>1, <2>2
<1>14. ListTypeOK' /\ MutexOK'
  <2>1. qNext' \in [List!Nodes -> List!Nodes \cup {List!Null}]
    <3>1. ASSUME NEW n \in List!Nodes PROVE qNext'[n] \in List!Nodes \cup {List!Null}
      <4>1. CASE n \in b + 1 .. b + b /\ (n - b) % ListCapacity # 0
        <5>1. PICK i \in 1 .. m, j \in 1 .. ListCapacity : n = PageNode(b, i, j)
          BY <1>5, <4>1 DEF IsCut
        <5>2. n + 1 \in b + 1 .. b + b
          <6>1. CASE j = 1
            <7>1. PICK c \in Nat : c = ListCapacity
              BY <1>3
            <7>2. PICK k \in Nat : k = i
              OBVIOUS
            <7>3. n - b = c * (k - 1) + (c - 1) + 1
              BY <1>3, <5>1, <6>1, <7>1, <7>2 DEF PageNode
            <7>4. c * (k - 1) = c * k - c /\ c * k \in Nat
              OBVIOUS
            <7>5. n - b = c * k + 0 /\ 0 \in 0 .. c - 1
              BY <1>3, <7>1, <7>3, <7>4
            <7>6. (n - b) % c = 0
              <8>1. PICK a : a = n - b
                OBVIOUS
              <8>2. a = c * k + 0 /\ c \in Nat \ {0} /\ k \in Int
                BY <1>3, <7>1, <7>5, <8>1
              <8>3. a % c = 0
                BY <7>5, <8>2, Quotient, ZenonT(60)
              <8>4. QED
                BY <8>1, <8>3
            <7>7. QED
              BY <4>1, <7>1, <7>6
          <6>2. CASE j # 1
            <7>1. j \in 2 .. ListCapacity /\ j - 1 \in 1 .. ListCapacity
              BY <1>3, <6>2
            <7>2. n + 1 = PageNode(b, i, j - 1)
              BY <1>5, <5>1, <7>1 DEF IsCut
            <7>3. PageNode(b, i, j - 1) \in b + 1 .. b + b
              BY <1>5, <7>1 DEF IsCut
            <7>4. QED
              BY <7>2, <7>3
          <6>3. QED
            BY <6>1, <6>2
        <5>3. n + 1 \in List!Nodes
          BY <1>3, <1>7, <5>2 DEF List!Nodes
        <5>4. QED
          BY <1>12, <4>1, <5>3
      <4>2. CASE ~(n \in b + 1 .. b + b /\ (n - b) % ListCapacity # 0)
        <5>1. qNext[n] \in List!Nodes \cup {List!Null}
          BY <1>2 DEF ListTypeOK
        <5>2. QED
          BY <1>7, <4>2, <5>1
      <4>3. QED
        BY <4>1, <4>2
    <3>2. QED
      BY <1>7, <3>1
  <2>2. qChunks' \in [ListThreads -> Seq(List!Nodes)] /\ qPc' \in [ListThreads -> Labels]
    BY <1>2, <1>7, <1>8 DEF ListTypeOK, Labels
  <2>3. qOld' \in [ListThreads -> (List!Nodes \cup {List!Null}) \X Nat]
    <3>1. List!NoTop \in (List!Nodes \cup {List!Null}) \X Nat
      BY DEF List!NoTop
    <3>2. QED
      BY <1>2, <1>7, <3>1 DEF ListTypeOK
  <2>4. QED
    BY <1>2, <1>7, <2>1, <2>2, <2>3 DEF ListTypeOK, MutexOK
<1>15. cs # <<>>
  BY <1>8
<1>16. Phases' /\ Pages'
  <2>1. Phase(t)'
    <3>1. Phase(t)
      BY <1>2 DEF Phases
    <3>2. QED
      BY <1>7, <1>12, <1>15, <3>1 DEF Phase, Pushing
  <2>2. ASSUME NEW u \in ListThreads, u # t PROVE Phase(u)'
    <3>1. Phase(u) /\ qMutex' # {u} /\ qMutex # {u}
      BY <1>2, <1>7, <2>2 DEF Phases
    <3>2. QED
      BY <1>7, <1>12, <2>2, <3>1 DEF Phase
  <2>3. Phases'
    BY <2>1, <2>2 DEF Phases
  <2>4. List!PageSize' = b /\ qMutex' # {} /\ qNodeCount' = b
    BY <1>1, <1>3, <1>7 DEF List!PageSize
  <2>5. Pages'
    BY <1>1, <1>2, <1>7, <2>4 DEF Pages
  <2>6. QED
    BY <2>3, <2>5
<1>17. \A u \in ListThreads : r[HandOf(u)] = seg[HandOf(u)] /\ r[ListOf(u)] = seg[ListOf(u)]
  BY <1>11, HoldersApart
<1>18. Held(r)'
  <2>1. Partition(r, Holders, List!Allocated)' /\ r[Queue] = qChain'
    <3>1. r[Queue] = seg[Queue]
      BY <1>11, HoldersApart
    <3>2. QED
      BY <1>2, <1>7, <1>9, <1>11, <3>1 DEF Held
  <2>2. ASSUME NEW u \in ListThreads PROVE HeldBy(r, u)'
    <3>1. HeldBy(seg, u) /\ ListOf(u) \in Holders
      BY <1>2, HoldersApart DEF Held
    <3>2. qPc'[u] = "exchange" <=> qPc[u] = "exchange"
      BY <1>7, <1>12
    <3>3. QED
      BY <1>7, <1>13, <1>17, <3>1, <3>2, HeldByKept
  <2>3. ASSUME NEW c \in List!Nodes PROVE HeldInChunk(r, c)'
    <3>1. ASSUME NEW i \in 1 .. m, c = PageNode(b, i, ListCapacity) PROVE HeldInChunk(r, c)'
      <4>1. PICK s : s = r[ChunkOf(c)]
        OBVIOUS
      <4>2. Len(s) = ListCapacity /\ \A j \in 1 .. ListCapacity : s[j] = PageNode(b, i, j)
        BY <1>11, <3>1, <4>1
      <4>3. Linked(qNext', s)
        <5>1. PICK f : f = qNext'
          OBVIOUS
        <5>2. b + b <= ListNodes /\ \A n \in b + 1 .. b + b : (n - b) % ListCapacity # 0 => f[n] = n + 1
          BY <1>7, <1>12, <5>1
        <5>3. Linked(f, s)
          BY <1>5, <4>2, <5>2, PageLinked
        <5>4. QED
          BY <5>1, <5>3
      <4>4. s[ListCapacity] = c
        BY <1>3, <3>1, <4>2
      <4>5. QED
        BY <4>1, <4>2, <4>3, <4>4 DEF HeldInChunk
    <3>2. CASE \A i \in 1 .. m : c # PageNode(b, i, ListCapacity)
      <4>1. r[ChunkOf(c)] = seg[ChunkOf(c)] /\ ChunkOf(c) \in Holders
        BY <1>11, <3>2, HoldersApart
      <4>2. HeldInChunk(seg, c)
        BY <1>2 DEF Held
      <4>3. QED
        BY <1>13, <4>1, <4>2, HeldInChunkKept
    <3>3. QED
      BY <3>1, <3>2
  <2>4. QED
    BY <2>1, <2>2, <2>3 DEF Held
<1>19. PICK B : B = {cs[i] : i \in 1 .. m}
  OBVIOUS
<1>20. ChunkHeads(r)' = ChunkHeads(seg) \cup B
  <2>1. ASSUME NEW c \in List!Nodes PROVE r[ChunkOf(c)] # <<>> <=> seg[ChunkOf(c)] # <<>> \/ c \in B
    <3>1. CASE c \in B
      <4>1. PICK i \in 1 .. m : c = PageNode(b, i, ListCapacity)
        BY <1>8, <1>19, <3>1
      <4>2. Len(r[ChunkOf(c)]) = ListCapacity
        BY <1>11, <4>1
      <4>3. r[ChunkOf(c)] # <<>>
        BY <1>3, <4>2
      <4>4. QED
        BY <3>1, <4>3
    <3>2. CASE c \notin B
      <4>1. \A i \in 1 .. m : c # PageNode(b, i, ListCapacity)
        BY <1>8, <1>19, <3>2
      <4>2. r[ChunkOf(c)] = seg[ChunkOf(c)]
        BY <1>11, <4>1, HoldersApart
      <4>3. QED
        BY <3>2, <4>2
    <3>3. QED
      BY <3>1, <3>2
  <2>2. B \subseteq List!Nodes
    BY <1>8, <1>11, <1>19
  <2>3. QED
    BY <2>1, <2>2 DEF ChunkHeads
<1>21. Partition(HeldChunks(st), ChunkHolders, ChunkHeads(r))' /\ Stacked(st)'
  <2>1. qChunks[t] = <<>> /\ qChunks \in [ListThreads -> Seq(List!Nodes)]
    <3>1. Phase(t)
      BY <1>2 DEF Phases
    <3>2. QED
      BY <1>2, <1>7, <3>1 DEF Phase, Pushing, ListTypeOK
  <2>2. cs \in Seq(B)
    <3>1. cs = [i \in 1 .. m |-> cs[i]] /\ \A i \in 1 .. m : cs[i] \in B
      BY <1>6, <1>19
    <3>2. QED
      BY <3>1, FunctionIsSeq
  <2>3. \A d \in B : d \notin ChunkHeads(seg) /\ \E i \in 1 .. Len(cs) : cs[i] = d
    <3> SUFFICES ASSUME NEW d \in B PROVE d \notin ChunkHeads(seg) /\ \E i \in 1 .. Len(cs) : cs[i] = d
      OBVIOUS
    <3>1. PICK i \in 1 .. m : cs[i] = d
      BY <1>19
    <3>2. d = PageNode(b, i, ListCapacity) /\ i \in 1 .. Len(cs)
      BY <1>8, <3>1
    <3>3. QED
      BY <1>11, <3>1, <3>2
  <2>4. \A i, j \in 1 .. Len(cs) : cs[i] = cs[j] => i = j
    BY <1>8
  <2>5. Partition(HeldChunks(st)', ChunkHolders, ChunkHeads(seg) \cup B)
    BY <1>2, <1>7, <2>1, <2>2, <2>3, <2>4, ChunksAdded
  <2>6. Stacked(st)'
    BY <1>2, <1>7 DEF Stacked
  <2>7. QED
    BY <1>20, <2>5, <2>6
<1>22. TagsFresh'
  BY <1>2, <1>7, <1>12, TagsKept
<1>23. Chained'
  <2>1. PICK W : W = b + 1 .. b + b
    OBVIOUS
  <2>2. \A n \in List!Nodes : n \notin W => qNext'[n] = qNext[n] /\ qValue'[n] = qValue[n]
    BY <1>7, <2>1
  <2>3. \A n \in List!Allocated : n \notin W
    BY <1>3, <1>9, <2>1
  <2>4. \A i \in 1 .. Len(qChain) : qChain[i] \notin W
    BY <1>2, <2>3, ChainHeld
  <2>5. \A u \in ListThreads : u # t /\ qPc[u] = "exchange" => qHand[u] \notin W
    BY <1>2, <2>3, HandHeld
  <2>6. ChainEnd(t)'
    BY <1>12 DEF ChainEnd
  <2>7. \A u \in ListThreads : u # t =>
           qPc'[u] = qPc[u] /\ qOld'[u] = qOld[u] /\ qHand'[u] = qHand[u] /\ qPushes'[u] = qPushes[u]
    BY <1>7, <1>12
  <2>8. UNCHANGED <<qHead, qTail, qChain>> /\ qPc[t] \notin {"exchange", "link"}
    BY <1>7
  <2>9. QED
    BY <1>2, <2>2, <2>4, <2>5, <2>6, <2>7, <2>8, ChainApart
<1>24. r \in [Holders -> Seq(List!Nodes)]
  <2>1. \A q \in Holders : r[q] \in Seq(List!Nodes)
    <3> SUFFICES ASSUME NEW q \in Holders PROVE r[q] \in Seq(List!Nodes)
      OBVIOUS
    <3>a. PICK A : A = 1 .. b + b
      OBVIOUS
    <3>1. r[q] \in Seq(A)
      BY <1>11, <3>a, PartTyped
    <3>2. A \subseteq List!Nodes
      BY <1>3, <1>7, <3>a DEF List!Nodes
    <3>3. QED
      BY <3>1, <3>2
  <2>2. QED
    BY <1>11, <2>1
<1>25. QED
  BY <1>2, <1>7, <1>14, <1>16, <1>18, <1>21, <1>22, <1>23, <1>24 DEF ListInv, ListParts

\* The first page is one chunk: the dummy, and the list of the thread that made the queue.
LEMMA FirstPage ==
  ASSUME List!QueueConstants, NEW maker \in ListThreads, NEW seg,
         seg = [q \in Holders |-> IF q = Queue THEN << 1 >>
                                  ELSE IF q = ListOf(maker) THEN [j \in 1 .. ListCapacity - 1 |-> ListCapacity + 1 - j]
                                  ELSE <<>>]
  PROVE  /\ Partition(seg, Holders, 1 .. ListCapacity)
         /\ seg[Queue] = << 1 >> /\ seg[ListOf(maker)] = [j \in 1 .. ListCapacity - 1 |-> ListCapacity + 1 - j]
         /\ Len(seg[ListOf(maker)]) = ListCapacity - 1
         /\ \A q \in Holders : q # Queue /\ q # ListOf(maker) => seg[q] = <<>>
<1>1. ListCapacity \in Nat /\ ListCapacity > 0
  BY NodeNames
<1>2. Queue \in Holders /\ ListOf(maker) \in Holders /\ Queue # ListOf(maker)
  BY HoldersApart
<1>3. PICK A : A = 1 .. ListCapacity
  OBVIOUS
<1>4. PICK f : f = [j \in 1 .. ListCapacity - 1 |-> ListCapacity + 1 - j]
  OBVIOUS
<1>5. f \in Seq(A) /\ Len(f) = ListCapacity - 1 /\ \A j \in 1 .. ListCapacity - 1 : f[j] = ListCapacity + 1 - j
  <2>1. PICK k \in Nat : k = ListCapacity - 1
    BY <1>1
  <2>2. f = [j \in 1 .. k |-> f[j]] /\ \A j \in 1 .. k : f[j] \in A
    BY <1>1, <1>3, <1>4, <2>1
  <2>3. f \in Seq(A) /\ Len(f) = k
    BY <2>2, FunctionIsSeq
  <2>4. QED
    BY <1>4, <2>1, <2>3
<1>6. PICK g : g = << 1 >>
  OBVIOUS
<1>7. g \in Seq(A) /\ Len(g) = 1 /\ g[1] = 1
  BY <1>1, <1>3, <1>6
<1>8. PICK e : e = <<>>
  OBVIOUS
<1>9. e \in Seq(A) /\ Len(e) = 0
  BY <1>8
<1>10. /\ seg[Queue] = g /\ seg[ListOf(maker)] = f
       /\ \A q \in Holders : q # Queue /\ q # ListOf(maker) => seg[q] = e
  BY <1>2, <1>4, <1>6, <1>8
<1>11. seg = [q \in Holders |-> seg[q]]
  OBVIOUS
<1>12. seg \in [Holders -> Seq(A)]
  <2>1. \A q \in Holders : seg[q] \in Seq(A)
    BY <1>5, <1>7, <1>9, <1>10
  <2>2. PICK S : S = Seq(A)
    OBVIOUS
  <2>3. seg \in [Holders -> S]
    BY <1>11, <2>1, <2>2
  <2>4. QED
    BY <2>2, <2>3
<1>13. ASSUME NEW o \in Holders, NEW i \in 1 .. Len(seg[o])
       PROVE  \/ o = Queue /\ i = 1 /\ seg[o][i] = 1
              \/ o = ListOf(maker) /\ i \in 1 .. ListCapacity - 1 /\ seg[o][i] = ListCapacity + 1 - i
  BY <1>5, <1>7, <1>9, <1>10
<1>14. ASSUME NEW o \in Holders, NEW p \in Holders, NEW i \in 1 .. Len(seg[o]), NEW j \in 1 .. Len(seg[p]),
              seg[o][i] = seg[p][j]
       PROVE  o = p /\ i = j
  <2>1. \/ o = Queue /\ i = 1 /\ seg[o][i] = 1
        \/ o = ListOf(maker) /\ i \in 1 .. ListCapacity - 1 /\ seg[o][i] = ListCapacity + 1 - i
    BY <1>13
  <2>2. \/ p = Queue /\ j = 1 /\ seg[p][j] = 1
        \/ p = ListOf(maker) /\ j \in 1 .. ListCapacity - 1 /\ seg[p][j] = ListCapacity + 1 - j
    BY <1>13
  <2>3. QED
    BY <1>1, <1>14, <2>1, <2>2
<1>15. ASSUME NEW n \in A PROVE \E o \in Holders : \E i \in 1 .. Len(seg[o]) : seg[o][i] = n
  <2>1. CASE n = 1
    BY <1>2, <1>7, <1>10, <2>1
  <2>2. CASE n # 1
    <3>1. PICK i \in 1 .. ListCapacity - 1 : i = ListCapacity + 1 - n
      BY <1>1, <1>3, <2>2
    <3>2. i \in 1 .. Len(seg[ListOf(maker)]) /\ seg[ListOf(maker)][i] = ListCapacity + 1 - i
      BY <1>5, <1>10
    <3>3. ListCapacity + 1 - i = n
      BY <1>1, <1>3, <3>1
    <3>4. QED
      BY <1>2, <3>2, <3>3
  <2>3. QED
    BY <2>1, <2>2
<1>16. Partition(seg, Holders, A)
  BY <1>12, <1>14, <1>15 DEF Partition
<1>17. QED
  BY <1>3, <1>4, <1>5, <1>6, <1>8, <1>10, <1>16

\* The constructor: one thread's list holds what the first page leaves, and the queue its dummy.
LEMMA ListInit ==
  ASSUME List!QueueConstants, List!Init
  PROVE  ListInv
<1>1. PICK maker \in ListThreads : maker = CHOOSE t \in ListThreads : TRUE
  BY DEF List!QueueConstants
<1>2. /\ qNext = [n \in List!Nodes |-> IF n > 1 /\ n < ListCapacity THEN n + 1 ELSE List!Null]
      /\ qNextChunk = [n \in List!Nodes |-> List!Null] /\ qValue = [n \in List!Nodes |-> List!NoValue]
      /\ qNodeCount = ListCapacity /\ qTop = <<List!Null, 2>> /\ qMutex = {}
      /\ qList = [t \in ListThreads |-> IF t = maker /\ ListCapacity > 1 THEN 2 ELSE List!Null]
      /\ qSize = [t \in ListThreads |-> IF t = maker THEN ListCapacity - 1 ELSE 0]
      /\ qHead = 1 /\ qTail = 1 /\ qPc = [t \in ListThreads |-> "idle"]
      /\ qOld = [t \in ListThreads |-> List!NoTop]
      /\ qHand = [t \in ListThreads |-> List!Null] /\ qChunks = [t \in ListThreads |-> <<>>]
      /\ qPushes = [t \in ListThreads |-> 0] /\ qChain = << 1 >>
  BY <1>1 DEF List!Init
<1>3. PICK seg : seg = [q \in Holders |-> IF q = Queue THEN << 1 >>
                                  ELSE IF q = ListOf(maker) THEN [j \in 1 .. ListCapacity - 1 |-> ListCapacity + 1 - j]
                                  ELSE <<>>]
  OBVIOUS
<1>4. /\ Partition(seg, Holders, 1 .. ListCapacity)
      /\ seg[Queue] = << 1 >> /\ seg[ListOf(maker)] = [j \in 1 .. ListCapacity - 1 |-> ListCapacity + 1 - j]
      /\ Len(seg[ListOf(maker)]) = ListCapacity - 1
      /\ \A q \in Holders : q # Queue /\ q # ListOf(maker) => seg[q] = <<>>
  BY <1>3, FirstPage
<1>5. ListCapacity \in Nat /\ ListCapacity > 0 /\ ListNodes \in Nat /\ ListNodes >= ListCapacity
        /\ ListPushes \in Nat
      /\ List!Nodes = 1 .. ListNodes /\ 1 \in List!Nodes
  BY NodeNames DEF List!QueueConstants, List!Nodes
<1>6. ListTypeOK
  <2>1. qNext \in [List!Nodes -> List!Nodes \cup {List!Null}]
    BY <1>2, <1>5
  <2>2. qList \in [ListThreads -> List!Nodes \cup {List!Null}] /\ qSize \in [ListThreads -> 0 .. ListCapacity]
    BY <1>2, <1>5
  <2>3. qTop \in (List!Nodes \cup {List!Null}) \X Nat
    BY <1>2
  <2>4. qOld \in [ListThreads -> (List!Nodes \cup {List!Null}) \X Nat]
    BY <1>2 DEF List!NoTop
  <2>5. qPc \in [ListThreads -> Labels] /\ qChunks \in [ListThreads -> Seq(List!Nodes)]
          /\ qHand \in [ListThreads -> List!Nodes \cup {List!Null, List!Garbage}]
    BY <1>2 DEF Labels
  <2>6. qPushes \in [ListThreads -> 0 .. ListPushes] /\ qChain \in Seq(List!Nodes)
    BY <1>2, <1>5
  <2>7. QED
    BY <1>2, <1>5, <2>1, <2>2, <2>3, <2>4, <2>5, <2>6 DEF ListTypeOK
<1>7. Phases
  BY <1>2, <1>5 DEF Phases, Phase, Pushing
<1>8. Pages
  BY <1>2, <1>5 DEF Pages
<1>9. Held(seg)
  <2>1. Partition(seg, Holders, List!Allocated)
    BY <1>2, <1>4, <1>5 DEF List!Allocated
  <2>2. ASSUME NEW t \in ListThreads PROVE HeldBy(seg, t)
    <3>1. seg[HandOf(t)] = <<>>
      BY <1>4, HoldersApart
    <3>2. CASE t = maker
      <4>1. Len(seg[ListOf(t)]) = qSize[t] /\ qSize[t] = ListCapacity - 1
        BY <1>2, <1>4, <3>2
      <4>2. \A j \in 1 .. ListCapacity - 1 : seg[ListOf(t)][j] = ListCapacity + 1 - j
        BY <1>4, <3>2
      <4>3. qSize[t] > 0 => qList[t] = seg[ListOf(t)][qSize[t]]
        BY <1>2, <1>5, <3>2, <4>1, <4>2
      <4>4. Linked(qNext, seg[ListOf(t)])
        <5> SUFFICES ASSUME NEW j \in 2 .. ListCapacity - 1 PROVE qNext[seg[ListOf(t)][j]] = seg[ListOf(t)][j - 1]
          BY <4>1 DEF Linked
        <5>1. seg[ListOf(t)][j] = ListCapacity + 1 - j /\ seg[ListOf(t)][j - 1] = ListCapacity + 1 - (j - 1)
          BY <1>5, <4>2
        <5>2. PICK n \in List!Nodes : n = ListCapacity + 1 - j /\ n > 1 /\ n < ListCapacity
          BY <1>5
        <5>3. qNext[n] = n + 1
          BY <1>2, <5>2
        <5>4. QED
          BY <1>5, <5>1, <5>2, <5>3
      <4>5. QED
        BY <1>2, <3>1, <4>1, <4>3, <4>4 DEF HeldBy
    <3>3. CASE t # maker
      <4>1. seg[ListOf(t)] = <<>> /\ qSize[t] = 0
        BY <1>2, <1>4, <3>3, HoldersApart
      <4>2. Linked(qNext, <<>>) /\ Len(<<>>) = 0
        BY DEF Linked
      <4>3. QED
        BY <1>2, <3>1, <4>1, <4>2 DEF HeldBy
    <3>4. QED
      BY <3>2, <3>3
  <2>3. ASSUME NEW c \in List!Nodes PROVE HeldInChunk(seg, c)
    BY <1>4, HoldersApart DEF HeldInChunk
  <2>4. QED
    BY <1>2, <1>4, <2>1, <2>2, <2>3 DEF Held
<1>10. PICK st : st = <<>>
  OBVIOUS
<1>11. Partition(HeldChunks(st), ChunkHolders, ChunkHeads(seg))
  <2>1. ChunkHeads(seg) = {}
    BY <1>4, HoldersApart DEF ChunkHeads
  <2>2. PICK s : s = HeldChunks(st)
    OBVIOUS
  <2>3. s = [o \in ChunkHolders |-> <<>>]
    <3>1. ASSUME NEW o \in ChunkHolders PROVE s[o] = <<>>
      <4>1. CASE o = Stack
        BY <1>10, <2>2, <4>1 DEF HeldChunks
      <4>2. ASSUME NEW t \in ListThreads, o = PushesOf(t) PROVE s[o] = <<>>
        BY <1>2, <2>2, <4>2 DEF HeldChunks, PushesOf, Stack
      <4>3. QED
        BY <4>1, <4>2 DEF ChunkHolders
    <3>2. s = [o \in ChunkHolders |-> s[o]]
      BY <2>2 DEF HeldChunks
    <3>3. QED
      BY <3>1, <3>2
  <2>4. s \in [ChunkHolders -> Seq({})] /\ \A o \in ChunkHolders : Len(s[o]) = 0
    BY <2>3
  <2>5. Partition(s, ChunkHolders, {})
    BY <2>4 DEF Partition
  <2>6. QED
    BY <2>1, <2>2, <2>5
<1>12. Stacked(st)
  <2>1. Len(st) = 0 /\ qTop[1] = List!Null
    BY <1>2, <1>10
  <2>2. QED
    BY <1>10, <2>1 DEF Stacked, Linked
<1>13. TagsFresh
  BY <1>2 DEF TagsFresh
<1>14. Chained
  <2>1. Len(qChain) = 1 /\ qChain[1] = 1 /\ qNext[1] = List!Null
    BY <1>2, <1>5
  <2>2. \A t \in ListThreads : ChainEnd(t)
    BY <1>2 DEF ChainEnd
  <2>3. \A i \in 1 .. Len(qChain) - 1 : ChainLink(i)
    BY <2>1
  <2>4. QED
    BY <1>2, <2>1, <2>2, <2>3 DEF Chained
<1>15. seg \in [Holders -> Seq(List!Nodes)]
  <2>1. Partition(seg, Holders, List!Allocated) /\ seg = [q \in Holders |-> seg[q]]
    BY <1>3, <1>9 DEF Held
  <2>2. QED
    BY <1>6, <1>8, <2>1, PartNodes
<1>16. st \in Seq(List!Nodes) /\ MutexOK
  BY <1>2, <1>10 DEF MutexOK
<1>17. QED
  BY <1>6, <1>7, <1>8, <1>9, <1>11, <1>12, <1>13, <1>14, <1>15, <1>16 DEF ListInv, ListParts

\* A step keeps the invariant.
LEMMA ListStep ==
  ASSUME List!QueueConstants, ListInv, List!Next
  PROVE  ListInv'
<1> USE DEF List!memory, List!locals
<1>1. PICK seg \in [Holders -> Seq(List!Nodes)], st \in Seq(List!Nodes) : ListParts(seg, st)
  BY DEF ListInv
<1>2. PICK t \in ListThreads : List!Push(t) \/ List!TryDequeue(t) \/ List!LinkChunk(t) \/ List!PushChunk(t)
  BY DEF List!Next
<1>3. ListParts(seg, st)' => ListInv'
  BY <1>1 DEF ListInv
<1>4. CASE List!Emplace(t)
  BY <1>1, <1>3, <1>4, EmplaceStep
<1>5. ListTypeOK
  BY <1>1 DEF ListParts
<1>6. CASE List!LoadTop(t)
  <2>1. PICK h \in {qHand[t], List!Null} : h = qHand[t]
    OBVIOUS
  <2>2. qHand' = [qHand EXCEPT ![t] = h]
    BY <1>5, <1>6, <2>1 DEF List!LoadTop, ListTypeOK
  <2>3. ListParts(seg, st)'
    BY <1>1, <1>6, <2>2, LoadStep DEF List!LoadTop, List!Goto
  <2>4. QED
    BY <1>3, <2>3
<1>7. CASE List!ReadChunk(t)
  BY <1>1, <1>3, <1>7, ReadChunkStep
<1>8. CASE List!PopChunk(t)
  <2>1. CASE qTop = qOld[t]
    BY <1>1, <1>8, <2>1, PopChunkStep
  <2>2. CASE qTop # qOld[t]
    <3>1. ListParts(seg, st)'
      BY <1>1, <1>8, <2>2, LoadStep DEF List!PopChunk, List!Goto
    <3>2. QED
      BY <1>3, <3>1
  <2>3. QED
    BY <2>1, <2>2
<1>9. CASE List!Reserve(t)
  <2>1. CASE qTop[1] = List!Null
    BY <1>1, <1>9, <2>1, ReservePageStep
  <2>2. CASE qTop[1] # List!Null
    <3>a. PICK l, o : l = "loadTop" /\ o = List!NoTop
      OBVIOUS
    <3>b. /\ qPc[t] = "reserve" /\ qPc' = [qPc EXCEPT ![t] = l] /\ qOld' = [qOld EXCEPT ![t] = o]
          /\ o \in {qOld[t], List!NoTop}
          /\ UNCHANGED <<qNext, qNextChunk, qValue, qNodeCount, qTop, qMutex, qList, qSize, qHead, qTail,
                         qHand, qChunks, qPushes, qPopped, qChain>>
      BY <1>9, <2>2, <3>a DEF List!Reserve, List!Goto
    <3>c. (qPc[t] = "reserve" /\ l = "loadTop") \/ (qPc[t] = "pushChunk" /\ l = "linkChunk")
      BY <3>a, <3>b
    <3>1. ListParts(seg, st)'
      BY <1>1, <3>b, <3>c, AgainStep
    <3>2. QED
      BY <1>3, <3>1
  <2>3. QED
    BY <2>1, <2>2
<1>10. CASE List!Take(t)
  BY <1>1, <1>10, TakeStep
<1>11. CASE List!Exchange(t)
  BY <1>1, <1>11, ExchangeStep
<1>12. CASE List!Link(t)
  BY <1>1, <1>3, <1>12, LinkStep
<1>13. CASE List!TryDequeue(t)
  BY <1>1, <1>13, DequeueStep, DequeueFullStep
<1>14. CASE List!LinkChunk(t)
  BY <1>1, <1>3, <1>14, LinkChunkStep
<1>15. CASE List!PushChunk(t)
  <2>1. CASE qTop = qOld[t]
    BY <1>1, <1>15, <2>1, PushChunkStep
  <2>2. CASE qTop # qOld[t]
    <3>1. PICK o \in {qOld[t], List!NoTop} : o = qOld[t]
      OBVIOUS
    <3>2. qOld' = [qOld EXCEPT ![t] = o]
      BY <1>5, <1>15, <2>2, <3>1 DEF List!PushChunk, ListTypeOK
    <3>3. ListParts(seg, st)'
      BY <1>1, <1>15, <2>2, <3>2, AgainStep DEF List!PushChunk, List!Goto
    <3>4. QED
      BY <1>3, <3>3
  <2>3. QED
    BY <2>1, <2>2
<1>16. QED
  BY <1>2, <1>4, <1>6, <1>7, <1>8, <1>9, <1>10, <1>11, <1>12, <1>13, <1>14, <1>15 DEF List!Push

\* A stuttering step keeps the invariant.
LEMMA ListStutters ==
  ASSUME ListInv, UNCHANGED List!vars
  PROVE  ListInv'
<1> USE DEF List!memory, List!locals, List!vars
<1>1. PICK seg \in [Holders -> Seq(List!Nodes)], st \in Seq(List!Nodes) : ListParts(seg, st)
  BY DEF ListInv
<1>2. ListTypeOK' /\ MutexOK' /\ Phases' /\ Pages'
  BY <1>1 DEF ListParts, ListTypeOK, MutexOK, Phases, Phase, Pages, List!PageSize
<1>3. Held(seg)' /\ ChunkHeads(seg)' = ChunkHeads(seg)
  <2>1. Held(seg)
    BY <1>1 DEF ListParts
  <2>2. UNCHANGED <<qNext, qNodeCount, qMutex, qList, qSize, qChain>>
        /\ \A u \in ListThreads : /\ qPc'[u] = "exchange" <=> qPc[u] = "exchange"
                                  /\ qPc[u] = "exchange" => qHand'[u] = qHand[u]
    OBVIOUS
  <2>3. QED
    BY <2>1, <2>2, HeldKept
<1>4. Partition(HeldChunks(st), ChunkHolders, ChunkHeads(seg))' /\ Stacked(st)'
  BY <1>1, StackKept DEF ListParts
<1>5. TagsFresh' /\ Chained'
  BY <1>1 DEF ListParts, TagsFresh, Chained, ChainLink, ChainEnd
<1>6. QED
  BY <1>1, <1>2, <1>3, <1>4, <1>5 DEF ListInv, ListParts

\* In every state of MPSC_queue (MPSC_queue.h) the queue, the local lists, the hands and the
\* chunks hold the allocated nodes, each node once, and the stack of chunks is intact: no
\* compare-exchange of its top succeeds on a stale pointer, since the tag tells it apart.
THEOREM ListHolds ==
  ASSUME List!QueueConstants
  PROVE  List!Spec => []ListInv
<1>1. List!Init => ListInv
  BY ListInit
<1>2. ListInv /\ [List!Next]_(List!vars) => ListInv'
  BY ListStep, ListStutters
<1>3. QED
  BY <1>1, <1>2, PTL DEF List!Spec

(***************************************************************************)
(* The queue implements BoundedFifo.                                       *)
(***************************************************************************)

\* The refinement mapping: the nodes after the dummy.
QueuePlaces == [i \in 1 .. Len(qChain) - 1 |-> List!Place(i)]
Record(v, p, b) == [val |-> v, by |-> p, ready |-> b]

\* Different nodes are no more than there are nodes.
LEMMA DistinctNodes ==
  ASSUME List!QueueConstants, NEW s \in Seq(List!Nodes), \A i, j \in 1 .. Len(s) : s[i] = s[j] => i = j
  PROVE  Len(s) <= ListNodes
<1>1. PICK k \in Nat : k = Len(s)
  OBVIOUS
<1>2. ListNodes \in Nat
  BY NodeNames
<1>3. SUFFICES ASSUME k > ListNodes PROVE FALSE
  BY <1>1, <1>2
<1>4. IsFiniteSet(1 .. k) /\ Cardinality(1 .. k) = k
  BY FS_Interval
<1>5. IsFiniteSet(1 .. ListNodes) /\ Cardinality(1 .. ListNodes) = ListNodes
  BY <1>2, FS_Interval
<1>6. s \in [1 .. k -> 1 .. ListNodes]
  <2>1. s \in [1 .. Len(s) -> List!Nodes]
    OBVIOUS
  <2>2. QED
    BY <1>1, <2>1 DEF List!Nodes
<1>7. Cardinality(1 .. ListNodes) < Cardinality(1 .. k)
  BY <1>2, <1>3, <1>4, <1>5
<1>8. PICK S, T : S = 1 .. k /\ T = 1 .. ListNodes
  OBVIOUS
<1>9. IsFiniteSet(S) /\ IsFiniteSet(T) /\ Cardinality(T) < Cardinality(S) /\ s \in [S -> T]
  BY <1>4, <1>5, <1>6, <1>7, <1>8
<1>10. \E x, y \in S : x # y /\ s[x] = s[y]
  BY <1>9, FS_PigeonHole
<1>11. QED
  BY <1>1, <1>8, <1>10

\* A place, by its node.
LEMMA PlaceOfNode ==
  ASSUME List!QueueConstants, NEW seg, Held(seg), ListTypeOK, Pages, Chained, NEW i \in 1 .. Len(qChain) - 1
  PROVE  /\ i \in 1 .. Len(qChain) /\ i + 1 \in 1 .. Len(qChain)
         /\ qChain[i] \in List!Nodes /\ qChain[i + 1] \in List!Nodes /\ ChainLink(i)
         /\ List!Place(i) = Record(qValue[qChain[i + 1]], qValue[qChain[i + 1]][1], qNext[qChain[i]] = qChain[i + 1])
<1>1. Len(qChain) \in Nat /\ \A j \in 1 .. Len(qChain) : qChain[j] \in List!Nodes
  BY ChainHeld
<1>2. i \in 1 .. Len(qChain) /\ i + 1 \in 1 .. Len(qChain)
  BY <1>1
<1>3. ChainLink(i)
  BY DEF Chained
<1>4. List!Place(i) = Record(qValue[qChain[i + 1]], qValue[qChain[i + 1]][1], qNext[qChain[i]] = qChain[i + 1])
  BY Zenon DEF List!Place, Record
<1>5. QED
  BY <1>1, <1>2, <1>3, <1>4

\* A step that leaves the queue and its nodes alone is invisible.
LEMMA PlacesKept ==
  ASSUME List!QueueConstants, NEW seg, Held(seg), ListTypeOK, Pages, UNCHANGED <<qChain, qPopped>>,
         \A i \in 1 .. Len(qChain) : qNext'[qChain[i]] = qNext[qChain[i]]
           /\ qValue'[qChain[i]] = qValue[qChain[i]]
  PROVE  UNCHANGED List!Fifo!fifoVars
<1>1. Len(qChain) \in Nat
  BY ChainHeld
<1>2. ASSUME NEW i \in 1 .. Len(qChain) - 1 PROVE List!Place(i)' = List!Place(i)
  <2>1. i \in 1 .. Len(qChain) /\ i + 1 \in 1 .. Len(qChain)
    BY <1>1
  <2>2. /\ qChain'[i] = qChain[i] /\ qChain'[i + 1] = qChain[i + 1]
        /\ qNext'[qChain[i]] = qNext[qChain[i]] /\ qValue'[qChain[i + 1]] = qValue[qChain[i + 1]]
    BY <2>1
  <2>3. QED
    BY <2>2, Zenon DEF List!Place
<1>3. QueuePlaces' = QueuePlaces
  BY <1>2 DEF QueuePlaces
<1>4. QED
  BY <1>3 DEF List!Fifo!fifoVars, QueuePlaces

\* The exchange of head_ in emplace claims a place at the end.
LEMMA ExchangeClaims ==
  ASSUME List!QueueConstants, NEW seg, NEW st, ListParts(seg, st), NEW t \in ListThreads, List!Exchange(t)
  PROVE  List!Fifo!Next
<1>1. PICK n : n = qHand[t]
  OBVIOUS
<1>2. /\ qPc[t] = "exchange" /\ qChain' = Append(qChain, n) /\ UNCHANGED <<qNext, qValue, qPopped>>
  BY <1>1 DEF List!Exchange, List!memory
<1>3. ListTypeOK /\ MutexOK /\ Phases /\ Pages /\ Held(seg) /\ Stacked(st) /\ TagsFresh /\ Chained
  BY DEF ListParts
<1>4. n \in List!Nodes /\ qValue[n] = <<t, qPushes[t]>> /\ qPushes[t] > 0
  BY <1>1, <1>2, <1>3 DEF Chained, ChainEnd
<1>5. /\ qChain \in Seq(List!Nodes) /\ Len(qChain) \in Nat
      /\ \A i, j \in 1 .. Len(qChain) : qChain[i] = qChain[j] => i = j
  BY <1>3, ChainHeld
<1>6. Len(qChain) > 0 /\ qNext[qChain[Len(qChain)]] = List!Null
  BY <1>3 DEF Chained
<1>7. PICK k \in Nat : k = Len(qChain) - 1
  BY <1>5, <1>6
<1>8. k < ListNodes
  <2>1. Len(qChain) <= ListNodes /\ ListNodes \in Nat
    BY <1>5, DistinctNodes, NodeNames
  <2>2. QED
    BY <1>5, <1>7, <2>1
<1>9. Len(qChain') = k + 2 /\ qChain'[k + 2] = n /\ \A i \in 1 .. k + 1 : qChain'[i] = qChain[i]
  BY <1>2, <1>4, <1>5, <1>7
<1>10. ASSUME NEW i \in 1 .. k PROVE List!Place(i)' = List!Place(i)
                /\ (List!Place(i).by = t => List!Place(i).ready)
  <2>1. i \in 1 .. k + 1 /\ i + 1 \in 1 .. k + 1
    OBVIOUS
  <2>2. List!Place(i)' = List!Place(i)
    BY <1>2, <1>9, <2>1, Zenon DEF List!Place
  <2>3. ChainLink(i)
    BY <1>3, <1>7 DEF Chained
  <2>4. List!Place(i).by = qValue[qChain[i + 1]][1]
          /\ (List!Place(i).ready <=> qNext[qChain[i]] = qChain[i + 1])
    BY DEF List!Place
  <2>5. QED
    BY <1>2, <2>2, <2>3, <2>4 DEF ChainLink
<1>11. PICK x : x = Record(qValue[n], t, FALSE)
  OBVIOUS
<1>12. List!Place(k + 1)' = x
  <2>1. qChain'[k + 1] = qChain[k + 1] /\ qChain'[(k + 1) + 1] = n
    BY <1>9
  <2>2. qValue'[n] = qValue[n] /\ qValue[n][1] = t
    BY <1>2, <1>4
  <2>3. (qNext'[qChain'[k + 1]] = qChain'[(k + 1) + 1]) = FALSE
    BY <1>2, <1>4, <1>6, <1>7, <2>1, NodeNames
  <2>4. QED
    BY <1>11, <2>1, <2>2, <2>3, Zenon DEF List!Place, Record
<1>13. PICK p : p = QueuePlaces
  OBVIOUS
<1>14. PICK q : q = QueuePlaces'
  OBVIOUS
<1>15. p = [i \in 1 .. k |-> List!Place(i)]
  BY <1>7, <1>13 DEF QueuePlaces
<1>16. q = [i \in 1 .. k + 1 |-> List!Place(i)']
  BY <1>9, <1>14 DEF QueuePlaces
<1>17. p = [i \in 1 .. k |-> p[i]] /\ q = [i \in 1 .. k + 1 |-> q[i]] /\ q[k + 1] = x
       /\ \A i \in 1 .. k : q[i] = p[i] /\ (p[i].by = t => p[i].ready)
  BY <1>10, <1>12, <1>15, <1>16
<1>18. Len(p) = k /\ q = Append(p, x)
  <2>1. Len(p) = k /\ q = Append(p, q[k + 1])
    <3>1. p = [i \in 1 .. k |-> p[i]] /\ q = [i \in 1 .. k + 1 |-> q[i]]
      BY <1>17
    <3>2. \A i \in 1 .. k : q[i] = p[i]
      BY <1>17
    <3>3. QED
      BY <3>1, <3>2, RingP!SequenceGrows, SMTT(60)
  <2>2. q[k + 1] = x
    BY <1>17
  <2>3. QED
    BY <2>1, <2>2
<1>19. List!Fifo!Claim(t, qValue[n])
  BY <1>2, <1>8, <1>11, <1>13, <1>14, <1>17, <1>18 DEF List!Fifo!Claim, QueuePlaces, Record
<1>20. qValue[n] \in List!Values
  BY <1>3, <1>4, NodeNames DEF List!Values, ListTypeOK
<1>21. QED
  BY <1>19, <1>20 DEF List!Fifo!Next

\* The store to next_ in emplace publishes the place of its node.
LEMMA LinkPublishes ==
  ASSUME List!QueueConstants, NEW seg, NEW st, ListParts(seg, st), NEW t \in ListThreads, List!Link(t)
  PROVE  List!Fifo!Next
<1>1. ListTypeOK /\ MutexOK /\ Phases /\ Pages /\ Held(seg) /\ Stacked(st) /\ TagsFresh /\ Chained
  BY DEF ListParts
<1>2. PICK k \in 1 .. Len(qChain) - 1 :
        qOld[t][1] = qChain[k] /\ qHand[t] = qChain[k + 1] /\ qNext[qChain[k]] = List!Null
  BY <1>1 DEF List!Link, Chained, ChainEnd
<1>3. /\ qNext' = [qNext EXCEPT ![qChain[k]] = qChain[k + 1]] /\ UNCHANGED <<qValue, qPopped, qChain>>
      /\ qValue[qHand[t]] = <<t, qPushes[t]>>
  BY <1>1, <1>2 DEF List!Link, Chained, ChainEnd
<1>4. /\ qChain \in Seq(List!Nodes) /\ Len(qChain) \in Nat
      /\ \A i, j \in 1 .. Len(qChain) : qChain[i] = qChain[j] => i = j
  BY <1>1, ChainHeld
<1>5. ASSUME NEW i \in 1 .. Len(qChain) - 1
      PROVE  /\ i \in 1 .. Len(qChain) /\ i + 1 \in 1 .. Len(qChain) /\ qChain[i] \in List!Nodes
             /\ qChain[i + 1] \in List!Nodes
             /\ List!Place(i) = Record(qValue[qChain[i + 1]], qValue[qChain[i + 1]][1], qNext[qChain[i]] = qChain[i + 1])
  BY <1>1, PlaceOfNode
<1>6. PICK x : x = Record(qValue[qChain[k + 1]], t, FALSE)
  OBVIOUS
<1>7. List!Place(k) = x
  <2>1. qValue[qChain[k + 1]][1] = t
    BY <1>2, <1>3
  <2>2. (qNext[qChain[k]] = qChain[k + 1]) = FALSE
    BY <1>2, <1>5, NodeNames
  <2>3. QED
    BY <1>5, <1>6, <2>1, <2>2
<1>8. List!Place(k)' = [x EXCEPT !.ready = TRUE]
  <2>1. (qNext'[qChain[k]] = qChain[k + 1]) = TRUE
    BY <1>1, <1>3, <1>5 DEF ListTypeOK
  <2>2. qValue[qChain[k + 1]][1] = t
    BY <1>2, <1>3
  <2>3. List!Place(k)' = Record(qValue[qChain[k + 1]], t, TRUE)
    BY <1>3, <2>1, <2>2, Zenon DEF List!Place, Record
  <2>4. [Record(qValue[qChain[k + 1]], t, FALSE) EXCEPT !.ready = TRUE] = Record(qValue[qChain[k + 1]], t, TRUE)
    BY RingP!RecordUpdate, Zenon DEF Record
  <2>5. QED
    BY <1>6, <2>3, <2>4
<1>9. ASSUME NEW i \in 1 .. Len(qChain) - 1, i # k PROVE List!Place(i)' = List!Place(i)
  <2>1. qChain[i] # qChain[k] /\ qChain[i] \in List!Nodes
    BY <1>4, <1>5, <1>9
  <2>2. qNext'[qChain[i]] = qNext[qChain[i]]
    BY <1>1, <1>3, <2>1 DEF ListTypeOK
  <2>3. QED
    BY <1>3, <2>2, Zenon DEF List!Place
<1>10. PICK p : p = QueuePlaces
  OBVIOUS
<1>11. PICK q : q = QueuePlaces'
  OBVIOUS
<1>12. PICK m \in Nat : m = Len(qChain) - 1
  BY <1>2, <1>4
<1>13. p = [i \in 1 .. m |-> List!Place(i)] /\ q = [i \in 1 .. m |-> List!Place(i)'] /\ k \in 1 .. m
  BY <1>3, <1>10, <1>11, <1>12 DEF QueuePlaces
<1>14. p = [i \in 1 .. m |-> p[i]] /\ p[k] = x
  BY <1>7, <1>13
<1>15. Len(p) = m
  <2>1. PICK S : S = {p[i] : i \in 1 .. m}
    OBVIOUS
  <2>2. \A i \in 1 .. m : p[i] \in S
    BY <2>1
  <2>3. QED
    BY <1>14, <2>2, FunctionIsSeq
<1>16. q = [p EXCEPT ![k] = [p[k] EXCEPT !.ready = TRUE]]
  <2>1. q[k] = [p[k] EXCEPT !.ready = TRUE]
    BY <1>8, <1>13, <1>14
  <2>2. \A i \in 1 .. m : i # k => q[i] = p[i]
    BY <1>9, <1>12, <1>13
  <2>3. q = [i \in 1 .. m |-> q[i]]
    BY <1>13
  <2>4. QED
    BY <1>14, <2>1, <2>2, <2>3
<1>17. p[k].by = t /\ ~p[k].ready
  BY <1>6, <1>14 DEF Record
<1>18. List!Fifo!Publish(t)
  BY <1>3, <1>10, <1>11, <1>13, <1>15, <1>16, <1>17 DEF List!Fifo!Publish, QueuePlaces
<1>19. QED
  BY <1>18 DEF List!Fifo!Next

\* try_dequeue takes the first place.
LEMMA DequeueTakes ==
  ASSUME List!QueueConstants, NEW seg, NEW st, ListParts(seg, st), NEW t \in ListThreads, List!TryDequeue(t)
  PROVE  List!Fifo!Next
<1>1. PICK d, n : d = qTail /\ n = qNext[qTail]
  OBVIOUS
<1>2. ListTypeOK /\ MutexOK /\ Phases /\ Pages /\ Held(seg) /\ Stacked(st) /\ TagsFresh /\ Chained
  BY DEF ListParts
<1>3. /\ n # List!Null /\ qPopped' = Append(qPopped, qValue[n]) /\ qValue' = [qValue EXCEPT ![n] = List!NoValue]
      /\ qChain' = Tail(qChain) /\ qNext' = [qNext EXCEPT ![d] = qList[t]]
  BY <1>1 DEF List!TryDequeue, List!Deallocate
<1>4. Len(qChain) \in Nat /\ Len(qChain) > 1 /\ d = qChain[1] /\ n = qChain[2]
  BY <1>1, <1>2, <1>3, Dequeued
<1>5. /\ qChain \in Seq(List!Nodes) /\ \A i \in 1 .. Len(qChain) : qChain[i] \in List!Nodes
      /\ \A i, j \in 1 .. Len(qChain) : qChain[i] = qChain[j] => i = j
  BY <1>2, ChainHeld
<1>6. PICK k \in Nat : k = Len(qChain) - 2
  BY <1>4
<1>7. Len(qChain') = k + 1 /\ \A i \in 1 .. k + 1 : qChain'[i] = qChain[i + 1]
  BY <1>3, <1>4, <1>5, <1>6
<1>8. ASSUME NEW i \in 1 .. k PROVE List!Place(i)' = List!Place(i + 1)
  <2>1. i + 1 \in 1 .. k + 1 /\ i \in 1 .. k + 1 /\ i + 1 \in 1 .. Len(qChain)
          /\ (i + 1) + 1 \in 1 .. Len(qChain)
        /\ i + 1 # 1 /\ (i + 1) + 1 # 2
    BY <1>6
  <2>2. PICK j : j = i + 1
    OBVIOUS
  <2>3. qChain'[i] = qChain[j] /\ qChain'[i + 1] = qChain[j + 1]
    BY <1>7, <2>1, <2>2
  <2>4. qChain[j] # d /\ qChain[j + 1] # n /\ qChain[j] \in List!Nodes /\ qChain[j + 1] \in List!Nodes
    <3>1. 1 \in 1 .. Len(qChain) /\ 2 \in 1 .. Len(qChain)
      BY <1>4
    <3>2. QED
      BY <1>4, <1>5, <2>1, <2>2, <3>1
  <2>5. qNext'[qChain[j]] = qNext[qChain[j]] /\ qValue'[qChain[j + 1]] = qValue[qChain[j + 1]]
    BY <1>2, <1>3, <2>4 DEF ListTypeOK
  <2>6. List!Place(i)' = List!Place(j)
    BY <2>3, <2>5, Zenon DEF List!Place
  <2>7. QED
    BY <2>2, <2>6
<1>9. PICK p : p = QueuePlaces
  OBVIOUS
<1>10. PICK q : q = QueuePlaces'
  OBVIOUS
<1>11. p = [i \in 1 .. k + 1 |-> List!Place(i)] /\ q = [i \in 1 .. k |-> List!Place(i)']
  BY <1>6, <1>7, <1>9, <1>10 DEF QueuePlaces
<1>12. PICK S : S = {p[i] : i \in 1 .. k + 1}
  OBVIOUS
<1>13. p \in [1 .. k + 1 -> S] /\ \A i \in 1 .. k : q[i] = p[i + 1]
  <2>1. \A i \in 1 .. k : i + 1 \in 1 .. k + 1
    OBVIOUS
  <2>2. QED
    BY <1>8, <1>11, <1>12, <2>1
<1>14. q \in [1 .. k -> S]
  <2>1. \A i \in 1 .. k : q[i] \in S
    <3> SUFFICES ASSUME NEW i \in 1 .. k PROVE q[i] \in S
      OBVIOUS
    <3>1. i + 1 \in 1 .. k + 1
      OBVIOUS
    <3>2. QED
      BY <1>12, <1>13, <3>1
  <2>2. q = [i \in 1 .. k |-> q[i]]
    BY <1>11
  <2>3. QED
    BY <2>1, <2>2
<1>15. p # <<>> /\ q = Tail(p) /\ Head(p) = p[1]
  BY <1>13, <1>14, RingP!SequenceShrinks
<1>16. p[1].ready /\ p[1].val = qValue[n]
  <2>1. p[1] = List!Place(1)
    BY <1>11
  <2>2. qNext[qChain[1]] = qChain[1 + 1] /\ qChain[1 + 1] = n
    BY <1>1, <1>4
  <2>3. List!Place(1).ready /\ List!Place(1).val = qValue[n]
    BY <2>2 DEF List!Place
  <2>4. QED
    BY <2>1, <2>3
<1>17. List!Fifo!Take
  BY <1>3, <1>9, <1>10, <1>15, <1>16 DEF List!Fifo!Take, QueuePlaces
<1>18. QED
  BY <1>17 DEF List!Fifo!Next

\* A step of the queue is a step of the mailbox specification, or invisible.
LEMMA ListStepsFifo ==
  ASSUME List!QueueConstants, ListInv, List!Next
  PROVE  [List!Fifo!Next]_(List!Fifo!fifoVars)
<1> USE DEF List!memory, List!locals
<1>1. PICK seg \in [Holders -> Seq(List!Nodes)], st \in Seq(List!Nodes) : ListParts(seg, st)
  BY DEF ListInv
<1>2. ListTypeOK /\ MutexOK /\ Phases /\ Pages /\ Held(seg) /\ Stacked(st) /\ TagsFresh /\ Chained
  BY <1>1 DEF ListParts
<1>3. PICK t \in ListThreads : List!Push(t) \/ List!TryDequeue(t) \/ List!LinkChunk(t) \/ List!PushChunk(t)
  BY DEF List!Next
<1>4. ASSUME UNCHANGED <<qNext, qValue, qChain, qPopped>> PROVE UNCHANGED List!Fifo!fifoVars
  BY <1>2, <1>4, PlacesKept
<1>5. CASE List!Emplace(t) \/ List!LoadTop(t) \/ List!ReadChunk(t) \/ List!PopChunk(t) \/ List!LinkChunk(t)
             \/ List!PushChunk(t)
  <2>1. UNCHANGED <<qNext, qValue, qChain, qPopped>>
    BY <1>5 DEF List!Emplace, List!LoadTop, List!ReadChunk, List!PopChunk, List!LinkChunk, List!PushChunk
  <2>2. QED
    BY <1>4, <2>1
<1>6. CASE List!Reserve(t)
  <2>1. CASE qTop[1] # List!Null
    <3>1. UNCHANGED <<qNext, qValue, qChain, qPopped>>
      BY <1>6, <2>1 DEF List!Reserve
    <3>2. QED
      BY <1>4, <3>1
  <2>2. CASE qTop[1] = List!Null
    <3>1. /\ qMutex = {} /\ UNCHANGED <<qValue, qChain, qPopped>>
          /\ qNext' = [n \in List!Nodes |-> IF n \in qNodeCount + 1 .. qNodeCount + List!PageSize
                                              THEN IF (n - qNodeCount) % ListCapacity = 0 THEN List!Null ELSE n + 1
                                              ELSE qNext[n]]
      BY <1>6, <2>2 DEF List!Reserve, List!NewPage
    <3>2. qNodeCount \in Nat /\ List!Allocated = 1 .. qNodeCount
      <4>1. qNodeCount \in Nat
        BY <1>2, PageDoubles
      <4>2. qNodeCount + 0 = qNodeCount
        BY <4>1
      <4>3. QED
        BY <3>1, <4>1, <4>2 DEF List!Allocated
    <3>3. \A i \in 1 .. Len(qChain) : qChain[i] \in List!Nodes /\ qChain[i] \in List!Allocated
      BY <1>2, ChainHeld
    <3>4. \A n \in List!Allocated : n \notin qNodeCount + 1 .. qNodeCount + List!PageSize
      BY <3>2
    <3>5. \A i \in 1 .. Len(qChain) : qNext'[qChain[i]] = qNext[qChain[i]]
      BY <3>1, <3>3, <3>4
    <3>6. UNCHANGED List!Fifo!fifoVars
      BY <1>2, <3>1, <3>5, PlacesKept
    <3>7. QED
      BY <3>6
  <2>3. QED
    BY <2>1, <2>2
<1>7. CASE List!Take(t)
  <2>1. PICK n : n = qList[t]
    OBVIOUS
  <2>2. /\ qPc[t] = "take" /\ qNext' = [qNext EXCEPT ![n] = List!Null]
        /\ qValue' = [qValue EXCEPT ![n] = <<t, qPushes[t]>>]
        /\ UNCHANGED <<qChain, qPopped>>
    BY <1>7, <2>1 DEF List!Take
  <2>3. qSize[t] \in 1 .. ListCapacity /\ HeldBy(seg, t) /\ ListOf(t) \in Holders /\ Queue \in Holders
          /\ Queue # ListOf(t)
    BY <1>2, <2>2, NodeNames, HoldersApart DEF ListTypeOK, Phases, Phase, Held
  <2>4. Len(seg[ListOf(t)]) = qSize[t] /\ n = seg[ListOf(t)][qSize[t]] /\ qSize[t] \in 1 .. Len(seg[ListOf(t)])
    BY <2>1, <2>3 DEF HeldBy
  <2>5. \A i \in 1 .. Len(qChain) : qChain[i] # n /\ qChain[i] \in List!Nodes
    <3>1. seg[Queue] = qChain /\ \A i \in 1 .. Len(qChain) : qChain[i] \in List!Nodes
      BY <1>2, ChainHeld
    <3>2. QED
      BY <1>2, <2>3, <2>4, <3>1, HeldOnce
  <2>6. \A i \in 1 .. Len(qChain) : qNext'[qChain[i]] = qNext[qChain[i]]
          /\ qValue'[qChain[i]] = qValue[qChain[i]]
    BY <1>2, <2>2, <2>5 DEF ListTypeOK
  <2>7. UNCHANGED List!Fifo!fifoVars
    BY <1>2, <2>2, <2>6, PlacesKept
  <2>8. QED
    BY <2>7
<1>8. CASE List!Exchange(t)
  BY <1>1, <1>8, ExchangeClaims
<1>9. CASE List!Link(t)
  BY <1>1, <1>9, LinkPublishes
<1>10. CASE List!TryDequeue(t)
  BY <1>1, <1>10, DequeueTakes
<1>11. QED
  BY <1>3, <1>5, <1>6, <1>7, <1>8, <1>9, <1>10 DEF List!Push

\* The linked list is a first-in first-out queue: emplace claims a place by its exchange of
\* head_ and publishes it by its store to next_, try_dequeue takes the first (MPSC_queue.h).
THEOREM ListIsFifo ==
  ASSUME List!QueueConstants
  PROVE  List!Spec => List!ImplementsFifo
<1>1. List!Init => List!Fifo!Init
  <2> SUFFICES ASSUME List!Init PROVE List!Fifo!Init
    OBVIOUS
  <2>1. qChain = << 1 >> /\ qPopped = <<>>
    BY DEF List!Init
  <2>2. QueuePlaces = <<>>
    BY <2>1 DEF QueuePlaces
  <2>3. QED
    BY <2>1, <2>2 DEF List!Fifo!Init, QueuePlaces
<1>2. ListInv /\ [List!Next]_(List!vars) => [List!Fifo!Next]_(List!Fifo!fifoVars)
  <2> SUFFICES ASSUME ListInv, [List!Next]_(List!vars) PROVE [List!Fifo!Next]_(List!Fifo!fifoVars)
    OBVIOUS
  <2>1. CASE List!Next
    BY <2>1, ListStepsFifo
  <2>2. CASE UNCHANGED List!vars
    <3>1. UNCHANGED <<qChain, qPopped, qNext, qValue>>
      BY <2>2 DEF List!vars, List!memory
    <3>2. QED
      BY <3>1, Zenon DEF List!Fifo!fifoVars, List!Place
  <2>3. QED
    BY <2>1, <2>2
<1>3. QED
  BY <1>1, <1>2, ListHolds, PTL DEF List!Spec, List!ImplementsFifo, List!Fifo!Spec

(***************************************************************************)
(* Every node is in one place: NodeOnce, which follows pointers, says what *)
(* the invariant says with sequences.                                      *)
(***************************************************************************)

\* A set of naturals has a least member.
LEMMA LeastNatural ==
  ASSUME NEW T, T \subseteq Nat, T # {}
  PROVE  \E x \in T : \A y \in T : x <= y
<1>1. PICK R : R = OpToRel(<, Nat)
  OBVIOUS
<1>2. IsWellFoundedOn(R, Nat)
  BY <1>1, NatLessThanWellFounded
<1>3. PICK x \in T : \A y \in T : ~(<<y, x>> \in R)
  BY <1>2, WFMin
<1>4. \A y \in T : ~(y < x)
  BY <1>1, <1>3 DEF OpToRel
<1>5. QED
  BY <1>4

\* g follows the pointers of f from n on, for k nodes.
Follows(f, n, k, g) ==
  g = [i \in 1 .. k |-> IF i = 1 THEN n ELSE IF g[i - 1] \in List!Nodes THEN f[g[i - 1]] ELSE List!Null]

\* There is one way to follow pointers, and Path is it.
LEMMA PathIs ==
  ASSUME NEW f, NEW n, NEW k \in Nat, NEW g, Follows(f, n, k, g)
  PROVE  List!Path(f, n, k) = g
<1>1. PICK h : h = List!Path(f, n, k)
  OBVIOUS
<1>2. Follows(f, n, k, h)
  <2> DEFINE F(x) == [i \in 1 .. k |-> IF i = 1 THEN n ELSE IF x[i - 1] \in List!Nodes THEN f[x[i - 1]] ELSE List!Null]
  <2> DEFINE it == CHOOSE x : x = F(x)
  <2>1. List!Path(f, n, k) = it
    BY DEF List!Path
  <2>2. g = F(g)
    BY DEF Follows
  <2>3. it = F(it)
    BY <2>2
  <2>4. QED
    BY <1>1, <2>1, <2>3 DEF Follows
<1>3. /\ \A i \in 1 .. k : h[i] = IF i = 1 THEN n ELSE IF h[i - 1] \in List!Nodes THEN f[h[i - 1]] ELSE List!Null
      /\ h = [i \in 1 .. k |-> h[i]]
  BY <1>2, Zenon DEF Follows
<1>4. /\ \A i \in 1 .. k : g[i] = IF i = 1 THEN n ELSE IF g[i - 1] \in List!Nodes THEN f[g[i - 1]] ELSE List!Null
      /\ g = [i \in 1 .. k |-> g[i]]
  BY Zenon DEF Follows
<1>5. \A i \in 1 .. k : h[i] = g[i]
  <2>1. PICK Bad : Bad = {i \in 1 .. k : h[i] # g[i]}
    OBVIOUS
  <2>2. SUFFICES ASSUME Bad # {} PROVE FALSE
    BY <2>1
  <2>3. Bad \subseteq Nat
    BY <2>1
  <2>4. PICK i \in Bad : \A j \in Bad : i <= j
    BY <2>2, <2>3, LeastNatural
  <2>5. i \in 1 .. k /\ h[i] # g[i]
    BY <2>1
  <2>6. CASE i = 1
    BY <1>3, <1>4, <2>5, <2>6
  <2>7. CASE i # 1
    <3>1. i - 1 \in 1 .. k /\ ~(i <= i - 1)
      BY <2>5, <2>7
    <3>2. h[i - 1] = g[i - 1]
      BY <2>1, <2>4, <3>1
    <3>3. QED
      BY <1>3, <1>4, <2>5, <2>7, <3>2
  <2>8. QED
    BY <2>6, <2>7
<1>6. QED
  BY <1>1, <1>3, <1>4, <1>5

\* The path along linked nodes is the sequence of the nodes, from its last on.
LEMMA LinkedPath ==
  ASSUME NEW f, NEW s \in Seq(List!Nodes), Linked(f, s), NEW k \in Nat, k = Len(s), NEW n, k > 0 => n = s[k]
  PROVE  \A j \in 1 .. k : k + 1 - j \in 1 .. k /\ List!Path(f, n, k)[j] = s[k + 1 - j]
<1>1. PICK g : g = [j \in 1 .. k |-> s[k + 1 - j]]
  OBVIOUS
<1>2. \A j \in 1 .. k : k + 1 - j \in 1 .. k /\ s[k + 1 - j] \in List!Nodes /\ g[j] = s[k + 1 - j]
  BY <1>1
<1>3. ASSUME NEW j \in 1 .. k
      PROVE  g[j] = IF j = 1 THEN n ELSE IF g[j - 1] \in List!Nodes THEN f[g[j - 1]] ELSE List!Null
  <2>1. CASE j = 1
    BY <1>2, <2>1
  <2>2. CASE j # 1
    <3>a. k + 2 - j \in 2 .. k /\ (k + 2 - j) - 1 = k + 1 - j
      BY <2>2
    <3>1. PICK i \in 2 .. k : i = k + 2 - j /\ i - 1 = k + 1 - j
      BY <3>a
    <3>2. j - 1 \in 1 .. k /\ k + 1 - (j - 1) = i
      BY <2>2, <3>1
    <3>3. g[j - 1] = s[i] /\ g[j - 1] \in List!Nodes
      BY <1>2, <3>2
    <3>4. f[s[i]] = s[i - 1]
      BY DEF Linked
    <3>5. g[j] = s[i - 1]
      BY <1>2, <3>1
    <3>6. QED
      BY <2>2, <3>3, <3>4, <3>5
  <2>3. QED
    BY <2>1, <2>2
<1>4. Follows(f, n, k, g)
  <2>1. g = [j \in 1 .. k |-> g[j]]
    BY <1>1
  <2>2. QED
    BY <1>3, <2>1 DEF Follows
<1>5. List!Path(f, n, k) = g
  BY <1>4, PathIs
<1>6. QED
  BY <1>2, <1>5

\* The path down a stack that ends with the null pointer is the stack, and no node after it.
LEMMA StackPath ==
  ASSUME List!QueueConstants, NEW f, NEW s \in Seq(List!Nodes), Linked(f, s), Len(s) <= ListNodes, NEW n,
         n = IF s = <<>> THEN List!Null ELSE s[Len(s)], s # <<>> => f[s[1]] = List!Null
  PROVE  /\ DOMAIN List!Path(f, n, ListNodes) = 1 .. ListNodes
         /\ \A j \in 1 .. Len(s) : /\ Len(s) + 1 - j \in 1 .. Len(s) /\ j \in 1 .. ListNodes
                                   /\ List!Path(f, n, ListNodes)[j] = s[Len(s) + 1 - j]
         /\ \A j \in 1 .. ListNodes : List!Path(f, n, ListNodes)[j] \in List!Nodes => j \in 1 .. Len(s)
<1>1. PICK k \in Nat : k = Len(s)
  OBVIOUS
<1>2. PICK m \in Nat : m = ListNodes /\ k <= m
  BY <1>1, NodeNames
<1>3. PICK g : g = [j \in 1 .. m |-> IF j <= k THEN s[k + 1 - j] ELSE List!Null]
  OBVIOUS
<1>4. \A j \in 1 .. k : k + 1 - j \in 1 .. k /\ j \in 1 .. m /\ s[k + 1 - j] \in List!Nodes
        /\ g[j] = s[k + 1 - j]
  BY <1>1, <1>2, <1>3
<1>5. \A j \in 1 .. m : ~(j <= k) => g[j] = List!Null
  BY <1>3
<1>6. ASSUME NEW j \in 1 .. m
      PROVE  g[j] = IF j = 1 THEN n ELSE IF g[j - 1] \in List!Nodes THEN f[g[j - 1]] ELSE List!Null
  <2>1. CASE j = 1
    <3>1. CASE k = 0
      <4>1. s = <<>>
        BY <1>1, <3>1, EmptySeq
      <4>2. QED
        BY <1>5, <2>1, <3>1, <4>1
    <3>2. CASE k # 0
      <4>1. s # <<>> /\ 1 \in 1 .. k /\ k + 1 - 1 = k
        BY <1>1, <3>2
      <4>2. g[1] = s[k]
        BY <1>4, <4>1
      <4>3. QED
        BY <1>1, <2>1, <4>1, <4>2
    <3>3. QED
      BY <3>1, <3>2
  <2>2. CASE j # 1 /\ j <= k
    <3>1. PICK i \in 2 .. k : i = k + 2 - j /\ i - 1 = k + 1 - j
      BY <2>2
    <3>2. j - 1 \in 1 .. k /\ k + 1 - (j - 1) = i /\ j \in 1 .. k
      BY <2>2, <3>1
    <3>3. g[j - 1] = s[i] /\ g[j - 1] \in List!Nodes
      BY <1>4, <3>2
    <3>4. f[s[i]] = s[i - 1]
      BY <1>1 DEF Linked
    <3>5. g[j] = s[i - 1]
      BY <1>4, <3>1, <3>2
    <3>6. QED
      BY <2>2, <3>3, <3>4, <3>5
  <2>3. CASE j # 1 /\ j = k + 1
    <3>1. j - 1 \in 1 .. k /\ k + 1 - (j - 1) = 1 /\ s # <<>>
      BY <1>1, <2>3
    <3>2. g[j - 1] = s[1]
      BY <1>4, <3>1
    <3>3. g[j] = List!Null
      BY <1>5, <2>3
    <3>4. QED
      BY <2>3, <3>1, <3>2, <3>3
  <2>4. CASE j # 1 /\ j > k + 1
    <3>1. j - 1 \in 1 .. m /\ ~(j - 1 <= k) /\ ~(j <= k)
      BY <2>4
    <3>2. g[j - 1] = List!Null /\ g[j] = List!Null
      BY <1>5, <3>1
    <3>3. QED
      BY <2>4, <3>2, NodeNames
  <2>5. QED
    BY <2>1, <2>2, <2>3, <2>4
<1>7. Follows(f, n, m, g)
  <2>1. g = [j \in 1 .. m |-> g[j]]
    BY <1>3
  <2>2. QED
    BY <1>6, <2>1 DEF Follows
<1>8. List!Path(f, n, m) = g
  BY <1>7, PathIs
<1>9. DOMAIN g = 1 .. m
  BY <1>3
<1>10. \A j \in 1 .. m : g[j] \in List!Nodes => j \in 1 .. k
  BY <1>5, NodeNames
<1>11. QED
  BY <1>1, <1>2, <1>4, <1>8, <1>9, <1>10

\* p is the place of the i-th node that o holds.
IsPlace(seg, st, p, o, i) ==
  \/ o = Queue /\ p = <<seg[o][i], "chain", i, 0>>
  \/ \E t \in ListThreads : o = ListOf(t) /\ p = <<seg[o][i], t, 0, qSize[t] + 1 - i>>
  \/ \E t \in ListThreads : o = HandOf(t) /\ p = <<seg[o][i], t, 0, 0>>
  \/ \E t \in ListThreads : \E k \in 1 .. Len(qChunks[t]) :
       o = ChunkOf(qChunks[t][k]) /\ p = <<seg[o][i], t, k, ListCapacity + 1 - i>>
  \/ \E k \in 1 .. Len(st) :
       o = ChunkOf(st[k]) /\ p = <<seg[o][i], "stack", Len(st) + 1 - k, ListCapacity + 1 - i>>

\* A node that is held has one place.
LEMMA OnePlaceHeld ==
  ASSUME List!QueueConstants, NEW seg, NEW st, ListParts(seg, st), NEW o, NEW i, NEW p, NEW q,
         IsPlace(seg, st, p, o, i), IsPlace(seg, st, q, o, i)
  PROVE  p = q
<1>1. /\ \A u \in ListThreads : \A k \in 1 .. Len(qChunks[u]) :
           /\ \A j \in 1 .. Len(st) : qChunks[u][k] # st[j]
           /\ \A v \in ListThreads : \A j \in 1 .. Len(qChunks[v]) :
                qChunks[u][k] = qChunks[v][j] => u = v /\ k = j
      /\ \A k, j \in 1 .. Len(st) : st[k] = st[j] => k = j
  BY ChunksApart
<1>2. \A t, c : Queue # ListOf(t) /\ Queue # HandOf(t) /\ Queue # ChunkOf(c)
  BY DEF Queue, ListOf, HandOf, ChunkOf
<1>3. \A t, u, c : ListOf(t) # HandOf(u) /\ ListOf(t) # ChunkOf(c) /\ HandOf(t) # ChunkOf(c)
  BY DEF ListOf, HandOf, ChunkOf
<1>4. \A t, u : /\ ListOf(t) = ListOf(u) => t = u
                /\ HandOf(t) = HandOf(u) => t = u
                /\ ChunkOf(t) = ChunkOf(u) => t = u
  BY DEF ListOf, HandOf, ChunkOf
<1>5. CASE o = Queue
  BY <1>2, <1>5 DEF IsPlace
<1>6. ASSUME NEW t \in ListThreads, o = ListOf(t) PROVE p = q
  BY <1>2, <1>3, <1>4, <1>6 DEF IsPlace
<1>7. ASSUME NEW t \in ListThreads, o = HandOf(t) PROVE p = q
  BY <1>2, <1>3, <1>4, <1>7 DEF IsPlace
<1>8. ASSUME NEW t \in ListThreads, NEW k \in 1 .. Len(qChunks[t]), o = ChunkOf(qChunks[t][k]) PROVE p = q
  <2>1. ASSUME NEW x, IsPlace(seg, st, x, o, i) PROVE x = <<seg[o][i], t, k, ListCapacity + 1 - i>>
    <3>1. CASE \E u \in ListThreads : \E l \in 1 .. Len(qChunks[u]) :
                 o = ChunkOf(qChunks[u][l]) /\ x = <<seg[o][i], u, l, ListCapacity + 1 - i>>
      <4>0. PICK u \in ListThreads : \E l \in 1 .. Len(qChunks[u]) :
                 o = ChunkOf(qChunks[u][l]) /\ x = <<seg[o][i], u, l, ListCapacity + 1 - i>>
        BY <3>1
      <4>1. PICK l \in 1 .. Len(qChunks[u]) :
                 o = ChunkOf(qChunks[u][l]) /\ x = <<seg[o][i], u, l, ListCapacity + 1 - i>>
        BY <4>0
      <4>2. qChunks[u][l] = qChunks[t][k]
        BY <1>4, <1>8, <4>1
      <4>3. u = t /\ l = k
        BY <1>1, <4>2
      <4>4. QED
        BY <4>1, <4>3
    <3>2. CASE \E l \in 1 .. Len(st) : o = ChunkOf(st[l])
      <4>1. PICK l \in 1 .. Len(st) : o = ChunkOf(st[l])
        BY <3>2
      <4>2. st[l] = qChunks[t][k]
        BY <1>4, <1>8, <4>1
      <4>3. QED
        BY <1>1, <4>2
    <3>3. QED
      BY <1>2, <1>3, <1>8, <2>1, <3>1, <3>2 DEF IsPlace
  <2>2. QED
    BY <2>1
<1>9. ASSUME NEW k \in 1 .. Len(st), o = ChunkOf(st[k]) PROVE p = q
  <2>1. ASSUME NEW x, IsPlace(seg, st, x, o, i)
        PROVE  x = <<seg[o][i], "stack", Len(st) + 1 - k, ListCapacity + 1 - i>>
    <3>1. CASE \E u \in ListThreads : \E l \in 1 .. Len(qChunks[u]) : o = ChunkOf(qChunks[u][l])
      <4>0. PICK u \in ListThreads : \E l \in 1 .. Len(qChunks[u]) : o = ChunkOf(qChunks[u][l])
        BY <3>1
      <4>1. PICK l \in 1 .. Len(qChunks[u]) : o = ChunkOf(qChunks[u][l])
        BY <4>0
      <4>2. st[k] = qChunks[u][l]
        BY <1>4, <1>9, <4>1
      <4>3. QED
        BY <1>1, <4>2
    <3>2. CASE \E l \in 1 .. Len(st) :
                 o = ChunkOf(st[l]) /\ x = <<seg[o][i], "stack", Len(st) + 1 - l, ListCapacity + 1 - i>>
      <4>1. PICK l \in 1 .. Len(st) :
                 o = ChunkOf(st[l]) /\ x = <<seg[o][i], "stack", Len(st) + 1 - l, ListCapacity + 1 - i>>
        BY <3>2
      <4>2. st[l] = st[k]
        BY <1>4, <1>9, <4>1
      <4>3. l = k
        BY <1>1, <4>2
      <4>4. QED
        BY <4>1, <4>3
    <3>3. QED
      BY <1>2, <1>3, <1>9, <2>1, <3>1, <3>2 DEF IsPlace
  <2>2. QED
    BY <2>1
<1>10. QED
  BY <1>5, <1>6, <1>7, <1>8, <1>9 DEF IsPlace

\* The pointers from the first node of a chunk, or from the list of a thread.
LEMMA ChunkPath ==
  ASSUME List!QueueConstants, NEW seg, NEW st, ListParts(seg, st), NEW c \in ChunkHeads(seg)
  PROVE  \A j \in 1 .. ListCapacity :
           ListCapacity + 1 - j \in 1 .. ListCapacity
             /\ List!Path(qNext, c, ListCapacity)[j] = seg[ChunkOf(c)][ListCapacity + 1 - j]
<1>1. Held(seg) /\ seg \in [Holders -> Seq(List!Nodes)]
  BY DEF ListParts
<1>2. /\ c \in List!Nodes /\ ChunkOf(c) \in Holders /\ Len(seg[ChunkOf(c)]) = ListCapacity
      /\ seg[ChunkOf(c)][ListCapacity] = c
  BY <1>1, HeadOfChunk
<1>3. PICK s \in Seq(List!Nodes) : s = seg[ChunkOf(c)]
  BY <1>1, <1>2
<1>4. Linked(qNext, s)
  BY <1>1, <1>2, <1>3 DEF Held, HeldInChunk, ChunkHeads
<1>5. PICK k \in Nat : k = ListCapacity
  BY NodeNames
<1>6. k = Len(s) /\ (k > 0 => c = s[k])
  BY <1>2, <1>3, <1>5
<1>7. \A j \in 1 .. k : k + 1 - j \in 1 .. k /\ List!Path(qNext, c, k)[j] = s[k + 1 - j]
  BY <1>4, <1>6, LinkedPath
<1>8. QED
  BY <1>3, <1>5, <1>7

\* Along the pointers from the first node of a local list are the nodes that its thread holds.
LEMMA ListPath ==
  ASSUME List!QueueConstants, NEW seg, NEW st, ListParts(seg, st), NEW t \in ListThreads
  PROVE  /\ Len(seg[ListOf(t)]) = qSize[t] /\ qSize[t] \in Nat
         /\ \A j \in 1 .. qSize[t] : /\ qSize[t] + 1 - j \in 1 .. qSize[t]
                                     /\ List!Path(qNext, qList[t], qSize[t])[j] = seg[ListOf(t)][qSize[t] + 1 - j]
<1>1. HeldBy(seg, t) /\ seg \in [Holders -> Seq(List!Nodes)] /\ ListOf(t) \in Holders
  BY HoldersApart DEF ListParts, Held
<1>2. PICK s \in Seq(List!Nodes) : s = seg[ListOf(t)]
  BY <1>1
<1>3. PICK k \in Nat : k = qSize[t]
  BY NodeNames DEF ListParts, ListTypeOK
<1>4. Linked(qNext, s) /\ k = Len(s) /\ (k > 0 => qList[t] = s[k])
  BY <1>1, <1>2, <1>3 DEF HeldBy
<1>5. \A j \in 1 .. k : k + 1 - j \in 1 .. k /\ List!Path(qNext, qList[t], k)[j] = s[k + 1 - j]
  BY <1>4, LinkedPath
<1>6. QED
  BY <1>2, <1>3, <1>4, <1>5

\* The pointers from the top of the stack on.
LEMMA TopPath ==
  ASSUME List!QueueConstants, NEW seg, NEW st, ListParts(seg, st)
  PROVE  /\ DOMAIN List!Path(qNextChunk, qTop[1], ListNodes) = 1 .. ListNodes
         /\ \A j \in 1 .. Len(st) : /\ Len(st) + 1 - j \in 1 .. Len(st) /\ j \in 1 .. ListNodes
                                    /\ List!Path(qNextChunk, qTop[1], ListNodes)[j] = st[Len(st) + 1 - j]
         /\ \A j \in 1 .. ListNodes : List!Path(qNextChunk, qTop[1], ListNodes)[j] \in List!Nodes
              => j \in 1 .. Len(st)
<1>1. st \in Seq(List!Nodes) /\ Stacked(st)
  BY DEF ListParts
<1>2. Len(st) <= ListNodes
  BY <1>1, ChunksApart, DistinctNodes
<1>3. PICK n : n = qTop[1]
  OBVIOUS
<1>4. Linked(qNextChunk, st) /\ n = (IF st = <<>> THEN List!Null ELSE st[Len(st)])
        /\ (st # <<>> => qNextChunk[st[1]] = List!Null)
  BY <1>1, <1>3 DEF Stacked
<1>5. PICK f : f = qNextChunk
  OBVIOUS
<1>6. /\ DOMAIN List!Path(f, n, ListNodes) = 1 .. ListNodes
      /\ \A j \in 1 .. Len(st) : /\ Len(st) + 1 - j \in 1 .. Len(st) /\ j \in 1 .. ListNodes
                                 /\ List!Path(f, n, ListNodes)[j] = st[Len(st) + 1 - j]
      /\ \A j \in 1 .. ListNodes : List!Path(f, n, ListNodes)[j] \in List!Nodes => j \in 1 .. Len(st)
  BY <1>1, <1>2, <1>4, <1>5, StackPath
<1>7. QED
  BY <1>3, <1>5, <1>6

\* A place in chunks.
LEMMA InChunkPlaces ==
  ASSUME NEW t, NEW heads, NEW p
  PROVE  p \in List!ChunkPlaces(t, heads) <=>
           \E i \in DOMAIN heads : \E j \in 1 .. ListCapacity :
             heads[i] \in List!Nodes /\ p = <<List!Path(qNext, heads[i], ListCapacity)[j], t, i, j>>
<1> DEFINE P(x) == List!Path(qNext, x, ListCapacity)
<1>1. List!ChunkPlaces(t, heads) =
        UNION {{<<P(heads[i])[j], t, i, j>> : j \in 1 .. ListCapacity} : i \in {i \in DOMAIN heads : heads[i] \in List!Nodes}}
  BY DEF List!ChunkPlaces
<1> HIDE DEF P
<1>2. p \in List!ChunkPlaces(t, heads) <=>
           \E i \in DOMAIN heads : \E j \in 1 .. ListCapacity : heads[i] \in List!Nodes
             /\ p = <<P(heads[i])[j], t, i, j>>
  BY <1>1
<1>3. QED
  BY <1>2 DEF P

\* A place of the queue, of a list, of the hands of a thread, of its chunks or of the stack.
LEMMA PlaceKinds ==
  ASSUME NEW p
  PROVE  p \in List!Places <=>
           \/ \E i \in 1 .. Len(qChain) : p = <<qChain[i], "chain", i, 0>>
           \/ \E t \in ListThreads : \E j \in 1 .. qSize[t] : p = <<List!Path(qNext, qList[t], qSize[t])[j], t, 0, j>>
           \/ \E t \in ListThreads : qPc[t] = "exchange" /\ p = <<qHand[t], t, 0, 0>>
           \/ \E t \in ListThreads : p \in List!ChunkPlaces(t, qChunks[t])
           \/ p \in List!ChunkPlaces("stack", List!Path(qNextChunk, qTop[1], ListNodes))
<1> DEFINE P(t) == List!Path(qNext, qList[t], qSize[t])
           Q(t) == List!ChunkPlaces(t, qChunks[t])
           R == List!ChunkPlaces("stack", List!Path(qNextChunk, qTop[1], ListNodes))
<1>1. List!Places =
  {<<qChain[i], "chain", i, 0>> : i \in 1 .. Len(qChain)}
    \cup (UNION {{<<P(t)[j], t, 0, j>> : j \in 1 .. qSize[t]} : t \in ListThreads})
    \cup {<<qHand[t], t, 0, 0>> : t \in {t \in ListThreads : qPc[t] = "exchange"}}
    \cup (UNION {Q(t) : t \in ListThreads})
    \cup R
  BY DEF List!Places
<1> HIDE DEF P, Q, R
<1>2. p \in List!Places <=>
           \/ \E i \in 1 .. Len(qChain) : p = <<qChain[i], "chain", i, 0>>
           \/ \E t \in ListThreads : \E j \in 1 .. qSize[t] : p = <<P(t)[j], t, 0, j>>
           \/ \E t \in ListThreads : qPc[t] = "exchange" /\ p = <<qHand[t], t, 0, 0>>
           \/ \E t \in ListThreads : p \in Q(t)
           \/ p \in R
  BY <1>1
<1>3. QED
  BY <1>2 DEF P, Q, R

\* A place is the place of a node that is held.
LEMMA PlaceHolds ==
  ASSUME List!QueueConstants, NEW seg, NEW st, ListParts(seg, st), NEW p \in List!Places
  PROVE  \E o \in Holders : \E i \in 1 .. Len(seg[o]) : p[1] = seg[o][i] /\ IsPlace(seg, st, p, o, i)
<1>1. Held(seg) /\ ListTypeOK /\ Pages /\ st \in Seq(List!Nodes)
  BY DEF ListParts
<1>2. ListCapacity \in Nat /\ ListCapacity > 0
  BY NodeNames
<1>3. ASSUME NEW i \in 1 .. Len(qChain), p = <<qChain[i], "chain", i, 0>>
      PROVE  \E o \in Holders : \E k \in 1 .. Len(seg[o]) : p[1] = seg[o][k] /\ IsPlace(seg, st, p, o, k)
  <2>1. Queue \in Holders /\ seg[Queue] = qChain
    BY <1>1, ChainHeld
  <2>2. IsPlace(seg, st, p, Queue, i) /\ p[1] = seg[Queue][i]
    BY <1>3, <2>1 DEF IsPlace
  <2>3. QED
    BY <2>1, <2>2
<1>4. ASSUME NEW t \in ListThreads, NEW j \in 1 .. qSize[t],
             p = <<List!Path(qNext, qList[t], qSize[t])[j], t, 0, j>>
      PROVE  \E o \in Holders : \E k \in 1 .. Len(seg[o]) : p[1] = seg[o][k] /\ IsPlace(seg, st, p, o, k)
  <2>1. PICK o \in Holders : o = ListOf(t)
    BY HoldersApart
  <2>2. Len(seg[o]) = qSize[t] /\ qSize[t] \in Nat
    BY <2>1, ListPath
  <2>3. qSize[t] + 1 - j \in 1 .. qSize[t] /\ List!Path(qNext, qList[t], qSize[t])[j] = seg[o][qSize[t] + 1 - j]
    BY <2>1, ListPath, SMTT(30)
  <2>4. PICK i \in 1 .. Len(seg[o]) : i = qSize[t] + 1 - j
    BY <2>2, <2>3
  <2>5. qSize[t] + 1 - i = j
    BY <2>2, <2>4
  <2>6. p = <<seg[o][i], t, 0, qSize[t] + 1 - i>>
    BY <1>4, <2>3, <2>4, <2>5
  <2>7. IsPlace(seg, st, p, o, i) /\ p[1] = seg[o][i]
    BY <2>1, <2>6 DEF IsPlace
  <2>8. QED
    BY <2>7
<1>5. ASSUME NEW t \in ListThreads, qPc[t] = "exchange", p = <<qHand[t], t, 0, 0>>
      PROVE  \E o \in Holders : \E k \in 1 .. Len(seg[o]) : p[1] = seg[o][k] /\ IsPlace(seg, st, p, o, k)
  <2>1. HandOf(t) \in Holders /\ 1 \in 1 .. Len(seg[HandOf(t)]) /\ seg[HandOf(t)][1] = qHand[t]
    BY <1>1, <1>5, HandHeld
  <2>2. IsPlace(seg, st, p, HandOf(t), 1) /\ p[1] = seg[HandOf(t)][1]
    BY <1>5, <2>1 DEF IsPlace
  <2>3. QED
    BY <2>1, <2>2
<1>6. ASSUME NEW c \in ChunkHeads(seg), NEW j \in 1 .. ListCapacity
      PROVE  \E i \in 1 .. Len(seg[ChunkOf(c)]) :
               /\ ChunkOf(c) \in Holders /\ List!Path(qNext, c, ListCapacity)[j] = seg[ChunkOf(c)][i]
               /\ ListCapacity + 1 - i = j
  <2>1. ChunkOf(c) \in Holders /\ Len(seg[ChunkOf(c)]) = ListCapacity
    BY <1>1, HeadOfChunk
  <2>2. ListCapacity + 1 - j \in 1 .. ListCapacity
          /\ List!Path(qNext, c, ListCapacity)[j] = seg[ChunkOf(c)][ListCapacity + 1 - j]
    BY ChunkPath
  <2>3. PICK i \in 1 .. Len(seg[ChunkOf(c)]) : i = ListCapacity + 1 - j
    BY <2>1, <2>2
  <2>4. ListCapacity + 1 - i = j
    BY <1>2, <2>3
  <2>5. QED
    BY <2>1, <2>2, <2>3, <2>4
<1>7. ASSUME NEW t \in ListThreads, p \in List!ChunkPlaces(t, qChunks[t])
      PROVE  \E o \in Holders : \E k \in 1 .. Len(seg[o]) : p[1] = seg[o][k] /\ IsPlace(seg, st, p, o, k)
  <2>1. qChunks[t] \in Seq(List!Nodes)
    BY <1>1 DEF ListTypeOK
  <2>2. DOMAIN qChunks[t] = 1 .. Len(qChunks[t])
    BY <2>1
  <2>3. PICK k \in 1 .. Len(qChunks[t]),
             j \in 1 .. ListCapacity : p = <<List!Path(qNext, qChunks[t][k], ListCapacity)[j], t, k, j>>
    BY <1>7, <2>2, InChunkPlaces
  <2>4. PICK c \in ChunkHeads(seg) : c = qChunks[t][k]
    BY ChunksApart
  <2>5. PICK i \in 1 .. Len(seg[ChunkOf(c)]) :
               /\ ChunkOf(c) \in Holders /\ List!Path(qNext, c, ListCapacity)[j] = seg[ChunkOf(c)][i]
               /\ ListCapacity + 1 - i = j
    BY <1>6
  <2>6. p = <<seg[ChunkOf(c)][i], t, k, ListCapacity + 1 - i>>
    BY <2>3, <2>4, <2>5
  <2>7. IsPlace(seg, st, p, ChunkOf(c), i) /\ p[1] = seg[ChunkOf(c)][i]
    BY <2>4, <2>6 DEF IsPlace
  <2>8. QED
    BY <2>5, <2>7
<1>8. ASSUME p \in List!ChunkPlaces("stack", List!Path(qNextChunk, qTop[1], ListNodes))
      PROVE  \E o \in Holders : \E k \in 1 .. Len(seg[o]) : p[1] = seg[o][k] /\ IsPlace(seg, st, p, o, k)
  <2>1. PICK f : f = List!Path(qNextChunk, qTop[1], ListNodes)
    OBVIOUS
  <2>2. PICK l \in DOMAIN f, j \in 1 .. ListCapacity : f[l] \in List!Nodes
               /\ p = <<List!Path(qNext, f[l], ListCapacity)[j], "stack", l, j>>
    BY <1>8, <2>1, InChunkPlaces
  <2>3. l \in 1 .. Len(st)
    BY <2>1, <2>2, TopPath
  <2>4. Len(st) + 1 - l \in 1 .. Len(st) /\ f[l] = st[Len(st) + 1 - l]
    BY <2>1, <2>3, TopPath
  <2>5. PICK k \in 1 .. Len(st) : k = Len(st) + 1 - l
    BY <2>4
  <2>6. Len(st) + 1 - k = l
    BY <1>1, <2>3, <2>5
  <2>7. PICK c \in ChunkHeads(seg) : c = st[k] /\ c = f[l]
    BY <2>4, <2>5, ChunksApart
  <2>8. PICK i \in 1 .. Len(seg[ChunkOf(c)]) :
               /\ ChunkOf(c) \in Holders /\ List!Path(qNext, c, ListCapacity)[j] = seg[ChunkOf(c)][i]
               /\ ListCapacity + 1 - i = j
    BY <1>6
  <2>9. p = <<seg[ChunkOf(c)][i], "stack", Len(st) + 1 - k, ListCapacity + 1 - i>>
    BY <2>2, <2>6, <2>7, <2>8
  <2>10. IsPlace(seg, st, p, ChunkOf(c), i) /\ p[1] = seg[ChunkOf(c)][i]
    BY <2>7, <2>9 DEF IsPlace
  <2>11. QED
    BY <2>8, <2>10
<1>9. QED
  BY <1>3, <1>4, <1>5, <1>7, <1>8, PlaceKinds

\* A node that is held has a place.
LEMMA HeldHasPlace ==
  ASSUME List!QueueConstants, NEW seg, NEW st, ListParts(seg, st), NEW o \in Holders, NEW i \in 1 .. Len(seg[o])
  PROVE  \E p \in List!Places : p[1] = seg[o][i]
<1>1. Held(seg) /\ ListTypeOK /\ Pages /\ st \in Seq(List!Nodes)
      /\ Partition(HeldChunks(st), ChunkHolders, ChunkHeads(seg))
  BY DEF ListParts
<1>2. ListCapacity \in Nat /\ ListCapacity > 0
  BY NodeNames
<1>3. CASE o = Queue
  <2>1. seg[o] = qChain
    BY <1>1, <1>3, ChainHeld
  <2>2. PICK p : p = <<qChain[i], "chain", i, 0>>
    OBVIOUS
  <2>3. p \in List!Places
    BY <2>1, <2>2, PlaceKinds
  <2>4. p[1] = seg[o][i]
    BY <2>1, <2>2
  <2>5. QED
    BY <2>3, <2>4
<1>4. ASSUME NEW t \in ListThreads, o = ListOf(t) PROVE \E p \in List!Places : p[1] = seg[o][i]
  <2>1. Len(seg[o]) = qSize[t] /\ qSize[t] \in Nat
    BY <1>4, ListPath
  <2>2. PICK j \in 1 .. qSize[t] : j = qSize[t] + 1 - i /\ qSize[t] + 1 - j = i
    <3>1. qSize[t] + 1 - i \in 1 .. qSize[t] /\ qSize[t] + 1 - (qSize[t] + 1 - i) = i
      BY <2>1
    <3>2. QED
      BY <3>1
  <2>3. List!Path(qNext, qList[t], qSize[t])[j] = seg[o][qSize[t] + 1 - j]
    BY <1>4, ListPath, SMTT(30)
  <2>4. PICK p : p = <<List!Path(qNext, qList[t], qSize[t])[j], t, 0, j>>
    OBVIOUS
  <2>5. p \in List!Places
    BY <2>4, PlaceKinds
  <2>6. p[1] = seg[o][i]
    BY <2>2, <2>3, <2>4
  <2>7. QED
    BY <2>5, <2>6
<1>5. ASSUME NEW t \in ListThreads, o = HandOf(t) PROVE \E p \in List!Places : p[1] = seg[o][i]
  <2>1. seg[o] = IF qPc[t] = "exchange" THEN <<qHand[t]>> ELSE <<>>
    BY <1>1, <1>5 DEF Held, HeldBy
  <2>2. qPc[t] = "exchange" /\ i = 1 /\ seg[o][i] = qHand[t]
    BY <2>1
  <2>3. PICK p : p = <<qHand[t], t, 0, 0>>
    OBVIOUS
  <2>4. p \in List!Places
    BY <2>2, <2>3, PlaceKinds
  <2>5. p[1] = seg[o][i]
    BY <2>2, <2>3
  <2>6. QED
    BY <2>4, <2>5
<1>6. ASSUME NEW c \in List!Nodes, o = ChunkOf(c) PROVE \E p \in List!Places : p[1] = seg[o][i]
  <2>1. c \in ChunkHeads(seg)
    <3>1. seg[o] # <<>>
      OBVIOUS
    <3>2. QED
      BY <1>6, <3>1 DEF ChunkHeads
  <2>2. Len(seg[o]) = ListCapacity
    BY <1>1, <1>6, <2>1, HeadOfChunk
  <2>3. PICK j \in 1 .. ListCapacity : j = ListCapacity + 1 - i /\ ListCapacity + 1 - j = i
    <3>1. ListCapacity + 1 - i \in 1 .. ListCapacity /\ ListCapacity + 1 - (ListCapacity + 1 - i) = i
      BY <1>2, <2>2
    <3>2. QED
      BY <3>1
  <2>4. List!Path(qNext, c, ListCapacity)[j] = seg[o][i]
    BY <1>6, <2>1, <2>3, ChunkPath
  <2>5. PICK h \in ChunkHolders : \E k \in 1 .. Len(HeldChunks(st)[h]) : HeldChunks(st)[h][k] = c
    BY <1>1, <2>1, PartHas
  <2>6. PICK k \in 1 .. Len(HeldChunks(st)[h]) : HeldChunks(st)[h][k] = c
    BY <2>5
  <2>7. CASE h = Stack
    <3>1. HeldChunks(st)[h] = st
      BY <2>7, HeldChunksAre
    <3>2. PICK f : f = List!Path(qNextChunk, qTop[1], ListNodes)
      OBVIOUS
    <3>3. PICK l \in 1 .. Len(st) : l = Len(st) + 1 - k /\ Len(st) + 1 - l = k
      <4>1. Len(st) + 1 - k \in 1 .. Len(st) /\ Len(st) + 1 - (Len(st) + 1 - k) = k
        BY <1>1, <3>1
      <4>2. QED
        BY <4>1
    <3>4. l \in DOMAIN f /\ f[l] = c
      BY <2>6, <3>1, <3>2, <3>3, TopPath
    <3>5. PICK p : p = <<List!Path(qNext, c, ListCapacity)[j], "stack", l, j>>
      OBVIOUS
    <3>6. p \in List!ChunkPlaces("stack", f)
      BY <3>4, <3>5, InChunkPlaces
    <3>7. p \in List!Places
      BY <3>2, <3>6, PlaceKinds
    <3>8. p[1] = seg[o][i]
      BY <2>4, <3>5
    <3>9. QED
      BY <3>7, <3>8
  <2>8. ASSUME NEW t \in ListThreads, h = PushesOf(t) PROVE \E p \in List!Places : p[1] = seg[o][i]
    <3>1. HeldChunks(st)[h] = qChunks[t]
      BY <2>8, HeldChunksAre
    <3>2. qChunks[t] \in Seq(List!Nodes)
      BY <1>1 DEF ListTypeOK
    <3>3. k \in DOMAIN qChunks[t] /\ qChunks[t][k] = c
      BY <2>6, <3>1, <3>2
    <3>4. PICK p : p = <<List!Path(qNext, c, ListCapacity)[j], t, k, j>>
      OBVIOUS
    <3>5. p \in List!ChunkPlaces(t, qChunks[t])
      BY <3>3, <3>4, InChunkPlaces
    <3>6. p \in List!Places
      BY <3>5, PlaceKinds
    <3>7. p[1] = seg[o][i]
      BY <2>4, <3>4
    <3>8. QED
      BY <3>6, <3>7
  <2>9. QED
    BY <2>7, <2>8 DEF ChunkHolders
<1>7. QED
  BY <1>3, <1>4, <1>5, <1>6 DEF Holders

\* The nodes of pages and their places correspond one to one.
LEMMA NodesArePlaced ==
  ASSUME List!QueueConstants, ListInv
  PROVE  List!NodeOnce
<1>1. PICK seg \in [Holders -> Seq(List!Nodes)], st \in Seq(List!Nodes) : ListParts(seg, st)
  BY DEF ListInv
<1>2. Held(seg) /\ Partition(seg, Holders, List!Allocated) /\ Pages
  BY <1>1 DEF ListParts, Held
<1>3. PICK f : f = [p \in List!Places |-> p[1]]
  OBVIOUS
<1>4. \A p \in List!Places : p[1] \in List!Allocated
  <2> SUFFICES ASSUME NEW p \in List!Places PROVE p[1] \in List!Allocated
    OBVIOUS
  <2>1. PICK o \in Holders : \E i \in 1 .. Len(seg[o]) : p[1] = seg[o][i]
    BY <1>1, PlaceHolds
  <2>2. QED
    BY <1>2, <2>1, HeldTyped
<1>5. ASSUME NEW p \in List!Places, NEW q \in List!Places, p[1] = q[1] PROVE p = q
  <2>1. PICK o \in Holders : \E i \in 1 .. Len(seg[o]) : p[1] = seg[o][i] /\ IsPlace(seg, st, p, o, i)
    BY <1>1, PlaceHolds
  <2>2. PICK i \in 1 .. Len(seg[o]) : p[1] = seg[o][i] /\ IsPlace(seg, st, p, o, i)
    BY <2>1
  <2>3. PICK h \in Holders : \E j \in 1 .. Len(seg[h]) : q[1] = seg[h][j] /\ IsPlace(seg, st, q, h, j)
    BY <1>1, PlaceHolds
  <2>4. PICK j \in 1 .. Len(seg[h]) : q[1] = seg[h][j] /\ IsPlace(seg, st, q, h, j)
    BY <2>3
  <2>5. o = h /\ i = j
    <3>1. seg[o][i] = seg[h][j]
      BY <1>5, <2>2, <2>4
    <3>2. QED
      BY <1>2, <3>1, HeldOnce
  <2>6. QED
    BY <1>1, <2>2, <2>4, <2>5, OnePlaceHeld
<1>6. ASSUME NEW n \in List!Allocated PROVE \E p \in List!Places : p[1] = n
  <2>1. PICK o \in Holders : \E i \in 1 .. Len(seg[o]) : seg[o][i] = n
    BY <1>2, PartHas
  <2>2. PICK i \in 1 .. Len(seg[o]) : seg[o][i] = n
    BY <2>1
  <2>3. QED
    BY <1>1, <2>2, HeldHasPlace
<1>7. {q[1] : q \in List!Places} = List!Allocated
  BY <1>4, <1>6
<1>8. IsFiniteSet(List!Allocated)
  <2>1. PICK b \in Nat : List!Allocated = 1 .. b
    BY <1>2, PageDoubles DEF List!Allocated
  <2>2. QED
    BY <2>1, FS_Interval
<1>9. ExistsBijection(List!Allocated, List!Places)
  <2>1. f \in Bijection(List!Places, List!Allocated)
    <3>1. PICK P, A : P = List!Places /\ A = List!Allocated
      OBVIOUS
    <3>2. f \in [P -> A] /\ \A p \in P : f[p] = p[1]
      BY <1>3, <1>4, <3>1
    <3>3. \A p, q \in P : f[p] = f[q] => p = q
      BY <1>5, <3>1, <3>2
    <3>4. \A n \in A : \E p \in P : f[p] = n
      BY <1>6, <3>1, <3>2
    <3>5. f \in Injection(P, A) /\ f \in Surjection(P, A)
      BY <3>2, <3>3, <3>4, Fun_IsInj, Fun_IsSurj
    <3>6. QED
      BY <3>1, <3>5 DEF Bijection
  <2>2. ExistsBijection(List!Places, List!Allocated)
    BY <2>1 DEF ExistsBijection
  <2>3. QED
    BY <2>2, Fun_ExistsBijSymmetric
<1>10. Cardinality(List!Places) = Cardinality(List!Allocated)
  BY <1>8, <1>9, FS_Bijection
<1>11. QED
  BY <1>7, <1>10, Zenon DEF List!NodeOnce, List!Cardinality, Cardinality

\* No node is used twice or lost by _allocate, _deallocate and the stack of chunks
\* (MPSC_queue.h).
THEOREM EachNodeOnce ==
  ASSUME List!QueueConstants
  PROVE  List!Spec => []List!NodeOnce
<1>1. ListInv => List!NodeOnce
  BY NodesArePlaced
<1>2. QED
  BY <1>1, ListHolds, PTL

(***************************************************************************)
(* The one-slot queue                                                      *)
(***************************************************************************)

\* One call at a time is inside, the flag is set only outside of calls, and a slot in use
\* holds the message of the caller that fills it.
SlotInv ==
  /\ sPushes \in [Threads -> 0 .. SlotPushes]
  /\ \/ sOwner = Slot!Free
     \/ \E c \in Threads : sOwner \in {<<c, "push">>, <<c, "pop">>} /\ ~sHasValue
  /\ sHasValue \in BOOLEAN
  /\ sHasValue \/ sOwner # Slot!Free => sSlot \in Slot!Values
  /\ \A c \in Threads : sOwner = <<c, "push">> => sSlot[1] = c

\* The queue as one place: the refinement mapping of OneSlotUnsafeQueue.
SlotPlaces ==
  IF ~Slot!Occupied THEN <<>>
  ELSE <<[val |-> sSlot, by |-> sSlot[1], ready |-> sOwner[2] # "push"]>>

\* A sequence of one place, and its place.
LEMMA OnePlace ==
  ASSUME NEW x
  PROVE  /\ Len(<<x>>) = 1 /\ <<x>>[1] = x /\ Head(<<x>>) = x /\ Tail(<<x>>) = <<>> /\ <<x>> # <<>>
         /\ Append(<<>>, x) = <<x>> /\ Len(<<>>) = 0
         /\ \A y : [<<x>> EXCEPT ![1] = y] = <<y>>
  OBVIOUS

\* A step of the one-slot queue is a step of the mailbox specification, or invisible.
LEMMA SlotStep ==
  ASSUME SlotPushes \in Nat, SlotInv, NEW c \in Threads,
         Slot!Push(c) \/ Slot!SetFlag(c) \/ Slot!TryPop(c) \/ Slot!MoveOut(c)
  PROVE  SlotInv' /\ [Slot!Fifo!Next]_(Slot!Fifo!fifoVars)
<1>0. \A d, e : <<d, "push">> # Slot!Free /\ <<d, "pop">> # Slot!Free /\ <<d, "push">> # <<e, "pop">>
  BY DEF Slot!Free
<1>a. ASSUME SlotPlaces' = SlotPlaces, sPopped' = sPopped PROVE UNCHANGED Slot!Fifo!fifoVars
  BY <1>a, Zenon DEF Slot!Fifo!fifoVars, SlotPlaces
<1>1. CASE Slot!Push(c) /\ sHasValue
  <2>1. /\ UNCHANGED <<sSlot, sOwner, sHasValue, sPopped>> /\ sPushes' = [sPushes EXCEPT ![c] = @ + 1]
        /\ sPushes[c] < SlotPushes
    BY <1>1 DEF Slot!Push
  <2>2. SlotInv'
    BY <2>1 DEF SlotInv
  <2>3. SlotPlaces' = SlotPlaces
    BY <2>1, Zenon DEF SlotPlaces, Slot!Occupied
  <2>4. QED
    BY <1>a, <2>1, <2>2, <2>3
<1>2. CASE Slot!Push(c) /\ ~sHasValue
  <2>1. /\ sOwner = Slot!Free /\ sSlot' = <<c, sPushes[c] + 1>> /\ sOwner' = <<c, "push">>
        /\ UNCHANGED <<sHasValue, sPopped>> /\ sPushes' = [sPushes EXCEPT ![c] = @ + 1]
        /\ sPushes[c] < SlotPushes
    BY <1>2 DEF Slot!Push
  <2>2. sSlot' \in Slot!Values /\ sSlot'[1] = c
    BY <2>1 DEF SlotInv, Slot!Values
  <2>3. \A d \in Threads : sOwner' = <<d, "push">> => d = c
    BY <2>1
  <2>4. SlotInv'
    BY <1>2, <2>1, <2>2, <2>3 DEF SlotInv
  <2>5. SlotPlaces = <<>>
    BY <1>2, <2>1 DEF SlotPlaces, Slot!Occupied
  <2>6. SlotPlaces' = <<[val |-> sSlot', by |-> c, ready |-> FALSE]>>
    <3>1. sOwner'[2] = "push" /\ Slot!Occupied'
      BY <1>0, <2>1 DEF Slot!Occupied
    <3>2. QED
      BY <2>2, <3>1 DEF SlotPlaces
  <2>7. Slot!Fifo!Claim(c, sSlot')
    <3>1. PICK x : x = [val |-> sSlot', by |-> c, ready |-> FALSE]
      OBVIOUS
    <3>2. Len(SlotPlaces) < 1 /\ \A i \in 1 .. Len(SlotPlaces) : FALSE
      BY <2>5, OnePlace
    <3>3. SlotPlaces' = Append(SlotPlaces, x)
      BY <2>5, <2>6, <3>1, OnePlace
    <3>4. QED
      BY <2>1, <3>1, <3>2, <3>3 DEF Slot!Fifo!Claim, SlotPlaces
  <2>8. QED
    BY <2>2, <2>4, <2>7 DEF Slot!Fifo!Next
<1>3. CASE Slot!SetFlag(c)
  <2>1. /\ sOwner = <<c, "push">> /\ sHasValue' /\ sHasValue' = TRUE /\ sOwner' = Slot!Free
        /\ UNCHANGED <<sSlot, sPushes, sPopped>>
    BY <1>3 DEF Slot!SetFlag
  <2>2. SlotInv'
    BY <1>0, <2>1 DEF SlotInv
  <2>3. PICK x : x = [val |-> sSlot, by |-> c, ready |-> FALSE]
    OBVIOUS
  <2>4. SlotPlaces = <<x>>
    <3>1. sOwner[2] = "push" /\ Slot!Occupied /\ sSlot[1] = c
      BY <1>0, <2>1 DEF Slot!Occupied, SlotInv
    <3>2. QED
      BY <2>3, <3>1 DEF SlotPlaces
  <2>5. SlotPlaces' = <<[x EXCEPT !.ready = TRUE]>>
    <3>1. sOwner'[2] = "idle" /\ Slot!Occupied' /\ sSlot[1] = c
      BY <2>1 DEF Slot!Occupied, Slot!Free, SlotInv
    <3>2. SlotPlaces' = <<[val |-> sSlot, by |-> c, ready |-> TRUE]>>
      BY <2>1, <3>1 DEF SlotPlaces
    <3>3. [x EXCEPT !.ready = TRUE] = [val |-> sSlot, by |-> c, ready |-> TRUE]
      <4>1. [[val |-> sSlot, by |-> c, ready |-> FALSE] EXCEPT !.ready = TRUE]
              = [val |-> sSlot, by |-> c, ready |-> TRUE]
        BY RingP!RecordUpdate, Zenon
      <4>2. QED
        BY <2>3, <4>1
    <3>4. QED
      BY <3>2, <3>3
  <2>6. Slot!Fifo!Publish(c)
    <3>1. SlotPlaces' = [SlotPlaces EXCEPT ![1] = [x EXCEPT !.ready = TRUE]]
      BY <2>4, <2>5, OnePlace
    <3>2. SlotPlaces[1] = x /\ Len(SlotPlaces) = 1 /\ x.by = c /\ ~x.ready
      BY <2>3, <2>4, OnePlace
    <3>3. 1 \in 1 .. Len(SlotPlaces)
      BY <3>2
    <3>4. QED
      BY <2>1, <3>1, <3>2, <3>3 DEF Slot!Fifo!Publish, SlotPlaces
  <2>7. QED
    BY <2>2, <2>6 DEF Slot!Fifo!Next
<1>4. CASE Slot!TryPop(c)
  <2>1. /\ sOwner = Slot!Free /\ sHasValue /\ ~sHasValue' /\ sHasValue' = FALSE
        /\ sOwner' = <<c, "pop">> /\ UNCHANGED <<sSlot, sPushes, sPopped>>
    BY <1>4 DEF Slot!TryPop
  <2>2. SlotInv'
    BY <1>0, <2>1 DEF SlotInv
  <2>3. sOwner[2] = "idle" /\ sOwner'[2] = "pop" /\ Slot!Occupied /\ Slot!Occupied'
    BY <1>0, <2>1 DEF Slot!Occupied, Slot!Free
  <2>4. SlotPlaces' = SlotPlaces
    BY <2>1, <2>3 DEF SlotPlaces
  <2>5. QED
    BY <1>a, <2>1, <2>2, <2>4
<1>5. CASE Slot!MoveOut(c)
  <2>1. /\ sOwner = <<c, "pop">> /\ sPopped' = Append(sPopped, sSlot) /\ sOwner' = Slot!Free
        /\ UNCHANGED <<sSlot, sHasValue, sPushes>> /\ ~sHasValue
    BY <1>0, <1>5 DEF Slot!MoveOut, SlotInv
  <2>2. SlotInv'
    BY <1>0, <2>1 DEF SlotInv
  <2>3. PICK x : x = [val |-> sSlot, by |-> sSlot[1], ready |-> TRUE]
    OBVIOUS
  <2>4. SlotPlaces = <<x>>
    <3>1. sOwner[2] = "pop" /\ Slot!Occupied
      BY <1>0, <2>1 DEF Slot!Occupied
    <3>2. QED
      BY <2>3, <3>1 DEF SlotPlaces
  <2>5. SlotPlaces' = <<>>
    BY <2>1 DEF SlotPlaces, Slot!Occupied
  <2>6. Head(SlotPlaces) = x /\ Tail(SlotPlaces) = <<>> /\ SlotPlaces # <<>> /\ x.ready /\ x.val = sSlot
    BY <2>3, <2>4, OnePlace
  <2>7. Slot!Fifo!Take
    BY <2>1, <2>5, <2>6 DEF Slot!Fifo!Take, SlotPlaces
  <2>8. QED
    BY <2>2, <2>7 DEF Slot!Fifo!Next
<1>6. QED
  BY <1>1, <1>2, <1>3, <1>4, <1>5

\* The slot and its flag are a queue of one place, as long as callers have exclusive
\* access (container.h, OneSlotUnsafeQueue).
THEOREM OneSlotMailboxIsFifo == Spec => Slot!ImplementsFifo
<1>0. SlotPushes \in Nat
  BY MailboxAssumption
<1>1. Init => SlotInv /\ Slot!Fifo!Init
  <2> SUFFICES ASSUME Init PROVE SlotInv /\ Slot!Fifo!Init
    OBVIOUS
  <2>1. /\ sSlot = <<>> /\ sHasValue = FALSE /\ sOwner = Slot!Free /\ sPopped = <<>>
        /\ sPushes = [c \in Threads |-> 0]
    BY DEF Init, Slot!Init, Slot!NoValue
  <2>2. SlotInv
    <3>1. \A c : <<c, "push">> # Slot!Free
      BY DEF Slot!Free
    <3>2. sPushes \in [Threads -> 0 .. SlotPushes]
      BY <1>0, <2>1
    <3>3. QED
      BY <2>1, <3>1, <3>2 DEF SlotInv
  <2>3. SlotPlaces = <<>>
    BY <2>1 DEF SlotPlaces, Slot!Occupied
  <2>4. QED
    BY <2>1, <2>2, <2>3 DEF Slot!Fifo!Init, SlotPlaces
<1>2. SlotInv /\ [Next]_vars => SlotInv' /\ [Slot!Fifo!Next]_(Slot!Fifo!fifoVars)
  <2> SUFFICES ASSUME SlotInv, [Next]_vars
               PROVE  SlotInv' /\ [Slot!Fifo!Next]_(Slot!Fifo!fifoVars)
    OBVIOUS
  <2>1. CASE Slot!Next
    BY <1>0, <2>1, SlotStep DEF Slot!Next
  <2>2. CASE UNCHANGED slotVars
    <3>1. UNCHANGED <<sSlot, sHasValue, sOwner, sPushes, sPopped>>
      BY <2>2 DEF slotVars
    <3>2. SlotInv'
      BY <3>1 DEF SlotInv
    <3>3. UNCHANGED Slot!Fifo!fifoVars
      BY <3>1, Zenon DEF Slot!Fifo!fifoVars, Slot!Occupied
    <3>4. QED
      BY <3>2, <3>3
  <2>3. QED
    BY <2>1, <2>2 DEF Next, Visit, vars
<1>3. QED
  BY <1>1, <1>2, PTL DEF Spec, Slot!ImplementsFifo, Slot!Fifo!Spec

(***************************************************************************)
(* The mailbox                                                             *)
(***************************************************************************)

\* The linked list of a mailbox takes only its own steps: those of the other queues
\* leave it alone.
LEMMA MailboxList == Spec => List!Spec
<1>1. Init => List!Init
  BY DEF Init
<1>2. [Next]_vars => [List!Next]_(List!vars)
  <2> SUFFICES ASSUME [Next]_vars PROVE List!Next \/ UNCHANGED List!vars
    OBVIOUS
  <2>1. List!Next \/ UNCHANGED listVars
    BY DEF Next, Visit, vars
  <2>2. UNCHANGED listVars => UNCHANGED List!vars
    BY DEF listVars, List!vars, List!memory, List!locals
  <2>3. QED
    BY <2>1, <2>2
<1>3. QED
  BY <1>1, <1>2, PTL DEF Spec, List!Spec

\* Every allocated node of the linked list of a mailbox is in exactly one place, a local
\* list, a chunk, the stack of chunks, a thread's hand or the queue: the allocator never
\* hands out a node twice and never loses one (MPSC_queue.h, _allocate and _deallocate).
THEOREM MailboxNodesOnce == Spec => []NodeOnce
<1>1. List!QueueConstants
  BY MailboxAssumption
<1>2. List!Spec => []List!NodeOnce
  BY <1>1, EachNodeOnce
<1>3. List!NodeOnce <=> NodeOnce
  BY DEF NodeOnce
<1>4. QED
  BY <1>2, <1>3, MailboxList, PTL

\* Messages pushed to an unbounded mailbox come out once each, in the order in which the
\* threads exchanged the head, and none before its node is linked (MPSC_queue.h, emplace
\* and try_dequeue).
THEOREM UnboundedMailboxIsFifo == Spec => List!ImplementsFifo
<1>1. List!QueueConstants
  BY MailboxAssumption
<1>2. List!Spec => List!ImplementsFifo
  BY <1>1, ListIsFifo
<1>3. QED
  BY <1>2, MailboxList

\* Whichever queue its configuration selects, a mailbox loses, duplicates and reorders
\* no message between Push and TryPop (actor.h, MailboxSet).
THEOREM MailboxIsFifo == Spec => ImplementsFifo
  BY BoundedMailboxIsFifo, UnboundedMailboxIsFifo, OneSlotMailboxIsFifo DEF ImplementsFifo
=============================================================================
