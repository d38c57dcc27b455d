----------------------- MODULE BoundedMpscQueueProofs -----------------------
(***************************************************************************)
(* Proofs about the ring buffer, for every number of producers and pushes, *)
(* every capacity and every width of size_t that RingConstants allows.     *)
(***************************************************************************)
EXTENDS BoundedMpscQueue, FiniteSetTheorems, SequenceTheorems, TLAPS

(***************************************************************************)
(* Arithmetic of positions, which wrap at PosMod.                          *)
(***************************************************************************)

\* The remainder, by a name that the provers leave alone.
Rem(a, n) == a % n

\* A number and its remainder.
LEMMA Remainder ==
  ASSUME NEW n \in Nat \ {0}, NEW a \in Int
  PROVE  Rem(a, n) \in 0 .. n - 1 /\ \E q \in Int : a = n * q + Rem(a, n)
<1>1. /\ a % n \in 0 .. n - 1 /\ a \div n \in Int
      /\ a = n * (a \div n) + (a % n)
  OBVIOUS
<1>2. QED
  BY <1>1, Zenon DEF Rem

\* A remainder is an integer.
LEMMA RemainderType ==
  ASSUME NEW n \in Nat \ {0}, NEW a \in Int
  PROVE  Rem(a, n) \in Int /\ Rem(a, n) \in Nat /\ Rem(a, n) < n
  BY DEF Rem

\* The only multiple of n that is closer to 0 than n is 0.
LEMMA SmallMultiple ==
  ASSUME NEW n \in Nat \ {0}, NEW k \in Int, n * k < n, -n < n * k
  PROVE  k = 0
<1>1. CASE k >= 1
  <2>1. n * k = n + n * (k - 1) /\ n * (k - 1) >= 0
    BY <1>1
  <2>2. QED
    BY <2>1
<1>2. CASE k <= -1
  <2>1. n * k = -n + n * (k + 1)
    OBVIOUS
  <2>2. n * (k + 1) <= 0
    BY <1>2
  <2>3. QED
    BY <2>1, <2>2
<1>3. QED
  BY <1>1, <1>2

\* A remainder is determined by what it leaves.
LEMMA RemainderUnique ==
  ASSUME NEW n \in Nat \ {0}, NEW q \in Int, NEW r \in 0 .. n - 1
  PROVE  Rem(n * q + r, n) = r
<1>1. PICK a \in Int : a = n * q + r
  OBVIOUS
<1>2. PICK p \in Int : a = n * p + Rem(a, n)
  BY Remainder
<1>3. PICK s \in 0 .. n - 1 : s = Rem(a, n)
  BY Remainder
<1>4. n * (p - q) = n * p - n * q
  OBVIOUS
<1>5. n * (p - q) = r - s /\ r - s < n /\ -n < r - s /\ p - q \in Int
  BY <1>1, <1>2, <1>3, <1>4
<1>6. p - q = 0
  BY <1>5, SmallMultiple
<1>7. r = s
  BY <1>5, <1>6
<1>8. QED
  BY <1>1, <1>3, <1>7

\* Whole rounds do not change a remainder.
LEMMA WholeRounds ==
  ASSUME NEW n \in Nat \ {0}, NEW q \in Int, NEW a \in Int
  PROVE  Rem(n * q + a, n) = Rem(a, n)
<1>1. PICK p \in Int : a = n * p + Rem(a, n)
  BY Remainder
<1>2. PICK s \in 0 .. n - 1 : s = Rem(a, n)
  BY Remainder
<1>3. n * q + a = n * (q + p) + s /\ q + p \in Int
  BY <1>1, <1>2
<1>4. Rem(n * (q + p) + s, n) = s
  BY <1>3, RemainderUnique
<1>5. QED
  BY <1>2, <1>3, <1>4

\* Numbers less than n apart have different remainders.
LEMMA RemaindersApart ==
  ASSUME NEW n \in Nat \ {0}, NEW a \in Int, NEW b \in Int,
         Rem(a, n) = Rem(b, n), a - b < n, -n < a - b
  PROVE  a = b
<1>1. PICK p \in Int : a = n * p + Rem(a, n)
  BY Remainder
<1>2. PICK q \in Int : b = n * q + Rem(b, n)
  BY Remainder
<1>3. Rem(a, n) \in Int
  BY Remainder
<1>4. n * (p - q) = n * p - n * q /\ p - q \in Int
  OBVIOUS
<1>5. n * (p - q) = a - b
  BY <1>1, <1>2, <1>3, <1>4
<1>6. p - q = 0
  BY <1>4, <1>5, SmallMultiple
<1>7. QED
  BY <1>5, <1>6

\* Remainders may be taken early in sums and differences.
LEMMA RemainderOfSum ==
  ASSUME NEW n \in Nat \ {0}, NEW a \in Int, NEW b \in Int
  PROVE  /\ Rem(Rem(a, n) + b, n) = Rem(a + b, n)
         /\ Rem(Rem(a, n) - Rem(b, n), n) = Rem(a - b, n)
<1>1. PICK p \in Int : a = n * p + Rem(a, n)
  BY Remainder
<1>2. PICK q \in Int : b = n * q + Rem(b, n)
  BY Remainder
<1>3. PICK r \in Int, s \in Int : r = Rem(a, n) /\ s = Rem(b, n)
  BY RemainderType
<1>4. r + b = n * (-p) + (a + b) /\ -p \in Int /\ a + b \in Int
  BY <1>1, <1>3
<1>5. n * (q - p) = n * q - n * p
  OBVIOUS
<1>6. r - s = n * (q - p) + (a - b) /\ q - p \in Int /\ a - b \in Int
  BY <1>1, <1>2, <1>3, <1>5
<1>7. Rem(n * (-p) + (a + b), n) = Rem(a + b, n)
  BY <1>4, WholeRounds
<1>8. Rem(n * (q - p) + (a - b), n) = Rem(a - b, n)
  BY <1>6, WholeRounds
<1>9. QED
  BY <1>3, <1>4, <1>6, <1>7, <1>8

\* size_t holds a whole number of rounds, so wrapping does not change the cell.
LEMMA RemainderOfRemainder ==
  ASSUME NEW n \in Nat \ {0}, NEW m \in Nat \ {0}, Rem(m, n) = 0, NEW a \in Int
  PROVE  Rem(Rem(a, m), n) = Rem(a, n)
<1>1. PICK c \in Int : m = n * c
  <2>0. m \in Int
    OBVIOUS
  <2>1. PICK c \in Int : m = n * c + Rem(m, n)
    BY <2>0, Remainder, Zenon
  <2>2. QED
    BY <2>1
<1>2. PICK d \in Int : a = m * d + Rem(a, m)
  BY Remainder
<1>3. PICK r \in Int : r = Rem(a, m)
  BY RemainderType
<1>4. PICK e \in Int : e = -(c * d)
  OBVIOUS
<1>5. PICK x \in Int : x = m * d
  OBVIOUS
<1>a. n * e = -x
  BY <1>1, <1>4, <1>5
<1>b. a = x + r
  BY <1>2, <1>3, <1>5
<1>6. r = n * e + a
  BY <1>a, <1>b
<1>7. Rem(n * e + a, n) = Rem(a, n)
  BY WholeRounds
<1>8. QED
  BY <1>3, <1>6, <1>7

\* The position after u pushes.
At(u) == Rem(StartPos + u, PosMod)

\* The operators of the ring, in terms of Rem.
LEMMA Opened ==
  /\ \A a, k : Add(a, k) = Rem(a + k, PosMod)
  /\ \A a : Cell(a) = Rem(a, Size)
  /\ Used = Rem(enqueuePos - dequeuePos, PosMod)
  /\ \A a, b : Diff(a, b) = LET d == Rem(a - b, PosMod)
                            IN IF d < PosMod \div 2 THEN d ELSE d - PosMod
  BY Zenon DEF Add, Cell, Used, Diff, Rem

\* RingConstants in the form that the lemmas use.
LEMMA Constants ==
  ASSUME RingConstants
  PROVE  /\ PosMod \in Nat \ {0} /\ Size \in Nat \ {0} /\ Size >= 2 /\ Rem(PosMod, Size) = 0
         /\ StartPos \in Nat /\ StartPos < PosMod
         /\ PosMod \div 2 \in Nat /\ 2 * (PosMod \div 2) <= PosMod
         /\ IsFiniteSet(Values) /\ Cardinality(Values) \in Nat
         /\ Cardinality(Values) + Size <= PosMod \div 2
<1>1. PosMod \in Nat \ {0} /\ StartPos \in Nat /\ StartPos < PosMod
  BY DEF RingConstants, Pos
<1>2. PosMod \div 2 \in Nat /\ 2 * (PosMod \div 2) <= PosMod
  BY <1>1
<1>3. IsFiniteSet(Values) /\ Cardinality(Values) \in Nat
  BY FS_CardinalityType DEF RingConstants
<1>4. Rem(PosMod, Size) = 0
  BY DEF RingConstants, Rem
<1>5. Size \in Nat \ {0} /\ Size >= 2 /\ Cardinality(Values) + Size <= PosMod \div 2
  BY DEF RingConstants
<1>6. QED
  BY <1>1, <1>2, <1>3, <1>4, <1>5

\* Adding to a position, and its cell.
LEMMA PositionSum ==
  ASSUME RingConstants, NEW u \in Nat
  PROVE  /\ At(u) \in Pos
         /\ \A k \in Nat : Add(At(u), k) = At(u + k)
         /\ Cell(At(u)) = Rem(StartPos + u, Size)
         /\ Cell(At(u)) \in Cells
         /\ Cell(At(u + Size)) = Cell(At(u))
<1>0. /\ PosMod \in Nat \ {0} /\ Size \in Nat \ {0} /\ Rem(PosMod, Size) = 0
      /\ StartPos \in Nat /\ StartPos + u \in Int
  BY Constants
<1>1. At(u) \in Pos
  BY <1>0, Remainder DEF At, Pos
<1>2. ASSUME NEW k \in Nat PROVE Add(At(u), k) = At(u + k)
  <2>0. k \in Int
    OBVIOUS
  <2>1. Rem(Rem(StartPos + u, PosMod) + k, PosMod) = Rem((StartPos + u) + k, PosMod)
    BY <1>0, <2>0, RemainderOfSum, Zenon
  <2>2. (StartPos + u) + k = StartPos + (u + k)
    BY <1>0
  <2>3. QED
    BY <2>1, <2>2, Opened DEF At
<1>3. ASSUME NEW v \in Nat PROVE Cell(At(v)) = Rem(StartPos + v, Size)
  <2>1. StartPos + v \in Int
    BY <1>0
  <2>2. Rem(Rem(StartPos + v, PosMod), Size) = Rem(StartPos + v, Size)
    BY <1>0, <2>1, RemainderOfRemainder
  <2>3. QED
    BY <2>2, Opened DEF At
<1>4. Cell(At(u)) \in Cells
  BY <1>0, <1>3, Remainder DEF Cells
<1>5. Cell(At(u + Size)) = Cell(At(u))
  <2>0. 1 \in Int
    OBVIOUS
  <2>1. Rem(Size * 1 + (StartPos + u), Size) = Rem(StartPos + u, Size)
    BY <1>0, <2>0, WholeRounds, Zenon
  <2>2. Size * 1 + (StartPos + u) = StartPos + (u + Size) /\ u + Size \in Nat
    BY <1>0
  <2>3. QED
    BY <1>3, <2>1, <2>2
<1>6. QED
  BY <1>1, <1>2, <1>3, <1>4, <1>5

\* Positions less than PosMod apart differ, and their cells when less than Size apart.
LEMMA PositionsApart ==
  ASSUME RingConstants, NEW u \in Nat, NEW v \in Nat
  PROVE  /\ u - v < PosMod /\ v - u < PosMod /\ At(u) = At(v) => u = v
         /\ u - v < Size /\ v - u < Size /\ Cell(At(u)) = Cell(At(v)) => u = v
<1>0. PosMod \in Nat \ {0} /\ Size \in Nat \ {0} /\ StartPos \in Nat
  BY Constants
<1>a. PICK x \in Int, y \in Int : x = StartPos + u /\ y = StartPos + v
  BY <1>0
<1>1. ASSUME u - v < PosMod, v - u < PosMod, At(u) = At(v) PROVE u = v
  <2>1. Rem(x, PosMod) = Rem(y, PosMod) /\ x - y < PosMod /\ -PosMod < x - y
    BY <1>0, <1>1, <1>a DEF At
  <2>2. x = y
    BY <1>0, <2>1, RemaindersApart
  <2>3. QED
    BY <1>0, <1>a, <2>2
<1>2. ASSUME u - v < Size, v - u < Size, Cell(At(u)) = Cell(At(v)) PROVE u = v
  <2>1. Rem(x, Size) = Rem(y, Size) /\ x - y < Size /\ -Size < x - y
    BY <1>0, <1>2, <1>a, PositionSum
  <2>2. x = y
    BY <1>0, <2>1, RemaindersApart
  <2>3. QED
    BY <1>0, <1>a, <2>2
<1>3. QED
  BY <1>1, <1>2

\* The signed difference is right for positions less than half the range apart.
LEMMA PositionDifference ==
  ASSUME RingConstants, NEW u \in Nat, NEW v \in Nat,
         u - v < PosMod \div 2, v - u < PosMod \div 2
  PROVE  Diff(At(u), At(v)) = u - v
<1>0. /\ PosMod \in Nat \ {0} /\ StartPos \in Nat
      /\ PosMod \div 2 \in Nat /\ 2 * (PosMod \div 2) <= PosMod
  BY Constants
<1>1. Rem(At(u) - At(v), PosMod) = Rem(u - v, PosMod)
  <2>1. PICK x \in Int, y \in Int : x = StartPos + u /\ y = StartPos + v
    BY <1>0
  <2>2. Rem(Rem(x, PosMod) - Rem(y, PosMod), PosMod) = Rem(x - y, PosMod)
    BY <1>0, RemainderOfSum
  <2>3. x - y = u - v
    BY <1>0, <2>1
  <2>4. QED
    BY <2>1, <2>2, <2>3 DEF At
<1>2. PICK h \in Nat : h = PosMod \div 2
  BY <1>0
<1>3. Diff(At(u), At(v)) = LET d == Rem(u - v, PosMod) IN IF d < h THEN d ELSE d - PosMod
  BY <1>1, <1>2, Opened
<1>4. CASE u >= v
  <2>1. u - v \in 0 .. PosMod - 1 /\ u - v < h /\ 0 \in Int
    BY <1>0, <1>2, <1>4
  <2>2. Rem(PosMod * 0 + (u - v), PosMod) = u - v
    BY <1>0, <2>1, RemainderUnique, Zenon
  <2>3. PosMod * 0 + (u - v) = u - v
    BY <1>0
  <2>4. QED
    BY <1>3, <2>1, <2>2, <2>3
<1>5. CASE u < v
  <2>1. PICK r \in 0 .. PosMod - 1 : r = PosMod + (u - v) /\ ~(r < h)
    BY <1>0, <1>2, <1>5
  <2>m. PICK m \in Int : m = -1
    OBVIOUS
  <2>2. Rem(PosMod * m + r, PosMod) = r
    BY <1>0, <2>1, RemainderUnique, Zenon
  <2>3. PosMod * m + r = u - v
    BY <1>0, <2>1, <2>m
  <2>4. QED
    BY <1>0, <1>3, <2>1, <2>2, <2>3
<1>6. QED
  BY <1>4, <1>5

(***************************************************************************)
(* The inductive invariant.  Positions are counted from StartPos without   *)
(* wrapping: Popped pops and Claimed successful compare-exchanges so far.  *)
(* NoCellRace follows from where the producers and the sequence numbers    *)
(* are in the window of Size positions that starts at Popped.              *)
(***************************************************************************)

Popped == Len(popped)
Claimed == Len(popped) + Used
Trying(p) == pc[p] \in {"load", "cas", "reload"}
WrittenAt(x) == \E p \in Producers : Writing(p) /\ pos[p] = x

\* The two ends of the queue are at most Size apart.
Ends ==
  dequeuePos = At(Popped) /\ enqueuePos = At(Claimed) /\ Used \in 0 .. Size

\* Each position was claimed for a push of its own, and a push that has not succeeded or
\* failed yet has claimed none.
Settled == {v \in Values : v[2] < pushes[v[1]] \/ (v[2] = pushes[v[1]] /\ ~Trying(v[1]))}
Counted ==
  /\ Claimed <= Cardinality(Settled)
  /\ \A p \in Producers : pc[p] # "idle" => pushes[p] >= 1

\* Producers that write do so at different positions in the queue.
Writers ==
  /\ \A p \in Producers : Writing(p) => \E u \in Popped .. Claimed - 1 : pos[p] = At(u)
  /\ \A p, q \in Producers : Writing(p) /\ Writing(q) /\ pos[p] = pos[q] => p = q

\* A producer that tries has a position that may be stale; one that found its cell free
\* succeeds with the compare-exchange only if it still is.
Tryers ==
  \A p \in Producers : Trying(p) =>
    \E u \in 0 .. Claimed :
      pos[p] = At(u) /\ (pc[p] = "cas" => u < Claimed \/ Used < Size)

\* The sequence number of a cell in the window says whether its message is published.
SequenceNumbers ==
  \A v \in Popped .. Popped + Size - 1 :
    sequence[Cell(At(v))] = At(IF v < Claimed /\ ~WrittenAt(At(v)) THEN v + 1 ELSE v)

\* The consumer reads a cell that holds a published message.
Consumer ==
  /\ cpc # "thrown"
  /\ cpc \in {"read", "free"} => Used > 0 /\ ~WrittenAt(dequeuePos)

\* The data of a cell is the message of the push that owns the position.
Contents ==
  /\ \A p \in Producers : pc[p] = "publish" => data[Cell(pos[p])] = Value(p)
  /\ \A v \in Popped .. Claimed - 1 : ~WrittenAt(At(v)) => data[Cell(At(v))] \in Values
  /\ cpc = "free" => got = data[Cell(dequeuePos)]

RingInv ==
  /\ TypeOK /\ Ends /\ Counted /\ Writers /\ Tryers
  /\ SequenceNumbers /\ Consumer /\ Contents

\* What the invariant says of the numbers: the window is far from wrapping around.
LEMMA Window ==
  ASSUME RingConstants, RingInv
  PROVE  /\ Popped \in Nat /\ Claimed \in Nat /\ Used \in Nat /\ Claimed = Popped + Used
         /\ Popped <= Claimed /\ Claimed <= Popped + Size
         /\ IsFiniteSet(Settled) /\ Cardinality(Settled) \in Nat
         /\ Claimed <= Cardinality(Values)
         /\ \A p \in Producers : Trying(p) => Claimed < Cardinality(Values)
<1>1. Popped \in Nat /\ Used \in Nat /\ Used <= Size /\ Claimed = Popped + Used
  <2>1. Len(popped) \in Nat
    BY DEF RingInv, TypeOK
  <2>2. QED
    BY <2>1, Constants DEF RingInv, Ends, Popped, Claimed
<1>2. Size \in Nat /\ IsFiniteSet(Values) /\ Cardinality(Values) \in Nat
  BY Constants
<1>3. Settled \subseteq Values
  BY DEF Settled
<1>4. /\ IsFiniteSet(Settled) /\ Cardinality(Settled) \in Nat
      /\ Cardinality(Settled) <= Cardinality(Values)
      /\ Cardinality(Settled) = Cardinality(Values) => Settled = Values
  BY <1>2, <1>3, FS_Subset, FS_CardinalityType
<1>5. Claimed <= Cardinality(Settled)
  BY DEF RingInv, Counted
<1>6. ASSUME NEW p \in Producers, Trying(p)
      PROVE  Cardinality(Settled) # Cardinality(Values)
  <2>1. pushes[p] \in 1 .. MaxPushes
    BY <1>6 DEF RingInv, Counted, Trying, TypeOK, RingConstants
  <2>2. <<p, pushes[p]>> \in Values
    BY <2>1 DEF Values
  <2>3. <<p, pushes[p]>> \notin Settled
    BY <1>6, <2>1 DEF Settled
  <2>4. QED
    BY <1>4, <2>2, <2>3
<1> HIDE DEF Popped, Claimed
<1>7. QED
  BY <1>1, <1>2, <1>4, <1>5, <1>6

\* The number of positions in use, from the indices of the two ends.
LEMMA Distance ==
  ASSUME RingConstants, NEW d \in Nat, NEW e \in Nat, d <= e, e - d < PosMod
  PROVE  Rem(At(e) - At(d), PosMod) = e - d
<1>0. PosMod \in Nat \ {0} /\ StartPos \in Nat
  BY Constants
<1>1. PICK x \in Int, y \in Int : x = StartPos + e /\ y = StartPos + d
  BY <1>0
<1>2. Rem(At(e) - At(d), PosMod) = Rem(x - y, PosMod)
  BY <1>0, <1>1, RemainderOfSum DEF At
<1>3. x - y \in 0 .. PosMod - 1 /\ x - y = e - d /\ 0 \in Int
  BY <1>0, <1>1
<1>4. Rem(PosMod * 0 + (x - y), PosMod) = x - y
  BY <1>0, <1>3, RemainderUnique, Zenon
<1>5. PosMod * 0 + (x - y) = x - y
  BY <1>0, <1>3
<1>6. QED
  BY <1>2, <1>3, <1>4, <1>5

\* A step that neither moves an end of the queue nor concerns a producer that writes.
LEMMA QueueKept ==
  ASSUME RingInv, UNCHANGED <<sequence, data, enqueuePos, dequeuePos, consumerVars>>,
         \A q \in Producers : /\ Writing(q)' <=> Writing(q)
                              /\ Writing(q) => /\ pos'[q] = pos[q] /\ pc'[q] = pc[q]
                                               /\ pushes'[q] = pushes[q]
  PROVE  /\ Popped' = Popped /\ Claimed' = Claimed /\ Used' = Used
         /\ Ends' /\ Writers' /\ SequenceNumbers' /\ Consumer' /\ Contents'
<1>1. Popped' = Popped /\ Claimed' = Claimed /\ Used' = Used
  BY DEF Popped, Claimed, Used, consumerVars
<1>2. \A x : WrittenAt(x)' <=> WrittenAt(x)
  BY DEF WrittenAt
<1>3. UNCHANGED <<sequence, data, enqueuePos, dequeuePos, cpc, got>>
  BY DEF consumerVars
<1>4. Ends'
  BY <1>1, <1>3 DEF RingInv, Ends
<1>5. Writers'
  BY <1>1 DEF RingInv, Writers
<1>6. SequenceNumbers'
  BY <1>1, <1>2, <1>3 DEF RingInv, SequenceNumbers
<1>7. Consumer'
  BY <1>1, <1>2, <1>3 DEF RingInv, Consumer
<1>8. Contents'
  <2>1. \A q \in Producers : pc'[q] = "publish" => pc[q] = "publish" /\ Value(q)' = Value(q)
                                                   /\ pos'[q] = pos[q]
    BY DEF Writing, Value
  <2>2. QED
    BY <1>1, <1>2, <1>3, <2>1 DEF RingInv, Contents
<1>9. QED
  BY <1>1, <1>4, <1>5, <1>6, <1>7, <1>8

\* A push that succeeds or fails is settled.
LEMMA PushSettled ==
  ASSUME RingConstants, RingInv, NEW p \in Producers, Trying(p), ~Trying(p)',
         pushes' = pushes, \A q \in Producers : q # p => pc'[q] = pc[q]
  PROVE  Cardinality(Settled') = Cardinality(Settled) + 1
<1>1. pushes[p] \in 1 .. MaxPushes
  BY DEF RingInv, Counted, Trying, TypeOK, RingConstants
<1>2. PICK v \in Values : v = <<p, pushes[p]>> /\ v[1] = p /\ v[2] = pushes[p]
  <2>1. <<p, pushes[p]>> \in Values
    BY <1>1 DEF Values
  <2>2. QED
    BY <2>1
<1>3. \A w \in Values : w[1] \in Producers /\ w = <<w[1], w[2]>>
  BY DEF Values
<1>4. \A w \in Values : w \in Settled' <=> w \in Settled \/ w = v
  <2> SUFFICES ASSUME NEW w \in Values PROVE w \in Settled' <=> w \in Settled \/ w = v
    OBVIOUS
  <2>1. CASE w[1] # p
    <3>1. Trying(w[1])' <=> Trying(w[1])
      BY <1>3, <2>1 DEF Trying
    <3>2. QED
      BY <1>2, <2>1, <3>1 DEF Settled
  <2>2. CASE w[1] = p /\ w[2] = pushes[p]
    <3>1. w = v
      BY <1>2, <1>3, <2>2
    <3>2. QED
      BY <2>2, <3>1 DEF Settled
  <2>3. CASE w[1] = p /\ w[2] # pushes[p]
    BY <1>2, <2>3 DEF Settled
  <2>4. QED
    BY <2>1, <2>2, <2>3
<1>5. Settled' = Settled \cup {v}
  BY <1>4 DEF Settled
<1>6. v \notin Settled
  BY <1>1, <1>2 DEF Settled
<1>7. QED
  BY <1>5, <1>6, Window, FS_AddElement

\* A producer's step keeps the types of its local variables.
LEMMA ProducerTyped ==
  ASSUME TypeOK, NEW p \in Producers,
         NEW label \in {"idle", "load", "cas", "reload", "write", "publish"}, Goto(p, label)
  PROVE  /\ pc' \in [Producers -> {"idle", "load", "cas", "reload", "write", "publish"}]
         /\ pc'[p] = label /\ \A q \in Producers : q # p => pc'[q] = pc[q]
  BY DEF TypeOK, Goto

\* Push begins, or comes back with a fresh position.
LEMMA FreshPosition ==
  ASSUME RingConstants, RingInv, NEW p \in Producers,
         BeginPush(p) \/ ClaimFails(p) \/ Reload(p)
  PROVE  RingInv'
<1>0. /\ pc[p] \in {"idle", "cas", "reload"} /\ Goto(p, "load")
      /\ pos' = [pos EXCEPT ![p] = enqueuePos]
      /\ UNCHANGED <<sequence, data, enqueuePos, dequeuePos, consumerVars>>
  BY DEF BeginPush, ClaimFails, Reload
<1>1. /\ pc' \in [Producers -> {"idle", "load", "cas", "reload", "write", "publish"}]
      /\ pc'[p] = "load" /\ \A q \in Producers : q # p => pc'[q] = pc[q]
  BY <1>0, ProducerTyped DEF RingInv
<1>2. /\ pos' \in [Producers -> Pos] /\ pos'[p] = enqueuePos
      /\ \A q \in Producers : q # p => pos'[q] = pos[q]
  BY <1>0 DEF RingInv, TypeOK
<1>3. /\ pushes' \in [Producers -> 0 .. MaxPushes]
      /\ \A q \in Producers : q # p => pushes'[q] = pushes[q]
      /\ pushes'[p] >= 1
      /\ \/ pushes'[p] = pushes[p] /\ Trying(p)
         \/ pushes'[p] = pushes[p] + 1 /\ pc[p] = "idle"
      /\ pushes[p] \in Nat
  BY DEF BeginPush, ClaimFails, Reload, RingInv, TypeOK, Counted, RingConstants, Trying
<1>4. TypeOK'
  BY <1>0, <1>1, <1>2, <1>3 DEF RingInv, TypeOK, consumerVars
<1>5. /\ Popped' = Popped /\ Claimed' = Claimed /\ Used' = Used
      /\ Ends' /\ Writers' /\ SequenceNumbers' /\ Consumer' /\ Contents'
  <2>1. \A q \in Producers : /\ Writing(q)' <=> Writing(q)
                             /\ Writing(q) => /\ pos'[q] = pos[q] /\ pc'[q] = pc[q]
                                              /\ pushes'[q] = pushes[q]
    <3>1. ~Writing(p) /\ ~Writing(p)'
      BY <1>0, <1>1 DEF Writing
    <3>2. \A q \in Producers : q # p => (Writing(q)' <=> Writing(q))
      BY <1>1 DEF Writing
    <3>3. QED
      BY <1>1, <1>2, <1>3, <3>1, <3>2, Zenon
  <2>2. QED
    BY <1>0, <2>1, QueueKept, Zenon
<1>6. Counted'
  <2>1. \A w \in Values : w[1] \in Producers /\ w[2] \in Nat
    BY DEF Values, RingConstants
  <2>2. \A q \in Producers : q # p => (Trying(q)' <=> Trying(q))
    BY <1>1 DEF Trying
  <2>3. Trying(p)' /\ (pc[p] = "idle" => ~Trying(p))
    BY <1>1 DEF Trying
  <2>4. \A w \in Values : w \in Settled' <=> w \in Settled
    BY <1>3, <2>1, <2>2, <2>3 DEF Settled
  <2>5. Settled' = Settled
    BY <2>4 DEF Settled
  <2>6. QED
    BY <1>1, <1>3, <1>5, <2>5 DEF RingInv, Counted
<1>7. Tryers'
  <2>1. enqueuePos = At(Claimed) /\ Claimed \in 0 .. Claimed
    BY Window DEF RingInv, Ends
  <2>2. QED
    BY <1>1, <1>2, <1>5, <2>1 DEF RingInv, Tryers, Trying
<1>8. QED
  BY <1>4, <1>5, <1>6, <1>7 DEF RingInv

\* What a producer with a position, stale or not, reads from the sequence number of its cell.
LEMMA LoadedDifference ==
  ASSUME RingConstants, RingInv, NEW p \in Producers, Trying(p)
  PROVE  \E u \in 0 .. Claimed :
           /\ pos[p] = At(u)
           /\ Diff(sequence[Cell(pos[p])], pos[p]) \in Int
           /\ Diff(sequence[Cell(pos[p])], pos[p]) <= 0 => u >= Popped
           /\ Diff(sequence[Cell(pos[p])], pos[p]) < 0 <=> u = Popped + Size
<1>0. /\ Popped \in Nat /\ Claimed \in Nat /\ Popped <= Claimed /\ Claimed <= Popped + Size
      /\ Size \in Nat /\ Size >= 2 /\ Claimed < Cardinality(Values)
      /\ Cardinality(Values) \in Nat /\ PosMod \div 2 \in Nat
      /\ Cardinality(Values) + Size <= PosMod \div 2
  BY Window, Constants
<1>1. PICK u \in 0 .. Claimed : pos[p] = At(u)
  BY DEF RingInv, Tryers
<1>2. PICK w \in Popped .. Popped + Size - 1 :
        /\ Cell(At(w)) = Cell(At(u))
        /\ u < Popped => w > u
        /\ u >= Popped /\ u < Popped + Size => w = u
        /\ u = Popped + Size => w = Popped
  <2>1. CASE u >= Popped /\ u < Popped + Size
    BY <1>0, <2>1
  <2>2. CASE u = Popped + Size
    BY <1>0, <2>2, PositionSum
  <2>3. CASE u < Popped
    <3>1. PICK n \in Nat \ {0}, x \in Int, y \in Int :
            n = Size /\ x = StartPos + u /\ y = StartPos + Popped
      BY <1>0, Constants
    <3>2. PICK r \in 0 .. n - 1 : r = Rem(x - y, n)
      BY <3>1, RemainderType
    <3>3. Rem(y + r, n) = Rem(x, n)
      <4>1. x - y \in Int
        BY <3>1
      <4>2. Rem(Rem(x - y, n) + y, n) = Rem((x - y) + y, n)
        BY <3>1, <4>1, RemainderOfSum, Zenon
      <4>3. (x - y) + y = x /\ r + y = y + r
        BY <3>1
      <4>4. QED
        BY <3>2, <4>2, <4>3
    <3>4. PICK w \in Nat : w = Popped + r
      BY <1>0, <3>1
    <3>5. y + r = StartPos + w
      BY <1>0, <3>1, <3>4, Constants
    <3>6. Cell(At(w)) = Cell(At(u))
      BY <1>0, <3>1, <3>3, <3>5, PositionSum
    <3>7. QED
      BY <1>0, <2>3, <3>1, <3>4, <3>6
  <2>4. QED
    BY <1>0, <2>1, <2>2, <2>3
<1>3. PICK z \in {w, w + 1} : sequence[Cell(At(u))] = At(z)
  BY <1>2 DEF RingInv, SequenceNumbers
<1>4. z \in Nat /\ u \in Nat /\ z - u < PosMod \div 2 /\ u - z < PosMod \div 2
  BY <1>0, <1>2
<1>5. Diff(sequence[Cell(pos[p])], pos[p]) = z - u
  BY <1>1, <1>3, <1>4, PositionDifference
<1>6. QED
  BY <1>0, <1>1, <1>2, <1>4, <1>5

\* Push compares the sequence number of its cell with its position; it gives up only when
\* the ring is full at that instant, even with a stale position.
LEMMA LoadStep ==
  ASSUME RingConstants, RingInv, NEW p \in Producers, LoadSequence(p)
  PROVE  RingInv' /\ (pc'[p] = "idle" => Used = Size)
<1>0. Trying(p) /\ UNCHANGED <<sequence, data, enqueuePos, dequeuePos, pos, pushes, consumerVars>>
  BY DEF LoadSequence, Trying
<1>1. PICK u \in 0 .. Claimed, diff \in Int :
        /\ pos[p] = At(u)
        /\ diff = Diff(sequence[Cell(pos[p])], pos[p])
        /\ diff <= 0 => u >= Popped
        /\ diff < 0 <=> u = Popped + Size
  BY <1>0, LoadedDifference
<1>2. PICK label \in {"cas", "idle", "reload"} :
        /\ Goto(p, label)
        /\ label = IF diff = 0 THEN "cas" ELSE IF diff < 0 THEN "idle" ELSE "reload"
  BY <1>1 DEF LoadSequence
<1>3. /\ pc' \in [Producers -> {"idle", "load", "cas", "reload", "write", "publish"}]
      /\ pc'[p] = label /\ \A q \in Producers : q # p => pc'[q] = pc[q]
  BY <1>2, ProducerTyped DEF RingInv
<1>4. /\ Popped \in Nat /\ Used \in Nat /\ Claimed = Popped + Used /\ Used <= Size /\ Size \in Nat
      /\ Claimed \in Nat
  BY Window, Constants
<1>5. label = "idle" => Used = Size
  BY <1>1, <1>2, <1>4
<1>6. TypeOK'
  BY <1>0, <1>3 DEF RingInv, TypeOK, consumerVars
<1>7. /\ Popped' = Popped /\ Claimed' = Claimed /\ Used' = Used
      /\ Ends' /\ Writers' /\ SequenceNumbers' /\ Consumer' /\ Contents'
  <2>1. \A q \in Producers : /\ Writing(q)' <=> Writing(q)
                             /\ Writing(q) => /\ pos'[q] = pos[q] /\ pc'[q] = pc[q]
                                              /\ pushes'[q] = pushes[q]
    <3>1. ~Writing(p) /\ ~Writing(p)'
      BY <1>0, <1>3 DEF Writing, Trying
    <3>2. \A q \in Producers : q # p => (Writing(q)' <=> Writing(q))
      BY <1>3 DEF Writing
    <3>3. QED
      BY <1>0, <1>3, <3>1, <3>2, Zenon
  <2>2. QED
    BY <1>0, <2>1, QueueKept, Zenon
<1>8. Counted'
  <2>1. \A q \in Producers : pc'[q] # "idle" => pushes'[q] >= 1
    BY <1>0, <1>3 DEF RingInv, Counted, Trying
  <2>2. Claimed' <= Cardinality(Settled')
    <3>1. CASE label = "idle"
      <4>1. ~Trying(p)'
        BY <1>3, <3>1 DEF Trying
      <4>2. Cardinality(Settled') = Cardinality(Settled) + 1
        BY <1>0, <1>3, <4>1, PushSettled
      <4>3. Claimed <= Cardinality(Settled) /\ Cardinality(Settled) \in Nat
        BY Window DEF RingInv, Counted
      <4>4. QED
        BY <1>4, <1>7, <4>2, <4>3
    <3>2. CASE label # "idle"
      <4>1. \A q \in Producers : Trying(q)' <=> Trying(q)
        BY <1>0, <1>3, <3>2 DEF Trying
      <4>2. \A w \in Values : w[1] \in Producers
        BY DEF Values
      <4>3. Settled' = Settled
        BY <1>0, <4>1, <4>2 DEF Settled
      <4>4. QED
        BY <1>7, <4>3 DEF RingInv, Counted
    <3>3. QED
      BY <3>1, <3>2
  <2>3. QED
    BY <2>1, <2>2 DEF Counted
<1>9. Tryers'
  <2>1. label = "cas" => u < Claimed \/ Used < Size
    BY <1>1, <1>2, <1>4
  <2>2. \A q \in Producers : q # p => (Trying(q)' <=> Trying(q))
    BY <1>3 DEF Trying
  <2>3. QED
    BY <1>0, <1>1, <1>3, <1>7, <2>1, <2>2 DEF RingInv, Tryers
<1>10. QED
  BY <1>3, <1>5, <1>6, <1>7, <1>8, <1>9 DEF RingInv

\* Positions and cells of the window are told apart by their indices.
LEMMA WindowApart ==
  ASSUME RingConstants, RingInv, NEW v \in Popped .. Popped + Size, NEW w \in Popped .. Popped + Size
  PROVE  /\ At(v) = At(w) => v = w
         /\ Cell(At(v)) = Cell(At(w)) /\ v < Popped + Size /\ w < Popped + Size => v = w
<1>1. Popped \in Nat /\ Size \in Nat /\ Size < PosMod /\ PosMod \in Nat
  BY Window, Constants
<1>2. v \in Nat /\ w \in Nat /\ v - w <= Size /\ w - v <= Size
  BY <1>1
<1>3. QED
  BY <1>1, <1>2, PositionsApart

\* The compare-exchange succeeds: the producer owns the next position.
LEMMA ClaimStep ==
  ASSUME RingConstants, RingInv, NEW p \in Producers, Claim(p)
  PROVE  RingInv' /\ Used < Size /\ Used' = Used + 1 /\ pos[p] = At(Claimed)
<1>0. /\ Trying(p) /\ pc[p] = "cas" /\ enqueuePos = pos[p] /\ enqueuePos' = Add(pos[p], 1)
      /\ UNCHANGED <<sequence, data, dequeuePos, pos, pushes, consumerVars>>
  BY DEF Claim, Trying
<1>1. /\ pc' \in [Producers -> {"idle", "load", "cas", "reload", "write", "publish"}]
      /\ pc'[p] = "write" /\ \A q \in Producers : q # p => pc'[q] = pc[q]
  BY ProducerTyped DEF RingInv, Claim
<1>2. /\ Popped \in Nat /\ Used \in Nat /\ Claimed \in Nat /\ Claimed = Popped + Used
      /\ Used <= Size /\ Size \in Nat /\ Size >= 2 /\ PosMod \in Nat
      /\ Claimed + Size < PosMod
  BY Window, Constants
<1>3. dequeuePos = At(Popped) /\ enqueuePos = At(Claimed)
  BY DEF RingInv, Ends
<1>4. Used < Size
  <2>1. PICK u \in 0 .. Claimed : pos[p] = At(u) /\ (u < Claimed \/ Used < Size)
    BY <1>0 DEF RingInv, Tryers
  <2>2. u = Claimed
    <3>1. u \in Nat /\ u <= Claimed
      BY <1>2
    <3>2. u - Claimed < PosMod /\ Claimed - u < PosMod
      BY <1>2, <3>1
    <3>3. At(u) = At(Claimed)
      BY <1>0, <1>3, <2>1, Zenon
    <3>4. QED
      BY <1>2, <3>1, <3>2, <3>3, PositionsApart
  <2>3. QED
    BY <1>2, <2>1, <2>2
<1>5. enqueuePos' = At(Claimed + 1) /\ enqueuePos' \in Pos
  <2>1. Add(At(Claimed), 1) = At(Claimed + 1)
    BY <1>2, PositionSum
  <2>2. Claimed + 1 \in Nat
    BY <1>2
  <2>3. At(Claimed + 1) \in Pos
    BY <2>2, PositionSum
  <2>4. QED
    BY <1>0, <1>3, <2>1, <2>3
<1>6. Popped' = Popped /\ Used' = Used + 1 /\ Claimed' = Claimed + 1
  <2>1. Popped' = Popped /\ Len(popped') = Popped
    BY <1>0 DEF Popped, consumerVars
  <2>2. Used' = Rem(enqueuePos' - dequeuePos', PosMod)
    BY DEF Used, Rem
  <2>3. Rem(At(Claimed + 1) - At(Popped), PosMod) = (Claimed + 1) - Popped
    BY <1>2, Distance
  <2>4. Used' = Used + 1
    BY <1>0, <1>2, <1>3, <1>5, <2>2, <2>3
  <2>5. Claimed' = Len(popped') + Used'
    BY DEF Claimed
  <2>6. QED
    BY <1>2, <2>1, <2>4, <2>5
<1>7. \A x : WrittenAt(x)' <=> WrittenAt(x) \/ x = At(Claimed)
  <2>1. /\ Writing(p)' /\ ~Writing(p)
        /\ \A q \in Producers : q # p => (Writing(q)' <=> Writing(q))
    BY <1>0, <1>1 DEF Writing
  <2>2. QED
    BY <1>0, <1>3, <2>1 DEF WrittenAt
<1>8. TypeOK'
  BY <1>0, <1>1, <1>5 DEF RingInv, TypeOK, consumerVars
<1>9. Ends'
  BY <1>0, <1>2, <1>3, <1>4, <1>5, <1>6 DEF Ends
<1>10. Counted'
  <2>1. ~Trying(p)'
    BY <1>1 DEF Trying
  <2>2. Cardinality(Settled') = Cardinality(Settled) + 1
    BY <1>0, <1>1, <2>1, PushSettled
  <2>3. Claimed <= Cardinality(Settled) /\ Cardinality(Settled) \in Nat
    BY Window DEF RingInv, Counted
  <2>4. \A q \in Producers : pc'[q] # "idle" => pushes'[q] >= 1
    BY <1>0, <1>1 DEF RingInv, Counted
  <2>5. QED
    BY <1>2, <1>6, <2>2, <2>3, <2>4 DEF Counted
<1>11. Writers'
  <2>1. /\ ~Writing(p) /\ pos[p] = At(Claimed)
        /\ \A q \in Producers : q # p => (Writing(q)' <=> Writing(q))
    BY <1>0, <1>1, <1>3 DEF Writing
  <2>2. \A q \in Producers : Writing(q) => pos[q] # At(Claimed)
    <3> SUFFICES ASSUME NEW q \in Producers, Writing(q) PROVE pos[q] # At(Claimed)
      OBVIOUS
    <3>1. PICK u \in Popped .. Claimed - 1 : pos[q] = At(u)
      BY DEF RingInv, Writers
    <3>2. QED
      BY <1>2, <3>1, WindowApart
  <2>3. \A q \in Producers : Writing(q)' => \E u \in Popped' .. Claimed' - 1 : pos'[q] = At(u)
    <3>1. Claimed \in Popped' .. Claimed' - 1
      BY <1>2, <1>6
    <3>2. \A u \in Popped .. Claimed - 1 : u \in Popped' .. Claimed' - 1
      BY <1>2, <1>6
    <3>3. QED
      BY <1>0, <2>1, <3>1, <3>2 DEF RingInv, Writers
  <2>4. \A q, r \in Producers : Writing(q)' /\ Writing(r)' /\ pos'[q] = pos'[r] => q = r
    BY <1>0, <2>1, <2>2 DEF RingInv, Writers
  <2>5. QED
    BY <2>3, <2>4 DEF Writers
<1>12. Tryers'
  <2>1. \A q \in Producers : Trying(q)' => Trying(q) /\ pc'[q] = pc[q]
    BY <1>1 DEF Trying
  <2>2. \A u \in 0 .. Claimed : u \in 0 .. Claimed' /\ u < Claimed'
    BY <1>2, <1>6
  <2>3. QED
    BY <1>0, <2>1, <2>2 DEF RingInv, Tryers
<1>13. SequenceNumbers'
  <2> SUFFICES ASSUME NEW v \in Popped .. Popped + Size - 1
               PROVE  sequence[Cell(At(v))]
                        = At(IF v < Claimed' /\ ~WrittenAt(At(v))' THEN v + 1 ELSE v)
    BY <1>0, <1>6 DEF SequenceNumbers
  <2>1. sequence[Cell(At(v))] = At(IF v < Claimed /\ ~WrittenAt(At(v)) THEN v + 1 ELSE v)
    BY DEF RingInv, SequenceNumbers
  <2>2. CASE v = Claimed
    BY <1>2, <1>7, <2>1, <2>2
  <2>3. CASE v # Claimed
    <3>1. At(v) # At(Claimed)
      BY <1>2, <2>3, WindowApart
    <3>2. v < Claimed' <=> v < Claimed
      BY <1>2, <1>6, <2>3
    <3>3. QED
      BY <1>7, <2>1, <3>1, <3>2
  <2>4. QED
    BY <2>2, <2>3
<1>14. Consumer'
  <2>1. Used > 0 => At(Popped) # At(Claimed)
    BY <1>2, WindowApart
  <2>2. QED
    BY <1>0, <1>2, <1>3, <1>6, <1>7, <2>1 DEF RingInv, Consumer, consumerVars
<1>15. Contents'
  <2>1. \A q \in Producers : pc'[q] = "publish" => pc[q] = "publish"
    BY <1>1
  <2>2. \A q \in Producers : Value(q)' = Value(q)
    BY <1>0 DEF Value
  <2>3. ASSUME NEW v \in Popped' .. Claimed' - 1, ~WrittenAt(At(v))'
        PROVE  data[Cell(At(v))] \in Values
    <3>1. v # Claimed /\ ~WrittenAt(At(v))
      BY <1>7, <2>3
    <3>2. v \in Popped .. Claimed - 1
      BY <1>2, <1>6, <3>1
    <3>3. QED
      BY <3>1, <3>2 DEF RingInv, Contents
  <2>4. QED
    BY <1>0, <2>1, <2>2, <2>3 DEF RingInv, Contents, consumerVars
<1>16. QED
  BY <1>0, <1>3, <1>4, <1>6, <1>8, <1>9, <1>10, <1>11, <1>12, <1>13, <1>14, <1>15 DEF RingInv

\* A producer that writes has its cell for itself.
LEMMA CellOwned ==
  ASSUME RingConstants, RingInv, NEW p \in Producers, Writing(p)
  PROVE  /\ \E u \in Popped .. Claimed - 1 : pos[p] = At(u)
         /\ Cell(pos[p]) \in Cells
         /\ \A q \in Producers : Writing(q) /\ q # p => Cell(pos[q]) # Cell(pos[p])
         /\ \A v \in Popped .. Popped + Size - 1 :
              At(v) # pos[p] => Cell(At(v)) # Cell(pos[p])
         /\ cpc \in {"read", "free"} => Cell(dequeuePos) # Cell(pos[p])
<1>0. /\ Popped \in Nat /\ Claimed \in Nat /\ Popped <= Claimed /\ Claimed <= Popped + Size
      /\ Size \in Nat /\ Size >= 2
  BY Window, Constants
<1>1. PICK u \in Popped .. Claimed - 1 : pos[p] = At(u)
  BY DEF RingInv, Writers
<1>2. u \in Nat /\ u \in Popped .. Popped + Size - 1 /\ u \in Popped .. Popped + Size
  BY <1>0
<1>3. \A v \in Popped .. Popped + Size - 1 : At(v) # pos[p] => Cell(At(v)) # Cell(pos[p])
  <2> SUFFICES ASSUME NEW v \in Popped .. Popped + Size - 1, Cell(At(v)) = Cell(pos[p])
               PROVE  At(v) = pos[p]
    OBVIOUS
  <2>1. v \in Popped .. Popped + Size /\ v < Popped + Size /\ u < Popped + Size
    BY <1>0, <1>2
  <2>2. v = u
    BY <1>1, <1>2, <2>1, WindowApart
  <2>3. QED
    BY <1>1, <2>2
<1>4. ASSUME NEW q \in Producers, Writing(q), q # p
      PROVE  Cell(pos[q]) # Cell(pos[p])
  <2>1. PICK v \in Popped .. Claimed - 1 : pos[q] = At(v)
    BY <1>4 DEF RingInv, Writers
  <2>2. v \in Popped .. Popped + Size - 1
    BY <1>0
  <2>3. pos[q] # pos[p]
    BY <1>4 DEF RingInv, Writers
  <2>4. QED
    BY <1>3, <2>1, <2>2, <2>3
<1>5. ASSUME cpc \in {"read", "free"} PROVE Cell(dequeuePos) # Cell(pos[p])
  <2>1. Popped \in Popped .. Popped + Size - 1 /\ dequeuePos = At(Popped)
    BY <1>0 DEF RingInv, Ends
  <2>2. pos[p] # dequeuePos
    BY <1>5 DEF RingInv, Consumer, WrittenAt
  <2>3. QED
    BY <1>3, <2>1, <2>2
<1>6. Cell(pos[p]) \in Cells
  BY <1>1, <1>2, PositionSum
<1>7. QED
  BY <1>1, <1>3, <1>4, <1>5, <1>6

\* The message is moved into the cell.
LEMMA WriteStep ==
  ASSUME RingConstants, RingInv, NEW p \in Producers, WriteData(p)
  PROVE  RingInv'
<1>0. /\ pc[p] = "write" /\ Writing(p) /\ data' = [data EXCEPT ![Cell(pos[p])] = Value(p)]
      /\ UNCHANGED <<sequence, enqueuePos, dequeuePos, pos, pushes, consumerVars>>
  BY DEF WriteData, Writing
<1>1. /\ pc' \in [Producers -> {"idle", "load", "cas", "reload", "write", "publish"}]
      /\ pc'[p] = "publish" /\ \A q \in Producers : q # p => pc'[q] = pc[q]
  BY ProducerTyped DEF RingInv, WriteData
<1>2. \A q \in Producers : (Writing(q)' <=> Writing(q)) /\ (Trying(q)' <=> Trying(q))
  BY <1>0, <1>1 DEF Writing, Trying
<1>3. \A x : WrittenAt(x)' <=> WrittenAt(x)
  BY <1>0, <1>2 DEF WrittenAt
<1>4. Popped' = Popped /\ Used' = Used /\ Claimed' = Claimed
  BY <1>0 DEF Popped, Used, Claimed, consumerVars
<1>5. Value(p) \in Values
  <2>1. pushes[p] \in 1 .. MaxPushes
    BY <1>0 DEF RingInv, Counted, TypeOK, RingConstants
  <2>2. QED
    BY <2>1 DEF Value, Values
<1>6. /\ Cell(pos[p]) \in Cells
      /\ \A q \in Producers : Writing(q) /\ q # p => Cell(pos[q]) # Cell(pos[p])
      /\ \A v \in Popped .. Popped + Size - 1 : At(v) # pos[p] => Cell(At(v)) # Cell(pos[p])
      /\ cpc \in {"read", "free"} => Cell(dequeuePos) # Cell(pos[p])
  BY <1>0, CellOwned
<1>7. /\ data' \in [Cells -> Values \cup {None}] /\ data'[Cell(pos[p])] = Value(p)
      /\ \A x : x # Cell(pos[p]) => data'[x] = data[x]
  <2>1. data \in [Cells -> Values \cup {None}]
    BY DEF RingInv, TypeOK
  <2>2. QED
    BY <1>0, <1>5, <1>6, <2>1
<1>8. TypeOK'
  BY <1>0, <1>1, <1>7 DEF RingInv, TypeOK, consumerVars
<1>9. Ends' /\ Writers' /\ Consumer'
  BY <1>0, <1>2, <1>3, <1>4 DEF RingInv, Ends, Writers, Consumer, consumerVars
<1>10. SequenceNumbers'
  BY <1>0, <1>3, <1>4 DEF RingInv, SequenceNumbers
<1>11. Counted'
  <2>1. \A w \in Values : w[1] \in Producers
    BY DEF Values
  <2>2. Settled' = Settled
    BY <1>0, <1>2, <2>1 DEF Settled
  <2>3. QED
    BY <1>0, <1>1, <1>4, <2>2 DEF RingInv, Counted
<1>12. Tryers'
  <2>1. \A q \in Producers : Trying(q) => pc'[q] = pc[q]
    BY <1>0, <1>1 DEF Trying
  <2>2. QED
    BY <1>0, <1>2, <1>4, <2>1 DEF RingInv, Tryers
<1>13. Contents'
  <2>1. \A q \in Producers : Value(q)' = Value(q)
    BY <1>0 DEF Value
  <2>2. ASSUME NEW q \in Producers, pc'[q] = "publish" PROVE data'[Cell(pos'[q])] = Value(q)'
    <3>1. CASE q = p
      BY <1>0, <1>7, <2>1, <3>1
    <3>2. CASE q # p
      <4>1. pc[q] = "publish" /\ Writing(q)
        BY <1>1, <2>2, <3>2 DEF Writing
      <4>2. data'[Cell(pos[q])] = data[Cell(pos[q])]
        BY <1>6, <1>7, <3>2, <4>1
      <4>3. QED
        BY <1>0, <2>1, <4>1, <4>2 DEF RingInv, Contents
    <3>3. QED
      BY <3>1, <3>2
  <2>3. ASSUME NEW v \in Popped .. Claimed - 1, ~WrittenAt(At(v))
        PROVE  data'[Cell(At(v))] \in Values
    <3>1. At(v) # pos[p]
      BY <1>0, <2>3 DEF WrittenAt
    <3>2. v \in Popped .. Popped + Size - 1
      BY Window, Constants
    <3>3. data'[Cell(At(v))] = data[Cell(At(v))]
      BY <1>6, <1>7, <3>1, <3>2
    <3>4. QED
      BY <2>3, <3>3 DEF RingInv, Contents
  <2>4. cpc' = "free" => got' = data'[Cell(dequeuePos')]
    <3>1. UNCHANGED <<cpc, got, dequeuePos>>
      BY <1>0 DEF consumerVars
    <3>2. QED
      BY <1>6, <1>7, <3>1 DEF RingInv, Contents
  <2>5. QED
    BY <1>3, <1>4, <2>2, <2>3, <2>4 DEF Contents
<1>14. QED
  BY <1>8, <1>9, <1>10, <1>11, <1>12, <1>13 DEF RingInv

\* The sequence number moves on: the consumer may read the cell.
LEMMA PublishStep ==
  ASSUME RingConstants, RingInv, NEW p \in Producers, Publish(p)
  PROVE  RingInv'
<1>0. /\ pc[p] = "publish" /\ Writing(p)
      /\ sequence' = [sequence EXCEPT ![Cell(pos[p])] = Add(pos[p], 1)]
      /\ UNCHANGED <<data, enqueuePos, dequeuePos, pos, pushes, consumerVars>>
  BY DEF Publish, Writing
<1>1. /\ pc' \in [Producers -> {"idle", "load", "cas", "reload", "write", "publish"}]
      /\ pc'[p] = "idle" /\ \A q \in Producers : q # p => pc'[q] = pc[q]
  BY ProducerTyped DEF RingInv, Publish
<1>2. /\ ~Writing(p)'
      /\ \A q \in Producers : q # p => (Writing(q)' <=> Writing(q))
      /\ \A q \in Producers : Trying(q)' <=> Trying(q)
  BY <1>0, <1>1 DEF Writing, Trying
<1>3. \A x : WrittenAt(x)' <=> WrittenAt(x) /\ x # pos[p]
  BY <1>0, <1>2 DEF WrittenAt, RingInv, Writers
<1>4. Popped' = Popped /\ Used' = Used /\ Claimed' = Claimed
  BY <1>0 DEF Popped, Used, Claimed, consumerVars
<1>5. /\ Popped \in Nat /\ Claimed \in Nat /\ Popped <= Claimed /\ Claimed <= Popped + Size
      /\ Size \in Nat
  BY Window, Constants
<1>6. PICK u \in Popped .. Claimed - 1 : pos[p] = At(u)
  BY <1>0, CellOwned
<1>7. u \in Nat /\ u + 1 \in Nat /\ Add(pos[p], 1) = At(u + 1) /\ At(u + 1) \in Pos
  <2>1. u \in Nat /\ u + 1 \in Nat
    BY <1>5
  <2>2. QED
    BY <1>6, <2>1, PositionSum
<1>8. /\ Cell(pos[p]) \in Cells
      /\ \A v \in Popped .. Popped + Size - 1 : At(v) # pos[p] => Cell(At(v)) # Cell(pos[p])
  BY <1>0, CellOwned
<1>9. /\ sequence' \in [Cells -> Pos] /\ sequence'[Cell(pos[p])] = At(u + 1)
      /\ \A x : x # Cell(pos[p]) => sequence'[x] = sequence[x]
  <2>1. sequence \in [Cells -> Pos]
    BY DEF RingInv, TypeOK
  <2>2. QED
    BY <1>0, <1>7, <1>8, <2>1
<1>10. TypeOK'
  BY <1>0, <1>1, <1>9 DEF RingInv, TypeOK, consumerVars
<1>11. Ends' /\ Writers' /\ Consumer'
  <2>1. Ends'
    BY <1>0, <1>4 DEF RingInv, Ends
  <2>2. Writers'
    BY <1>0, <1>2, <1>4 DEF RingInv, Writers
  <2>3. Consumer'
    BY <1>0, <1>3, <1>4 DEF RingInv, Consumer, consumerVars
  <2>4. QED
    BY <2>1, <2>2, <2>3
<1>12. Counted'
  <2>1. \A w \in Values : w[1] \in Producers
    BY DEF Values
  <2>2. Settled' = Settled
    BY <1>0, <1>2, <2>1 DEF Settled
  <2>3. QED
    BY <1>0, <1>1, <1>4, <2>2 DEF RingInv, Counted
<1>13. Tryers'
  <2>1. \A q \in Producers : Trying(q) => pc'[q] = pc[q]
    BY <1>0, <1>1 DEF Trying
  <2>2. QED
    BY <1>0, <1>2, <1>4, <2>1 DEF RingInv, Tryers
<1>14. SequenceNumbers'
  <2> SUFFICES ASSUME NEW v \in Popped .. Popped + Size - 1
               PROVE  sequence'[Cell(At(v))]
                        = At(IF v < Claimed /\ ~WrittenAt(At(v))' THEN v + 1 ELSE v)
    BY <1>4 DEF SequenceNumbers
  <2>1. sequence[Cell(At(v))] = At(IF v < Claimed /\ ~WrittenAt(At(v)) THEN v + 1 ELSE v)
    BY DEF RingInv, SequenceNumbers
  <2>2. CASE At(v) = pos[p]
    <3>1. v \in Popped .. Popped + Size /\ u \in Popped .. Popped + Size
      BY <1>5
    <3>2. v = u
      BY <1>6, <2>2, <3>1, WindowApart
    <3>3. v < Claimed /\ ~WrittenAt(At(v))'
      BY <1>3, <1>5, <2>2, <3>2
    <3>4. QED
      BY <1>9, <2>2, <3>2, <3>3
  <2>3. CASE At(v) # pos[p]
    BY <1>3, <1>8, <1>9, <2>1, <2>3
  <2>4. QED
    BY <2>2, <2>3
<1>15. Contents'
  <2>1. Value(p) \in Values
    <3>1. pushes[p] \in 1 .. MaxPushes
      BY <1>0 DEF RingInv, Counted, TypeOK, RingConstants
    <3>2. QED
      BY <3>1 DEF Value, Values
  <2>2. \A q \in Producers : Value(q)' = Value(q) /\ (pc'[q] = "publish" => pc[q] = "publish")
    BY <1>0, <1>1 DEF Value
  <2>3. data[Cell(pos[p])] \in Values
    BY <1>0, <2>1 DEF RingInv, Contents
  <2>4. \A v \in Popped .. Claimed - 1 : ~WrittenAt(At(v))' => data[Cell(At(v))] \in Values
    BY <1>3, <2>3 DEF RingInv, Contents
  <2>5. QED
    BY <1>0, <1>4, <2>2, <2>4 DEF RingInv, Contents, consumerVars
<1>16. QED
  BY <1>10, <1>11, <1>12, <1>13, <1>14, <1>15 DEF RingInv

\* Pop looks at the sequence number and reads the cell: only the consumer's variables change.
LEMMA ReadStep ==
  ASSUME RingConstants, RingInv, BeginPop \/ ReadData
  PROVE  RingInv'
<1>0. UNCHANGED <<sequence, data, enqueuePos, dequeuePos, pc, pos, pushes, popped>>
  BY DEF BeginPop, ReadData, producerVars
<1>1. /\ \A q \in Producers : (Writing(q)' <=> Writing(q)) /\ (Trying(q)' <=> Trying(q))
      /\ \A q \in Producers : Value(q)' = Value(q)
  BY <1>0 DEF Writing, Trying, Value
<1>2. Popped' = Popped /\ Used' = Used /\ Claimed' = Claimed
  BY <1>0 DEF Popped, Used, Claimed
<1>3. \A x : WrittenAt(x)' <=> WrittenAt(x)
  BY <1>0, <1>1 DEF WrittenAt
<1>4. /\ Popped \in Nat /\ Claimed \in Nat /\ Used \in Nat /\ Claimed = Popped + Used
      /\ Size \in Nat /\ Size >= 2 /\ 1 < PosMod \div 2 /\ PosMod \div 2 \in Nat
  BY Window, Constants
<1>5. Ends' /\ Writers' /\ SequenceNumbers' /\ Tryers'
  BY <1>0, <1>1, <1>2, <1>3 DEF RingInv, Ends, Writers, SequenceNumbers, Tryers
<1>6. Counted'
  <2>1. \A w \in Values : w[1] \in Producers
    BY DEF Values
  <2>2. Settled' = Settled
    BY <1>0, <1>1, <2>1 DEF Settled
  <2>3. QED
    BY <1>0, <1>2, <2>2 DEF RingInv, Counted
<1>7. CASE BeginPop
  <2>0. UNCHANGED got
    BY <1>7 DEF BeginPop
  <2>1. Popped \in Popped .. Popped + Size - 1 /\ dequeuePos = At(Popped)
    BY <1>4 DEF RingInv, Ends
  <2>2. PICK z \in {Popped, Popped + 1} :
          /\ sequence[Cell(dequeuePos)] = At(z)
          /\ z = Popped + 1 => Used > 0 /\ ~WrittenAt(dequeuePos)
    <3>1. sequence[Cell(At(Popped))]
            = At(IF Popped < Claimed /\ ~WrittenAt(At(Popped)) THEN Popped + 1 ELSE Popped)
      BY <2>1 DEF RingInv, SequenceNumbers
    <3>2. Popped < Claimed => Used > 0
      BY <1>4
    <3>3. QED
      BY <1>4, <2>1, <3>1, <3>2
  <2>3. z \in Nat /\ Popped + 1 \in Nat
        /\ z - (Popped + 1) < PosMod \div 2 /\ (Popped + 1) - z < PosMod \div 2
    BY <1>4
  <2>4. Add(dequeuePos, 1) = At(Popped + 1)
    BY <1>4, <2>1, PositionSum
  <2>5. Diff(sequence[Cell(dequeuePos)], Add(dequeuePos, 1)) = z - (Popped + 1)
    BY <2>2, <2>3, <2>4, PositionDifference
  <2>6. cpc' \in {"idle", "read"} /\ (cpc' = "read" => z = Popped + 1)
    BY <1>4, <1>7, <2>3, <2>5 DEF BeginPop
  <2>7. Consumer' /\ Contents' /\ TypeOK'
    <3>1. Consumer'
      BY <1>0, <1>2, <1>3, <2>2, <2>6 DEF Consumer
    <3>2. Contents'
      BY <1>0, <1>1, <1>2, <1>3, <2>6 DEF RingInv, Contents
    <3>3. TypeOK'
      BY <1>0, <2>0, <2>6 DEF RingInv, TypeOK
    <3>4. QED
      BY <3>1, <3>2, <3>3
  <2>8. QED
    BY <1>5, <1>6, <2>7 DEF RingInv
<1>8. CASE ReadData
  <2>1. cpc = "read" /\ cpc' = "free" /\ got' = data[Cell(dequeuePos)]
    BY <1>8 DEF ReadData
  <2>2. dequeuePos = At(Popped) /\ Cell(At(Popped)) \in Cells
    BY <1>4, PositionSum DEF RingInv, Ends
  <2>3. Consumer' /\ Contents' /\ TypeOK'
    <3>1. Consumer'
      BY <1>0, <1>2, <1>3, <2>1 DEF RingInv, Consumer
    <3>2. Contents'
      BY <1>0, <1>1, <1>2, <1>3, <2>1 DEF RingInv, Contents
    <3>3. TypeOK'
      BY <1>0, <2>1, <2>2 DEF RingInv, TypeOK
    <3>4. QED
      BY <3>1, <3>2, <3>3
  <2>4. QED
    BY <1>5, <1>6, <2>3 DEF RingInv
<1>9. QED
  BY <1>7, <1>8

\* Pop gives the cell back for the next round.
LEMMA FreeStep ==
  ASSUME RingConstants, RingInv, FreeCell
  PROVE  /\ RingInv' /\ Used > 0 /\ Used' = Used - 1 /\ Popped' = Popped + 1
         /\ popped' = Append(popped, data[Cell(At(Popped))])
         /\ data[Cell(At(Popped))] \in Values /\ ~WrittenAt(At(Popped))
<1>0. /\ cpc = "free" /\ cpc' = "idle" /\ got' = None
      /\ sequence' = [sequence EXCEPT ![Cell(dequeuePos)] = Add(dequeuePos, Size)]
      /\ dequeuePos' = Add(dequeuePos, 1) /\ popped' = Append(popped, got)
      /\ UNCHANGED <<data, enqueuePos, pc, pos, pushes>>
  BY DEF FreeCell, producerVars
<1>1. /\ \A q \in Producers : (Writing(q)' <=> Writing(q)) /\ (Trying(q)' <=> Trying(q))
      /\ \A q \in Producers : Value(q)' = Value(q)
  BY <1>0 DEF Writing, Trying, Value
<1>2. \A x : WrittenAt(x)' <=> WrittenAt(x)
  BY <1>0, <1>1 DEF WrittenAt
<1>3. /\ Popped \in Nat /\ Claimed \in Nat /\ Used \in Nat /\ Claimed = Popped + Used
      /\ Used <= Size /\ Size \in Nat /\ Size >= 2 /\ Claimed + Size < PosMod /\ PosMod \in Nat
  BY Window, Constants
<1>4. /\ dequeuePos = At(Popped) /\ enqueuePos = At(Claimed)
      /\ Used > 0 /\ ~WrittenAt(At(Popped)) /\ got = data[Cell(At(Popped))]
  BY <1>0 DEF RingInv, Ends, Consumer, Contents
<1>5. got \in Values
  <2>1. Popped \in Popped .. Claimed - 1
    BY <1>3, <1>4
  <2>2. QED
    BY <1>4, <2>1 DEF RingInv, Contents
<1>6. /\ dequeuePos' = At(Popped + 1) /\ Add(dequeuePos, Size) = At(Popped + Size)
      /\ At(Popped + 1) \in Pos /\ At(Popped + Size) \in Pos
      /\ Cell(At(Popped + Size)) = Cell(At(Popped)) /\ Cell(At(Popped)) \in Cells
  <2>1. Popped + 1 \in Nat /\ Popped + Size \in Nat
    BY <1>3
  <2>2. At(Popped + 1) \in Pos /\ At(Popped + Size) \in Pos
    BY <2>1, PositionSum
  <2>3. Add(At(Popped), 1) = At(Popped + 1) /\ Add(At(Popped), Size) = At(Popped + Size)
    BY <1>3, PositionSum
  <2>4. Cell(At(Popped + Size)) = Cell(At(Popped)) /\ Cell(At(Popped)) \in Cells
    BY <1>3, PositionSum
  <2>5. QED
    BY <1>0, <1>4, <2>2, <2>3, <2>4
<1>7. popped' \in Seq(Values) /\ Popped' = Popped + 1
  <2>1. popped \in Seq(Values)
    BY DEF RingInv, TypeOK
  <2>2. QED
    BY <1>0, <1>5, <2>1 DEF Popped
<1>8. Used' = Used - 1 /\ Claimed' = Claimed
  <2>1. Used' = Rem(enqueuePos' - dequeuePos', PosMod)
    BY DEF Used, Rem
  <2>2. Popped + 1 \in Nat /\ Popped + 1 <= Claimed /\ Claimed - (Popped + 1) < PosMod
    BY <1>3, <1>4
  <2>3. Rem(At(Claimed) - At(Popped + 1), PosMod) = Claimed - (Popped + 1)
    BY <1>3, <2>2, Distance
  <2>4. Used' = Used - 1
    BY <1>0, <1>3, <1>4, <1>6, <2>1, <2>3
  <2>5. Claimed' = Popped' + Used'
    BY DEF Claimed, Popped
  <2>6. QED
    BY <1>3, <1>7, <2>4, <2>5
<1>9. /\ sequence' \in [Cells -> Pos] /\ sequence'[Cell(At(Popped))] = At(Popped + Size)
      /\ \A x : x # Cell(At(Popped)) => sequence'[x] = sequence[x]
  <2>1. sequence \in [Cells -> Pos]
    BY DEF RingInv, TypeOK
  <2>2. QED
    BY <1>0, <1>4, <1>6, <2>1
<1>10. TypeOK'
  BY <1>0, <1>6, <1>7, <1>9 DEF RingInv, TypeOK
<1>11. Ends'
  BY <1>0, <1>3, <1>4, <1>6, <1>7, <1>8 DEF Ends
<1>12. Writers'
  <2>1. ASSUME NEW q \in Producers, Writing(q)
        PROVE  \E u \in Popped' .. Claimed' - 1 : pos'[q] = At(u)
    <3>1. PICK u \in Popped .. Claimed - 1 : pos[q] = At(u)
      BY <2>1 DEF RingInv, Writers
    <3>2. u # Popped
      BY <1>4, <2>1, <3>1 DEF WrittenAt
    <3>3. u \in Popped' .. Claimed' - 1
      BY <1>3, <1>7, <1>8, <3>2
    <3>4. QED
      BY <1>0, <3>1, <3>3
  <2>2. QED
    BY <1>0, <1>1, <2>1 DEF RingInv, Writers
<1>13. Counted'
  <2>1. \A w \in Values : w[1] \in Producers
    BY DEF Values
  <2>2. Settled' = Settled
    BY <1>0, <1>1, <2>1 DEF Settled
  <2>3. QED
    BY <1>0, <1>8, <2>2 DEF RingInv, Counted
<1>14. Tryers'
  <2>1. Used' < Size
    BY <1>3, <1>4, <1>8
  <2>2. QED
    BY <1>0, <1>1, <1>8, <2>1 DEF RingInv, Tryers
<1>15. SequenceNumbers'
  <2> SUFFICES ASSUME NEW v \in Popped + 1 .. Popped + Size
               PROVE  sequence'[Cell(At(v))]
                        = At(IF v < Claimed /\ ~WrittenAt(At(v)) THEN v + 1 ELSE v)
    <3>1. Popped' .. Popped' + Size - 1 = Popped + 1 .. Popped + Size
      BY <1>3, <1>7
    <3>2. QED
      BY <1>2, <1>8, <3>1 DEF SequenceNumbers
  <2>1. CASE v = Popped + Size
    <3>1. ~(v < Claimed)
      BY <1>3, <2>1
    <3>2. QED
      BY <1>6, <1>9, <2>1, <3>1
  <2>2. CASE v # Popped + Size
    <3>1. /\ v \in Popped .. Popped + Size - 1 /\ v \in Popped .. Popped + Size
          /\ v # Popped /\ v < Popped + Size /\ Popped < Popped + Size
          /\ Popped \in Popped .. Popped + Size
      BY <1>3, <2>2
    <3>2. Cell(At(v)) # Cell(At(Popped))
      BY <3>1, WindowApart
    <3>3. QED
      BY <1>9, <3>1, <3>2 DEF RingInv, SequenceNumbers
  <2>3. QED
    BY <2>1, <2>2
<1>16. Consumer'
  BY <1>0 DEF Consumer
<1>17. Contents'
  <2>1. \A v \in Popped' .. Claimed' - 1 : v \in Popped .. Claimed - 1
    BY <1>3, <1>7, <1>8
  <2>2. QED
    BY <1>0, <1>1, <1>2, <2>1 DEF RingInv, Contents
<1>18. RingInv'
  BY <1>10, <1>11, <1>12, <1>13, <1>14, <1>15, <1>16, <1>17 DEF RingInv
<1>19. QED
  BY <1>0, <1>4, <1>5, <1>7, <1>8, <1>18

\* The constructor's queue, after StartPos pushes and pops.
LEMMA RingInit ==
  ASSUME RingConstants, Init
  PROVE  RingInv /\ Used = 0 /\ popped = <<>>
<1>0. /\ PosMod \in Nat \ {0} /\ Size \in Nat \ {0} /\ Size >= 2
      /\ StartPos \in Nat /\ StartPos < PosMod /\ MaxPushes \in Nat
  BY Constants DEF RingConstants
<1>1. /\ enqueuePos = StartPos /\ dequeuePos = StartPos /\ popped = <<>> /\ got = None
      /\ pc = [p \in Producers |-> "idle"] /\ cpc = "idle"
  BY DEF Init
<1>2. At(0) = StartPos /\ At(0) \in Pos
  <2>1. StartPos \in 0 .. PosMod - 1 /\ 0 \in Int /\ 0 \in Nat
    BY <1>0
  <2>2. Rem(PosMod * 0 + StartPos, PosMod) = StartPos
    BY <1>0, <2>1, RemainderUnique, Zenon
  <2>3. PosMod * 0 + StartPos = StartPos + 0
    BY <1>0
  <2>4. At(0) = StartPos
    BY <2>2, <2>3 DEF At
  <2>5. QED
    BY <2>1, <2>4 DEF Pos
<1>3. Used = 0 /\ Popped = 0 /\ Claimed = 0
  <2>1. 0 \in Nat /\ 0 <= 0 /\ 0 - 0 < PosMod
    BY <1>0
  <2>2. Rem(At(0) - At(0), PosMod) = 0
    BY <2>1, Distance
  <2>3. Used = 0
    BY <1>1, <1>2, <2>2, Opened
  <2>4. Len(popped) = 0
    BY <1>1
  <2>5. QED
    BY <2>3, <2>4 DEF Popped, Claimed
<1>4. \A p \in Producers : pc[p] = "idle" /\ ~Writing(p) /\ ~Trying(p)
  BY <1>1 DEF Writing, Trying
<1>5. ASSUME NEW c \in Cells PROVE sequence[c] = At(Rem(c - StartPos, Size)) /\ sequence[c] \in Pos
  <2>1. sequence[c] = Add(StartPos, Rem(c - StartPos, Size))
    BY DEF Init, Rem
  <2>2. c - StartPos \in Int
    BY <1>0 DEF Cells
  <2>3. PICK d \in Nat : d = Rem(c - StartPos, Size)
    BY <1>0, <2>2, RemainderType
  <2>4. 0 + d = d /\ 0 \in Nat
    OBVIOUS
  <2>5. Add(StartPos, d) = At(d) /\ At(d) \in Pos
    BY <1>2, <2>4, PositionSum
  <2>6. QED
    BY <2>1, <2>3, <2>5
<1>6. TypeOK
  <2>1. sequence \in [Cells -> Pos]
    <3>1. sequence = [c \in Cells |-> sequence[c]]
      BY DEF Init
    <3>2. QED
      BY <1>5, <3>1
  <2>2. StartPos \in Pos
    BY <1>2
  <2>3. pushes \in [Producers -> 0 .. MaxPushes] /\ pos \in [Producers -> Pos]
    BY <1>0, <2>2 DEF Init
  <2>4. QED
    BY <1>1, <2>1, <2>2, <2>3 DEF Init, TypeOK
<1>7. Ends
  BY <1>0, <1>1, <1>2, <1>3 DEF Ends
<1>8. Counted
  <2>1. Settled \subseteq Values
    BY DEF Settled
  <2>2. Cardinality(Settled) \in Nat
    BY <2>1, Constants, FS_Subset, FS_CardinalityType
  <2>3. QED
    BY <1>3, <1>4, <2>2 DEF Counted
<1>9. SequenceNumbers
  <2> SUFFICES ASSUME NEW v \in 0 .. Size - 1 PROVE sequence[Cell(At(v))] = At(v)
    <3>1. Popped .. Popped + Size - 1 = 0 .. Size - 1 /\ \A v \in 0 .. Size - 1 : ~(v < Claimed)
      BY <1>0, <1>3
    <3>2. QED
      BY <3>1 DEF SequenceNumbers
  <2>0. v \in Nat /\ v \in Int /\ v < Size
    BY <1>0
  <2>1. Cell(At(v)) = Rem(StartPos + v, Size) /\ Cell(At(v)) \in Cells
    BY <2>0, PositionSum
  <2>2. PICK x \in Int, y \in Int : x = StartPos + v /\ y = -StartPos
    BY <1>0
  <2>3. Rem(Rem(x, Size) + y, Size) = Rem(x + y, Size)
    BY <1>0, RemainderOfSum
  <2>4. x + y = Size * 0 + v /\ 0 \in Int
    BY <1>0, <2>0, <2>2
  <2>5. Rem(Size * 0 + v, Size) = v
    BY <1>0, <2>4, RemainderUnique, Zenon
  <2>6. PICK c \in Int : c = Rem(x, Size)
    BY <1>0, RemainderType
  <2>7. c + y = c - StartPos
    BY <1>0, <2>2
  <2>8. Rem(c - StartPos, Size) = v
    BY <2>3, <2>4, <2>5, <2>6, <2>7
  <2>9. QED
    BY <1>5, <2>1, <2>2, <2>6, <2>8
<1>10. Writers /\ Tryers /\ Consumer
  BY <1>1, <1>4 DEF Writers, Tryers, Consumer
<1>11. Contents
  <2>1. \A v \in Popped .. Claimed - 1 : FALSE
    BY <1>3
  <2>2. QED
    BY <1>1, <1>4, <2>1 DEF Contents
<1>12. QED
  BY <1>1, <1>3, <1>6, <1>7, <1>8, <1>9, <1>10, <1>11 DEF RingInv

\* Every step keeps the invariant.
LEMMA RingNext ==
  ASSUME RingConstants, RingInv, [Next]_vars
  PROVE  RingInv'
<1>1. ASSUME NEW p \in Producers, PushStep(p) PROVE RingInv'
  BY <1>1, FreshPosition, LoadStep, ClaimStep, WriteStep, PublishStep DEF PushStep
<1>2. CASE PopStep
  BY <1>2, ReadStep, FreeStep DEF PopStep
<1>3. CASE UNCHANGED vars
  <2>1. UNCHANGED <<sequence, data, enqueuePos, dequeuePos, pc, pos, pushes, cpc, got, popped>>
    BY <1>3 DEF vars, producerVars, consumerVars
  <2>2. \A q \in Producers : (Writing(q)' <=> Writing(q)) /\ (Trying(q)' <=> Trying(q))
    BY <2>1 DEF Writing, Trying
  <2>3. /\ Ends' /\ Writers' /\ SequenceNumbers' /\ Consumer' /\ Contents'
        /\ Claimed' = Claimed /\ Used' = Used
    BY <2>1, <2>2, QueueKept DEF consumerVars
  <2>4. TypeOK' /\ Tryers'
    BY <2>1, <2>2, <2>3 DEF RingInv, TypeOK, Tryers
  <2>5. Counted'
    <3>1. \A w \in Values : w[1] \in Producers
      BY DEF Values
    <3>2. Settled' = Settled
      BY <2>1, <2>2, <3>1 DEF Settled
    <3>3. QED
      BY <2>1, <2>3, <3>2 DEF RingInv, Counted
  <2>6. QED
    BY <2>3, <2>4, <2>5 DEF RingInv
<1>4. QED
  BY <1>1, <1>2, <1>3 DEF Next

\* The invariant holds in every run of the ring (container.h, BoundedMpscQueue).
THEOREM RingInvariant == RingConstants => (Spec => []RingInv)
<1> SUFFICES ASSUME RingConstants PROVE Spec => []RingInv
  OBVIOUS
<1>1. Init => RingInv
  BY RingInit
<1>2. RingInv /\ [Next]_vars => RingInv'
  BY RingNext
<1>3. QED
  BY <1>1, <1>2, PTL DEF Spec

\* Cells are never shared: what RingInv is for.
LEMMA CellsApart ==
  ASSUME RingConstants, RingInv
  PROVE  NoCellRace
  BY CellOwned DEF NoCellRace, RingInv, Consumer

\* The plain data of a cell is touched by one thread at a time, and Pop never meets a cell
\* of a later round (container.h, Push and Pop of BoundedMpscQueue).
THEOREM NoDataRace == RingConstants => (Spec => []NoCellRace)
<1> SUFFICES ASSUME RingConstants PROVE Spec => []NoCellRace
  OBVIOUS
<1>1. RingInv => NoCellRace
  BY CellsApart
<1>2. Spec => []RingInv
  BY RingInvariant
<1>3. QED
  BY <1>1, <1>2, PTL

\* A step in which Push gives up finds every cell occupied.
LEMMA RejectStep ==
  ASSUME RingConstants, RingInv, [Next]_vars, NEW p \in Producers,
         pc[p] = "load", pc'[p] = "idle"
  PROVE  Used = Size
<1>1. ASSUME NEW q \in Producers, PushStep(q) PROVE Used = Size
  <2>1. CASE LoadSequence(q)
    <3>1. q = p
      BY <2>1 DEF LoadSequence, Goto, RingInv, TypeOK
    <3>2. QED
      BY <2>1, <3>1, LoadStep
  <2>2. CASE BeginPush(q) \/ Claim(q) \/ ClaimFails(q) \/ Reload(q) \/ WriteData(q) \/ Publish(q)
    <3>1. pc[q] # "load" /\ \E label : Goto(q, label)
      BY <2>2 DEF BeginPush, Claim, ClaimFails, Reload, WriteData, Publish
    <3>2. QED
      BY <3>1 DEF Goto, RingInv, TypeOK
  <2>3. QED
    BY <1>1, <2>1, <2>2 DEF PushStep
<1>2. CASE PopStep
  BY <1>2 DEF PopStep, BeginPop, ReadData, FreeCell, producerVars
<1>3. CASE UNCHANGED vars
  BY <1>3 DEF vars, producerVars
<1>4. QED
  BY <1>1, <1>2, <1>3 DEF Next

\* Push returns false only when every cell is occupied at that instant (container.h, the
\* branch diff < 0), however stale the position it compares with.
THEOREM FullWhenRejected == RingConstants => (Spec => RejectsOnlyWhenFull)
<1> SUFFICES ASSUME RingConstants PROVE Spec => RejectsOnlyWhenFull
  OBVIOUS
<1>1. RingInv /\ [Next]_vars
        => [\A p \in Producers : pc[p] = "load" /\ pc'[p] = "idle" => Used = Size]_vars
  BY RejectStep
<1>2. Spec => []RingInv
  BY RingInvariant
<1>3. QED
  BY <1>1, <1>2, PTL DEF Spec, RejectsOnlyWhenFull

(***************************************************************************)
(* The ring implements BoundedFifo: the refinement mapping of              *)
(* BoundedMpscQueue, step by step.                                         *)
(***************************************************************************)

\* A function on 1 .. n is a sequence of length n.
LEMMA FunctionIsSequence ==
  ASSUME NEW n \in Nat, NEW s, s = [i \in 1 .. n |-> s[i]], NEW S, \A i \in 1 .. n : s[i] \in S
  PROVE  s \in Seq(S) /\ Len(s) = n
<1>1. s \in [1 .. n -> S]
  OBVIOUS
<1>2. s \in Seq(S)
  BY <1>1, SeqDef
<1>3. Len(s) \in Nat /\ 1 .. Len(s) = 1 .. n
  BY <1>1, <1>2, LenProperties
<1>4. QED
  BY <1>2, <1>3

\* One element more at the end.
LEMMA SequenceGrows ==
  ASSUME NEW n \in Nat, NEW s, NEW t,
         s = [i \in 1 .. n |-> s[i]], t = [i \in 1 .. n + 1 |-> t[i]],
         \A i \in 1 .. n : t[i] = s[i]
  PROVE  Len(s) = n /\ t = Append(s, t[n + 1])
<1>1. PICK S : S = {t[i] : i \in 1 .. n + 1}
  OBVIOUS
<1>2. t \in Seq(S) /\ Len(t) = n + 1
  BY <1>1, FunctionIsSequence
<1>3. \A i \in 1 .. n : s[i] \in S
  BY <1>1
<1>4. s \in Seq(S) /\ Len(s) = n /\ t[n + 1] \in S
  BY <1>1, <1>3, FunctionIsSequence
<1>a. PICK x \in S : x = t[n + 1]
  BY <1>4
<1>b. PICK u : u = Append(s, x)
  OBVIOUS
<1>5. u \in Seq(S) /\ Len(u) = n + 1 /\ u[n + 1] = x /\ \A i \in 1 .. n : u[i] = s[i]
  BY <1>4, <1>b, AppendProperties
<1>6. ASSUME NEW i \in 1 .. n + 1 PROVE t[i] = u[i]
  <2>1. i = n + 1 \/ i \in 1 .. n
    OBVIOUS
  <2>2. QED
    BY <1>5, <1>a, <2>1
<1>7. t = u
  BY <1>2, <1>5, <1>6, SeqEqual
<1>8. QED
  BY <1>4, <1>7, <1>a, <1>b

\* The first element gone.
LEMMA SequenceShrinks ==
  ASSUME NEW n \in Nat, NEW S, NEW s \in [1 .. n + 1 -> S], NEW t \in [1 .. n -> S],
         \A i \in 1 .. n : t[i] = s[i + 1]
  PROVE  s # <<>> /\ t = Tail(s) /\ Head(s) = s[1]
<1>1. s \in Seq(S) /\ Len(s) = n + 1 /\ t \in Seq(S) /\ Len(t) = n
  BY FunctionIsSequence
<1>2. s # <<>> /\ Head(s) = s[1]
  BY <1>1
<1>3. PICK u : u = Tail(s)
  OBVIOUS
<1>4. u \in Seq(S) /\ Len(u) = n /\ \A i \in 1 .. n : u[i] = s[i + 1]
  BY <1>1, <1>2, <1>3, HeadTailProperties
<1>5. \A i \in 1 .. n : t[i] = u[i]
  BY <1>4
<1>6. t = u
  BY <1>1, <1>4, <1>5, SeqEqual
<1>7. QED
  BY <1>2, <1>3, <1>6

\* Publishing a place.
LEMMA RecordUpdate ==
  ASSUME NEW x, NEW p, NEW f, NEW t
  PROVE  [[val |-> x, by |-> p, ready |-> f] EXCEPT !.ready = t]
           = [val |-> x, by |-> p, ready |-> t]
  OBVIOUS

Places == [i \in 1 .. Used |-> Place(i)]
WritersAt(x) == {p \in Producers : Writing(p) /\ pos[p] = x}
Unwritten(v) == [val |-> v, by |-> v[1], ready |-> TRUE]
Unpublished(p) == [val |-> Value(p), by |-> p, ready |-> FALSE]

\* The place of a position, by the position's index.
LEMMA PlaceOf ==
  ASSUME RingConstants, RingInv, NEW i \in 1 .. Used
  PROVE  /\ Popped + (i - 1) \in Popped .. Claimed - 1
         /\ Add(dequeuePos, i - 1) = At(Popped + (i - 1))
         /\ \A p \in Producers :
              Writing(p) /\ pos[p] = At(Popped + (i - 1)) => Place(i) = Unpublished(p)
         /\ ~WrittenAt(At(Popped + (i - 1))) =>
              Place(i) = Unwritten(data[Cell(At(Popped + (i - 1)))])
<1>1. Popped \in Nat /\ Used \in Nat /\ Claimed = Popped + Used
  BY Window
<1>2. i - 1 \in Nat /\ Popped + (i - 1) \in Popped .. Claimed - 1
  BY <1>1
<1>3. Add(dequeuePos, i - 1) = At(Popped + (i - 1))
  BY <1>1, <1>2, PositionSum DEF RingInv, Ends
<1>4. PICK at : at = Add(dequeuePos, i - 1)
  OBVIOUS
<1>5. Place(i) = IF WritersAt(at) # {}
                   THEN Unpublished(CHOOSE p \in WritersAt(at) : TRUE)
                   ELSE Unwritten(data[Cell(at)])
  BY <1>4, Zenon DEF Place, WritersAt, Unpublished, Unwritten
<1>6. ASSUME NEW p \in Producers, Writing(p), pos[p] = at PROVE Place(i) = Unpublished(p)
  <2>1. WritersAt(at) = {p}
    BY <1>6 DEF WritersAt, RingInv, Writers
  <2>2. (CHOOSE q \in WritersAt(at) : TRUE) = p
    BY <2>1
  <2>3. QED
    BY <1>5, <2>1, <2>2
<1>7. ~WrittenAt(at) => Place(i) = Unwritten(data[Cell(at)])
  BY <1>5 DEF WrittenAt, WritersAt
<1>8. QED
  BY <1>2, <1>3, <1>4, <1>6, <1>7

\* The same in the state after a step.
LEMMA PlaceOfNext ==
  ASSUME RingConstants
  PROVE  RingInv' => \A i \in 1 .. Used' : \A x :
           x = At(Popped' + (i - 1)) =>
             /\ \A p \in Producers : Writing(p)' /\ pos'[p] = x => Place(i)' = Unpublished(p)'
             /\ ~WrittenAt(x)' => Place(i)' = Unwritten(data'[Cell(x)])
<1>1. RingInv => \A i \in 1 .. Used : \A x :
        x = At(Popped + (i - 1)) =>
          /\ \A p \in Producers : Writing(p) /\ pos[p] = x => Place(i) = Unpublished(p)
          /\ ~WrittenAt(x) => Place(i) = Unwritten(data[Cell(x)])
  BY PlaceOf
<1>2. (RingInv => \A i \in 1 .. Used : \A x :
         x = At(Popped + (i - 1)) =>
           /\ \A p \in Producers : Writing(p) /\ pos[p] = x => Place(i) = Unpublished(p)
           /\ ~WrittenAt(x) => Place(i) = Unwritten(data[Cell(x)]))'
  BY <1>1, PTL
<1>3. QED
  BY <1>2

\* Steps that change neither the ends nor what a place shows.
LEMMA PlacesKept ==
  ASSUME RingConstants, RingInv, RingInv', Popped' = Popped, Used' = Used, popped' = popped,
         \A q \in Producers :
           /\ Writing(q)' <=> Writing(q)
           /\ Writing(q) => pos'[q] = pos[q] /\ pushes'[q] = pushes[q],
         \A v \in Popped .. Claimed - 1 : ~WrittenAt(At(v)) => data'[Cell(At(v))] = data[Cell(At(v))]
  PROVE  Places' = Places /\ popped' = popped
<1>1. ASSUME NEW i \in 1 .. Used PROVE Place(i)' = Place(i)
  <2>1. PICK v \in Popped .. Claimed - 1 : v = Popped + (i - 1)
    BY PlaceOf
  <2>2. CASE WrittenAt(At(v))
    <3>1. PICK p \in Producers : Writing(p) /\ pos[p] = At(v)
      BY <2>2 DEF WrittenAt
    <3>2. Place(i) = Unpublished(p)
      BY <2>1, <3>1, PlaceOf
    <3>3. Place(i)' = Unpublished(p)'
      BY <2>1, <3>1, PlaceOfNext
    <3>4. Unpublished(p)' = Unpublished(p)
      BY <3>1 DEF Unpublished, Value
    <3>5. QED
      BY <3>2, <3>3, <3>4
  <2>3. CASE ~WrittenAt(At(v))
    <3>1. ~WrittenAt(At(v))'
      BY <2>3 DEF WrittenAt
    <3>2. Place(i) = Unwritten(data[Cell(At(v))])
      BY <2>1, <2>3, PlaceOf
    <3>3. Place(i)' = Unwritten(data'[Cell(At(v))])
      BY <2>1, <3>1, PlaceOfNext
    <3>4. QED
      BY <2>3, <3>2, <3>3
  <2>4. QED
    BY <2>2, <2>3
<1>2. QED
  BY <1>1 DEF Places

\* A push that begins, looks at its cell, comes back or writes is invisible.
LEMMA PushUnseen ==
  ASSUME RingConstants, RingInv, RingInv', NEW p \in Producers,
         BeginPush(p) \/ LoadSequence(p) \/ ClaimFails(p) \/ Reload(p) \/ WriteData(p)
  PROVE  Places' = Places /\ popped' = popped
<1>1. /\ UNCHANGED <<enqueuePos, dequeuePos, popped>>
      /\ \A q \in Producers :
           /\ Writing(q)' <=> Writing(q)
           /\ Writing(q) => pos'[q] = pos[q] /\ pushes'[q] = pushes[q]
  <2>1. TypeOK
    BY DEF RingInv
  <2>2. CASE WriteData(p)
    BY <2>1, <2>2 DEF TypeOK, WriteData, Goto, Writing, consumerVars
  <2>3. CASE LoadSequence(p)
    BY <2>1, <2>3 DEF TypeOK, LoadSequence, Goto, Writing, consumerVars
  <2>4. CASE BeginPush(p) \/ ClaimFails(p) \/ Reload(p)
    BY <2>1, <2>4 DEF TypeOK, BeginPush, ClaimFails, Reload, Goto, Writing, consumerVars
  <2>5. QED
    BY <2>2, <2>3, <2>4
<1>2. Popped' = Popped /\ Used' = Used
  BY <1>1 DEF Popped, Used
<1>3. ASSUME NEW v \in Popped .. Claimed - 1, ~WrittenAt(At(v))
      PROVE  data'[Cell(At(v))] = data[Cell(At(v))]
  <2>1. CASE WriteData(p)
    <3>1. Writing(p) /\ data' = [data EXCEPT ![Cell(pos[p])] = Value(p)]
      BY <2>1 DEF WriteData, Writing
    <3>2. At(v) # pos[p] /\ v \in Popped .. Popped + Size - 1
      BY <1>3, <3>1, Window, Constants DEF WrittenAt
    <3>3. Cell(At(v)) # Cell(pos[p])
      BY <3>1, <3>2, CellOwned
    <3>a. v \in Nat
      BY <3>2, Window
    <3>4. data \in [Cells -> Values \cup {None}] /\ Cell(At(v)) \in Cells
      BY <3>a, PositionSum DEF RingInv, TypeOK
    <3>5. QED
      BY <3>1, <3>3, <3>4
  <2>2. CASE BeginPush(p) \/ LoadSequence(p) \/ ClaimFails(p) \/ Reload(p)
    BY <2>2 DEF BeginPush, LoadSequence, ClaimFails, Reload
  <2>3. QED
    BY <2>1, <2>2
<1>4. QED
  BY <1>1, <1>2, <1>3, PlacesKept

\* So are the steps of Pop before the last.
LEMMA PopUnseen ==
  ASSUME RingConstants, RingInv, RingInv', BeginPop \/ ReadData
  PROVE  Places' = Places /\ popped' = popped
<1>1. UNCHANGED <<data, enqueuePos, dequeuePos, pc, pos, pushes, popped>>
  BY DEF BeginPop, ReadData, producerVars
<1>2. Popped' = Popped /\ Used' = Used
  BY <1>1 DEF Popped, Used
<1>3. \A q \in Producers : Writing(q)' <=> Writing(q)
  BY <1>1 DEF Writing
<1>4. QED
  BY <1>1, <1>2, <1>3, PlacesKept

\* The compare-exchange takes the next place.
LEMMA ClaimIsClaim ==
  ASSUME RingConstants, RingInv, NEW p \in Producers, Claim(p)
  PROVE  Fifo!Claim(p, Value(p)) /\ Value(p) \in Values
<1>0. /\ pc[p] = "cas" /\ Goto(p, "write") /\ UNCHANGED <<data, dequeuePos, pos, pushes, popped>>
  BY DEF Claim, consumerVars
<1>1. RingInv' /\ Used < Size /\ Used' = Used + 1 /\ pos[p] = At(Claimed)
  BY ClaimStep
<1>2. /\ Popped \in Nat /\ Claimed = Popped + Used /\ Used \in Nat /\ Popped' = Popped
      /\ Size \in Nat /\ Claimed <= Popped + Size
  BY <1>0, Window, Constants DEF Popped
<1>3. /\ ~Writing(p) /\ Writing(p)'
      /\ \A q \in Producers : q # p => (Writing(q)' <=> Writing(q))
      /\ \A q \in Producers : Unpublished(q)' = Unpublished(q)
  BY <1>0 DEF Writing, Goto, RingInv, TypeOK, Unpublished, Value
<1>4. Value(p) \in Values
  <2>1. pushes[p] \in 1 .. MaxPushes
    BY <1>0 DEF RingInv, Counted, TypeOK, RingConstants
  <2>2. QED
    BY <2>1 DEF Value, Values
<1>5. ASSUME NEW i \in 1 .. Used PROVE Place(i)' = Place(i) /\ (Place(i).by = p => Place(i).ready)
  <2>1. PICK v \in Popped .. Claimed - 1 : v = Popped + (i - 1)
    BY PlaceOf
  <2>2. i \in 1 .. Used'
    BY <1>1, <1>2
  <2>3. At(v) # pos[p]
    <3>1. /\ v \in Popped .. Popped + Size /\ Claimed \in Popped .. Popped + Size /\ v # Claimed
      BY <1>2
    <3>2. QED
      BY <1>1, <3>1, WindowApart
  <2>4. CASE WrittenAt(At(v))
    <3>1. PICK q \in Producers : Writing(q) /\ pos[q] = At(v)
      BY <2>4 DEF WrittenAt
    <3>2. Place(i) = Unpublished(q) /\ q # p
      BY <1>3, <2>1, <3>1, PlaceOf
    <3>3. Place(i)' = Unpublished(q)'
      BY <1>0, <1>1, <1>2, <1>3, <2>1, <2>2, <3>1, <3>2, PlaceOfNext
    <3>4. Place(i).by = q
      BY <3>2 DEF Unpublished
    <3>5. QED
      BY <1>3, <3>2, <3>3, <3>4
  <2>5. CASE ~WrittenAt(At(v))
    <3>1. ~WrittenAt(At(v))'
      BY <1>0, <1>3, <2>3, <2>5 DEF WrittenAt
    <3>2. Place(i) = Unwritten(data[Cell(At(v))])
      BY <2>1, <2>5, PlaceOf
    <3>3. Place(i)' = Unwritten(data'[Cell(At(v))])
      BY <1>1, <1>2, <2>1, <2>2, <3>1, PlaceOfNext
    <3>4. Place(i).ready
      BY <3>2 DEF Unwritten
    <3>5. QED
      BY <1>0, <3>2, <3>3, <3>4
  <2>6. QED
    BY <2>4, <2>5
<1>a. PICK n \in Nat : n = Used + 1
  BY <1>2
<1>6. Place(n)' = Unpublished(p)
  <2>1. n \in 1 .. Used' /\ Popped' + (n - 1) = Claimed
    BY <1>1, <1>2, <1>a
  <2>2. Place(n)' = Unpublished(p)'
    BY <1>0, <1>1, <1>3, <2>1, PlaceOfNext
  <2>3. QED
    BY <1>3, <2>2
<1>7. Len(Places) = Used /\ Places' = Append(Places, Unpublished(p))
  <2>1. /\ Places = [i \in 1 .. Used |-> Places[i]] /\ \A i \in 1 .. Used : Places[i] = Place(i)
        /\ Places' = [i \in 1 .. Used + 1 |-> Places'[i]]
        /\ \A i \in 1 .. Used + 1 : Places'[i] = Place(i)'
    BY <1>1 DEF Places
  <2>2. (\A i \in 1 .. Used : Places'[i] = Places[i]) /\ Places'[Used + 1] = Unpublished(p)
    BY <1>2, <1>5, <1>6, <1>a, <2>1
  <2>3. Len(Places) = Used /\ Places' = Append(Places, Places'[Used + 1])
    BY <1>2, <2>1, <2>2, SequenceGrows
  <2>4. QED
    BY <2>2, <2>3
<1>8. \A i \in 1 .. Len(Places) : Places[i].by = p => Places[i].ready
  BY <1>5, <1>7 DEF Places
<1>9. QED
  BY <1>0, <1>1, <1>4, <1>7, <1>8 DEF Fifo!Claim, Places, Unpublished

\* The store to the sequence number publishes the place.
LEMMA PublishIsPublish ==
  ASSUME RingConstants, RingInv, NEW p \in Producers, Publish(p)
  PROVE  Fifo!Publish(p)
<1>0. /\ pc[p] = "publish" /\ Writing(p) /\ Goto(p, "idle")
      /\ UNCHANGED <<data, enqueuePos, dequeuePos, pos, pushes, popped>>
  BY DEF Publish, Writing, consumerVars
<1>1. RingInv' /\ Popped' = Popped /\ Used' = Used
  BY <1>0, PublishStep DEF Popped, Used
<1>2. /\ Popped \in Nat /\ Claimed = Popped + Used /\ Used \in Nat
      /\ Size \in Nat /\ Claimed <= Popped + Size
  BY Window, Constants
<1>3. /\ ~Writing(p)' /\ \A q \in Producers : q # p => (Writing(q)' <=> Writing(q))
      /\ \A q \in Producers : Unpublished(q)' = Unpublished(q)
  BY <1>0 DEF Writing, Goto, RingInv, TypeOK, Unpublished, Value
<1>4. PICK u \in Popped .. Claimed - 1 : pos[p] = At(u)
  BY <1>0, CellOwned
<1>5. PICK k \in 1 .. Used : u = Popped + (k - 1)
  <2>1. (u - Popped) + 1 \in 1 .. Used /\ u = Popped + (((u - Popped) + 1) - 1)
    BY <1>2
  <2>2. QED
    BY <2>1
<1>6. Place(k) = Unpublished(p)
  BY <1>0, <1>4, <1>5, PlaceOf
<1>7. Place(k)' = [Unpublished(p) EXCEPT !.ready = TRUE]
  <2>1. ~WrittenAt(At(u))'
    BY <1>0, <1>3, <1>4 DEF WrittenAt, RingInv, Writers
  <2>2. data[Cell(At(u))] = Value(p)
    BY <1>0, <1>4 DEF RingInv, Contents
  <2>3. Place(k)' = Unwritten(Value(p))
    BY <1>0, <1>1, <1>5, <2>1, <2>2, PlaceOfNext
  <2>4. Unwritten(Value(p)) = [Unpublished(p) EXCEPT !.ready = TRUE]
    <3>0. Value(p)[1] = p
      BY DEF Value
    <3>1. PICK x : x = Value(p) /\ x[1] = p
      BY <3>0
    <3>2. Unwritten(Value(p)) = [val |-> x, by |-> p, ready |-> TRUE]
      BY <3>1 DEF Unwritten
    <3>3. Unpublished(p) = [val |-> x, by |-> p, ready |-> FALSE]
      BY <3>1 DEF Unpublished
    <3>4. [[val |-> x, by |-> p, ready |-> FALSE] EXCEPT !.ready = TRUE]
            = [val |-> x, by |-> p, ready |-> TRUE]
      BY RecordUpdate, Zenon
    <3>5. QED
      BY <3>2, <3>3, <3>4
  <2>5. QED
    BY <2>3, <2>4
<1>8. ASSUME NEW i \in 1 .. Used, i # k PROVE Place(i)' = Place(i)
  <2>1. PICK v \in Popped .. Claimed - 1 : v = Popped + (i - 1)
    BY PlaceOf
  <2>2. At(v) # pos[p]
    <3>1. v \in Popped .. Popped + Size /\ u \in Popped .. Popped + Size /\ v # u
      BY <1>2, <1>5, <1>8, <2>1
    <3>2. QED
      BY <1>4, <3>1, WindowApart
  <2>3. CASE WrittenAt(At(v))
    <3>1. PICK q \in Producers : Writing(q) /\ pos[q] = At(v)
      BY <2>3 DEF WrittenAt
    <3>2. Place(i) = Unpublished(q) /\ q # p
      BY <2>1, <2>2, <3>1, PlaceOf
    <3>3. Place(i)' = Unpublished(q)'
      BY <1>0, <1>1, <1>3, <2>1, <3>1, <3>2, PlaceOfNext
    <3>4. QED
      BY <1>3, <3>2, <3>3
  <2>4. CASE ~WrittenAt(At(v))
    <3>1. ~WrittenAt(At(v))'
      BY <1>0, <1>3, <2>4 DEF WrittenAt
    <3>2. Place(i) = Unwritten(data[Cell(At(v))])
      BY <2>1, <2>4, PlaceOf
    <3>3. Place(i)' = Unwritten(data'[Cell(At(v))])
      BY <1>1, <2>1, <3>1, PlaceOfNext
    <3>4. QED
      BY <1>0, <3>2, <3>3
  <2>5. QED
    BY <2>3, <2>4
<1>9. Len(Places) = Used
  <2>1. PICK s : s = Places
    OBVIOUS
  <2>2. PICK S : S = {s[i] : i \in 1 .. Used}
    OBVIOUS
  <2>3. s = [i \in 1 .. Used |-> s[i]] /\ \A i \in 1 .. Used : s[i] \in S
    BY <2>1, <2>2 DEF Places
  <2>4. QED
    BY <1>2, <2>1, <2>3, FunctionIsSequence
<1>10. Places' = [Places EXCEPT ![k] = [Places[k] EXCEPT !.ready = TRUE]]
  <2>1. Places'= [i \in 1 .. Used |-> Place(i)'] /\ Places = [i \in 1 .. Used |-> Place(i)]
    BY <1>1 DEF Places
  <2>2. QED
    BY <1>6, <1>7, <1>8, <2>1
<1>11. Places[k].by = p /\ ~Places[k].ready
  BY <1>6 DEF Places, Unpublished
<1>12. QED
  BY <1>0, <1>9, <1>10, <1>11 DEF Fifo!Publish, Places

\* The last step of Pop takes the oldest message.
LEMMA FreeIsTake ==
  ASSUME RingConstants, RingInv, FreeCell
  PROVE  Fifo!Take
<1>0. UNCHANGED <<data, enqueuePos, pc, pos, pushes>>
  BY DEF FreeCell, producerVars
<1>1. /\ RingInv' /\ Used > 0 /\ Used' = Used - 1 /\ Popped' = Popped + 1
      /\ popped' = Append(popped, data[Cell(At(Popped))])
      /\ ~WrittenAt(At(Popped))
  BY FreeStep
<1>2. Popped \in Nat /\ Claimed = Popped + Used /\ Used \in Nat
  BY Window
<1>3. \A q \in Producers : (Writing(q)' <=> Writing(q)) /\ Unpublished(q)' = Unpublished(q)
  BY <1>0 DEF Writing, Unpublished, Value
<1>4. ASSUME NEW i \in 1 .. Used' PROVE Place(i)' = Place(i + 1)
  <2>1. PICK j \in 1 .. Used : j = i + 1
    BY <1>1, <1>2
  <2>2. PICK v \in Popped .. Claimed - 1 : v = Popped + (j - 1)
    BY PlaceOf
  <2>3. v = Popped' + (i - 1)
    BY <1>1, <1>2, <2>1, <2>2
  <2>4. CASE WrittenAt(At(v))
    <3>1. PICK q \in Producers : Writing(q) /\ pos[q] = At(v)
      BY <2>4 DEF WrittenAt
    <3>2. Place(j) = Unpublished(q)
      BY <2>2, <3>1, PlaceOf
    <3>3. Place(i)' = Unpublished(q)'
      BY <1>0, <1>1, <1>3, <2>3, <3>1, PlaceOfNext
    <3>4. QED
      BY <1>3, <2>1, <3>2, <3>3
  <2>5. CASE ~WrittenAt(At(v))
    <3>1. ~WrittenAt(At(v))'
      BY <1>0, <1>3, <2>5 DEF WrittenAt
    <3>2. Place(j) = Unwritten(data[Cell(At(v))])
      BY <2>2, <2>5, PlaceOf
    <3>3. Place(i)' = Unwritten(data'[Cell(At(v))])
      BY <1>1, <2>3, <3>1, PlaceOfNext
    <3>4. QED
      BY <1>0, <2>1, <3>2, <3>3
  <2>6. QED
    BY <2>4, <2>5
<1>5. Place(1) = Unwritten(data[Cell(At(Popped))])
  <2>1. 1 \in 1 .. Used /\ Popped + (1 - 1) = Popped
    BY <1>1, <1>2
  <2>2. QED
    BY <1>1, <2>1, PlaceOf
<1>6. Places # <<>> /\ Places' = Tail(Places) /\ Head(Places) = Place(1)
  <2>1. PICK n \in Nat : n = Used' /\ n + 1 = Used
    BY <1>1, <1>2
  <2>2. /\ Places = [i \in 1 .. n + 1 |-> Places[i]] /\ \A i \in 1 .. n + 1 : Places[i] = Place(i)
        /\ Places' = [i \in 1 .. n |-> Places'[i]] /\ \A i \in 1 .. n : Places'[i] = Place(i)'
    BY <2>1 DEF Places
  <2>3. \A i \in 1 .. n : Places'[i] = Places[i + 1]
    <3>1. \A i \in 1 .. n : i + 1 \in 1 .. n + 1
      OBVIOUS
    <3>2. QED
      BY <1>4, <2>1, <2>2, <3>1
  <2>4. Places # <<>> /\ Places' = Tail(Places) /\ Head(Places) = Places[1]
    <3>1. PICK s, t : s = Places /\ t = Places'
      OBVIOUS
    <3>a. PICK S : S = {s[i] : i \in 1 .. n + 1}
      OBVIOUS
    <3>b. \A i \in 1 .. n : t[i] = s[i + 1] /\ i + 1 \in 1 .. n + 1
      BY <2>3, <3>1
    <3>2. s \in [1 .. n + 1 -> S] /\ t \in [1 .. n -> S]
      BY <2>2, <3>1, <3>a, <3>b
    <3>3. s # <<>> /\ t = Tail(s) /\ Head(s) = s[1]
      BY <3>2, <3>b, SequenceShrinks
    <3>4. QED
      BY <3>1, <3>3
  <2>5. QED
    BY <2>2, <2>4
<1>7. Head(Places).ready /\ Head(Places).val = data[Cell(At(Popped))]
  BY <1>5, <1>6 DEF Unwritten
<1>8. QED
  BY <1>1, <1>6, <1>7 DEF Fifo!Take, Places

\* Every step of the ring is a step of the bounded queue, or invisible.
LEMMA RingRefines ==
  ASSUME RingConstants, RingInv, [Next]_vars
  PROVE  [Fifo!Next]_(Fifo!fifoVars)
<1>0. RingInv'
  BY RingNext
<1>1. ASSUME Places' = Places, popped' = popped PROVE UNCHANGED Fifo!fifoVars
  BY <1>1 DEF Fifo!fifoVars, Places
<1>2. ASSUME NEW p \in Producers, PushStep(p) PROVE [Fifo!Next]_(Fifo!fifoVars)
  <2>1. CASE BeginPush(p) \/ LoadSequence(p) \/ ClaimFails(p) \/ Reload(p) \/ WriteData(p)
    BY <1>0, <1>1, <2>1, PushUnseen
  <2>2. CASE Claim(p)
    BY <2>2, ClaimIsClaim DEF Fifo!Next
  <2>3. CASE Publish(p)
    BY <2>3, PublishIsPublish DEF Fifo!Next
  <2>4. QED
    BY <1>2, <2>1, <2>2, <2>3 DEF PushStep
<1>3. CASE PopStep
  <2>1. CASE BeginPop \/ ReadData
    BY <1>0, <1>1, <2>1, PopUnseen
  <2>2. CASE FreeCell
    BY <2>2, FreeIsTake DEF Fifo!Next
  <2>3. QED
    BY <1>3, <2>1, <2>2 DEF PopStep
<1>4. CASE UNCHANGED vars
  <2>1. UNCHANGED <<data, enqueuePos, dequeuePos, pc, pos, pushes, popped>>
    BY <1>4 DEF vars, producerVars, consumerVars
  <2>2. Popped' = Popped /\ Used' = Used /\ \A q \in Producers : Writing(q)' <=> Writing(q)
    BY <2>1 DEF Popped, Used, Writing
  <2>3. Places' = Places /\ popped' = popped
    BY <1>0, <2>1, <2>2, PlacesKept
  <2>4. QED
    BY <1>1, <2>3
<1>5. QED
  BY <1>2, <1>3, <1>4 DEF Next

\* The lock-free ring is a bounded first-in first-out queue: no message of Push is lost,
\* duplicated or overtaken on its way to Pop (container.h, BoundedMpscQueue).
THEOREM RingIsFifo == RingConstants => (Spec => ImplementsFifo)
<1> SUFFICES ASSUME RingConstants PROVE Spec => ImplementsFifo
  OBVIOUS
<1>1. Init => Fifo!Init
  <2> SUFFICES ASSUME Init PROVE Fifo!Init
    OBVIOUS
  <2>1. Used = 0 /\ popped = <<>>
    BY RingInit
  <2>2. Places = <<>>
    BY <2>1 DEF Places
  <2>3. QED
    BY <2>1, <2>2 DEF Fifo!Init, Places
<1>2. RingInv /\ [Next]_vars => [Fifo!Next]_(Fifo!fifoVars)
  BY RingRefines
<1>3. Spec => []RingInv
  BY RingInvariant
<1>4. QED
  BY <1>1, <1>2, <1>3, PTL DEF Spec, ImplementsFifo, Fifo!Spec
=============================================================================
