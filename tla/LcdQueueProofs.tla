--------------------------- MODULE LcdQueueProofs ---------------------------
(***************************************************************************)
(* Proofs about the display queue (LcdQueue), for every size of the ring   *)
(* and of a line, and every delay, clock width and rounding of the clock:  *)
(* the ring implements LcdFifo, the display gets its delays, and every     *)
(* character arrives on its line.                                          *)
(***************************************************************************)
EXTENDS LcdQueue, TLAPS

\* What the operations on sequences do: the empty sequence.
LEMMA EmptySeq ==
  ASSUME NEW S
  PROVE  <<>> \in Seq(S) /\ Len(<<>>) = 0 /\ \A s \in Seq(S) : s # <<>> => Len(s) \in Nat \ {0}
OBVIOUS

\* The elements of a sequence.
LEMMA LenProperties ==
  ASSUME NEW S, NEW s \in Seq(S)
  PROVE  /\ Len(s) \in Nat /\ s \in [1..Len(s) -> S] /\ DOMAIN s = 1..Len(s)
         /\ \A i \in 1..Len(s) : s[i] \in S
OBVIOUS

\* The first element and the others.
LEMMA HeadTailProperties ==
  ASSUME NEW S, NEW s \in Seq(S), s # <<>>
  PROVE  /\ Head(s) \in S /\ Tail(s) \in Seq(S) /\ Len(Tail(s)) = Len(s) - 1
         /\ \A i \in 1..Len(Tail(s)) : Tail(s)[i] = s[i + 1]
OBVIOUS

\* One element more.
LEMMA AppendProperties ==
  ASSUME NEW S, NEW s \in Seq(S), NEW e \in S
  PROVE  /\ Append(s, e) \in Seq(S) /\ Append(s, e) # <<>> /\ Len(Append(s, e)) = Len(s) + 1
         /\ Append(s, e)[Len(s) + 1] = e
         /\ \A i \in 1..Len(s) : Append(s, e)[i] = s[i]
OBVIOUS

\* Two sequences, one behind the other.
LEMMA ConcatProperties ==
  ASSUME NEW S, NEW s \in Seq(S), NEW t \in Seq(S)
  PROVE  /\ s \o t \in Seq(S) /\ Len(s \o t) = Len(s) + Len(t)
         /\ \A i \in 1..Len(s) + Len(t) : (s \o t)[i] = IF i <= Len(s) THEN s[i] ELSE t[i - Len(s)]
OBVIOUS

\* What the quotient of a division says about the number.
LEMMA QuotientBounds ==
  ASSUME NEW x \in Nat, NEW g \in Nat, g > 0
  PROVE  x \div g \in Nat /\ g * (x \div g) <= x /\ x < g * (x \div g) + g
BY SMT

(****************************************************************************)
(* The positions in the ring.                                               *)

\* Positions stand at the start of an operation; rollOver tells a full ring
\* from an empty one.
RingInv ==
  /\ inPos \in 0..ringBufSize - 1 /\ inPos % 4 = 0
  /\ outPos \in 0..ringBufSize - 1 /\ outPos % 4 = 0
  /\ rollOver \in BOOLEAN
  /\ rollOver => inPos <= outPos
  /\ ~rollOver => outPos <= inPos

\* The ring holds whole operations.
LEMMA RingSize == ringBufSize \in Nat /\ ringBufSize % 4 = 0 /\ ringBufSize >= 16
BY SlotsAssumption DEF ringBufSize

\* No operation straddles the end of the ring.
LEMMA Room ==
  ASSUME NEW pos \in 0..ringBufSize - 1, pos % 4 = 0
  PROVE  pos + 4 <= ringBufSize
BY RingSize

\* An operation is dropped exactly when the ring is full.
LEMMA DropsWhenFull ==
  ASSUME RingInv
  PROVE  NoSpace <=> rollOver /\ inPos = outPos
<1>1. CASE rollOver
  BY <1>1, RingSize DEF RingInv, NoSpace
<1>2. CASE ~rollOver
  <2>1. inPos + 4 <= ringBufSize
    BY Room DEF RingInv
  <2>2. CASE inPos + 4 = ringBufSize
    <3>1. (inPos + 4) % ringBufSize = 0
      BY <2>2, RingSize
    <3>2. QED
      BY <1>2, <3>1 DEF NoSpace, RingInv
  <2>3. CASE inPos + 4 < ringBufSize
    <3>1. (inPos + 4) % ringBufSize = inPos + 4
      BY <2>3, RingSize DEF RingInv
    <3>2. QED
      BY <1>2, <3>1 DEF NoSpace, RingInv
  <2>4. QED
    BY <2>1, <2>2, <2>3, RingSize DEF RingInv
<1>3. QED
  BY <1>1, <1>2

\* How many operations the positions say there are.
LEMMA CountFacts ==
  ASSUME RingInv
  PROVE  /\ Count \in 0..Slots
         /\ 4 * Count = inPos - outPos + IF rollOver THEN ringBufSize ELSE 0
         /\ Count = Slots <=> rollOver /\ inPos = outPos
         /\ Count = 0 <=> ~Holds
BY SlotsAssumption DEF RingInv, Count, ringBufSize, Holds

\* putInBuf keeps the positions in order.
LEMMA PutKeepsRing ==
  ASSUME RingInv, NEW op, putInBuf(op)
  PROVE  /\ RingInv'
         /\ NoSpace => Count' = Count /\ inPos' = inPos
         /\ ~NoSpace => Count' = Count + 1
         /\ outPos' = outPos
<1>1. CASE NoSpace /\ UNCHANGED ringVars
  BY <1>1 DEF RingInv, ringVars, Count
<1>2. CASE ~NoSpace
  <2>1. /\ inPos' = After(inPos, 4)
        /\ rollOver' = (rollOver \/ inPos + 4 >= ringBufSize)
        /\ outPos' = outPos
    BY <1>2 DEF putInBuf
  <2>2. ~(rollOver /\ inPos = outPos)
    BY <1>2, DropsWhenFull
  <2>3. inPos + 4 <= ringBufSize
    BY Room DEF RingInv
  <2>4. CASE inPos + 4 = ringBufSize
    <3>a. inPos' = 0 /\ inPos + 4 >= ringBufSize
      BY <2>1, <2>4, RingSize DEF RingInv, After
    <3>1. inPos' = 0 /\ rollOver' = TRUE
      BY Zenon, <2>1, <3>a
    <3>2. rollOver = FALSE
      BY <2>2, <2>4, RingSize DEF RingInv
    <3>3. QED
      BY <1>2, <2>1, <2>4, <3>1, <3>2, SlotsAssumption DEF RingInv, Count, ringBufSize
  <2>5. CASE inPos + 4 < ringBufSize
    <3>1. inPos' = inPos + 4
      BY <2>1, <2>5, RingSize DEF RingInv, After
    <3>2. ~(inPos + 4 >= ringBufSize)
      BY <2>5, RingSize DEF RingInv
    <3>3. rollOver' = rollOver
      BY <2>1, <3>2 DEF RingInv
    <3>4. CASE rollOver = TRUE
      <4>1. inPos + 4 <= outPos
        BY <2>2, <3>4, RingSize DEF RingInv
      <4>a. rollOver' = TRUE
        BY <3>3, <3>4
      <4>2. RingInv'
        BY <2>1, <3>1, <4>a, <3>4, <4>1, RingSize, SlotsAssumption DEF RingInv, ringBufSize
      <4>3. Count' = Count + 1
        BY <2>1, <3>1, <4>a, <3>4, SlotsAssumption DEF RingInv, Count, ringBufSize
      <4>4. QED
        BY <1>2, <2>1, <4>2, <4>3
    <3>5. CASE rollOver = FALSE
      BY <1>2, <2>1, <2>2, <2>5, <3>1, <3>3, <3>5, SlotsAssumption DEF RingInv, Count, ringBufSize
    <3>6. QED
      BY Zenon, <3>4, <3>5 DEF RingInv
  <2>6. QED
    BY <2>3, <2>4, <2>5, RingSize DEF RingInv
<1>3. QED
  BY <1>1, <1>2 DEF putInBuf

\* So does getFromBuf.
LEMMA GetKeepsRing ==
  ASSUME RingInv, Holds, getFromBuf
  PROVE  RingInv' /\ Count' = Count - 1
<1>1. /\ outPos' = After(outPos, 4)
      /\ rollOver' = (rollOver /\ outPos + 4 < ringBufSize)
      /\ inPos' = inPos
  BY DEF getFromBuf
<1>2. outPos + 4 <= ringBufSize
  BY Room DEF RingInv
<1>3. CASE outPos + 4 = ringBufSize
  <2>1. outPos' = 0
    BY <1>1, <1>3, RingSize DEF RingInv, After
  <2>2. ~(outPos + 4 < ringBufSize)
    BY <1>3, RingSize DEF RingInv
  <2>3. rollOver' = FALSE
    BY Zenon, <1>1, <2>2 DEF RingInv
  <2>4. rollOver = TRUE
    BY <1>3, RingSize DEF RingInv, Holds
  <2>5. QED
    BY <1>1, <1>3, <2>1, <2>3, <2>4, SlotsAssumption DEF RingInv, Count, ringBufSize
<1>4. CASE outPos + 4 < ringBufSize
  <2>1. outPos' = outPos + 4
    BY <1>1, <1>4, RingSize DEF RingInv, After
  <2>2. rollOver' = rollOver
    BY <1>1, <1>4 DEF RingInv
  <2>3. CASE rollOver = TRUE
    <3>a. rollOver' = TRUE
      BY <2>2, <2>3
    <3>1. RingInv'
      BY <1>1, <1>4, <2>1, <3>a, <2>3, SlotsAssumption DEF RingInv, ringBufSize
    <3>2. Count' = Count - 1
      BY <1>1, <2>1, <3>a, <2>3, SlotsAssumption DEF RingInv, Count, ringBufSize
    <3>3. QED
      BY <3>1, <3>2
  <2>4. CASE rollOver = FALSE
    BY <1>1, <1>4, <2>1, <2>2, <2>4, SlotsAssumption DEF RingInv, Count, ringBufSize, Holds
  <2>5. QED
    BY Zenon, <2>3, <2>4 DEF RingInv
<1>5. QED
  BY <1>2, <1>3, <1>4, RingSize DEF RingInv

(****************************************************************************)
(* The contents of the ring.                                                *)

\* An operation comes back from its four bytes.
LEMMA BytesBack == \A op \in Ops : FromBytes(ToBytes(op)) = op
<1> TAKE op \in Ops
<1>1. op.delay \in Nat
  BY DelayAssumption DEF Ops
<1>2. (op.delay % 256) + 256 * (op.delay \div 256) = op.delay
  BY <1>1, SMT
<1>3. op = [data |-> op.data, rs |-> op.rs, delay |-> op.delay]
  BY DEF Ops
<1>4. QED
  BY <1>2, <1>3 DEF FromBytes, ToBytes

\* The length of the queue.
LEMMA QueuedLength == ASSUME RingInv PROVE Len(Queued) = Count /\ DOMAIN Queued = 1..Count
BY CountFacts DEF Queued

\* The bytes that putInBuf writes.
LEMMA PutBytes ==
  ASSUME RingInv, NEW op, putInBuf(op), ~NoSpace
  PROVE  \A p \in 0..ringBufSize - 1 :
           ringBuf'[p] = IF p - inPos \in 0..3 THEN ToBytes(op)[p - inPos + 1] ELSE ringBuf[p]
<1> TAKE p \in 0..ringBufSize - 1
<1>1. ringBuf' = [q \in 0..ringBufSize - 1 |->
          IF \E k \in 0..3 : q = After(inPos, k)
          THEN ToBytes(op)[(CHOOSE k \in 0..3 : q = After(inPos, k)) + 1]
          ELSE ringBuf[q]]
  BY DEF putInBuf
<1>2. \A k \in 0..3 : After(inPos, k) = inPos + k
  BY Room, RingSize DEF RingInv, After
<1>3. (\E k \in 0..3 : p = After(inPos, k)) <=> p - inPos \in 0..3
  BY <1>2, RingSize DEF RingInv
<1>4. CASE p - inPos \in 0..3
  <2>1. PICK k \in 0..3 : p = After(inPos, k)
    BY <1>3, <1>4
  <2>2. (CHOOSE j \in 0..3 : p = After(inPos, j)) = p - inPos
    <3> DEFINE c == CHOOSE j \in 0..3 : p = After(inPos, j)
    <3>1. c \in 0..3 /\ p = After(inPos, c)
      BY <2>1
    <3> HIDE DEF c
    <3>2. c = p - inPos
      BY <1>2, <3>1, RingSize DEF RingInv
    <3>3. QED
      BY <3>2 DEF c
  <2>3. QED
    BY <1>1, <1>3, <1>4, <2>2
<1>5. CASE p - inPos \notin 0..3
  BY <1>1, <1>3, <1>5
<1>6. QED
  BY <1>4, <1>5

\* Where the operations in the ring, and the next one, have their bytes.
LEMMA WhereQueued ==
  ASSUME RingInv, ~NoSpace
  PROVE  /\ \A i \in 1..Count, k \in 1..4 :
              /\ After(outPos, 4 * (i - 1) + k - 1) \in 0..ringBufSize - 1
              /\ After(outPos, 4 * (i - 1) + k - 1) - inPos \notin 0..3
         /\ \A k \in 1..4 :
              After(outPos, 4 * Count + k - 1) = inPos + k - 1
              /\ inPos + k - 1 \in 0..ringBufSize - 1
<1>1. Count \in Nat /\ 4 * Count = inPos - outPos + (IF rollOver THEN ringBufSize ELSE 0)
  BY CountFacts
<1>2. ~(rollOver /\ inPos = outPos)
  BY DropsWhenFull
<1>3. inPos + 4 <= ringBufSize
  BY Room DEF RingInv
<1> HIDE DEF Count
<1>4. CASE rollOver = TRUE
  <2>1. inPos + 4 <= outPos
    BY <1>2, <1>4, RingSize DEF RingInv
  <2>2. QED
    BY <1>1, <1>3, <1>4, <2>1, RingSize DEF RingInv, After
<1>5. CASE rollOver = FALSE
  BY <1>1, <1>3, <1>5, RingSize DEF RingInv, After
<1>6. QED
  BY Zenon, <1>4, <1>5 DEF RingInv

\* An operation is appended, or dropped from a full ring.
LEMMA PutAppends ==
  ASSUME RingInv, Queued \in Seq(Ops), NEW op \in Ops, putInBuf(op)
  PROVE  Queued' = IF Len(Queued) < Slots THEN Append(Queued, op) ELSE Queued
<1>1. CASE NoSpace
  <2>1. UNCHANGED ringVars
    BY <1>1 DEF putInBuf
  <2>2. Count = Slots
    BY <1>1, DropsWhenFull, CountFacts
  <2>3. Queued' = Queued
    BY <2>1 DEF ringVars, Queued, Count, OpAt, FromBytes, After, ringBufSize
  <2>4. QED
    BY <2>2, <2>3, QueuedLength, SlotsAssumption
<1>2. CASE ~NoSpace
  <2>1. Count' = Count + 1 /\ outPos' = outPos /\ Count \in Nat /\ Count < Slots
    BY <1>2, PutKeepsRing, CountFacts, DropsWhenFull, SlotsAssumption
  <2>2. ASSUME NEW i \in 1..Count PROVE OpAt(i)' = OpAt(i)
    <3>1. \A k \in 1..4 : ringBuf'[After(outPos, 4 * (i - 1) + k - 1)]
                            = ringBuf[After(outPos, 4 * (i - 1) + k - 1)]
      BY Zenon, <1>2, WhereQueued, PutBytes
    <3>2. QED
      BY <2>1, <3>1 DEF OpAt, FromBytes, After, ringBufSize
  <2>3. PICK n : n = Count
    OBVIOUS
  <2>4. OpAt(n + 1)' = op
    <3>1. \A k \in 1..4 : ringBuf'[After(outPos, 4 * n + k - 1)] = ToBytes(op)[k]
      <4> TAKE k \in 1..4
      <4>1. /\ After(outPos, 4 * n + k - 1) = inPos + k - 1
            /\ inPos + k - 1 \in 0..ringBufSize - 1
        BY <1>2, <2>3, WhereQueued
      <4>2. (inPos + k - 1) - inPos \in 0..3 /\ (inPos + k - 1) - inPos + 1 = k
        BY RingSize DEF RingInv
      <4>3. QED
        BY <1>2, <4>1, <4>2, PutBytes
    <3>2. n \in Nat /\ 4 * (n + 1 - 1) = 4 * n
      BY <2>1, <2>3
    <3>3. FromBytes(ToBytes(op)) = op
      BY BytesBack
    <3>4. QED
      BY <2>1, <3>1, <3>2, <3>3 DEF OpAt, FromBytes, After, ringBufSize
  <2>5. Queued' = [i \in 1..n + 1 |-> OpAt(i)']
    BY <2>1, <2>3 DEF Queued
  <2>6. Append(Queued, op) = [i \in 1..n + 1 |-> IF i = n + 1 THEN op ELSE Queued[i]]
    <3>1. /\ Append(Queued, op) \in Seq(Ops)
          /\ Len(Append(Queued, op)) = n + 1
          /\ \A i \in 1..n : Append(Queued, op)[i] = Queued[i]
          /\ Append(Queued, op)[n + 1] = op
      BY <2>3, QueuedLength, AppendProperties
    <3>2. Append(Queued, op) \in [1..n + 1 -> Ops]
      BY Zenon, <3>1, LenProperties
    <3>3. \A i \in 1..n + 1 : Append(Queued, op)[i] = IF i = n + 1 THEN op ELSE Queued[i]
      BY <2>1, <2>3, <3>1
    <3>4. Append(Queued, op) = [i \in 1..n + 1 |-> Append(Queued, op)[i]]
      BY Zenon, <3>2
    <3>5. QED
      BY Zenon, <3>3, <3>4
  <2>7. \A i \in 1..n + 1 : OpAt(i)' = IF i = n + 1 THEN op ELSE Queued[i]
    <3> TAKE i \in 1..n + 1
    <3>1. CASE i = n + 1
      BY <2>4, <3>1
    <3>2. CASE i # n + 1
      <4>1. i \in 1..Count
        BY <2>1, <2>3, <3>2
      <4>2. QED
        BY <2>2, <3>2, <4>1 DEF Queued
    <3>3. QED
      BY <3>1, <3>2
  <2>8. Queued' = Append(Queued, op)
    BY <2>5, <2>6, <2>7
  <2>9. QED
    BY <2>1, <2>8, QueuedLength
<1>3. QED
  BY <1>1, <1>2

\* The oldest operation is taken.
LEMMA GetTakesHead ==
  ASSUME RingInv, Queued \in Seq(Ops), Holds, getFromBuf
  PROVE  /\ Queued # <<>> /\ currentOp' = Head(Queued)
         /\ Queued' = Tail(Queued)
<1>1. Count \in Nat /\ Count > 0 /\ Count' = Count - 1
      /\ 4 * Count = inPos - outPos + (IF rollOver THEN ringBufSize ELSE 0)
  BY GetKeepsRing, CountFacts
<1>2. Len(Queued) = Count /\ Queued # <<>>
  BY <1>1, QueuedLength, EmptySeq
<1>3. currentOp' = Head(Queued)
  <2>1. Head(Queued) = OpAt(1)
    BY <1>1, <1>2, QueuedLength DEF Queued
  <2>2. \A k \in 1..4 : 4 * (1 - 1) + k - 1 = k - 1
    OBVIOUS
  <2>3. QED
    BY <2>1, <2>2 DEF OpAt, getFromBuf, FromBytes
<1>4. PICK n : n = Count
  OBVIOUS
<1>5. \A i \in 1..n - 1 : OpAt(i)' = Queued[i + 1]
  <2> TAKE i \in 1..n - 1
  <2>1. i + 1 \in 1..Count /\ i \in Nat /\ 4 * (i + 1 - 1) = 4 * i
    BY <1>1, <1>4
  <2>2. outPos' = After(outPos, 4) /\ ringBuf' = ringBuf
    BY DEF getFromBuf
  <2>3. \A k \in 1..4 : After(After(outPos, 4), 4 * (i - 1) + k - 1) = After(outPos, 4 * i + k - 1)
    <3>1. outPos + 4 <= ringBufSize
      BY Room DEF RingInv
    <3>2. CASE rollOver = TRUE
      BY <1>1, <1>4, <2>1, <3>1, <3>2, RingSize DEF RingInv, After
    <3>3. CASE rollOver = FALSE
      BY <1>1, <1>4, <2>1, <3>1, <3>3, RingSize DEF RingInv, After
    <3>4. QED
      BY Zenon, <3>2, <3>3 DEF RingInv
  <2>4. Queued[i + 1] = OpAt(i + 1)
    BY <2>1 DEF Queued
  <2>5. QED
    <3>1. OpAt(i)' = FromBytes([k \in 1..4 |->
                       ringBuf[After(After(outPos, 4), 4 * (i - 1) + k - 1)]])
      BY <2>2 DEF OpAt, FromBytes, After, ringBufSize
    <3>2. [k \in 1..4 |-> ringBuf[After(After(outPos, 4), 4 * (i - 1) + k - 1)]]
            = [k \in 1..4 |-> ringBuf[After(outPos, 4 * i + k - 1)]]
      BY <2>3
    <3>3. OpAt(i + 1) = FromBytes([k \in 1..4 |-> ringBuf[After(outPos, 4 * i + k - 1)]])
      BY <2>1 DEF OpAt
    <3>4. QED
      BY Zenon, <2>4, <3>1, <3>2, <3>3
<1>6. Queued' = [i \in 1..n - 1 |-> OpAt(i)']
  BY <1>1, <1>4 DEF Queued
<1>7. /\ Tail(Queued) \in [1..n - 1 -> Ops]
      /\ \A i \in 1..n - 1 : Tail(Queued)[i] = Queued[i + 1]
  <2>1. Tail(Queued) \in Seq(Ops) /\ Len(Tail(Queued)) = n - 1
    BY <1>2, <1>4, HeadTailProperties
  <2>2. QED
    BY Zenon, <1>2, <2>1, HeadTailProperties, LenProperties
<1>8. Queued' = Tail(Queued)
  BY Zenon, <1>5, <1>6, <1>7
<1>9. QED
  BY <1>2, <1>3, <1>8

(****************************************************************************)
(* The texts.                                                               *)

\* Delays are numbers.
LEMMA DelayTypes ==
  /\ 0 \in Delays /\ TimingCMD \in Delays /\ TimingData \in Delays /\ TimingReset \in Delays
  /\ Delays \subseteq Nat
BY DelayAssumption DEF Delays

\* What is printed are operations.
LEMMA OpTypes ==
  /\ \A is \in {"33", "32", "set", "cmd"} : Command(is) \in Ops
  /\ \A line \in Lines : WriteLCDSetPos(line) \in Ops /\ Character(line) \in Ops
  /\ ZeroOp \in Ops
BY DelayTypes DEF Command, WriteLCDSetPos, Character, ZeroOp, Ops, Bytes

\* The text of a line: its cursor command, then its characters.
LEMMA TextType ==
  ASSUME NEW line \in Lines
  PROVE  /\ WriteLCDLine(line) \in Seq(Ops)
         /\ Len(WriteLCDLine(line)) = LineSize + 1
         /\ WriteLCDLine(line)[1] = WriteLCDSetPos(line)
         /\ \A i \in 2..LineSize + 1 : WriteLCDLine(line)[i] = Character(line)
<1> DEFINE pos == <<WriteLCDSetPos(line)>>
           text == [i \in 1..LineSize |-> Character(line)]
<1>1. pos \in Seq(Ops) /\ Len(pos) = 1 /\ pos[1] = WriteLCDSetPos(line)
  BY OpTypes
<1>2. text \in Seq(Ops) /\ Len(text) = LineSize /\ \A i \in 1..LineSize : text[i] = Character(line)
  BY OpTypes, TextAssumption
<1>3. WriteLCDLine(line) = pos \o text
  BY DEF WriteLCDLine
<1> HIDE DEF pos, text
<1>4. /\ pos \o text \in Seq(Ops) /\ Len(pos \o text) = LineSize + 1
      /\ \A i \in 1..LineSize + 1 : (pos \o text)[i] = IF i <= 1 THEN pos[i] ELSE text[i - 1]
  <2>1. /\ pos \o text \in Seq(Ops) /\ Len(pos \o text) = Len(pos) + Len(text)
        /\ \A i \in 1..Len(pos) + Len(text) :
             (pos \o text)[i] = IF i <= Len(pos) THEN pos[i] ELSE text[i - Len(pos)]
    BY Zenon, <1>1, <1>2, ConcatProperties
  <2>2. Len(pos) + Len(text) = LineSize + 1
    BY <1>1, <1>2, TextAssumption
  <2>3. QED
    BY <1>1, <2>1, <2>2
<1>5. QED
  BY <1>1, <1>2, <1>3, <1>4, TextAssumption

\* Which line the i-th operation of the custom text belongs to.
LEMMA CustomText ==
  ASSUME NEW i \in 1..nbLines * (LineSize + 1)
  PROVE  /\ ((i - 1) \div (LineSize + 1)) + 1 \in Lines
         /\ ((i - 1) % (LineSize + 1)) + 1 \in 1..LineSize + 1
<1> DEFINE w == LineSize + 1
           q == (i - 1) \div w
<1>1. w \in Nat /\ w > 0 /\ nbLines \in Nat /\ i \in Nat /\ i >= 1 /\ i - 1 < nbLines * w
  BY TextAssumption
<1> HIDE DEF w
<1>2. q \in Nat /\ w * q <= i - 1 /\ (i - 1) % w \in 0..w - 1
  BY <1>1, SMT
<1> HIDE DEF q
<1>3. q < nbLines
  <2> SUFFICES ASSUME q >= nbLines PROVE FALSE
    BY <1>1, <1>2
  <2>1. w * q >= w * nbLines
    BY <1>1, <1>2, SMT
  <2>2. w * nbLines = nbLines * w
    BY <1>1, SMT
  <2>3. QED
    BY <1>1, <1>2, <2>1, <2>2, SMT
<1>4. QED
  BY <1>1, <1>2, <1>3 DEF Lines, w, q

\* What is printed when the display is switched on are operations.
LEMMA InitialPrintType ==
  ASSUME NEW custom \in BOOLEAN
  PROVE  WriteLCDInit \o initialLCDPrint(custom) \in Seq(Ops)
<1>1. WriteLCDInit \in Seq(Ops)
  BY OpTypes, DelayTypes DEF WriteLCDInit, Ops, Bytes
<1>2. initialLCDPrint(custom) \in Seq(Ops)
  <2>1. CASE custom
    <3> DEFINE n == nbLines * (LineSize + 1)
               at(i) == WriteLCDLine(((i - 1) \div (LineSize + 1)) + 1)[((i - 1) % (LineSize + 1)) + 1]
    <3>1. n \in Nat
      BY TextAssumption
    <3>2. \A i \in 1..n : at(i) \in Ops
      BY CustomText, TextType, LenProperties
    <3>3. initialLCDPrint(custom) = [i \in 1..n |-> at(i)]
      BY <2>1 DEF initialLCDPrint
    <3> HIDE DEF n, at
    <3>4. QED
      BY <3>1, <3>2, <3>3
  <2>2. CASE ~custom
    <3>1. <<Command("cmd")>> \in Seq(Ops) /\ 1 \in Lines
      BY OpTypes, TextAssumption DEF Lines
    <3>2. QED
      BY <2>2, <3>1, TextType, ConcatProperties DEF initialLCDPrint
  <2>3. QED
    BY <2>1, <2>2
<1>3. QED
  BY <1>1, <1>2, ConcatProperties

(****************************************************************************)
(* The ring is a queue.                                                     *)

\* The type of a byte, by its place in the operation.
BytesOK == 
  /\ DOMAIN ringBuf = 0..ringBufSize - 1
  /\ \A p \in 0..ringBufSize - 1 : ringBuf[p] \in <<Bytes, BOOLEAN, 0..255, 0..255>>[(p % 4) + 1]

RestOK ==
  /\ internalOp \in {"ready", "high", "low"} /\ currentOp \in Ops
  /\ systickStartValue \in Nat /\ clock \in 0..ClockWrap - 1
  /\ lcdEnable \in BOOLEAN /\ isPureXBlast \in BOOLEAN
  /\ putting \in Seq(Ops) /\ prints \in 0..MaxPrints
  /\ display \in [bits : {4, 8}, half : Nibbles \cup {None}, line : Lines \cup {0}]
  /\ since \in 0..Longest /\ owed \in Delays /\ forgot \in BOOLEAN /\ dropped \in BOOLEAN

LcdInv == BytesOK /\ RestOK /\ RingInv /\ Queued \in Seq(Ops)

\* LcdInv says what LcdTypeOK says.
LEMMA LcdInvTyped == LcdInv => LcdTypeOK
BY Zenon DEF LcdInv, BytesOK, RestOK, RingInv, LcdTypeOK

\* The four bytes of an operation, from the types of its fields.
LEMMA FourBytes ==
  ASSUME NEW op, op.data \in Bytes, op.rs \in BOOLEAN,
         op.delay % 256 \in 0..255, op.delay \div 256 \in 0..255
  PROVE  \A j \in 0..3 : ToBytes(op)[j + 1] \in <<Bytes, BOOLEAN, 0..255, 0..255>>[j + 1]
<1> DEFINE v == ToBytes(op)
           t == <<Bytes, BOOLEAN, 0..255, 0..255>>
<1>1. v[1] \in t[1] /\ v[2] \in t[2] /\ v[3] \in t[3] /\ v[4] \in t[4]
  BY DEF ToBytes
<1> HIDE DEF v, t
<1>2. \A j \in 0..3 : v[j + 1] \in t[j + 1]
  BY <1>1
<1>3. QED
  BY <1>2 DEF v, t

\* There is a longest delay.
LEMMA LongestType == Longest \in Delays /\ Longest \in Nat /\ \A e \in Delays : Longest >= e
<1>1. \E d \in Delays : \A e \in Delays : d >= e
  <2> DEFINE M(a, b) == IF a >= b THEN a ELSE b
             top == M(TimingCMD, M(TimingData, TimingReset))
  <2>1. TimingCMD \in Nat /\ TimingData \in Nat /\ TimingReset \in Nat
    BY DelayTypes
  <2>2. top \in Delays /\ \A e \in Delays : top >= e
    BY <2>1 DEF Delays
  <2>3. QED
    BY <2>2
<1>2. QED
  BY Zenon, <1>1, DelayTypes DEF Longest

\* getUS is a number.
LEMMA ClockTypes == ASSUME clock \in 0..ClockWrap - 1 PROVE getUS \in Nat
<1>1. clock \in Nat /\ Grain \in Nat /\ Grain > 0
  BY ClockAssumption
<1>2. Grain \div 2 \in Nat
  BY <1>1, SMT
<1>3. (clock + Grain \div 2) \in Nat
  BY <1>1, <1>2
<1>4. (clock + Grain \div 2) \div Grain \in Nat
  BY <1>1, <1>3, SMT
<1>5. QED
  BY <1>1, <1>4 DEF getUS

\* The zeroed memory satisfies LcdInv.
LEMMA LcdInvInit == LcdInit => LcdInv
<1> SUFFICES ASSUME LcdInit PROVE LcdInv
  OBVIOUS
<1> USE DEF LcdInit
<1>1. RestOK
  <2>1. 0 \in 0..ClockWrap - 1 /\ 0 \in 0..Longest /\ 0 \in 0..MaxPrints
    BY ClockAssumption, LongestType, TextAssumption
  <2>2. QED
    BY Zenon, <2>1, OpTypes, DelayTypes, EmptySeq DEF RestOK, PowerOn, Nibbles, None
<1>2. RingInv
  <2>1. inPos = 0 /\ outPos = 0 /\ rollOver = FALSE
    OBVIOUS
  <2> HIDE DEF LcdInit
  <2>2. 0 \in 0..ringBufSize - 1 /\ 0 % 4 = 0 /\ 0 <= 0
    BY RingSize, SMT
  <2>3. QED
    BY <2>1, <2>2, Zenon DEF RingInv
<1>3. Queued \in Seq(Ops)
  <2>1. Count = 0
    BY <1>2, CountFacts DEF Holds
  <2>2. QED
    BY <2>1 DEF Queued
<1>4. BytesOK
  <2>1. ringBuf = [p \in 0..ringBufSize - 1 |-> ToBytes(ZeroOp)[(p % 4) + 1]]
    BY Zenon
  <2> HIDE DEF LcdInit
  <2>2. \A p \in 0..ringBufSize - 1 : p % 4 \in 0..3
    BY RingSize
  <2>3. /\ ZeroOp.data \in Bytes /\ ZeroOp.rs \in BOOLEAN
        /\ ZeroOp.delay % 256 \in 0..255 /\ ZeroOp.delay \div 256 \in 0..255
    BY DEF ZeroOp, Bytes
  <2>4. \A j \in 0..3 : ToBytes(ZeroOp)[j + 1] \in <<Bytes, BOOLEAN, 0..255, 0..255>>[j + 1]
    BY Zenon, <2>3, FourBytes
  <2>5. QED
    BY Zenon, <2>1, <2>2, <2>4 DEF BytesOK
<1>5. QED
  BY <1>1, <1>2, <1>3, <1>4 DEF LcdInv

\* What leaves the ring and the operations in it alone.
LEMMA RingUnchanged ==
  ASSUME LcdInv, UNCHANGED ringVars
  PROVE  BytesOK' /\ RingInv' /\ Queued' = Queued
<1>1. BytesOK' /\ RingInv'
  <2>1. UNCHANGED <<ringBuf, inPos, outPos, rollOver>>
    BY DEF ringVars
  <2>2. BytesOK'
    BY Zenon, <2>1 DEF LcdInv, BytesOK, ringBufSize, Bytes, Lines
  <2>3. RingInv'
    BY Zenon, <2>1 DEF LcdInv, RingInv, ringBufSize
  <2>4. QED
    BY <2>2, <2>3
<1>2. Queued' = Queued
  BY DEF Queued, Count, OpAt, After, FromBytes, ringVars, ringBufSize
<1>3. QED
  BY <1>1, <1>2

\* The bytes of an operation have their types.
LEMMA ByteTypes ==
  ASSUME NEW op \in Ops
  PROVE  \A j \in 0..3 : ToBytes(op)[j + 1] \in <<Bytes, BOOLEAN, 0..255, 0..255>>[j + 1]
<1>1. op.delay \in Nat /\ op.delay < 65536
  BY DelayAssumption DEF Ops
<1>2. op.delay % 256 \in 0..255 /\ op.delay \div 256 \in 0..255
  BY <1>1, SMT
<1>3. op.data \in Bytes /\ op.rs \in BOOLEAN
  BY DEF Ops
<1>4. QED
  BY Zenon, <1>2, <1>3, FourBytes

\* putInBuf keeps the type of every byte.
LEMMA PutKeepsBytes ==
  ASSUME LcdInv, NEW op \in Ops, putInBuf(op), ~NoSpace
  PROVE  BytesOK'
<1>1. inPos \in 0..ringBufSize - 1 /\ inPos % 4 = 0
  BY DEF LcdInv, RingInv
<1>2. DOMAIN ringBuf' = 0..ringBufSize - 1
  BY DEF putInBuf
<1>3. ASSUME NEW p \in 0..ringBufSize - 1
      PROVE  ringBuf'[p] \in <<Bytes, BOOLEAN, 0..255, 0..255>>[(p % 4) + 1]
  <2>1. CASE p - inPos \in 0..3
    <3>1. p - inPos = p % 4
      BY <2>1, <1>1, RingSize
    <3>2. ringBuf'[p] = ToBytes(op)[(p % 4) + 1]
      BY <2>1, <3>1, PutBytes DEF LcdInv
    <3>3. QED
      BY <2>1, <3>1, <3>2, ByteTypes
  <2>2. CASE p - inPos \notin 0..3
    BY Zenon, <2>2, PutBytes DEF LcdInv, BytesOK
  <2>3. QED
    BY <2>1, <2>2
<1>4. QED
  BY Zenon, <1>2, <1>3 DEF BytesOK, ringBufSize, Bytes, Lines

\* What the display makes of a nibble.
LEMMA ReceiveType ==
  ASSUME LcdInv, NEW part, Receive(currentOp.data, currentOp.rs, part)
  PROVE  display' \in [bits : {4, 8}, half : Nibbles \cup {None}, line : Lines \cup {0}]
<1>1. Nibble(currentOp.data, part) \in Nibbles
  BY DEF Nibble, Nibbles
<1>2. currentOp.data.line \in Lines \cup {0}
  BY DEF LcdInv, RestOK, Ops, Bytes
<1>3. display \in [bits : {4, 8}, half : Nibbles \cup {None}, line : Lines \cup {0}]
  BY DEF LcdInv, RestOK
<1> HIDE DEF Nibbles, Nibble, Lines, None
<1>4. QED
  BY <1>1, <1>2, <1>3 DEF Receive

QueueVars == <<Queued, currentOp, putting>>

\* Every step keeps the invariant and is a step of the abstract queue.
LEMMA ReadyStep == LcdInv /\ ReadyForNewOp => LcdInv' /\ Fifo!Take
<1> SUFFICES ASSUME LcdInv, ReadyForNewOp PROVE LcdInv' /\ Fifo!Take
  OBVIOUS
<1>1. RingInv /\ Holds /\ getFromBuf /\ Queued \in Seq(Ops) /\ BytesOK /\ RestOK
  BY DEF LcdInv, ReadyForNewOp
<1>2. Queued # <<>> /\ currentOp' = Head(Queued) /\ Queued' = Tail(Queued) /\ RingInv'
  BY <1>1, GetTakesHead, GetKeepsRing
<1>3. currentOp' \in Ops /\ Queued' \in Seq(Ops)
  BY <1>1, <1>2, HeadTailProperties
<1>4. BytesOK'
  BY Zenon, <1>1 DEF BytesOK, getFromBuf, ringBufSize, Bytes, Lines
<1>5. RestOK'
  BY <1>1, <1>3 DEF RestOK, ReadyForNewOp, timeVars, Ops, Bytes, Lines, Delays, Nibbles, None, Longest
<1>6. Fifo!Take
  BY <1>2 DEF Fifo!Take, ReadyForNewOp, Turn
<1>7. QED
  BY <1>2, <1>3, <1>4, <1>5, <1>6 DEF LcdInv, Ops, Bytes, Lines, Delays

\* Handing over a nibble keeps LcdInv and leaves the queue alone.
LEMMA NibbleStep ==
  ASSUME LcdInv, NEW part, NEW next \in {"ready", "low"}, WriteNibble(part, next)
  PROVE  LcdInv' /\ UNCHANGED QueueVars
<1>1. UNCHANGED ringVars /\ UNCHANGED <<currentOp, putting>>
  BY DEF WriteNibble
<1>2. BytesOK' /\ RingInv' /\ Queued' = Queued
  BY <1>1, RingUnchanged
<1>3. display' \in [bits : {4, 8}, half : Nibbles \cup {None}, line : Lines \cup {0}]
  BY ReceiveType DEF WriteNibble
<1>4. getUS \in Nat /\ 0 \in 0..Longest /\ currentOp.delay \in Delays
  BY ClockTypes, LongestType DEF LcdInv, RestOK, Ops
<1>5. RestOK'
  <2> HIDE DEF getUS, Due, Receive, Longest
  <2>1. systickStartValue' \in Nat /\ since' \in 0..Longest /\ owed' \in Delays /\ forgot' \in BOOLEAN
        /\ internalOp' \in {"ready", "high", "low"}
    BY Zenon, <1>4 DEF WriteNibble
  <2>2. QED
    BY <1>3, <2>1 DEF LcdInv, RestOK, WriteNibble, Ops, Bytes, Lines, Delays, Nibbles, None, Longest
<1>6. QED
  BY <1>1, <1>2, <1>5 DEF LcdInv, QueueVars, Ops, Bytes, Lines, Delays

\* putInLCDRingBuffer is a Put of the queue.
LEMMA PutStep == LcdInv /\ putInLCDRingBuffer => LcdInv' /\ Fifo!Put
<1> SUFFICES ASSUME LcdInv, putInLCDRingBuffer PROVE LcdInv' /\ Fifo!Put
  OBVIOUS
<1>1. RingInv /\ Queued \in Seq(Ops) /\ putting \in Seq(Ops) /\ putting # <<>>
  BY DEF LcdInv, RestOK, putInLCDRingBuffer
<1> DEFINE op == Head(putting)
<1>2. op \in Ops /\ Tail(putting) \in Seq(Ops)
  BY <1>1, HeadTailProperties
<1>3. putInBuf(op) /\ putting' = Tail(putting)
  BY DEF putInLCDRingBuffer
<1> HIDE DEF op
<1>4. Queued' = (IF Len(Queued) < Slots THEN Append(Queued, op) ELSE Queued) /\ RingInv'
  BY <1>1, <1>2, <1>3, PutAppends, PutKeepsRing
<1>5. Queued' \in Seq(Ops)
  BY <1>1, <1>2, <1>4, AppendProperties
<1>6. BytesOK'
  <2>1. CASE ~NoSpace
    BY <2>1, <1>2, <1>3, PutKeepsBytes
  <2>2. CASE NoSpace
    <3>1. UNCHANGED ringVars
      BY <2>2, <1>3 DEF putInBuf
    <3>2. QED
      BY <3>1, RingUnchanged
  <2>3. QED
    BY <2>1, <2>2
<1>7. RestOK'
  BY <1>2, <1>3 DEF LcdInv, RestOK, putInLCDRingBuffer, driverVars, timeVars, Ops, Bytes, Lines, Delays, Nibbles, None, Longest
<1>8. Fifo!Put
  BY <1>1, <1>3, <1>4 DEF Fifo!Put, putInLCDRingBuffer, driverVars, op
<1>9. QED
  BY <1>4, <1>5, <1>6, <1>7, <1>8 DEF LcdInv, Ops, Bytes, Lines, Delays

\* Time leaves the queue alone.
LEMMA TickStep == LcdInv /\ Tick => LcdInv' /\ UNCHANGED QueueVars
<1> SUFFICES ASSUME LcdInv, Tick PROVE LcdInv' /\ UNCHANGED QueueVars
  OBVIOUS
<1>1. UNCHANGED ringVars /\ UNCHANGED <<currentOp, putting>>
  BY DEF Tick, driverVars
<1>2. BytesOK' /\ RingInv' /\ Queued' = Queued
  BY <1>1, RingUnchanged
<1>3. clock' \in 0..ClockWrap - 1 /\ since' \in 0..Longest /\ forgot' \in BOOLEAN
  BY ClockAssumption, LongestType DEF LcdInv, RestOK, Tick
<1>4. RestOK'
  BY <1>3 DEF LcdInv, RestOK, Tick, driverVars, Ops, Bytes, Lines, Delays, Nibbles, None, Longest
<1>5. QED
  BY <1>1, <1>2, <1>4 DEF LcdInv, QueueVars, Ops, Bytes, Lines, Delays

\* A print is a Submit of the queue.
LEMMA PrintStep ==
  ASSUME LcdInv, (\E line \in Lines : PrintLine(line)) \/ WriteLCDCommand
  PROVE  LcdInv' /\ Fifo!Submit
<1>1. putting = <<>> /\ putting' \in Seq(Ops)
  <2>1. \A line \in Lines : PrintLine(line) => putting = <<>> /\ putting' \in Seq(Ops)
    BY TextType DEF PrintLine
  <2>2. WriteLCDCommand => putting = <<>> /\ putting' \in Seq(Ops)
    BY OpTypes DEF WriteLCDCommand
  <2>3. QED
    BY <2>1, <2>2
<1>2. /\ prints < MaxPrints /\ prints' = prints + 1
      /\ UNCHANGED <<ringVars, driverVars, lcdEnable, isPureXBlast, timeVars, display, dropped>>
  BY DEF PrintLine, WriteLCDCommand
<1>3. BytesOK' /\ RingInv' /\ Queued' = Queued
  BY <1>2, RingUnchanged
<1>4. prints' \in 0..MaxPrints
  BY <1>2, TextAssumption DEF LcdInv, RestOK
<1>5. RestOK'
  BY <1>1, <1>2, <1>4 DEF LcdInv, RestOK, driverVars, timeVars, Ops, Bytes, Lines, Delays, Nibbles, None, Longest
<1>6. Fifo!Submit
  BY <1>1, <1>2, <1>3 DEF Fifo!Submit, driverVars
<1>7. QED
  BY <1>3, <1>5, <1>6 DEF LcdInv, Ops, Bytes, Lines, Delays

\* assertInitLCD is a Reset of the queue.
LEMMA AssertInitStep ==
  ASSUME LcdInv, NEW on \in BOOLEAN, NEW custom \in BOOLEAN, assertInitLCD(on, custom)
  PROVE  LcdInv' /\ Fifo!Reset
<1>1. putting = <<>> /\ putting' \in Seq(Ops)
  BY InitialPrintType, EmptySeq DEF assertInitLCD
<1>2. inPos' = 0 /\ outPos' = 0 /\ rollOver' = FALSE /\ UNCHANGED ringBuf
  BY DEF assertInitLCD, LCDRingBufferInit
<1>3. RingInv'
  <2>1. 0 \in 0..ringBufSize - 1 /\ 0 % 4 = 0 /\ 0 <= 0
    BY RingSize, SMT
  <2>2. QED
    BY <1>2, <2>1, Zenon DEF RingInv, ringBufSize
<1>4. BytesOK'
  BY <1>2 DEF LcdInv, BytesOK, ringBufSize, Bytes, Lines
<1>5. Queued' = <<>>
  <2>1. Count' = 0
    BY <1>2 DEF Count
  <2>2. QED
    BY <2>1 DEF Queued
<1>6. currentOp' \in Ops
  BY Zenon, DelayTypes DEF LcdInv, RestOK, assertInitLCD, LCDRingBufferInit, Ops
<1>7. RestOK'
  <2>1. internalOp' = "ready" /\ systickStartValue' = 0
    BY DEF assertInitLCD, LCDRingBufferInit
  <2>2. display' \in [bits : {4, 8}, half : Nibbles \cup {None}, line : Lines \cup {0}]
    BY DEF assertInitLCD, LcdInv, RestOK, PowerOn, Nibbles, None
  <2>3. owed' \in Delays
    BY DelayTypes DEF assertInitLCD, LcdInv, RestOK
  <2>4. dropped' \in BOOLEAN /\ forgot' \in BOOLEAN /\ lcdEnable' \in BOOLEAN
    BY DEF assertInitLCD, LcdInv, RestOK
  <2>5. UNCHANGED <<isPureXBlast, clock, since, prints>>
    BY DEF assertInitLCD
  <2>6. QED
    BY <1>1, <1>6, <2>1, <2>2, <2>3, <2>4, <2>5
       DEF LcdInv, RestOK, Ops, Bytes, Lines, Delays, Nibbles, None, Longest
<1>8. Fifo!Reset
  BY <1>1, <1>5, <1>6 DEF Fifo!Reset
<1>9. QED
  BY <1>3, <1>4, <1>5, <1>7, <1>8, EmptySeq DEF LcdInv, Ops, Bytes, Lines, Delays

\* LcdInv is inductive, and every step is a step of the queue or a stutter.
LEMMA LcdStep == LcdInv /\ [LcdNext]_lcdVars => LcdInv' /\ [Fifo!FifoNext]_QueueVars
<1> SUFFICES ASSUME LcdInv, [LcdNext]_lcdVars PROVE LcdInv' /\ [Fifo!FifoNext]_QueueVars
  OBVIOUS
<1>1. CASE ReadyForNewOp
  BY <1>1, ReadyStep DEF Fifo!FifoNext
<1>2. CASE WriteHighNibble \/ WriteLowNibble
  BY <1>2, NibbleStep DEF WriteHighNibble, WriteLowNibble
<1>3. CASE putInLCDRingBuffer
  BY <1>3, PutStep DEF Fifo!FifoNext
<1>4. CASE Tick
  BY <1>4, TickStep
<1>5. CASE (\E line \in Lines : PrintLine(line)) \/ WriteLCDCommand
  BY <1>5, PrintStep DEF Fifo!FifoNext
<1>6. CASE \E on, customTextBoot \in BOOLEAN : assertInitLCD(on, customTextBoot)
  BY <1>6, AssertInitStep DEF Fifo!FifoNext
<1>7. CASE UNCHANGED lcdVars
  <2>1. UNCHANGED ringVars /\ UNCHANGED <<currentOp, putting>>
    BY <1>7 DEF lcdVars, driverVars
  <2>2. BytesOK' /\ RingInv' /\ Queued' = Queued
    BY <2>1, RingUnchanged
  <2>3. RestOK'
    BY <1>7 DEF LcdInv, RestOK, lcdVars, driverVars, timeVars, Ops, Bytes, Lines, Delays, Nibbles, None, Longest
  <2>4. QED
    BY <2>1, <2>2, <2>3 DEF LcdInv, QueueVars, Ops, Bytes, Lines, Delays
<1>8. QED
  BY <1>1, <1>2, <1>3, <1>4, <1>5, <1>6, <1>7 DEF LcdNext, updateLCDRingBuffer

\* LcdInv holds in every state.
LEMMA LcdInvariance == LcdSpec => []LcdInv
<1>1. QED
  BY LcdInvInit, LcdStep, PTL DEF LcdSpec

\* The positions stay inside the ring and every variable keeps its type, for
\* every size of the ring.
THEOREM LcdTypeCorrect == LcdSpec => []LcdTypeOK
BY LcdInvariance, LcdInvTyped, PTL

\* The ring of four-byte records with two positions and a flag implements a
\* bounded queue: putInBuf appends or, when the queue is full, drops;
\* getFromBuf takes the oldest operation, unchanged.
THEOREM RingIsFifo == LcdSpec => ImplementsFifo
<1>1. LcdInit => Fifo!FifoInit
  <2> SUFFICES ASSUME LcdInit PROVE Fifo!FifoInit
    OBVIOUS
  <2>1. Queued = <<>>
    <3>1. inPos = 0 /\ outPos = 0 /\ rollOver = FALSE
      BY DEF LcdInit
    <3>2. Count = 0
      BY <3>1 DEF Count
    <3>3. QED
      BY <3>2 DEF Queued
  <2>2. putting = <<>> /\ currentOp \in Ops
    BY OpTypes DEF LcdInit
  <2>3. QED
    BY <2>1, <2>2 DEF Fifo!FifoInit
<1>2. LcdInv /\ [LcdNext]_lcdVars => [Fifo!FifoNext]_(Fifo!fifoVars)
  BY LcdStep DEF QueueVars, Fifo!fifoVars
<1>3. QED
  BY <1>1, <1>2, LcdInvariance, PTL DEF LcdSpec, ImplementsFifo, Fifo!FifoSpec

(****************************************************************************)
(* The delays.                                                              *)

\* getUS at the time t.
LineRounded(t) == Grain * ((t + Grain \div 2) \div Grain)

\* Quotients are monotonic.
LEMMA DivMonotone ==
  ASSUME NEW a \in Nat, NEW b \in Nat, NEW g \in Nat, g > 0,
         NEW p \in Nat, NEW q \in Nat, a <= b,
         g * p <= a, b < g * q + g
  PROVE  g * p <= g * q
<1>1. CASE p <= q
  BY <1>1
<1>2. CASE p > q
  <2>1. p >= q + 1
    BY <1>2
  <2>2. g * p >= g * (q + 1)
    BY <2>1
  <2>3. g * (q + 1) = g * q + g
    OBVIOUS
  <2>4. g * p \in Nat /\ g * q \in Nat
    OBVIOUS
  <2>5. QED
    BY <2>2, <2>3, <2>4
<1>3. QED
  BY <1>1, <1>2

\* The rounded clock runs with the clock and is off by less than Grain.
LEMMA RoundedLaw ==
  ASSUME NEW t \in Nat, NEW c \in Nat, t <= c
  PROVE  /\ LineRounded(t) \in Nat /\ LineRounded(c) \in Nat /\ LineRounded(t) <= LineRounded(c)
         /\ LineRounded(c) - LineRounded(t) < c - t + Grain
<1>1. Grain \in Nat /\ Grain > 0
  BY ClockAssumption
<1> DEFINE h == Grain \div 2
<1>2. h \in Nat
  BY <1>1, SMT
<1> HIDE DEF h
<1> DEFINE p == (t + h) \div Grain
           q == (c + h) \div Grain
<1>3. /\ p \in Nat /\ Grain * p <= t + h /\ t + h < Grain * p + Grain
      /\ q \in Nat /\ Grain * q <= c + h /\ c + h < Grain * q + Grain
  BY <1>1, <1>2, QuotientBounds
<1>4. LineRounded(t) = Grain * p /\ LineRounded(c) = Grain * q
  BY DEF LineRounded, h
<1> HIDE DEF p, q
<1>5. t + h \in Nat /\ c + h \in Nat /\ t + h <= c + h
  BY <1>2
<1>6. Grain * p <= Grain * q
  BY <1>1, <1>3, <1>5, DivMonotone
<1>7. Grain * p \in Nat /\ Grain * q \in Nat
  BY <1>1, <1>3
<1>8. QED
  BY <1>1, <1>2, <1>3, <1>4, <1>6, <1>7

\* The last nibble went out at the time t.
SentAt(t) ==
  /\ systickStartValue = LineRounded(t)
  /\ since = clock - t \/ (since = Longest /\ clock - t >= Longest)

\* Why a turn that finds the operation due has waited for it.
TimeInv ==
  /\ owed # 0 /\ ~forgot => \E t \in 0..clock : SentAt(t)
  /\ internalOp = "high" => since + Grain > owed \/ forgot
  /\ internalOp = "low" => owed = currentOp.delay
  /\ internalOp = "ready" => owed = currentOp.delay \/ owed = 0 \/ forgot

\* When an operation is due, the time of the last one has passed or the clock was lost.
LEMMA DueWaited ==
  ASSUME LcdInv, TimeInv, Due, owed = currentOp.delay \/ owed = 0 \/ forgot
  PROVE  since + Grain > owed \/ forgot
<1>1. Grain \in Nat /\ Grain > 0 /\ since \in Nat /\ owed \in Nat /\ owed <= Longest /\ Longest \in Nat
      /\ clock \in Nat
  BY ClockAssumption, LongestType, DelayTypes DEF LcdInv, RestOK
<1>2. CASE owed = 0 \/ forgot
  BY <1>1, <1>2
<1>3. CASE owed # 0 /\ ~forgot /\ owed = currentOp.delay
  <2>1. PICK t \in 0..clock : SentAt(t)
    BY <1>3 DEF TimeInv
  <2>2. t \in Nat /\ t <= clock
    BY <1>1
  <2>3. /\ LineRounded(t) \in Nat /\ LineRounded(clock) \in Nat /\ LineRounded(t) <= LineRounded(clock)
        /\ LineRounded(clock) - LineRounded(t) < clock - t + Grain
    BY <2>2, <1>1, RoundedLaw
  <2>4. getUS = LineRounded(clock) /\ systickStartValue = LineRounded(t)
    BY <2>1 DEF getUS, LineRounded, SentAt
  <2>5. getElapseMicroSecondsSince(systickStartValue) = LineRounded(clock) - LineRounded(t)
    <3> HIDE DEF LineRounded
    <3>1. QED
      BY <2>3, <2>4 DEF getElapseMicroSecondsSince
  <2>6. LineRounded(clock) - LineRounded(t) >= owed
    BY <1>3, <2>5 DEF Due
  <2>7. clock - t + Grain > owed
    <3> HIDE DEF LineRounded
    <3>1. QED
      BY <2>3, <2>6, <2>2, <1>1
  <2>8. QED
    BY <2>1, <2>7, <2>2, <1>1 DEF SentAt
<1>4. QED
  BY <1>2, <1>3

\* TimeInv is inductive relative to LcdInv.
LEMMA TimeStep == LcdInv /\ TimeInv /\ [LcdNext]_lcdVars => TimeInv'
<1> SUFFICES ASSUME LcdInv, TimeInv, [LcdNext]_lcdVars PROVE TimeInv'
  OBVIOUS
<1> USE DEF timeVars, driverVars
<1>0. \A t : UNCHANGED <<clock, since, systickStartValue>> => (SentAt(t)' <=> SentAt(t))
  BY DEF SentAt, LineRounded, Longest, Delays
<1>1. CASE ReadyForNewOp
  <2>1. since + Grain > owed \/ forgot
    BY <1>1, DueWaited DEF ReadyForNewOp, TimeInv
  <2>2. internalOp' = "high" /\ UNCHANGED <<clock, since, owed, forgot, systickStartValue>>
    BY <1>1 DEF ReadyForNewOp
  <2>3. QED
    BY <1>0, <2>1, <2>2 DEF TimeInv
<1>2. ASSUME NEW part, NEW next \in {"ready", "low"}, WriteNibble(part, next) PROVE TimeInv'
  <2>1. /\ systickStartValue' = getUS /\ since' = 0 /\ forgot' = FALSE
        /\ owed' = currentOp.delay /\ currentOp' = currentOp /\ clock' = clock
        /\ internalOp' = next
    BY <1>2 DEF WriteNibble
  <2>2. clock \in Nat
    BY ClockAssumption DEF LcdInv, RestOK
  <2>3. \E t \in 0..clock' : SentAt(t)'
    <3>1. PICK t \in Nat : t = clock
      BY <2>2
    <3>2. SentAt(t)'
      BY <2>1, <2>2, <3>1 DEF SentAt, getUS, LineRounded
    <3>3. t \in 0..clock'
      BY <3>1, <2>1, <2>2
    <3>4. QED
      BY <3>2, <3>3
  <2>4. QED
    BY <2>1, <2>3 DEF TimeInv
<1>3. CASE putInLCDRingBuffer
  BY <1>0, <1>3 DEF putInLCDRingBuffer, TimeInv
<1>4. CASE Tick
  <2>1. /\ UNCHANGED <<systickStartValue, owed, currentOp, internalOp>>
        /\ forgot' = (forgot \/ clock + 1 = ClockWrap)
        /\ since' = IF since < Longest THEN since + 1 ELSE since
        /\ clock' = IF clock + 1 = ClockWrap THEN 0 ELSE clock + 1
    BY <1>4 DEF Tick
  <2>2. clock \in Nat /\ since \in 0..Longest /\ Longest \in Nat /\ Grain \in Nat /\ owed \in Nat
    BY ClockAssumption, LongestType, DelayTypes DEF LcdInv, RestOK
  <2>3. ASSUME owed # 0, ~forgot' PROVE \E t \in 0..clock' : SentAt(t)'
    <3>1. PICK t \in 0..clock : SentAt(t)
      BY Zenon, <2>1, <2>3 DEF TimeInv
    <3>2. clock' = clock + 1
      BY Zenon, <2>1, <2>3
    <3>3. t \in 0..clock' /\ t \in Nat /\ t <= clock
      BY <2>2, <3>2
    <3>4. Longest' = Longest
      BY DEF Longest, Delays
    <3>5. SentAt(t)'
      BY <2>1, <2>2, <3>1, <3>2, <3>3, <3>4 DEF SentAt, LineRounded
    <3>6. QED
      BY <3>3, <3>5
  <2>4. since + Grain > owed => since' + Grain > owed
    BY <2>1, <2>2
  <2>5. QED
    BY Zenon, <2>1, <2>3, <2>4 DEF TimeInv
<1>5. CASE (\E line \in Lines : PrintLine(line)) \/ WriteLCDCommand
  <2>1. UNCHANGED <<driverVars, timeVars>>
    BY <1>5 DEF PrintLine, WriteLCDCommand
  <2>2. QED
    BY <1>0, <2>1 DEF TimeInv
<1>6. ASSUME NEW on \in BOOLEAN, NEW custom \in BOOLEAN, assertInitLCD(on, custom) PROVE TimeInv'
  <2>1. internalOp' = "ready" /\ forgot' = (on /\ lcdEnable)
        /\ owed' = IF on /\ lcdEnable THEN owed ELSE 0
    BY <1>6 DEF assertInitLCD, LCDRingBufferInit
  <2>2. CASE on /\ lcdEnable
    <3>1. forgot' = TRUE
      BY Zenon, <2>1, <2>2
    <3>2. QED
      BY <2>1, <3>1 DEF TimeInv
  <2>3. CASE ~(on /\ lcdEnable)
    BY <2>1, <2>3 DEF TimeInv
  <2>4. QED
    BY <2>2, <2>3
<1>7. CASE UNCHANGED lcdVars
  BY <1>0, <1>7 DEF lcdVars, TimeInv
<1>8. QED
  BY <1>1, <1>2, <1>3, <1>4, <1>5, <1>6, <1>7
     DEF LcdNext, updateLCDRingBuffer, WriteHighNibble, WriteLowNibble

\* Whatever prints, resets and turns of the loop interleave, no nibble is
\* written before the delay of the last one has passed, to within the
\* rounding of getUS, unless the clock wrapped or the queue was reset.
THEOREM NibblesOnTime == LcdSpec => DelaysKept
<1>1. LcdInit => TimeInv
  BY DEF LcdInit, TimeInv, ZeroOp
<1>2. LcdInv /\ TimeInv /\ [LcdNext]_lcdVars
      => [WriteHighNibble \/ WriteLowNibble => since + Grain > owed \/ forgot]_lcdVars
  <2> SUFFICES ASSUME LcdInv, TimeInv, WriteHighNibble \/ WriteLowNibble
               PROVE  since + Grain > owed \/ forgot
    OBVIOUS
  <2>1. CASE WriteHighNibble
    BY <2>1 DEF WriteHighNibble, WriteNibble, TimeInv
  <2>2. CASE WriteLowNibble
    <3>1. Due /\ owed = currentOp.delay
      BY <2>2 DEF WriteLowNibble, WriteNibble, TimeInv
    <3>2. QED
      BY <3>1, DueWaited
  <2>3. QED
    BY <2>1, <2>2
<1>3. QED
  BY <1>1, <1>2, TimeStep, LcdInvariance, PTL DEF LcdSpec, DelaysKept

(****************************************************************************)
(* The texts on the display.                                                *)

Kind(op, is) == op.data.is = is
Plain(op) == ~Kind(op, "33") /\ ~Kind(op, "32")
OnLine(op) == Kind(op, "pos") \/ Kind(op, "chr")
Proper(op) == op.rs = Kind(op, "chr")
Follows(op, prev) == Kind(op, "chr") => OnLine(prev) /\ prev.data.line = op.data.line

AllProper(s) == \A i \in 1..Len(s) : Proper(s[i])
Linked(s) == \A i \in 2..Len(s) : Follows(s[i], s[i - 1])
PlainFrom(s, n) == \A i \in n..Len(s) : Plain(s[i])

\* c was taken from the queue last, q is the queue, p what a print has still to put.
Chained(c, q, p) ==
  /\ Linked(q) /\ Linked(p)
  /\ Len(q) > 0 => Follows(q[1], c)
  /\ Len(p) > 0 /\ Len(q) = 0 => ~Kind(p[1], "chr")
  /\ Len(p) > 0 /\ Len(q) > 0 /\ Len(q) < Slots => Follows(p[1], q[Len(q)])

\* Ahead of the display are both, one or none of 0x33 and 0x32.
BothAhead(q, p) ==
  \/ /\ Len(q) = 0 /\ Len(p) >= 2 /\ Kind(p[1], "33") /\ Kind(p[2], "32") /\ PlainFrom(p, 3)
  \/ /\ Len(q) = 1 /\ Kind(q[1], "33") /\ Len(p) >= 1 /\ Kind(p[1], "32") /\ PlainFrom(p, 2)
  \/ /\ Len(q) >= 2 /\ Kind(q[1], "33") /\ Kind(q[2], "32") /\ PlainFrom(q, 3) /\ PlainFrom(p, 1)
OneAhead(q, p) == Len(q) >= 1 /\ Kind(q[1], "32") /\ PlainFrom(q, 2) /\ PlainFrom(p, 1)
NoneAhead(q, p) == PlainFrom(q, 1) /\ PlainFrom(p, 1)

\* A print puts its next operation, or drops it.
LEMMA PutKeepsText ==
  ASSUME NEW c, NEW q \in Seq(Ops), NEW p \in Seq(Ops), NEW q2, NEW p2, Len(p) > 0, Len(q) <= Slots,
         q2 = (IF Len(q) < Slots THEN Append(q, p[1]) ELSE q), p2 = Tail(p)
  PROVE  /\ AllProper(q) /\ AllProper(p) => AllProper(q2) /\ AllProper(p2)
         /\ Chained(c, q, p) => Chained(c, q2, p2)
         /\ BothAhead(q, p) => BothAhead(q2, p2)
         /\ OneAhead(q, p) => OneAhead(q2, p2)
         /\ NoneAhead(q, p) => NoneAhead(q2, p2)
<1>1. /\ Len(p) \in Nat /\ Len(q) \in Nat /\ Slots \in Nat /\ Slots >= 4
      /\ Len(p2) = Len(p) - 1 /\ \A i \in 1..Len(p2) : p2[i] = p[i + 1]
  BY SlotsAssumption, HeadTailProperties
<1>2. CASE Len(q) < Slots
  <2>1. Len(q2) = Len(q) + 1 /\ q2[Len(q) + 1] = p[1] /\ \A i \in 1..Len(q) : q2[i] = q[i]
    BY <1>2, <1>1, AppendProperties
  <2>2. AllProper(q) /\ AllProper(p) => AllProper(q2) /\ AllProper(p2)
    BY <1>1, <2>1 DEF AllProper
  <2>3. Linked(p) => Linked(p2)
    BY <1>1 DEF Linked
  <2>4. Chained(c, q, p) => Linked(q2)
    BY <1>1, <1>2, <2>1 DEF Chained, Linked, Follows
  <2>5. Chained(c, q, p) => Chained(c, q2, p2)
    <3>1. Linked(p) /\ Len(p2) > 0 => Follows(p2[1], p[1])
      BY <1>1 DEF Linked
    <3>2. Chained(c, q, p) => Follows(q2[1], c)
      BY <1>1, <1>2, <2>1 DEF Chained, Follows
    <3>3. QED
      BY <1>1, <2>1, <2>3, <2>4, <3>1, <3>2 DEF Chained
  <2>6. PlainFrom(p, 3) => PlainFrom(p2, 2)
    BY <1>1 DEF PlainFrom
  <2>7. PlainFrom(p, 2) => PlainFrom(p2, 1)
    BY <1>1 DEF PlainFrom
  <2>8. ASSUME PlainFrom(p, 1) PROVE PlainFrom(p2, 1) /\ \A n \in 1..3 : PlainFrom(q, n) => PlainFrom(q2, n)
    BY <1>1, <2>1, <2>8 DEF PlainFrom
  <2>9. BothAhead(q, p) => BothAhead(q2, p2)
    <3>1. CASE /\ Len(q) = 0 /\ Len(p) >= 2 /\ Kind(p[1], "33") /\ Kind(p[2], "32") /\ PlainFrom(p, 3)
      BY <1>1, <2>1, <2>6, <3>1 DEF BothAhead
    <3>2. CASE /\ Len(q) = 1 /\ Kind(q[1], "33") /\ Len(p) >= 1 /\ Kind(p[1], "32") /\ PlainFrom(p, 2)
      <4>1. PlainFrom(q2, 3)
        <5>1. Len(q2) = 2
          BY <2>1, <3>2
        <5>2. QED
          BY <5>1 DEF PlainFrom
      <4>2. QED
        BY <1>1, <2>1, <2>7, <3>2, <4>1 DEF BothAhead
    <3>3. CASE /\ Len(q) >= 2 /\ Kind(q[1], "33") /\ Kind(q[2], "32") /\ PlainFrom(q, 3) /\ PlainFrom(p, 1)
      BY <1>1, <2>1, <2>8, <3>3 DEF BothAhead
    <3>4. QED
      BY Zenon, <3>1, <3>2, <3>3 DEF BothAhead
  <2>10. OneAhead(q, p) => OneAhead(q2, p2)
    BY <1>1, <2>1, <2>8 DEF OneAhead
  <2>11. NoneAhead(q, p) => NoneAhead(q2, p2)
    BY <2>8 DEF NoneAhead
  <2>12. QED
    BY <2>2, <2>5, <2>9, <2>10, <2>11
<1>3. CASE Len(q) = Slots
  <2>1. q2 = q
    BY <1>1, <1>3
  <2>2. AllProper(p) => AllProper(p2)
    BY <1>1 DEF AllProper
  <2>3. Linked(p) => Linked(p2)
    BY <1>1 DEF Linked
  <2>4. PlainFrom(p, 1) => PlainFrom(p2, 1)
    BY <1>1 DEF PlainFrom
  <2>5. Chained(c, q, p) => Chained(c, q, p2)
    BY <1>1, <1>3, <2>3 DEF Chained
  <2>6. QED
    BY <1>1, <1>3, <2>1, <2>2, <2>4, <2>5 DEF BothAhead, OneAhead, NoneAhead
<1>4. QED
  BY <1>1, <1>2, <1>3

\* The driver takes an operation, which it does only when no print is under way.
LEMMA TakeKeepsText ==
  ASSUME NEW c, NEW q \in Seq(Ops), NEW p, Len(p) = 0, Len(q) > 0, NEW q2, q2 = Tail(q)
  PROVE  /\ AllProper(q) => AllProper(q2) /\ Proper(q[1])
         /\ Chained(c, q, p) => Chained(q[1], q2, p) /\ Follows(q[1], c)
         /\ BothAhead(q, p) => Kind(q[1], "33") /\ OneAhead(q2, p)
         /\ OneAhead(q, p) => Kind(q[1], "32") /\ NoneAhead(q2, p)
         /\ NoneAhead(q, p) => Plain(q[1]) /\ NoneAhead(q2, p)
<1>1. /\ Len(q) \in Nat /\ Len(q2) = Len(q) - 1 /\ \A i \in 1..Len(q2) : q2[i] = q[i + 1]
  BY HeadTailProperties
<1>2. AllProper(q) => AllProper(q2) /\ Proper(q[1])
  BY <1>1 DEF AllProper
<1>3. Linked(q) => Linked(q2)
  BY <1>1 DEF Linked
<1>4. Chained(c, q, p) => Chained(q[1], q2, p) /\ Follows(q[1], c)
  BY <1>1, <1>3 DEF Chained, Linked
<1>5. PlainFrom(p, 1)
  BY DEF PlainFrom
<1>6. \A n \in 1..2 : PlainFrom(q, n + 1) => PlainFrom(q2, n)
  BY <1>1 DEF PlainFrom
<1>7. PlainFrom(q, 1) => PlainFrom(q, 2) /\ Plain(q[1])
  BY <1>1 DEF PlainFrom
<1>8. BothAhead(q, p) => Kind(q[1], "33") /\ OneAhead(q2, p)
  BY <1>1, <1>5, <1>6 DEF BothAhead, OneAhead
<1>9. QED
  BY <1>2, <1>4, <1>5, <1>6, <1>7, <1>8 DEF OneAhead, NoneAhead
\* What a print that may follow anything looks like.
GoodText(s) ==
  /\ s \in Seq(Ops) /\ AllProper(s) /\ Linked(s) /\ PlainFrom(s, 1)
  /\ Len(s) > 0 => ~Kind(s[1], "chr")

\* What the operations of a text are.
LEMMA OpKinds ==
  /\ \A is \in {"33", "32", "set", "cmd"} : Proper(Command(is)) /\ Kind(Command(is), is)
  /\ \A line \in Lines :
       /\ Proper(WriteLCDSetPos(line)) /\ Kind(WriteLCDSetPos(line), "pos")
       /\ WriteLCDSetPos(line).data.line = line
       /\ Proper(Character(line)) /\ Kind(Character(line), "chr")
       /\ Character(line).data.line = line
BY Zenon DEF Proper, Kind, Command, WriteLCDSetPos, Character

\* Two sequences of operations, one behind the other.
LEMMA Joined ==
  ASSUME NEW a \in Seq(Ops), NEW b \in Seq(Ops)
  PROVE  /\ a \o b \in Seq(Ops) /\ Len(b) \in Nat /\ Len(a \o b) = Len(a) + Len(b)
         /\ \A i \in 1..Len(a) : (a \o b)[i] = a[i]
         /\ \A i \in Len(a) + 1..Len(a) + Len(b) : (a \o b)[i] = b[i - Len(a)]
<1>1. /\ a \o b \in Seq(Ops) /\ Len(a \o b) = Len(a) + Len(b)
      /\ \A i \in 1..Len(a) + Len(b) : (a \o b)[i] = IF i <= Len(a) THEN a[i] ELSE b[i - Len(a)]
  BY Zenon, ConcatProperties
<1>2. Len(a) \in Nat /\ Len(b) \in Nat
  OBVIOUS
<1>3. QED
  BY <1>1, <1>2

\* A line of text, and each of its operations.
LEMMA LineText ==
  ASSUME NEW line \in Lines
  PROVE  /\ GoodText(WriteLCDLine(line)) /\ Len(WriteLCDLine(line)) = LineSize + 1
         /\ \A i \in 1..LineSize + 1 :
              /\ WriteLCDLine(line)[i] \in Ops /\ Proper(WriteLCDLine(line)[i]) /\ Plain(WriteLCDLine(line)[i])
              /\ WriteLCDLine(line)[i].data.line = line /\ OnLine(WriteLCDLine(line)[i])
         /\ Kind(WriteLCDLine(line)[1], "pos")
<1> DEFINE s == WriteLCDLine(line)
<1>1. /\ s \in Seq(Ops) /\ Len(s) = LineSize + 1 /\ s[1] = WriteLCDSetPos(line)
      /\ \A i \in 2..LineSize + 1 : s[i] = Character(line)
  BY TextType
<1> HIDE DEF s
<1>2. \A i \in 1..LineSize + 1 : s[i] = WriteLCDSetPos(line) \/ s[i] = Character(line)
  BY <1>1, TextAssumption
<1>3. \A i \in 1..LineSize + 1 : /\ s[i] \in Ops /\ Proper(s[i]) /\ Plain(s[i])
                                 /\ s[i].data.line = line /\ OnLine(s[i])
  BY <1>2, OpKinds, OpTypes DEF Plain, OnLine, Kind
<1>4. Kind(s[1], "pos") /\ ~Kind(s[1], "chr")
  BY <1>1, OpKinds DEF Kind
<1>5. AllProper(s) /\ PlainFrom(s, 1)
  BY <1>1, <1>3 DEF AllProper, PlainFrom
<1>6. Linked(s)
  <2> SUFFICES ASSUME NEW i \in 2..LineSize + 1 PROVE Follows(s[i], s[i - 1])
    BY <1>1 DEF Linked
  <2>1. i \in 1..LineSize + 1 /\ i - 1 \in 1..LineSize + 1
    BY TextAssumption
  <2>2. QED
    BY <2>1, <1>3 DEF Follows
<1>7. QED
  BY <1>1, <1>3, <1>4, <1>5, <1>6 DEF GoodText, s

\* In the custom text an operation begins a line or belongs to the line of the one before.
LEMMA SameLine ==
  ASSUME NEW i \in Nat, i >= 2, NEW w \in Nat, w > 0, (i - 1) % w # 0
  PROVE  (i - 2) \div w = (i - 1) \div w
<1> DEFINE q == (i - 1) \div w
           r == (i - 1) % w
           o == (i - 2) \div w
<1>1. q \in Nat /\ r \in 1..w - 1 /\ i - 1 = w * q + r
  BY SMT
<1>2. o \in Nat /\ w * o <= i - 2 /\ i - 2 < w * o + w
  BY QuotientBounds
<1> HIDE DEF q, r, o
<1>3. w * q <= i - 2 /\ i - 2 < w * q + w
  BY <1>1, SMT
<1>4. ~(o < q)
  <2> SUFFICES ASSUME o < q PROVE FALSE
    OBVIOUS
  <2>1. w * (o + 1) <= w * q
    BY <1>1, <1>2, SMT
  <2>2. w * (o + 1) = w * o + w
    BY <1>2, SMT
  <2>3. QED
    BY <1>1, <1>2, <1>3, <2>1, <2>2, SMT
<1>5. ~(q < o)
  <2> SUFFICES ASSUME q < o PROVE FALSE
    OBVIOUS
  <2>1. w * (q + 1) <= w * o
    BY <1>1, <1>2, SMT
  <2>2. w * (q + 1) = w * q + w
    BY <1>1, SMT
  <2>3. QED
    BY <1>1, <1>2, <1>3, <2>1, <2>2, SMT
<1>6. QED
  BY <1>1, <1>2, <1>4, <1>5 DEF q, o

\* The text that is printed when the display is switched on.
LEMMA InitialText ==
  ASSUME NEW custom \in BOOLEAN
  PROVE  GoodText(initialLCDPrint(custom))
<1> DEFINE s == initialLCDPrint(custom)
<1>1. CASE custom = TRUE
  <2> DEFINE n == nbLines * (LineSize + 1)
             w == LineSize + 1
             l(i) == ((i - 1) \div w) + 1
             k(i) == ((i - 1) % w) + 1
             at(i) == WriteLCDLine(l(i))[k(i)]
  <2>1. n \in Nat /\ w \in Nat /\ w > 0
    BY TextAssumption
  <2>2. \A i \in 1..n : l(i) \in Lines /\ k(i) \in 1..LineSize + 1
    BY CustomText
  <2>3. s = [i \in 1..n |-> at(i)]
    BY <1>1 DEF initialLCDPrint
  <2> HIDE DEF n, s
  <2>4. \A i \in 1..n : /\ s[i] \in Ops /\ Proper(s[i]) /\ Plain(s[i]) /\ OnLine(s[i])
                        /\ s[i].data.line = l(i) /\ (k(i) = 1 => Kind(s[i], "pos"))
    <3> TAKE i \in 1..n
    <3>1. s[i] = WriteLCDLine(l(i))[k(i)] /\ l(i) \in Lines /\ k(i) \in 1..LineSize + 1
      BY <2>2, <2>3
    <3> HIDE DEF l, k
    <3>2. QED
      BY <3>1, LineText
  <2>5. s \in Seq(Ops) /\ Len(s) = n
    <3>1. \A i \in 1..n : at(i) \in Ops
      BY <2>3, <2>4
    <3> HIDE DEF at
    <3>2. QED
      BY <2>1, <2>3, <3>1
  <2>6. ASSUME NEW i \in 2..n PROVE Follows(s[i], s[i - 1])
    <3>1. i \in 1..n /\ i - 1 \in 1..n
      BY <2>1
    <3>2. CASE (i - 1) % w = 0
      BY <2>4, <3>1, <3>2 DEF Follows, Kind
    <3>3. CASE (i - 1) % w # 0
      <4>1. (i - 2) \div w = (i - 1) \div w
        BY <2>1, <3>1, <3>3, SameLine
      <4>2. l(i - 1) = l(i)
        BY <2>1, <3>1, <4>1
      <4> HIDE DEF l, k
      <4>3. QED
        BY <2>4, <3>1, <4>2 DEF Follows
    <3>4. QED
      BY <3>2, <3>3
  <2>7. n > 0 => ~Kind(s[1], "chr")
    <3>1. n > 0 => 1 \in 1..n /\ k(1) = 1
      BY <2>1
    <3>2. QED
      BY <2>4, <3>1 DEF Kind
  <2>8. QED
    BY <2>1, <2>4, <2>5, <2>6, <2>7 DEF GoodText, AllProper, Linked, PlainFrom, s
<1>2. CASE custom = FALSE
  <2> DEFINE a == <<Command("cmd")>>
             b == WriteLCDLine(1)
  <2>1. a \in Seq(Ops) /\ Len(a) = 1 /\ a[1] = Command("cmd")
    BY OpTypes
  <2>2. 1 \in Lines
    BY TextAssumption DEF Lines
  <2>3. GoodText(b) /\ Len(b) = LineSize + 1 /\ LineSize \in Nat
    BY <2>2, LineText, TextAssumption
  <2>4. s = a \o b
    BY <1>2 DEF initialLCDPrint
  <2> HIDE DEF a, b
  <2>5. /\ s \in Seq(Ops) /\ Len(s) = LineSize + 2
        /\ s[1] = Command("cmd") /\ \A i \in 2..LineSize + 2 : s[i] = b[i - 1]
    <3>1. b \in Seq(Ops)
      BY <2>3 DEF GoodText
    <3>2. QED
      <4>1. /\ a \o b \in Seq(Ops) /\ Len(a \o b) = Len(a) + Len(b)
            /\ \A i \in 1..Len(a) : (a \o b)[i] = a[i]
            /\ \A i \in Len(a) + 1..Len(a) + Len(b) : (a \o b)[i] = b[i - Len(a)]
        BY Zenon, <2>1, <3>1, Joined
      <4> HIDE DEF s
      <4>2. QED
        BY <2>1, <2>3, <2>4, <4>1
  <2>6. Proper(s[1]) /\ Plain(s[1]) /\ ~Kind(s[1], "chr")
    BY <2>5, OpKinds DEF Plain, Kind
  <2>7. AllProper(b) /\ Linked(b) /\ PlainFrom(b, 1) /\ ~Kind(b[1], "chr")
    BY <2>3 DEF GoodText
  <2>8. AllProper(s) /\ PlainFrom(s, 1)
    BY <2>3, <2>5, <2>6, <2>7 DEF AllProper, PlainFrom
  <2>9. Linked(s)
    <3> SUFFICES ASSUME NEW i \in 2..LineSize + 2 PROVE Follows(s[i], s[i - 1])
      BY <2>5 DEF Linked
    <3>1. CASE i = 2
      BY <2>5, <2>7, <3>1 DEF Follows
    <3>2. CASE i > 2
      BY <2>3, <2>5, <2>7, <3>2 DEF Linked
    <3>3. QED
      BY <3>1, <3>2
  <2>10. QED
    BY <2>5, <2>6, <2>8, <2>9 DEF GoodText
<1>3. QED
  BY Zenon, <1>1, <1>2

\* 0x33, 0x32, two more commands and a text behind them.
LEMMA BootShape ==
  ASSUME NEW a, NEW s, NEW t, NEW n \in Nat, Len(s) = n, Len(t) = 4 + n,
         \A i \in 1..4 : t[i] = a[i], \A i \in 5..4 + n : t[i] = s[i - 4],
         Kind(a[1], "33"), Kind(a[2], "32"), Kind(a[3], "set"), Kind(a[4], "cmd"),
         \A i \in 1..4 : Proper(a[i]),
         AllProper(s), Linked(s), PlainFrom(s, 1), n > 0 => ~Kind(s[1], "chr")
  PROVE  AllProper(t) /\ Linked(t) /\ PlainFrom(t, 3) /\ Kind(t[1], "33") /\ Kind(t[2], "32")
<1>1. Kind(t[1], "33") /\ Kind(t[2], "32") /\ Kind(t[3], "set") /\ Kind(t[4], "cmd")
  OBVIOUS
<1>2. \A i \in 5..4 + n : i - 4 \in 1..n
  OBVIOUS
<1>3. AllProper(t)
  BY <1>2 DEF AllProper
<1>4. PlainFrom(t, 3)
  BY <1>1, <1>2 DEF PlainFrom, Plain, Kind
<1>5. Linked(t)
  <2> SUFFICES ASSUME NEW i \in 2..4 + n PROVE Follows(t[i], t[i - 1])
    BY DEF Linked
  <2>1. CASE i <= 4
    <3>1. i \in {2, 3, 4}
      BY <2>1
    <3>2. ~Kind(t[i], "chr")
      BY Zenon, <1>1, <3>1 DEF Kind
    <3>3. QED
      BY Zenon, <3>2 DEF Follows
  <2>2. CASE i = 5
    BY <1>2, <2>2 DEF Follows
  <2>3. CASE i > 5
    <3>1. t[i] = s[i - 4] /\ t[i - 1] = s[i - 4 - 1] /\ i - 4 \in 2..n
      BY <2>3
    <3>2. QED
      BY <3>1 DEF Linked
  <2>4. QED
    BY <2>1, <2>2, <2>3
<1>6. QED
  BY <1>1, <1>3, <1>4, <1>5

\* Switching the display on queues 0x33 and 0x32 ahead of everything else.
LEMMA BootText ==
  ASSUME NEW custom \in BOOLEAN, NEW c
  PROVE  LET t == WriteLCDInit \o initialLCDPrint(custom)
         IN  AllProper(t) /\ Chained(c, <<>>, t) /\ BothAhead(<<>>, t)
<1>1. PICK s : s = initialLCDPrint(custom)
  OBVIOUS
<1>2. PICK a : a = WriteLCDInit
  OBVIOUS
<1>3. PICK t : t = a \o s
  BY Zenon
<1>4. /\ s \in Seq(Ops) /\ AllProper(s) /\ Linked(s) /\ PlainFrom(s, 1)
      /\ Len(s) > 0 => ~Kind(s[1], "chr")
  BY <1>1, InitialText DEF GoodText
<1>5. /\ Len(a) = 4 /\ Kind(a[1], "33") /\ Kind(a[2], "32") /\ Kind(a[3], "set") /\ Kind(a[4], "cmd")
      /\ Proper(a[1]) /\ Proper(a[2]) /\ Proper(a[3]) /\ Proper(a[4])
  BY Zenon, <1>2 DEF WriteLCDInit, Kind, Proper, Command
<1>6. a \in Seq(Ops)
  BY <1>2, OpTypes, DelayTypes DEF WriteLCDInit, Ops, Bytes
<1>7. /\ Len(s) \in Nat /\ Len(t) = 4 + Len(s)
      /\ \A i \in 1..4 : t[i] = a[i]
      /\ \A i \in 5..Len(t) : t[i] = s[i - 4]
  <2>1. /\ a \o s \in Seq(Ops) /\ Len(s) \in Nat /\ Len(a \o s) = Len(a) + Len(s)
        /\ \A i \in 1..Len(a) : (a \o s)[i] = a[i]
        /\ \A i \in Len(a) + 1..Len(a) + Len(s) : (a \o s)[i] = s[i - Len(a)]
    BY Zenon, <1>4, <1>6, Joined
  <2>2. Len(a) = 4
    BY Zenon, <1>5
  <2>3. QED
    BY <1>3, <2>1, <2>2
<1>8. AllProper(t) /\ Linked(t) /\ PlainFrom(t, 3) /\ Kind(t[1], "33") /\ Kind(t[2], "32")
  <2>1. /\ \A i \in 5..4 + Len(s) : t[i] = s[i - 4]
        /\ \A i \in 1..4 : Proper(a[i])
    BY <1>5, <1>7
  <2>2. QED
    BY <1>4, <1>5, <1>7, <2>1, BootShape
<1>9. Len(<<>>) = 0 /\ ~Kind(t[1], "chr") /\ Len(t) >= 2
  BY <1>7, <1>8 DEF Kind
<1>10. Linked(<<>>)
  BY DEF Linked
<1>11. AllProper(t) /\ Chained(c, <<>>, t) /\ BothAhead(<<>>, t)
  BY <1>8, <1>9, <1>10 DEF Chained, BothAhead
<1>12. QED
  BY <1>1, <1>2, <1>3, <1>11
\* What the display has made of the nibbles so far. Until 0x33 and 0x32 have passed it
\* may take them for commands of four bits or for either half of a byte; from then on
\* it is in step, and the cursor is where the last operation put it.
Wide == display.bits = 8 /\ display.half = None
Early ==
  /\ Kind(currentOp, "33")
  /\ internalOp = "low" => display.half \in {None, "3"}
  /\ internalOp = "ready" => Wide \/ display.half = "3"
Late ==
  \/ internalOp = "high" /\ Kind(currentOp, "32") /\ (Wide \/ display.half = "3")
  \/ internalOp = "low" /\ Kind(currentOp, "32") /\ Wide
  \/ /\ internalOp = "ready" /\ display.bits = 4 /\ display.half = None
     /\ OnLine(currentOp) => display.line = currentOp.data.line
  \/ /\ internalOp # "ready" /\ Plain(currentOp) /\ display.bits = 4
     /\ display.half = IF internalOp = "high" THEN None ELSE Nibble(currentOp.data, "high")
     /\ Kind(currentOp, "chr") => display.line = currentOp.data.line
Stage ==
  \/ internalOp = "ready" /\ BothAhead(Queued, putting)
  \/ Early /\ OneAhead(Queued, putting)
  \/ Late /\ NoneAhead(Queued, putting)

TextInv ==
  /\ Proper(currentOp) /\ AllProper(Queued) /\ AllProper(putting)
  /\ display.bits = 8 => display.half = None
  /\ ~lcdEnable => Len(Queued) = 0 /\ Len(putting) = 0 /\ internalOp = "ready"
  /\ lcdEnable /\ ~dropped => Chained(currentOp, Queued, putting) /\ Stage

\* The types that the steps below use.
LEMMA TextTypes ==
  ASSUME LcdInv
  PROVE  /\ Queued \in Seq(Ops) /\ putting \in Seq(Ops) /\ currentOp \in Ops
         /\ lcdEnable \in BOOLEAN /\ dropped \in BOOLEAN /\ internalOp \in {"ready", "high", "low"}
         /\ Len(Queued) \in Nat /\ Len(Queued) <= Slots /\ Len(putting) \in Nat
         /\ display.bits \in {4, 8}
<1>1. /\ Queued \in Seq(Ops) /\ putting \in Seq(Ops) /\ currentOp \in Ops
      /\ lcdEnable \in BOOLEAN /\ dropped \in BOOLEAN /\ internalOp \in {"ready", "high", "low"}
      /\ display \in [bits : {4, 8}, half : Nibbles \cup {None}, line : Lines \cup {0}]
  BY DEF LcdInv, RestOK
<1>2. Len(Queued) = Count /\ Count \in 0..Slots
  BY QueuedLength, CountFacts DEF LcdInv
<1>3. Len(Queued) \in Nat /\ Len(Queued) <= Slots
  BY <1>2, SlotsAssumption
<1>4. display.bits \in {4, 8}
  BY <1>1
<1>5. Len(putting) \in Nat
  BY <1>1
<1>6. QED
  BY <1>1, <1>3, <1>4, <1>5

\* Nothing has been printed on a display that is off.
LEMMA TextInitially == LcdInit => TextInv
<1> SUFFICES ASSUME LcdInit PROVE TextInv
  OBVIOUS
<1>1. inPos = 0 /\ outPos = 0 /\ rollOver = FALSE
  BY DEF LcdInit
<1>2. Count = 0
  BY <1>1 DEF Count
<1>3. Len(Queued) = 0 /\ Len(putting) = 0
  BY <1>2 DEF Queued, LcdInit
<1>4. Proper(currentOp) /\ display.bits = 8 /\ display.half = None
  BY Zenon DEF LcdInit, ZeroOp, PowerOn, Proper, Kind
<1>5. lcdEnable = FALSE /\ internalOp = "ready"
  BY DEF LcdInit
<1>6. QED
  BY <1>3, <1>4, <1>5 DEF TextInv, AllProper

\* The driver takes the next operation from the ring.
LEMMA TextReady ==
  ASSUME LcdInv, TextInv, ReadyForNewOp
  PROVE  TextInv'
<1>1. /\ Queued \in Seq(Ops) /\ Len(Queued) \in Nat
  BY TextTypes
<1>2. /\ putting = <<>> /\ putting' = putting /\ lcdEnable' = lcdEnable /\ lcdEnable /\ dropped' = dropped
      /\ display' = display /\ internalOp = "ready" /\ internalOp' = "high"
  BY DEF ReadyForNewOp, Turn
<1>3. Queued # <<>> /\ currentOp' = Head(Queued) /\ Queued' = Tail(Queued)
  BY ReadyStep DEF Fifo!Take
<1>4. Len(putting) = 0 /\ Len(Queued) > 0 /\ currentOp' = Queued[1]
  BY <1>1, <1>2, <1>3
<1>5. /\ AllProper(Queued) => AllProper(Queued') /\ Proper(currentOp')
      /\ Chained(currentOp, Queued, putting) =>
           Chained(currentOp', Queued', putting') /\ Follows(currentOp', currentOp)
      /\ BothAhead(Queued, putting) => Kind(currentOp', "33") /\ OneAhead(Queued', putting')
      /\ OneAhead(Queued, putting) => Kind(currentOp', "32") /\ NoneAhead(Queued', putting')
      /\ NoneAhead(Queued, putting) => Plain(currentOp') /\ NoneAhead(Queued', putting')
  <2>1. /\ AllProper(Queued) => AllProper(Queued') /\ Proper(Queued[1])
        /\ Chained(currentOp, Queued, putting) =>
             Chained(Queued[1], Queued', putting) /\ Follows(Queued[1], currentOp)
        /\ BothAhead(Queued, putting) => Kind(Queued[1], "33") /\ OneAhead(Queued', putting)
        /\ OneAhead(Queued, putting) => Kind(Queued[1], "32") /\ NoneAhead(Queued', putting)
        /\ NoneAhead(Queued, putting) => Plain(Queued[1]) /\ NoneAhead(Queued', putting)
    BY Zenon, <1>1, <1>3, <1>4, TakeKeepsText
  <2>2. currentOp' = Queued[1] /\ putting' = putting
    BY <1>2, <1>4
  <2>3. QED
    BY Zenon, <2>1, <2>2
<1>6. ASSUME ~dropped PROVE Chained(currentOp', Queued', putting') /\ Stage'
  <2>1. Chained(currentOp, Queued, putting) /\ Stage
    BY <1>2, <1>6 DEF TextInv
  <2>2. CASE BothAhead(Queued, putting)
    BY Zenon, <1>2, <1>5, <2>1, <2>2 DEF Stage, Early
  <2>3. CASE Early /\ OneAhead(Queued, putting)
    BY Zenon, <1>2, <1>5, <2>1, <2>3 DEF Stage, Early, Late, Wide
  <2>4. CASE Late /\ NoneAhead(Queued, putting)
    <3>1. /\ display.bits = 4 /\ display.half = None
          /\ OnLine(currentOp) => display.line = currentOp.data.line
      BY Zenon, <1>2, <2>4 DEF Late
    <3>2. Kind(currentOp', "chr") => display.line = currentOp'.data.line
      BY Zenon, <1>5, <2>1, <3>1 DEF Follows
    <3>3. QED
      BY Zenon, <1>2, <1>5, <2>1, <2>4, <3>1, <3>2 DEF Stage, Late
  <2>5. QED
    BY <2>1, <2>2, <2>3, <2>4 DEF Stage
<1>7. QED
  BY <1>2, <1>5, <1>6 DEF TextInv

\* The queue does not change, nor does what is ahead.
LEMMA QueueKept ==
  ASSUME UNCHANGED QueueVars
  PROVE  /\ Proper(currentOp)' = Proper(currentOp) /\ AllProper(Queued)' = AllProper(Queued)
         /\ AllProper(putting)' = AllProper(putting)
         /\ Chained(currentOp, Queued, putting)' = Chained(currentOp, Queued, putting)
         /\ BothAhead(Queued, putting)' = BothAhead(Queued, putting)
         /\ OneAhead(Queued, putting)' = OneAhead(Queued, putting)
         /\ NoneAhead(Queued, putting)' = NoneAhead(Queued, putting)
         /\ Len(Queued)' = Len(Queued) /\ Len(putting)' = Len(putting)
         /\ currentOp' = currentOp
<1>1. Queued' = Queued /\ currentOp' = currentOp /\ putting' = putting
  BY DEF QueueVars
<1>2. QED
  BY <1>1

\* Without a change of the queue, only the display moves on.
LEMMA StageKept ==
  ASSUME UNCHANGED QueueVars
  PROVE  /\ Early' /\ OneAhead(Queued, putting) => Stage'
         /\ Late' /\ NoneAhead(Queued, putting) => Stage'
BY Zenon, QueueKept DEF Stage

\* The display gets the first half of an operation.
LEMMA TextHigh ==
  ASSUME LcdInv, TextInv, WriteHighNibble
  PROVE  TextInv'
<1>1. /\ internalOp = "high" /\ internalOp' = "low" /\ lcdEnable' = lcdEnable /\ lcdEnable
      /\ dropped' = dropped /\ Receive(currentOp.data, currentOp.rs, "high")
  BY DEF WriteHighNibble, WriteNibble, Turn
<1>2. UNCHANGED QueueVars /\ currentOp' = currentOp
  BY NibbleStep DEF WriteHighNibble, QueueVars
<1> DEFINE n == Nibble(currentOp.data, "high")
<1>3. /\ display.bits \in {4, 8} /\ (display.bits = 8 => display.half = None)
      /\ currentOp.rs = Kind(currentOp, "chr") /\ currentOp \in Ops
  BY TextTypes DEF TextInv, Proper
<1>4. display.bits = 4 /\ display.half = None => display' = [display EXCEPT !.half = n]
  BY <1>1 DEF Receive
<1>5. ~(display.bits = 4 /\ display.half = None) =>
        /\ display'.half = None
        /\ display'.bits = IF currentOp.rs THEN display.bits
                           ELSE IF (IF display.bits = 8 THEN n ELSE display.half) = "3" THEN 8
                           ELSE IF (IF display.bits = 8 THEN n ELSE display.half) = "2" THEN 4
                           ELSE display.bits
  BY <1>1 DEF Receive
<1>6. display \in [bits : {4, 8}, half : Nibbles \cup {None}, line : Lines \cup {0}]
  BY DEF LcdInv, RestOK
<1>7. display'.bits = 8 => display'.half = None
  BY <1>3, <1>4, <1>5, <1>6
<1>8. Kind(currentOp, "33") \/ Kind(currentOp, "32") => n = "3" /\ ~currentOp.rs
  BY Zenon, <1>3 DEF Nibble, Kind
<1> HIDE DEF n
<1>9. ASSUME ~dropped PROVE Stage'
  <2>1. Stage
    BY <1>1, <1>9 DEF TextInv
  <2>2. CASE Early /\ OneAhead(Queued, putting)
    <3>1. display'.half \in {None, "3"}
      BY Zenon, <1>3, <1>4, <1>5, <1>6, <1>8, <2>2 DEF Early
    <3>2. Early'
      BY <1>1, <1>2, <2>2, <3>1 DEF Early
    <3>3. QED
      BY <1>2, <2>2, <3>2, StageKept
  <2>3. CASE Late /\ NoneAhead(Queued, putting)
    <3>1. ASSUME Kind(currentOp, "32"), Wide \/ display.half = "3" PROVE Late'
      <4>1. display.bits = 4 => display.half = "3"
        BY <3>1 DEF Wide
      <4>2. ~(display.bits = 4 /\ display.half = None)
        BY <4>1 DEF None
      <4>3. (IF display.bits = 8 THEN n ELSE display.half) = "3" /\ ~currentOp.rs
        BY <1>3, <1>8, <3>1, <4>1
      <4>4. Wide'
        BY Zenon, <1>5, <4>2, <4>3 DEF Wide
      <4>5. QED
        BY <1>1, <1>2, <3>1, <4>4 DEF Late
    <3>2. ASSUME Plain(currentOp), display.bits = 4, display.half = None,
                 Kind(currentOp, "chr") => display.line = currentOp.data.line
          PROVE  Late'
      <4>1. display'.bits = 4 /\ display'.half = n /\ display'.line = display.line
        BY Zenon, <1>4, <1>6, <3>2
      <4>2. QED
        BY <1>1, <1>2, <3>2, <4>1 DEF Late, n
    <3>3. \/ Kind(currentOp, "32") /\ (Wide \/ display.half = "3")
          \/ /\ Plain(currentOp) /\ display.bits = 4 /\ display.half = None
             /\ Kind(currentOp, "chr") => display.line = currentOp.data.line
      BY <1>1, <2>3 DEF Late
    <3>4. Late'
      BY Zenon, <3>1, <3>2, <3>3
    <3>5. QED
      BY <1>2, <2>3, <3>4, StageKept
  <2>4. QED
    BY <1>1, <2>1, <2>2, <2>3 DEF Stage
<1>10. QED
  BY <1>1, <1>2, <1>7, <1>9, QueueKept DEF TextInv

\* The display gets the second half.
LEMMA TextLow ==
  ASSUME LcdInv, TextInv, WriteLowNibble
  PROVE  TextInv'
<1>1. /\ internalOp = "low" /\ internalOp' = "ready" /\ lcdEnable' = lcdEnable /\ lcdEnable
      /\ dropped' = dropped /\ Receive(currentOp.data, currentOp.rs, "low")
  BY DEF WriteLowNibble, WriteNibble, Turn
<1>2. UNCHANGED QueueVars /\ currentOp' = currentOp
  BY NibbleStep DEF WriteLowNibble, QueueVars
<1> DEFINE n == Nibble(currentOp.data, "low")
           first == IF display.bits = 8 THEN n ELSE display.half
<1>3. /\ display.bits \in {4, 8} /\ (display.bits = 8 => display.half = None)
      /\ currentOp.rs = Kind(currentOp, "chr") /\ currentOp \in Ops
  BY TextTypes DEF TextInv, Proper
<1>4. display.bits = 4 /\ display.half = None => display' = [display EXCEPT !.half = n]
  BY <1>1 DEF Receive
<1>5. ~(display.bits = 4 /\ display.half = None) =>
        /\ display'.half = None
        /\ display'.bits = IF currentOp.rs THEN display.bits
                           ELSE IF first = "3" THEN 8 ELSE IF first = "2" THEN 4 ELSE display.bits
        /\ display'.line = IF Kind(currentOp, "pos") /\ ~currentOp.rs THEN currentOp.data.line
                           ELSE display.line
  BY <1>1 DEF Receive, Kind
<1>6. display \in [bits : {4, 8}, half : Nibbles \cup {None}, line : Lines \cup {0}]
  BY DEF LcdInv, RestOK
<1>7. display'.bits = 8 => display'.half = None
  BY <1>3, <1>4, <1>5, <1>6
<1>8. /\ Kind(currentOp, "33") => n = "3" /\ ~currentOp.rs
      /\ Kind(currentOp, "32") => n = "2" /\ ~currentOp.rs
  BY Zenon, <1>3 DEF Nibble, Kind
<1>9. ASSUME ~dropped PROVE Stage'
  <2>1. Stage
    BY <1>1, <1>9 DEF TextInv
  <2>2. CASE Early /\ OneAhead(Queued, putting)
    <3>1. Wide' \/ display'.half = "3"
      BY Zenon, <1>1, <1>3, <1>4, <1>5, <1>6, <1>8, <2>2 DEF Early, Wide, None
    <3>2. Early'
      BY <1>1, <1>2, <2>2, <3>1 DEF Early
    <3>3. QED
      BY <1>2, <2>2, <3>2, StageKept
  <2>3. CASE Late /\ NoneAhead(Queued, putting)
    <3>1. ASSUME Kind(currentOp, "32"), Wide PROVE Late'
      <4>1. display'.bits = 4 /\ display'.half = None
        BY <1>5, <1>8, <3>1 DEF Wide
      <4>2. ~OnLine(currentOp)
        BY Zenon, <3>1 DEF OnLine, Kind
      <4>3. QED
        BY <1>1, <1>2, <4>1, <4>2 DEF Late
    <3>2. ASSUME Plain(currentOp), display.bits = 4, display.half = Nibble(currentOp.data, "high"),
                 Kind(currentOp, "chr") => display.line = currentOp.data.line
          PROVE  Late'
      <4>1. display.half # None /\ (display.half = "3" => Kind(currentOp, "chr"))
        BY <3>2 DEF Nibble, None, Plain, Kind
      <4>2. display'.bits = 4 /\ display'.half = None
        BY <1>3, <1>5, <3>2, <4>1
      <4>3. OnLine(currentOp) => display'.line = currentOp.data.line
        BY Zenon, <1>3, <1>5, <3>2, <4>1 DEF OnLine, Kind
      <4>4. QED
        BY <1>1, <1>2, <4>2, <4>3 DEF Late, OnLine, Kind
    <3>3. Late'
      BY Zenon, <1>1, <2>3, <3>1, <3>2 DEF Late
    <3>4. QED
      BY <1>2, <2>3, <3>3, StageKept
  <2>4. QED
    BY <1>1, <2>1, <2>2, <2>3 DEF Stage
<1>10. QED
  BY Zenon, <1>1, <1>2, <1>7, <1>9, QueueKept DEF TextInv

\* A step that leaves the queue, the driver and the display alone keeps the text.
LEMMA TextUnchanged ==
  ASSUME TextInv, UNCHANGED QueueVars, UNCHANGED <<internalOp, lcdEnable, dropped, display>>
  PROVE  TextInv'
<1>1. /\ Queued' = Queued /\ currentOp' = currentOp /\ putting' = putting
      /\ internalOp' = internalOp /\ lcdEnable' = lcdEnable /\ dropped' = dropped /\ display' = display
  BY DEF QueueVars
<1>2. Stage' = Stage
  BY Zenon, QueueKept DEF Stage, Early, Late, Wide
<1>3. QED
  BY <1>1, <1>2 DEF TextInv

\* The running print puts its next operation.
LEMMA TextPut ==
  ASSUME LcdInv, TextInv, putInLCDRingBuffer
  PROVE  TextInv'
<1>1. /\ Queued \in Seq(Ops) /\ putting \in Seq(Ops) /\ Len(Queued) <= Slots /\ putting # <<>>
      /\ Len(putting) \in Nat
  BY TextTypes DEF putInLCDRingBuffer
<1>2. /\ internalOp' = internalOp /\ currentOp' = currentOp /\ lcdEnable' = lcdEnable
      /\ dropped' = dropped /\ display' = display
  BY DEF putInLCDRingBuffer, driverVars
<1>3. /\ Queued' = IF Len(Queued) < Slots THEN Append(Queued, Head(putting)) ELSE Queued
      /\ putting' = Tail(putting)
  BY PutStep DEF Fifo!Put
<1>4. Len(putting) > 0 /\ Head(putting) = putting[1]
  BY <1>1
<1>5. Queued' = IF Len(Queued) < Slots THEN Append(Queued, putting[1]) ELSE Queued
  BY Zenon, <1>3, <1>4
<1>6. /\ AllProper(Queued) /\ AllProper(putting) => AllProper(Queued') /\ AllProper(putting')
      /\ Chained(currentOp, Queued, putting) => Chained(currentOp, Queued', putting')
      /\ BothAhead(Queued, putting) => BothAhead(Queued', putting')
      /\ OneAhead(Queued, putting) => OneAhead(Queued', putting')
      /\ NoneAhead(Queued, putting) => NoneAhead(Queued', putting')
  BY Zenon, <1>1, <1>3, <1>4, <1>5, PutKeepsText
<1>7. (Early' = Early) /\ (Late' = Late)
  BY <1>2 DEF Early, Late, Wide
<1>8. Stage /\ Chained(currentOp, Queued, putting) => Stage' /\ Chained(currentOp', Queued', putting')
  BY <1>2, <1>6, <1>7 DEF Stage
<1>9. lcdEnable
  BY <1>4 DEF TextInv
<1>10. QED
  BY <1>2, <1>6, <1>8, <1>9 DEF TextInv

\* A print begins.
LEMMA TextSubmit ==
  ASSUME LcdInv, TextInv, (\E line \in Lines : PrintLine(line)) \/ WriteLCDCommand
  PROVE  TextInv'
<1>1. /\ internalOp' = internalOp /\ currentOp' = currentOp /\ lcdEnable' = lcdEnable /\ lcdEnable
      /\ dropped' = dropped /\ display' = display /\ putting = <<>>
  BY DEF PrintLine, WriteLCDCommand, driverVars
<1>2. GoodText(putting')
  <2>1. ASSUME NEW line \in Lines, PrintLine(line) PROVE GoodText(putting')
    BY <2>1, LineText DEF PrintLine
  <2>2. ASSUME WriteLCDCommand PROVE GoodText(putting')
    <3>1. PICK t : t = <<Command("cmd")>>
      BY Zenon
    <3>2. t \in Seq(Ops) /\ Len(t) = 1 /\ t[1] = Command("cmd")
      BY <3>1, OpTypes
    <3>3. Proper(t[1]) /\ Plain(t[1]) /\ ~Kind(t[1], "chr")
      BY <3>2, OpKinds DEF Plain, Kind
    <3>4. GoodText(t)
      BY <3>2, <3>3 DEF GoodText, AllProper, Linked, PlainFrom
    <3>5. QED
      BY <2>2, <3>1, <3>4 DEF WriteLCDCommand
  <2>3. QED
    BY <2>1, <2>2
<1>3. Queued' = Queued /\ Len(putting) = 0
  BY <1>1, PrintStep DEF Fifo!Submit
<1>4. /\ AllProper(putting') /\ Linked(putting') /\ PlainFrom(putting', 1)
      /\ Len(putting') > 0 => ~Kind(putting'[1], "chr")
  BY <1>2 DEF GoodText
<1>5. /\ Chained(currentOp, Queued, putting) => Chained(currentOp, Queued, putting')
      /\ BothAhead(Queued, putting) => BothAhead(Queued, putting')
      /\ OneAhead(Queued, putting) => OneAhead(Queued, putting')
      /\ NoneAhead(Queued, putting) => NoneAhead(Queued, putting')
  BY <1>3, <1>4 DEF Chained, Follows, BothAhead, OneAhead, NoneAhead
<1>6. (Early' = Early) /\ (Late' = Late)
  BY <1>1 DEF Early, Late, Wide
<1>7. Stage /\ Chained(currentOp, Queued, putting) => Stage' /\ Chained(currentOp', Queued', putting')
  BY <1>1, <1>3, <1>5, <1>6 DEF Stage
<1>8. AllProper(Queued') <=> AllProper(Queued)
  BY <1>3
<1>9. QED
  BY <1>1, <1>4, <1>7, <1>8 DEF TextInv

\* The display is switched off, switched on, or initialised once more.
LEMMA TextReset ==
  ASSUME LcdInv, TextInv, NEW on \in BOOLEAN, NEW custom \in BOOLEAN, assertInitLCD(on, custom)
  PROVE  TextInv'
<1>1. /\ internalOp' = "ready" /\ lcdEnable' = on /\ putting = <<>>
      /\ display' = IF isPureXBlast /\ on # lcdEnable THEN PowerOn ELSE display
      /\ dropped' = (on /\ lcdEnable /\ (dropped \/ Holds \/ internalOp # "ready"))
      /\ putting' = IF on /\ ~lcdEnable THEN WriteLCDInit \o initialLCDPrint(custom) ELSE <<>>
  BY Zenon DEF assertInitLCD, LCDRingBufferInit
<1>2. currentOp'.data = currentOp.data /\ currentOp'.rs = currentOp.rs
  <2>1. currentOp' = [currentOp EXCEPT !.delay = 0]
    BY DEF assertInitLCD, LCDRingBufferInit
  <2>2. currentOp \in Ops
    BY TextTypes
  <2>3. QED
    BY <2>1, <2>2 DEF Ops
<1>3. Queued' = <<>>
  BY AssertInitStep DEF Fifo!Reset
<1>4. Proper(currentOp') /\ AllProper(Queued') /\ Len(Queued') = 0
  BY <1>2, <1>3 DEF TextInv, Proper, Kind, AllProper
<1>5. display'.bits = 8 => display'.half = None
  BY <1>1 DEF TextInv, PowerOn
<1>6. CASE on = TRUE /\ lcdEnable = FALSE
  <2>1. PICK t : t = WriteLCDInit \o initialLCDPrint(custom)
    BY Zenon
  <2>2. AllProper(t) /\ Chained(currentOp', <<>>, t) /\ BothAhead(<<>>, t)
    BY Zenon, <2>1, BootText
  <2>3. putting' = t
    BY Zenon, <1>1, <1>6, <2>1
  <2>4. AllProper(putting') /\ Chained(currentOp', Queued', putting') /\ BothAhead(Queued', putting')
    BY Zenon, <1>3, <2>2, <2>3
  <2>5. lcdEnable' = TRUE /\ internalOp' = "ready"
    BY Zenon, <1>1, <1>6
  <2>6. QED
    BY Zenon, <1>4, <1>5, <2>4, <2>5 DEF TextInv, Stage
<1>7. CASE ~(on = TRUE /\ lcdEnable = FALSE)
  <2>1. lcdEnable \in BOOLEAN /\ dropped \in BOOLEAN
    BY TextTypes
  <2>2. putting' = <<>>
    BY Zenon, <1>1, <1>7, <2>1
  <2>3. Len(putting') = 0 /\ AllProper(putting')
    BY <2>2 DEF AllProper
  <2>4. ASSUME lcdEnable', ~dropped' PROVE Chained(currentOp', Queued', putting') /\ Stage'
    <3>1. on /\ lcdEnable /\ ~dropped /\ ~Holds /\ internalOp = "ready" /\ display' = display
      BY Zenon, <1>1, <1>7, <2>1, <2>4
    <3>2. Len(Queued) = 0 /\ Len(putting) = 0
      BY <1>1, <3>1, CountFacts, QueuedLength DEF LcdInv
    <3>3. ~BothAhead(Queued, putting) /\ ~OneAhead(Queued, putting)
      BY <3>2 DEF BothAhead, OneAhead
    <3>4. Late
      BY <3>1, <3>3 DEF TextInv, Stage
    <3>5. /\ display'.bits = 4 /\ display'.half = None
          /\ OnLine(currentOp') => display'.line = currentOp'.data.line
      BY <1>2, <3>1, <3>4 DEF Late, OnLine, Kind
    <3>6. Late'
      BY <1>1, <3>5 DEF Late
    <3>7. NoneAhead(Queued', putting') /\ Chained(currentOp', Queued', putting')
      BY <1>3, <2>2 DEF NoneAhead, PlainFrom, Chained, Linked
    <3>8. QED
      BY <3>6, <3>7 DEF Stage
  <2>5. QED
    BY Zenon, <1>1, <1>4, <1>5, <2>3, <2>4 DEF TextInv
<1>8. QED
  BY Zenon, <1>6, <1>7

\* Every step keeps the text.
LEMMA TextStep ==
  ASSUME LcdInv, TextInv, [LcdNext]_lcdVars
  PROVE  TextInv'
<1>1. CASE ReadyForNewOp
  BY <1>1, TextReady
<1>2. CASE WriteHighNibble
  BY <1>2, TextHigh
<1>3. CASE WriteLowNibble
  BY <1>3, TextLow
<1>4. CASE putInLCDRingBuffer
  BY <1>4, TextPut
<1>5. CASE Tick
  <2>1. UNCHANGED <<internalOp, lcdEnable, dropped, display>>
    BY <1>5 DEF Tick, driverVars
  <2>2. QED
    BY <1>5, <2>1, TickStep, TextUnchanged
<1>6. CASE (\E line \in Lines : PrintLine(line)) \/ WriteLCDCommand
  BY <1>6, TextSubmit
<1>7. CASE \E on, customTextBoot \in BOOLEAN : assertInitLCD(on, customTextBoot)
  BY <1>7, TextReset
<1>8. CASE UNCHANGED lcdVars
  <2>1. UNCHANGED ringVars /\ UNCHANGED <<currentOp, putting>>
        /\ UNCHANGED <<internalOp, lcdEnable, dropped, display>>
    BY <1>8 DEF lcdVars, driverVars
  <2>2. UNCHANGED QueueVars
    BY <2>1, RingUnchanged DEF LcdInv, QueueVars
  <2>3. QED
    BY <2>1, <2>2, TextUnchanged
<1>9. QED
  BY <1>1, <1>2, <1>3, <1>4, <1>5, <1>6, <1>7, <1>8 DEF LcdNext, updateLCDRingBuffer

\* As long as no operation was dropped, every character reaches the display as the
\* second half of a byte of data, with the cursor on the line of its print: after
\* power-on, after the display was switched off and on between two nibbles, and with
\* other prints before and behind it, for every size of the ring and of the lines.
THEOREM CharactersInPlace == LcdSpec => CharactersOnTheirLine
<1>1. ASSUME LcdInv, TextInv, WriteLowNibble, currentOp.data.is = "chr", ~dropped
      PROVE  display.bits = 4 /\ display.half # None /\ display.line = currentOp.data.line
  <2>1. internalOp = "low" /\ lcdEnable
    BY <1>1 DEF WriteLowNibble, WriteNibble, Turn
  <2>2. Kind(currentOp, "chr") /\ ~Kind(currentOp, "33") /\ ~Kind(currentOp, "32")
    BY <1>1 DEF Kind
  <2>3. Late
    BY <1>1, <2>1, <2>2 DEF TextInv, Stage, Early
  <2>4. /\ display.bits = 4 /\ display.line = currentOp.data.line
        /\ display.half = Nibble(currentOp.data, "high")
    BY <2>1, <2>2, <2>3 DEF Late
  <2>5. QED
    BY <1>1, <2>4 DEF Nibble, None
<1>2. QED
  BY <1>1, LcdInvariance, TextInitially, TextStep, PTL DEF LcdSpec, CharactersOnTheirLine


=============================================================================
