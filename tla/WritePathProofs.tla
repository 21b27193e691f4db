---------------------------- MODULE WritePathProofs ---------------------------
(***************************************************************************)
(* Proofs about WritePath for a buffer of any size, any number of answers  *)
(* and of failed writes.  The types need no hypothesis.  The rest is about *)
(* the first client and needs that its recv() has each answer whole before *)
(* it asks again (~Pipelined; WritePath breaks InOrder otherwise), and that*)
(* an answer leaves one cell of the ring empty.                            *)
(*                                                                         *)
(* The invariant is a lock that the code does not have: Single says that   *)
(* at most one write is prepared, in flight or completed, and none while a *)
(* worker is in send(), so worker and event loop do not meet on the buffer,*)
(* the counter and the regions.  InRing says which bytes the buffer has    *)
(* then, Regions that the write is of all of them, Counted what toSend is. *)
(* Each needs the others: that a write is prepared again exactly if bytes  *)
(* are left is Counted, that it is of the right ones is Regions, and that  *)
(* the next answer is not added before is Single.                          *)
(*                                                                         *)
(* For a later client toSend begins with what the last one left, and the   *)
(* lock is gone (Closed leaves toSend alone).                              *)
(***************************************************************************)
EXTENDS WritePath, FiniteSetTheorems, SequenceTheorems, WellFoundedInduction, TLAPS

-----------------------------------------------------------------------------
(* Lemmas about the ring.                                                  *)

Ring == [buf : [Cell -> Byte], readIndex : Cell, writeIndex : Cell]

\* The i-th readable byte.
ByteAt(b, i) == b.buf[(b.readIndex + i - 1) % MAX_BUFFER_SIZE]

LEMMA ModOnce ==
  ASSUME NEW a \in Nat, a < 2 * MAX_BUFFER_SIZE
  PROVE  /\ a < MAX_BUFFER_SIZE => a % MAX_BUFFER_SIZE = a
         /\ a >= MAX_BUFFER_SIZE => a % MAX_BUFFER_SIZE = a - MAX_BUFFER_SIZE
         /\ a % MAX_BUFFER_SIZE \in Cell
  BY SizeAssumption DEF Cell

\* The same, for a sum.
LEMMA ModOf ==
  ASSUME NEW a \in Nat, a < 2 * MAX_BUFFER_SIZE, NEW c, c = a % MAX_BUFFER_SIZE
  PROVE  c \in Cell /\ c = IF a < MAX_BUFFER_SIZE THEN a ELSE a - MAX_BUFFER_SIZE
  BY ModOnce, SizeAssumption

LEMMA ModInCell ==
  ASSUME NEW a \in Int
  PROVE  a % MAX_BUFFER_SIZE \in Cell
  BY SizeAssumption DEF Cell

LEMMA Readable ==
  ASSUME NEW b \in Ring
  PROVE  /\ readableBytes(b) \in 0 .. MAX_BUFFER_SIZE - 1
         /\ b.readIndex \in Cell /\ b.writeIndex \in Cell
         /\ \/ b.writeIndex = b.readIndex + readableBytes(b)
            \/ b.writeIndex = b.readIndex + readableBytes(b) - MAX_BUFFER_SIZE
  BY SizeAssumption DEF Ring, Cell, readableBytes

\* What has been sent is gone, and the rest is where it was.
LEMMA ReadableRead ==
  ASSUME NEW b \in Ring, NEW n \in Nat, n <= readableBytes(b)
  PROVE  /\ hasRead(b, n) \in Ring
         /\ readableBytes(hasRead(b, n)) = readableBytes(b) - n
         /\ \A i \in 1 .. readableBytes(b) - n : ByteAt(hasRead(b, n), i) = ByteAt(b, n + i)
<1>1. PICK r \in Cell, w \in Cell : r = b.readIndex /\ w = b.writeIndex
  BY DEF Ring
<1>2. PICK v : v = (r + n) % MAX_BUFFER_SIZE
  OBVIOUS
<1>3. hasRead(b, n) = [b EXCEPT !.readIndex = v]
  BY <1>1, <1>2 DEF hasRead
<1>4. /\ v \in Cell
      /\ r + n < MAX_BUFFER_SIZE => v = r + n
      /\ r + n >= MAX_BUFFER_SIZE => v = r + n - MAX_BUFFER_SIZE
  <2>1. PICK a \in Nat : a = r + n /\ a < 2 * MAX_BUFFER_SIZE
    BY Readable, SizeAssumption DEF Cell
  <2>2. v = a % MAX_BUFFER_SIZE
    BY <1>2, <2>1
  <2>3. v \in Cell /\ v = IF a < MAX_BUFFER_SIZE THEN a ELSE a - MAX_BUFFER_SIZE
    BY <2>1, <2>2, ModOf
  <2>4. QED
    BY <2>1, <2>3, SizeAssumption DEF Cell
<1>5. hasRead(b, n) \in Ring
  BY <1>3, <1>4 DEF Ring
<1>6. /\ hasRead(b, n).readIndex = v /\ hasRead(b, n).writeIndex = w
      /\ hasRead(b, n).buf = b.buf
  BY <1>1, <1>3 DEF Ring
<1>7. readableBytes(b) = IF w >= r THEN w - r ELSE MAX_BUFFER_SIZE - r + w
  BY <1>1 DEF readableBytes
<1>8. readableBytes(hasRead(b, n)) = IF w >= v THEN w - v ELSE MAX_BUFFER_SIZE - v + w
  BY <1>6 DEF readableBytes
<1>9. readableBytes(hasRead(b, n)) = readableBytes(b) - n
  BY <1>4, <1>7, <1>8, SizeAssumption DEF Cell
<1>10. ASSUME NEW i \in 1 .. readableBytes(b) - n
       PROVE  ByteAt(hasRead(b, n), i) = ByteAt(b, n + i)
  <2>1. readableBytes(b) \in Nat /\ readableBytes(b) < MAX_BUFFER_SIZE
    BY Readable, SizeAssumption
  <2>2. PICK x \in Nat, y \in Nat : x = v + i - 1 /\ y = r + (n + i) - 1
    BY <1>4, <2>1 DEF Cell
  <2>3. /\ x < 2 * MAX_BUFFER_SIZE /\ y < 2 * MAX_BUFFER_SIZE
        /\ x = y \/ (x = y - MAX_BUFFER_SIZE /\ x < MAX_BUFFER_SIZE)
    BY <1>4, <2>1, <2>2, SizeAssumption DEF Cell
  <2>4. x % MAX_BUFFER_SIZE = y % MAX_BUFFER_SIZE
    <3>1. PICK c, d : c = x % MAX_BUFFER_SIZE /\ d = y % MAX_BUFFER_SIZE
      OBVIOUS
    <3>2. /\ c = IF x < MAX_BUFFER_SIZE THEN x ELSE x - MAX_BUFFER_SIZE
          /\ d = IF y < MAX_BUFFER_SIZE THEN y ELSE y - MAX_BUFFER_SIZE
      BY <2>3, <3>1, ModOf
    <3>3. c = d
      BY <2>3, <3>2, SizeAssumption
    <3>4. QED
      BY <3>1, <3>3
  <2>5. QED
    BY <1>1, <1>6, <2>2, <2>4 DEF ByteAt
<1>11. QED
  BY <1>5, <1>9, <1>10
LEMMA ReadType ==
  ASSUME NEW b \in Ring, NEW n \in Int
  PROVE  hasRead(b, n) \in Ring
<1>1. PICK v \in Cell : v = (b.readIndex + n) % MAX_BUFFER_SIZE
  <2>1. PICK r \in Cell : r = b.readIndex
    BY DEF Ring
  <2>2. r + n \in Int
    BY DEF Cell
  <2>3. (r + n) % MAX_BUFFER_SIZE \in Cell
    BY <2>2, ModInCell
  <2>4. QED
    BY <2>1, <2>3
<1>2. hasRead(b, n) = [b EXCEPT !.readIndex = v]
  BY <1>1 DEF hasRead
<1>3. QED
  BY <1>2 DEF Ring

\* Two regions of the ring, one that is there and one at its begin.
Part == [first : Cell, len : 0 .. MAX_BUFFER_SIZE]
Iov  == {v \in Part \X Part : /\ v[1].first + v[1].len <= MAX_BUFFER_SIZE
                              /\ v[2].first + v[2].len <= MAX_BUFFER_SIZE
                              /\ Size(v) < MAX_BUFFER_SIZE}

LEMMA NoRegionsType == NoRegions \in Iov
<1>1. Region(0, 0) \in Part /\ Region(0, 0).first = 0 /\ Region(0, 0).len = 0
  BY SizeAssumption DEF Region, Part, Cell
<1>2. QED
  BY <1>1, SizeAssumption DEF NoRegions, Iov, Size

\* The regions of a write are the readable bytes, in their order.
LEMMA BeginRegions ==
  ASSUME NEW b \in Ring
  PROVE  /\ readvBegin(b) \in Iov
         /\ Size(readvBegin(b)) = readableBytes(b)
         /\ \A i \in 1 .. readableBytes(b) : b.buf[CellOf(readvBegin(b), i)] = ByteAt(b, i)
<1>1. PICK r \in Cell, w \in Cell : r = b.readIndex /\ w = b.writeIndex
  BY DEF Ring
<1>2. PICK v : v = readvBegin(b)
  OBVIOUS
<1>3. PICK len \in Nat : len = readableBytes(b) /\ len < MAX_BUFFER_SIZE
  BY Readable, SizeAssumption
<1>4. len = IF w >= r THEN w - r ELSE MAX_BUFFER_SIZE - r + w
  BY <1>1, <1>3 DEF readableBytes
<1>5. PICK m \in 0 .. MAX_BUFFER_SIZE, k \in 0 .. MAX_BUFFER_SIZE :
         /\ v = <<Region(r, m), Region(0, k)>> /\ m + k = len
         /\ r + m <= MAX_BUFFER_SIZE
         /\ w >= r => m = len
         /\ w < r => m = MAX_BUFFER_SIZE - r
  <2>1. CASE w >= r
    <3>1. v = <<Region(r, w - r), Region(0, 0)>> /\ len = w - r
      BY <1>1, <1>2, <1>4, <2>1 DEF readvBegin
    <3>2. w - r \in 0 .. MAX_BUFFER_SIZE /\ 0 \in 0 .. MAX_BUFFER_SIZE /\ w - r + 0 = len
          /\ r + (w - r) <= MAX_BUFFER_SIZE
      BY <2>1, <3>1, SizeAssumption DEF Cell
    <3>3. QED
      BY <2>1, <3>1, <3>2 DEF Cell
  <2>2. CASE w < r
    <3>1. v = <<Region(r, MAX_BUFFER_SIZE - r), Region(0, w)>> /\ len = MAX_BUFFER_SIZE - r + w
      BY <1>1, <1>2, <1>4, <2>2 DEF readvBegin, Cell
    <3>2. MAX_BUFFER_SIZE - r \in 0 .. MAX_BUFFER_SIZE /\ w \in 0 .. MAX_BUFFER_SIZE
          /\ r + (MAX_BUFFER_SIZE - r) <= MAX_BUFFER_SIZE
      BY SizeAssumption DEF Cell
    <3>3. QED
      BY <2>2, <3>1, <3>2 DEF Cell
  <2>3. QED
    BY <2>1, <2>2 DEF Cell
<1>6. /\ Region(r, m) \in Part /\ Region(r, m).first = r /\ Region(r, m).len = m
      /\ Region(0, k) \in Part /\ Region(0, k).first = 0 /\ Region(0, k).len = k
  BY SizeAssumption DEF Region, Part, Cell
<1>7. /\ v \in Part \X Part /\ v[1].first = r /\ v[1].len = m /\ v[2].first = 0 /\ v[2].len = k
  BY <1>5, <1>6
<1>8. Size(v) = len
  BY <1>5, <1>7 DEF Size
<1>9. v \in Iov
  BY <1>3, <1>5, <1>7, <1>8, SizeAssumption DEF Iov
<1>10. ASSUME NEW i \in 1 .. len
       PROVE  b.buf[CellOf(v, i)] = ByteAt(b, i)
  <2>1. PICK a \in Nat : a = r + i - 1 /\ a < 2 * MAX_BUFFER_SIZE
    BY <1>3, SizeAssumption DEF Cell
  <2>2. PICK c : c = a % MAX_BUFFER_SIZE
    OBVIOUS
  <2>3. c = IF a < MAX_BUFFER_SIZE THEN a ELSE a - MAX_BUFFER_SIZE
    BY <2>1, <2>2, ModOf
  <2>4. CellOf(v, i) = IF i <= m THEN r + i - 1 ELSE i - 1 - m
    BY <1>7 DEF CellOf
  <2>5. CellOf(v, i) = c
    <3>1. CASE w >= r
      <4>1. m = len /\ i <= m
        BY <3>1, <1>5
      <4>2. a < MAX_BUFFER_SIZE
        BY <4>1, <1>5, <2>1, SizeAssumption DEF Cell
      <4>3. QED
        BY <4>1, <4>2, <2>1, <2>3, <2>4
    <3>2. CASE w < r
      BY <3>2, <1>5, <2>1, <2>3, <2>4, SizeAssumption DEF Cell
    <3>3. QED
      BY <3>1, <3>2 DEF Cell
  <2>6. QED
    BY <1>1, <2>1, <2>2, <2>5 DEF ByteAt
<1>11. QED
  BY <1>2, <1>3, <1>8, <1>9, <1>10

\* What the kernel takes from two regions are bytes of the ring.
LEMMA GatherType ==
  ASSUME NEW b \in Ring, NEW v \in Iov, NEW n \in Nat, n <= Size(v)
  PROVE  /\ Gather(b, v, n) \in Bytes
         /\ Len(Gather(b, v, n)) = n
         /\ \A i \in 1 .. n : Gather(b, v, n)[i] = b.buf[CellOf(v, i)]
<1>1. PICK s \in Cell, m \in Nat, t \in Cell, k \in Nat :
         /\ v[1].first = s /\ v[1].len = m /\ v[2].first = t /\ v[2].len = k
         /\ s + m <= MAX_BUFFER_SIZE /\ t + k <= MAX_BUFFER_SIZE
  BY DEF Iov, Part
<1>2. n <= m + k
  BY <1>1 DEF Size
<1>3. ASSUME NEW i \in 1 .. n
      PROVE  b.buf[CellOf(v, i)] \in Byte
  <2>1. CellOf(v, i) = IF i <= m THEN s + i - 1 ELSE t + i - 1 - m
    BY <1>1 DEF CellOf
  <2>2. CellOf(v, i) \in Cell
    BY <2>1, <1>1, <1>2, SizeAssumption DEF Cell
  <2>3. QED
    BY <2>2 DEF Ring
<1>4. Gather(b, v, n) = [i \in 1 .. n |-> b.buf[CellOf(v, i)]]
  BY DEF Gather
<1>5. Gather(b, v, n) \in [1 .. n -> Byte]
  BY <1>3, <1>4
<1>6. Gather(b, v, n) \in Seq(Byte) /\ Len(Gather(b, v, n)) = n
  BY <1>5
<1>7. QED
  BY <1>4, <1>6 DEF Bytes
\* append() counts the cells that are left.
LEMMA StoredType ==
  ASSUME NEW b \in Ring, NEW n \in Nat
  PROVE  Stored(b, n) \in 0 .. n
<1>1. PICK room \in Cell : room = (b.readIndex - 1 - b.writeIndex) % MAX_BUFFER_SIZE
  <2>1. PICK a \in Int : a = b.readIndex - 1 - b.writeIndex
    BY DEF Ring, Cell
  <2>2. QED
    BY <2>1, ModInCell
<1>2. Stored(b, n) = IF b.readIndex > 0 /\ room < n THEN room ELSE n
  BY <1>1 DEF Stored
<1>3. QED
  BY <1>2, SizeAssumption DEF Cell

\* Of some numbers up to n there is a last one.
LEMMA LastOf ==
  ASSUME NEW n \in Nat, NEW S \in SUBSET (1 .. n), S # {}
  PROVE  \E i \in S : \A j \in S : j <= i
<1> DEFINE T == {k \in Nat : n - k \in S}
<1>1. T \subseteq Nat /\ T # {}
  <2>1. PICK i \in S : i \in 1 .. n
    OBVIOUS
  <2>2. n - i \in Nat /\ n - (n - i) = i
    OBVIOUS
  <2>3. n - i \in T
    BY <2>1, <2>2
  <2>4. QED
    BY <2>3
<1>2. \E x \in T : \A y \in T : ~ (<<y, x>> \in OpToRel(<, Nat))
  BY <1>1, NatLessThanWellFounded, WFMin
<1>3. PICK x \in Nat : n - x \in S /\ \A y \in T : ~ (y < x)
  BY <1>1, <1>2 DEF OpToRel
<1>4. ASSUME NEW j \in S
      PROVE  j <= n - x
  <2>1. j \in Nat /\ n - j \in Nat /\ n - (n - j) = j
    OBVIOUS
  <2>2. n - j \in T
    BY <2>1
  <2>3. ~ (n - j < x)
    BY <1>3, <2>2
  <2>4. QED
    BY <2>1, <2>3
<1>5. QED
  BY <1>3, <1>4

LEMMA AppendType ==
  ASSUME NEW b \in Ring, NEW bytes \in Bytes
  PROVE  append(b, bytes) \in Ring
<1>1. PICK n \in Nat : n = Stored(b, Len(bytes)) /\ n <= Len(bytes)
  BY StoredType, LenProperties DEF Bytes
<1> DEFINE Into(c) == {i \in 1 .. n : (b.writeIndex + i - 1) % MAX_BUFFER_SIZE = c}
           Latest(c) == CHOOSE i \in Into(c) : \A j \in Into(c) : j <= i
           there == [c \in Cell |-> IF Into(c) = {} THEN b.buf[c] ELSE bytes[Latest(c)]]
<1>2. ASSUME NEW c \in Cell
      PROVE  there[c] \in Byte
  <2>1. CASE Into(c) = {}
    BY <2>1 DEF Ring
  <2>2. CASE Into(c) # {}
    <3>1. \E i \in Into(c) : \A j \in Into(c) : j <= i
      BY <2>2, LastOf
    <3>2. Latest(c) \in Into(c)
      BY <3>1
    <3>3. Latest(c) \in 1 .. Len(bytes)
      BY <3>2, <1>1, LenProperties DEF Bytes
    <3>4. bytes[Latest(c)] \in Byte
      BY <3>3, ElementOfSeq DEF Bytes
    <3>5. QED
      BY <2>2, <3>4
  <2>3. QED
    BY <2>1, <2>2
<1>3. append(b, bytes) = hasWritten([b EXCEPT !.buf = there], n)
  BY <1>1 DEF append, Ring
<1>4. there \in [Cell -> Byte]
  BY <1>2
<1> HIDE DEF there
<1>5. PICK d \in Ring : d = [b EXCEPT !.buf = there]
  BY <1>4 DEF Ring
<1>6. PICK v \in Cell : v = (d.writeIndex + n) % MAX_BUFFER_SIZE
  <2>1. PICK a \in Int : a = d.writeIndex + n
    BY DEF Ring, Cell
  <2>2. QED
    BY <2>1, ModInCell
<1>7. QED
  BY <1>3, <1>5, <1>6 DEF hasWritten, Ring

\* What is appended to an empty buffer is readable from its begin, if it leaves one cell.
LEMMA AppendAt ==
  ASSUME NEW b \in Ring, readableBytes(b) = 0, NEW bytes \in Bytes, Len(bytes) < MAX_BUFFER_SIZE
  PROVE  /\ Stored(b, Len(bytes)) = Len(bytes)
         /\ readableBytes(append(b, bytes)) = Len(bytes)
         /\ \A i \in 1 .. Len(bytes) : ByteAt(append(b, bytes), i) = bytes[i]
<1>1. PICK r \in Cell : r = b.readIndex /\ r = b.writeIndex
  BY SizeAssumption DEF Ring, Cell, readableBytes
<1>2. PICK n \in Nat : n = Len(bytes) /\ n < MAX_BUFFER_SIZE
  BY LenProperties DEF Bytes
<1>3. Stored(b, n) = n
  <2>1. r - 1 - r = 0 - 1
    BY DEF Cell
  <2>2. (0 - 1) % MAX_BUFFER_SIZE = MAX_BUFFER_SIZE - 1
    BY SizeAssumption
  <2>3. Stored(b, n) = IF r > 0 /\ MAX_BUFFER_SIZE - 1 < n THEN MAX_BUFFER_SIZE - 1 ELSE n
    BY <1>1, <2>1, <2>2 DEF Stored
  <2>4. QED
    BY <2>3, <1>2, SizeAssumption
<1> DEFINE at(i) == (r + i - 1) % MAX_BUFFER_SIZE
           Into(c) == {i \in 1 .. n : at(i) = c}
           Latest(c) == CHOOSE i \in Into(c) : \A j \in Into(c) : j <= i
           there == [c \in Cell |-> IF Into(c) = {} THEN b.buf[c] ELSE bytes[Latest(c)]]
<1>4. ASSUME NEW i \in 1 .. n
      PROVE  at(i) \in Cell /\ at(i) = IF r + i - 1 < MAX_BUFFER_SIZE THEN r + i - 1
                                       ELSE r + i - 1 - MAX_BUFFER_SIZE
  <2>1. PICK a \in Nat : a = r + i - 1 /\ a < 2 * MAX_BUFFER_SIZE
    BY <1>2, SizeAssumption DEF Cell
  <2>2. PICK c : c = (r + i - 1) % MAX_BUFFER_SIZE
    OBVIOUS
  <2>3. c = a % MAX_BUFFER_SIZE
    BY <2>1, <2>2
  <2>4. c \in Cell /\ c = IF a < MAX_BUFFER_SIZE THEN a ELSE a - MAX_BUFFER_SIZE
    BY <2>1, <2>3, ModOf
  <2>5. c \in Cell /\ c = IF r + i - 1 < MAX_BUFFER_SIZE THEN r + i - 1
                           ELSE r + i - 1 - MAX_BUFFER_SIZE
    BY <2>1, <2>4, SizeAssumption DEF Cell
  <2>6. QED
    BY <2>2, <2>5
<1>5. ASSUME NEW i \in 1 .. n
      PROVE  there[at(i)] = bytes[i]
  <2>1. ASSUME NEW j \in 1 .. n, at(j) = at(i)
        PROVE  j = i
    <3>1. PICK p, q : p = at(i) /\ q = at(j)
      OBVIOUS
    <3>2. /\ p = IF r + i - 1 < MAX_BUFFER_SIZE THEN r + i - 1 ELSE r + i - 1 - MAX_BUFFER_SIZE
          /\ q = IF r + j - 1 < MAX_BUFFER_SIZE THEN r + j - 1 ELSE r + j - 1 - MAX_BUFFER_SIZE
      BY <1>4, <3>1
    <3>3. p = q
      BY <2>1, <3>1
    <3>4. QED
      BY <3>2, <3>3, <1>2, SizeAssumption DEF Cell
  <2>2. i \in Into(at(i)) /\ \A j \in Into(at(i)) : j = i
    BY <2>1
  <2>3. PICK c \in Cell : c = at(i)
    BY <1>4
  <2>4. i \in Into(c) /\ \A j \in Into(c) : j = i
    BY <2>2, <2>3
  <2>5. Latest(c) = i
    <3>1. \E k \in Into(c) : \A j \in Into(c) : j <= k
      BY <2>4
    <3>2. Latest(c) \in Into(c)
      BY <3>1
    <3>3. QED
      BY <2>4, <3>2
  <2>6. there[c] = bytes[Latest(c)]
    BY <2>4
  <2>7. QED
    BY <2>3, <2>5, <2>6
<1>6. append(b, bytes) = hasWritten([b EXCEPT !.buf = there], n)
  BY <1>1, <1>2, <1>3 DEF append, Ring
<1> HIDE DEF there
<1>7. PICK v : v = (r + n) % MAX_BUFFER_SIZE
  OBVIOUS
<1>8. /\ append(b, bytes).buf = there /\ append(b, bytes).readIndex = r
      /\ append(b, bytes).writeIndex = v
  BY <1>1, <1>6, <1>7 DEF hasWritten, Ring
<1>9. v \in Cell /\ v = IF r + n < MAX_BUFFER_SIZE THEN r + n ELSE r + n - MAX_BUFFER_SIZE
  <2>1. PICK a \in Nat : a = r + n /\ a < 2 * MAX_BUFFER_SIZE
    BY <1>2, SizeAssumption DEF Cell
  <2>2. v = a % MAX_BUFFER_SIZE
    BY <1>7, <2>1
  <2>3. v \in Cell /\ v = IF a < MAX_BUFFER_SIZE THEN a ELSE a - MAX_BUFFER_SIZE
    BY <2>1, <2>2, ModOf
  <2>4. QED
    BY <2>1, <2>3, SizeAssumption DEF Cell
<1>10. readableBytes(append(b, bytes)) = n
  <2>1. readableBytes(append(b, bytes)) = IF v >= r THEN v - r ELSE MAX_BUFFER_SIZE - r + v
    BY <1>8 DEF readableBytes
  <2>2. QED
    BY <2>1, <1>2, <1>9, SizeAssumption DEF Cell
<1>11. \A i \in 1 .. n : ByteAt(append(b, bytes), i) = bytes[i]
  BY <1>5, <1>8 DEF ByteAt
<1>12. QED
  BY <1>2, <1>3, <1>10, <1>11
-----------------------------------------------------------------------------
(* Lemmas about sequences.                                                 *)

LEMMA RemoveAtFacts ==
  ASSUME NEW S, NEW s \in Seq(S), NEW i \in 1 .. Len(s)
  PROVE  /\ RemoveAt(s, i) \in Seq(S)
         /\ Len(RemoveAt(s, i)) = Len(s) - 1
         /\ \A j \in 1 .. Len(s) - 1 : RemoveAt(s, i)[j] = IF j < i THEN s[j] ELSE s[j + 1]
<1>1. PICK n \in Nat, h \in Nat, k \in Nat : n = Len(s) /\ h = i - 1 /\ k = i + 1 /\ h + 1 <= n
  BY LenProperties
<1>2. \A j \in 1 .. n : s[j] \in S
  BY <1>1, ElementOfSeq
<1>3. /\ SubSeq(s, 1, h) \in Seq(S) /\ Len(SubSeq(s, 1, h)) = h
      /\ \A j \in 1 .. h : SubSeq(s, 1, h)[j] = s[j]
  <2>1. /\ SubSeq(s, 1, h) \in Seq(S) /\ Len(SubSeq(s, 1, h)) = IF 1 <= h THEN h - 1 + 1 ELSE 0
        /\ \A j \in 1 .. h - 1 + 1 : SubSeq(s, 1, h)[j] = s[1 + j - 1]
    <3>1. 1 \in Int /\ h \in Int /\ \A j \in 1 .. h : s[j] \in S
      BY <1>1, <1>2
    <3>2. QED
      BY <3>1, SubSeqProperties
  <2>2. h - 1 + 1 = h /\ (~ (1 <= h) => h = 0) /\ \A j \in 1 .. h : 1 + j - 1 = j
    OBVIOUS
  <2>3. QED
    BY <2>1, <2>2
<1>4. /\ SubSeq(s, k, n) \in Seq(S) /\ Len(SubSeq(s, k, n)) = n - h - 1
      /\ \A j \in 1 .. n - h - 1 : SubSeq(s, k, n)[j] = s[h + 1 + j]
  <2>1. /\ SubSeq(s, k, n) \in Seq(S) /\ Len(SubSeq(s, k, n)) = IF k <= n THEN n - k + 1 ELSE 0
        /\ \A j \in 1 .. n - k + 1 : SubSeq(s, k, n)[j] = s[k + j - 1]
    <3>1. k \in Int /\ n \in Int /\ \A j \in k .. n : s[j] \in S
      BY <1>1, <1>2
    <3>2. QED
      BY <3>1, SubSeqProperties
  <2>2. /\ n - k + 1 = n - h - 1 /\ (~ (k <= n) => n - h - 1 = 0)
        /\ \A j \in 1 .. n - h - 1 : k + j - 1 = h + 1 + j
    BY <1>1
  <2>3. QED
    BY <2>1, <2>2
<1>5. PICK a \in Seq(S), b \in Seq(S) :
         /\ a = SubSeq(s, 1, h) /\ b = SubSeq(s, k, n)
         /\ RemoveAt(s, i) = a \o b /\ Len(a) = h /\ Len(b) = n - h - 1
  BY <1>1, <1>3, <1>4 DEF RemoveAt
<1>6. /\ a \o b \in Seq(S) /\ Len(a \o b) = h + (n - h - 1)
      /\ \A j \in 1 .. h + (n - h - 1) : (a \o b)[j] = IF j <= h THEN a[j] ELSE b[j - h]
  BY <1>5, ConcatProperties
<1>7. h + (n - h - 1) = n - 1
  BY <1>1
<1>8. ASSUME NEW j \in 1 .. n - 1
      PROVE  (a \o b)[j] = IF j < i THEN s[j] ELSE s[j + 1]
  <2>1. CASE j <= h
    <3>1. j < i /\ j \in 1 .. h
      BY <2>1, <1>1
    <3>2. QED
      BY <3>1, <1>3, <1>5, <1>6, <1>7, <2>1
  <2>2. CASE j > h
    <3>1. ~ (j < i) /\ j - h \in 1 .. n - h - 1 /\ h + 1 + (j - h) = j + 1 /\ ~ (j <= h)
      BY <2>2, <1>1
    <3>2. b[j - h] = s[h + 1 + (j - h)]
      BY <3>1, <1>4, <1>5
    <3>3. QED
      BY <3>1, <3>2, <1>6, <1>7
  <2>3. j <= h \/ j > h
    OBVIOUS
  <2>4. QED
    BY <2>1, <2>2, <2>3
<1>9. QED
  BY <1>1, <1>5, <1>6, <1>7, <1>8

LEMMA AnswerFacts ==
  ASSUME NEW n \in Nat, answers \in Nat
  PROVE  /\ Answer(n) \in Bytes /\ Len(Answer(n)) = n
         /\ \A i \in 1 .. n : Answer(n)[i] = <<answers + 1, i>>
<1>1. PICK a \in Nat : a = answers + 1
  OBVIOUS
<1>2. \A i \in 1 .. n : <<a, i>> \in Byte
  BY DEF Byte
<1>3. [i \in 1 .. n |-> <<a, i>>] \in [1 .. n -> Byte]
  BY <1>2
<1>4. Answer(n) = [i \in 1 .. n |-> <<a, i>>]
  BY <1>1 DEF Answer
<1>5. Answer(n) \in Seq(Byte) /\ Len(Answer(n)) = n
  BY <1>3, <1>4
<1>6. QED
  BY <1>1, <1>4, <1>5 DEF Bytes

LEMMA SameOps ==
  ASSUME NEW S, NEW n \in Nat, NEW e \in S
  PROVE  /\ [i \in 1 .. n |-> e] \in Seq(S)
         /\ Len([i \in 1 .. n |-> e]) = n
  OBVIOUS

-----------------------------------------------------------------------------
(* Types.                                                                  *)

Op == [iov : Iov, client : Nat]

Types ==
    /\ wb \in Ring /\ iov \in Iov /\ toSend \in Int
    /\ worker \in {"idle", "count", "prepare"}
    /\ loop \in {"idle", "subtract", "test"}
    /\ prepared \in Nat /\ answers \in 0 .. MaxAnswers
    /\ flight \in Seq(Op)
    /\ \A i \in 1 .. Len(flight) : flight[i].client \in 1 .. clients
    /\ closing \in {"no", "prepared", "submitted"} /\ clients \in Client
    /\ results \in Seq({-1} \cup 0 .. MAX_BUFFER_SIZE)
    /\ loop # "idle" => results # <<>> /\ results[1] >= 0
    /\ aborted \in BOOLEAN
    /\ said \in [Client -> Bytes] /\ received \in [Client -> Bytes]

\* A write to each client fails at most once, and not to the last one.
Errors ==
    /\ closing # "no" =>
          clients <= MaxErrors /\ \A i \in 1 .. Len(results) : results[i] # -1
    /\ \A i, j \in 1 .. Len(results) : results[i] = -1 /\ results[j] = -1 => i = j
    /\ \A i \in 1 .. Len(results) : results[i] = -1 => clients <= MaxErrors

LEMMA WriteInit == Init => Types /\ Errors
<1> SUFFICES ASSUME Init
             PROVE  Types /\ Errors
  OBVIOUS
<1>1. wb \in Ring
  <2>1. 0 \in Cell /\ NoByte \in Byte
    BY SizeAssumption DEF Cell, Byte
  <2>2. QED
    BY <2>1 DEF Init, Empty, Ring
<1>2. \A S : <<>> \in Seq(S) /\ Len(<<>>) = 0
  OBVIOUS
<1>3. 1 \in Client /\ 0 \in 0 .. MaxAnswers
  BY WriteAssumption DEF Client
<1>4. iov \in Iov
  BY NoRegionsType DEF Init
<1>5. said \in [Client -> Bytes] /\ received \in [Client -> Bytes]
  BY <1>2 DEF Init, Bytes
<1>6. flight \in Seq(Op) /\ Len(flight) = 0
  BY <1>2 DEF Init
<1>7. results \in Seq({-1} \cup 0 .. MAX_BUFFER_SIZE) /\ Len(results) = 0
  BY <1>2 DEF Init
<1>8. Types
  <2>1. toSend \in Int /\ prepared \in Nat
    BY DEF Init
  <2>2. clients \in Client /\ answers \in 0 .. MaxAnswers
    BY <1>3 DEF Init
  <2>3. \A i \in 1 .. Len(flight) : flight[i].client \in 1 .. clients
    BY <1>6
  <2>4. /\ worker \in {"idle", "count", "prepare"} /\ loop \in {"idle", "subtract", "test"}
        /\ closing \in {"no", "prepared", "submitted"} /\ aborted \in BOOLEAN
        /\ loop = "idle"
    BY DEF Init
  <2>5. QED
    BY <1>1, <1>4, <1>5, <1>6, <1>7, <2>1, <2>2, <2>3, <2>4 DEF Types
<1>9. Errors
  BY <1>7 DEF Init, Errors
<1>10. QED
  BY <1>8, <1>9
\* PrepareWrite sets iov, aborted and prepared.
LEMMA PreparedTypes ==
  ASSUME Types, PrepareWrite
  PROVE  iov' \in Iov /\ prepared' \in Nat /\ aborted' \in BOOLEAN
<1>1. iov' \in Iov
  BY BeginRegions DEF Types, PrepareWrite
<1>2. prepared' \in Nat
  BY DEF Types, PrepareWrite
<1>3. aborted' \in BOOLEAN
  BY Zenon DEF PrepareWrite
<1>4. QED
  BY <1>1, <1>2, <1>3

LEMMA AddTypes ==
  ASSUME Types, NEW n \in Length, Add(n)
  PROVE  /\ wb' \in Ring /\ answers' \in 0 .. MaxAnswers /\ aborted' \in BOOLEAN
         /\ said' \in [Client -> Bytes]
         /\ said'[clients] = said[clients] \o Answer(n)
         /\ \A c \in Client : c # clients => said'[c] = said[c]
         /\ n \in Nat /\ n > 0
         /\ answers \in Nat /\ answers' = answers + 1
<1>1. n \in Nat /\ n > 0 /\ answers \in Nat /\ answers < MaxAnswers /\ answers' = answers + 1
  BY WriteAssumption DEF Types, Add
<1>2. Answer(n) \in Bytes
  BY <1>1, AnswerFacts
<1>3. wb' \in Ring
  BY <1>2, AppendType DEF Types, Add
<1>4. said[clients] \in Bytes /\ clients \in Client
  BY DEF Types
<1>5. said[clients] \o Answer(n) \in Bytes
  BY <1>2, <1>4, ConcatProperties DEF Bytes
<1>6. said' = [said EXCEPT ![clients] = said[clients] \o Answer(n)]
  BY DEF Add
<1>7. said \in [Client -> Bytes]
  BY DEF Types
<1>8. /\ said' \in [Client -> Bytes] /\ said'[clients] = said[clients] \o Answer(n)
      /\ \A c \in Client : c # clients => said'[c] = said[c]
  BY <1>4, <1>5, <1>6, <1>7
<1>9. answers' \in 0 .. MaxAnswers
  BY <1>1, WriteAssumption
<1>10. aborted' \in BOOLEAN
  <2>1. aborted' = (Stored(wb, n) < n)
    BY DEF Add
  <2>2. QED
    BY <2>1
<1>11. QED
  BY <1>1, <1>3, <1>8, <1>9, <1>10

\* The answer that send() is at has a length.
LEMMA CurrentType ==
  ASSUME Types
  PROVE  Current \in Nat
<1>1. said[clients] \in Bytes
  BY DEF Types
<1>2. PICK n \in Nat : DOMAIN said[clients] = 1 .. n
  BY <1>1, LenProperties DEF Bytes
<1>3. IsFiniteSet(1 .. n)
  BY FS_Interval
<1>4. {i \in DOMAIN said[clients] : said[clients][i][1] = answers} \in SUBSET (1 .. n)
  BY <1>2
<1>5. QED
  BY <1>3, <1>4, FS_Subset, FS_CardinalityType DEF Current

\* Submit hands over what is prepared, behind what the kernel has.
LEMMA SubmitFacts ==
  ASSUME Types, Submit
  PROVE  /\ flight' \in Seq(Op) /\ Len(flight') = Len(flight) + prepared
         /\ \A i \in 1 .. Len(flight) : flight'[i] = flight[i]
         /\ \A i \in 1 .. Len(flight') :
               i > Len(flight) => flight'[i] = [iov |-> iov, client |-> clients]
         /\ \A i \in 1 .. Len(flight') : flight'[i].client \in 1 .. clients
<1>1. PICK e \in Op : e = [iov |-> iov, client |-> clients] /\ e.client = clients
  <2>1. iov \in Iov /\ clients \in Nat
    BY WriteAssumption DEF Types, Client
  <2>2. [iov |-> iov, client |-> clients] \in Op
    BY <2>1 DEF Op
  <2>3. QED
    BY <2>2
<1>2. PICK m \in Nat, n \in Nat : m = Len(flight) /\ n = prepared
  BY LenProperties DEF Types
<1>3. PICK s \in Seq(Op) : s = [i \in 1 .. n |-> e] /\ Len(s) = n
  BY SameOps
<1>4. flight' = flight \o s /\ flight \in Seq(Op)
  BY <1>1, <1>2, <1>3 DEF Submit, Types
<1>5. /\ flight' \in Seq(Op) /\ Len(flight') = m + n
      /\ \A i \in 1 .. m + n : flight'[i] = IF i <= m THEN flight[i] ELSE s[i - m]
  BY <1>2, <1>3, <1>4, ConcatProperties
<1>6. \A i \in 1 .. m : flight'[i] = flight[i]
  BY <1>5
<1>7. ASSUME NEW i \in 1 .. m + n, i > m
      PROVE  flight'[i] = e
  <2>1. i - m \in 1 .. n /\ ~ (i <= m)
    BY <1>7
  <2>2. QED
    BY <2>1, <1>3, <1>5
<1>8. ASSUME NEW i \in 1 .. m + n
      PROVE  flight'[i].client \in 1 .. clients
  <2>1. CASE i <= m
    <3>1. i \in 1 .. m
      BY <2>1
    <3>2. QED
      BY <3>1, <1>2, <1>6 DEF Types
  <2>2. CASE i > m
    BY <2>2, <1>1, <1>7 DEF Types, Client
  <2>3. QED
    BY <2>1, <2>2
<1>9. QED
  BY <1>1, <1>2, <1>5, <1>6, <1>7, <1>8

\* A completion takes a write from the kernel.
LEMMA CompletesFacts ==
  ASSUME Types, NEW i \in 1 .. Len(flight), NEW r \in {-1} \cup 0 .. MAX_BUFFER_SIZE,
         Completes(i, r)
  PROVE  /\ flight' \in Seq(Op) /\ Len(flight') = Len(flight) - 1
         /\ \A j \in 1 .. Len(flight') : \E k \in 1 .. Len(flight) : flight'[j] = flight[k]
         /\ results' \in Seq({-1} \cup 0 .. MAX_BUFFER_SIZE) /\ Len(results') = Len(results) + 1
         /\ \A j \in 1 .. Len(results) : results'[j] = results[j]
         /\ results'[Len(results) + 1] = r
         /\ UNCHANGED <<wb, iov, toSend, closing, clients, worker, loop, prepared, answers, aborted, said>>
<1>1. flight \in Seq(Op) /\ results \in Seq({-1} \cup 0 .. MAX_BUFFER_SIZE)
  BY DEF Types
<1>2. flight' = RemoveAt(flight, i) /\ results' = Append(results, r)
  BY DEF Completes
<1>3. PICK n \in Nat : n = Len(flight)
  BY <1>1, LenProperties
<1>4. /\ flight' \in Seq(Op) /\ Len(flight') = n - 1
      /\ \A j \in 1 .. n - 1 : flight'[j] = IF j < i THEN flight[j] ELSE flight[j + 1]
  BY <1>1, <1>2, <1>3, RemoveAtFacts
<1>5. ASSUME NEW j \in 1 .. n - 1
      PROVE  \E k \in 1 .. n : flight'[j] = flight[k]
  <2>1. j \in 1 .. n /\ j + 1 \in 1 .. n
    OBVIOUS
  <2>2. QED
    BY <2>1, <1>4
<1>6. /\ results' \in Seq({-1} \cup 0 .. MAX_BUFFER_SIZE) /\ Len(results') = Len(results) + 1
      /\ \A j \in 1 .. Len(results) : results'[j] = results[j]
      /\ results'[Len(results) + 1] = r
  BY <1>1, <1>2, AppendProperties
<1>7. UNCHANGED <<wb, iov, toSend, closing, clients, worker, loop, prepared, answers, aborted, said>>
  BY DEF Completes, memory, socket
<1>8. QED
  BY <1>3, <1>4, <1>5, <1>6, <1>7

\* Which bytes a transfer brings to which client.
LEMMA TransferFacts ==
  ASSUME Types, NEW i \in 1 .. Len(flight), NEW n \in 0 .. MAX_BUFFER_SIZE, Transfer(i, n)
  PROVE  /\ flight[i] \in Op /\ flight[i].client \in Client /\ flight[i].client \in 1 .. clients
         /\ n <= Size(flight[i].iov)
         /\ received' \in [Client -> Bytes]
         /\ \A c \in Client : c # flight[i].client => received'[c] = received[c]
         /\ Len(received'[flight[i].client]) = Len(received[flight[i].client]) + n
         /\ \A j \in 1 .. Len(received[flight[i].client]) :
               received'[flight[i].client][j] = received[flight[i].client][j]
         /\ \A j \in 1 .. n : received'[flight[i].client][Len(received[flight[i].client]) + j]
                                  = wb.buf[CellOf(flight[i].iov, j)]
         /\ Completes(i, n)
<1>1. flight[i] \in Op /\ flight[i].client \in 1 .. clients /\ clients \in Client
  BY ElementOfSeq DEF Types
<1>2. PICK v \in Iov, c \in Client : v = flight[i].iov /\ c = flight[i].client
  BY <1>1, WriteAssumption DEF Op, Client
<1>3. PICK k \in Nat : k = n
  OBVIOUS
<1>4. /\ k <= Size(v) /\ Completes(i, n)
      /\ received' = [received EXCEPT ![c] = received[c] \o Gather(wb, v, k)]
  BY <1>2, <1>3 DEF Transfer
<1>5. received \in [Client -> Bytes] /\ received[c] \in Bytes /\ wb \in Ring
  BY DEF Types
<1>6. PICK g \in Bytes : /\ g = Gather(wb, v, k) /\ Len(g) = k
                         /\ \A j \in 1 .. k : g[j] = wb.buf[CellOf(v, j)]
  BY <1>4, <1>5, GatherType
<1>7. PICK s \in Bytes, m \in Nat : s = received[c] /\ m = Len(s)
  BY <1>5, LenProperties DEF Bytes
<1>8. /\ s \o g \in Bytes /\ Len(s \o g) = m + k
      /\ \A j \in 1 .. m + k : (s \o g)[j] = IF j <= m THEN s[j] ELSE g[j - m]
  <2>1. s \in Seq(Byte) /\ g \in Seq(Byte)
    BY DEF Bytes
  <2>2. /\ s \o g \in Seq(Byte) /\ Len(s \o g) = Len(s) + Len(g)
        /\ \A j \in 1 .. Len(s) + Len(g) : (s \o g)[j] = IF j <= Len(s) THEN s[j] ELSE g[j - Len(s)]
    BY <2>1, ConcatProperties
  <2>3. QED
    BY <2>2, <1>6, <1>7 DEF Bytes
<1>9. /\ received' \in [Client -> Bytes] /\ received'[c] = s \o g
      /\ \A d \in Client : d # c => received'[d] = received[d]
  BY <1>4, <1>5, <1>6, <1>7, <1>8
<1>10. \A j \in 1 .. m : received'[c][j] = s[j]
  BY <1>8, <1>9
<1>11. ASSUME NEW j \in 1 .. k
       PROVE  received'[c][m + j] = wb.buf[CellOf(v, j)]
  <2>1. m + j \in 1 .. m + k /\ ~ (m + j <= m) /\ m + j - m = j
    OBVIOUS
  <2>2. (s \o g)[m + j] = g[m + j - m]
    BY <2>1, <1>8
  <2>3. QED
    BY <2>1, <2>2, <1>6, <1>9
<1>12. QED
  BY <1>1, <1>2, <1>3, <1>4, <1>7, <1>8, <1>9, <1>10, <1>11

\* Completions are handled in their order.
LEMMA TailFacts ==
  ASSUME Types, results # <<>>
  PROVE  /\ Head(results) = results[1] /\ results[1] \in {-1} \cup 0 .. MAX_BUFFER_SIZE
         /\ Tail(results) \in Seq({-1} \cup 0 .. MAX_BUFFER_SIZE)
         /\ Len(results) \in Nat /\ Len(results) > 0
         /\ Len(Tail(results)) = Len(results) - 1
         /\ \A j \in 1 .. Len(results) - 1 : Tail(results)[j] = results[j + 1]
<1>1. PICK S : S = {-1} \cup 0 .. MAX_BUFFER_SIZE
  OBVIOUS
<1>2. results \in Seq(S)
  BY <1>1 DEF Types
<1>3. Len(results) \in Nat \ {0}
  BY <1>2, EmptySeq
<1>4. results[1] \in S
  BY <1>2, <1>3, ElementOfSeq
<1>5. Head(results) = results[1]
  BY <1>2, <1>3
<1>6. /\ Tail(results) \in Seq(S) /\ Len(Tail(results)) = Len(results) - 1
      /\ \A j \in 1 .. Len(Tail(results)) : Tail(results)[j] = results[j + 1]
  BY <1>2, HeadTailProperties
<1>7. QED
  BY <1>1, <1>3, <1>4, <1>5, <1>6
LEMMA ClearedEmpty ==
  ASSUME NEW b \in Ring
  PROVE  clear(b) \in Ring /\ readableBytes(clear(b)) = 0
<1>1. 0 \in Cell
  BY SizeAssumption DEF Cell
<1>2. clear(b) \in Ring /\ clear(b).readIndex = 0 /\ clear(b).writeIndex = 0
  BY <1>1 DEF clear, Ring
<1>3. QED
  BY <1>2 DEF readableBytes

LEMMA WriteNextTypes == Types /\ Errors /\ [Next]_vars => Types' /\ Errors'
<1> SUFFICES ASSUME Types, Errors, [Next]_vars
             PROVE  Types' /\ Errors'
  OBVIOUS
<1>1. ASSUME NEW n \in Length, Add(n)
      PROVE  Types' /\ Errors'
  <2>1. /\ wb' \in Ring /\ answers' \in 0 .. MaxAnswers /\ aborted' \in BOOLEAN
        /\ said' \in [Client -> Bytes]
    BY <1>1, AddTypes
  <2>2. /\ worker' = "count"
        /\ UNCHANGED <<iov, toSend, flight, results, received, closing, clients, loop, prepared>>
    BY <1>1 DEF Add, kernel, socket
  <2>3. QED
    BY <2>1, <2>2 DEF Types, Errors
<1>2. CASE Count
  <2>1. toSend' \in Int
    BY <1>2, CurrentType DEF Count, Types
  <2>2. /\ worker' = "prepare"
        /\ UNCHANGED <<wb, iov, flight, results, received, closing, clients, loop, prepared, answers, aborted, said>>
    BY <1>2 DEF Count, kernel, socket
  <2>3. QED
    BY <2>1, <2>2 DEF Types, Errors
<1>3. CASE Prepare
  <2>1. iov' \in Iov /\ prepared' \in Nat /\ aborted' \in BOOLEAN
    BY <1>3, PreparedTypes DEF Prepare
  <2>2. /\ worker' = "idle"
        /\ UNCHANGED <<wb, toSend, flight, results, received, closing, clients, loop, answers, said>>
    BY <1>3 DEF Prepare, kernel, socket
  <2>3. QED
    BY <2>1, <2>2 DEF Types, Errors
<1>4. CASE Submit
  <2>1. flight' \in Seq(Op) /\ \A i \in 1 .. Len(flight') : flight'[i].client \in 1 .. clients
    BY <1>4, SubmitFacts
  <2>2. /\ prepared' = 0
        /\ closing' = IF closing = "prepared" THEN "submitted" ELSE closing
        /\ UNCHANGED <<wb, iov, toSend, results, received, clients, worker, loop, answers, aborted, said>>
    BY <1>4 DEF Submit, memory
  <2>3. closing' \in {"no", "prepared", "submitted"} /\ (closing' # "no" => closing # "no")
    BY <2>2 DEF Types
  <2>4. Types'
    BY <2>1, <2>2, <2>3 DEF Types
  <2>5. Errors'
    BY <2>2, <2>3 DEF Errors
  <2>6. QED
    BY <2>4, <2>5
<1>5. ASSUME NEW i \in 1 .. Len(flight), NEW r \in {-1} \cup 0 .. MAX_BUFFER_SIZE, Completes(i, r),
             received' \in [Client -> Bytes],
             r = -1 => clients <= MaxErrors /\ closing = "no"
                       /\ \A j \in 1 .. Len(results) : results[j] # -1
      PROVE  Types' /\ Errors'
  <2>1. /\ flight' \in Seq(Op)
        /\ \A j \in 1 .. Len(flight') : \E k \in 1 .. Len(flight) : flight'[j] = flight[k]
        /\ results' \in Seq({-1} \cup 0 .. MAX_BUFFER_SIZE) /\ Len(results') = Len(results) + 1
        /\ \A j \in 1 .. Len(results) : results'[j] = results[j]
        /\ results'[Len(results) + 1] = r
        /\ UNCHANGED <<wb, iov, toSend, closing, clients, worker, loop, prepared, answers, aborted, said>>
    BY <1>5, CompletesFacts
  <2>2. \A j \in 1 .. Len(flight') : flight'[j].client \in 1 .. clients
    BY <2>1 DEF Types
  <2>3. Types'
    <3>1. results # <<>> => results' # <<>> /\ results'[1] = results[1]
      <4>1. results # <<>> => Len(results) \in Nat /\ Len(results) > 0
        BY TailFacts
      <4>2. results # <<>> => 1 \in 1 .. Len(results) /\ Len(results') # 0
        BY <4>1, <2>1
      <4>3. QED
        BY <4>2, <2>1, EmptySeq
    <3>2. loop' # "idle" => results' # <<>> /\ results'[1] >= 0
      BY <3>1, <2>1 DEF Types
    <3>3. QED
      BY <1>5, <2>1, <2>2, <3>2 DEF Types
  <2>4. PICK m \in Nat : m = Len(results)
    BY LenProperties DEF Types
  <2>5. \A j \in 1 .. m + 1 : results'[j] = IF j <= m THEN results[j] ELSE r
    <3>1. ASSUME NEW j \in 1 .. m + 1
          PROVE  results'[j] = IF j <= m THEN results[j] ELSE r
      <4>1. CASE j = m + 1
        BY <4>1, <2>1, <2>4
      <4>2. CASE j # m + 1
        <5>1. j \in 1 .. m
          BY <4>2
        <5>2. QED
          BY <5>1, <2>1, <2>4
      <4>3. QED
        BY <4>1, <4>2
    <3>2. QED
      BY <3>1
  <2>6. Errors'
    <3>1. \A j \in 1 .. m + 1 : results'[j] = -1 => clients <= MaxErrors
      BY <1>5, <2>4, <2>5 DEF Errors
    <3>2. closing # "no" => r # -1 /\ clients <= MaxErrors /\ \A j \in 1 .. m + 1 : results'[j] # -1
      BY <1>5, <2>4, <2>5 DEF Errors
    <3>3. ASSUME NEW j \in 1 .. m + 1, NEW k \in 1 .. m + 1, results'[j] = -1, results'[k] = -1
          PROVE  j = k
      <4>1. CASE r = -1
        BY <4>1, <3>3, <1>5, <2>4, <2>5
      <4>2. CASE r # -1
        <5>1. j \in 1 .. m /\ k \in 1 .. m /\ results[j] = -1 /\ results[k] = -1
          BY <4>2, <3>3, <2>5
        <5>2. QED
          BY <5>1, <2>4 DEF Errors
      <4>3. QED
        BY <4>1, <4>2
    <3>4. closing' = closing /\ clients' = clients /\ Len(results') = m + 1
      BY <2>1, <2>4
    <3>5. QED
      BY <3>1, <3>2, <3>3, <3>4 DEF Errors
  <2>7. QED
    BY <2>3, <2>6
<1>6. ASSUME NEW i \in 1 .. Len(flight), NEW n \in 0 .. MAX_BUFFER_SIZE, Transfer(i, n)
      PROVE  Types' /\ Errors'
  <2>1. received' \in [Client -> Bytes] /\ Completes(i, n)
    BY <1>6, TransferFacts
  <2>2. n \in {-1} \cup 0 .. MAX_BUFFER_SIZE /\ n # -1
    OBVIOUS
  <2>3. QED
    BY <2>1, <2>2, <1>5
<1>7. ASSUME NEW i \in 1 .. Len(flight), Fail(i)
      PROVE  Types' /\ Errors'
  <2>1. /\ Completes(i, -1) /\ received' = received /\ closing = "no" /\ clients <= MaxErrors
        /\ -1 \notin ToSet(results)
    BY <1>7 DEF Fail
  <2>2. \A j \in 1 .. Len(results) : results[j] # -1
    BY <2>1, LenProperties DEF ToSet, Types
  <2>3. received' \in [Client -> Bytes] /\ -1 \in {-1} \cup 0 .. MAX_BUFFER_SIZE
    BY <2>1 DEF Types
  <2>4. QED
    BY <2>1, <2>2, <2>3, <1>5
<1>8. CASE HasRead
  <2>1. results # <<>> /\ Head(results) >= 0
        /\ wb' = hasRead(wb, Head(results)) /\ loop' = "subtract"
        /\ UNCHANGED <<iov, toSend, flight, results, received, closing, clients, worker, prepared, answers, aborted, said>>
    BY <1>8 DEF HasRead, kernel, socket
  <2>2. Head(results) \in Int
    BY <2>1, TailFacts
  <2>3. wb' \in Ring
    BY <2>1, <2>2, ReadType DEF Types
  <2>4. results[1] >= 0
    BY <2>1, TailFacts
  <2>5. QED
    BY <2>1, <2>3, <2>4 DEF Types, Errors
<1>9. CASE Subtract
  <2>1. loop' = "test" /\ toSend' = toSend - Head(results)
        /\ loop = "subtract"
        /\ UNCHANGED <<wb, iov, flight, results, received, closing, clients, worker, prepared, answers, aborted, said>>
    BY <1>9 DEF Subtract, AtLoop, kernel, socket
  <2>2. results # <<>> /\ results[1] >= 0
    BY <2>1 DEF Types
  <2>3. toSend' \in Int
    <3>1. Head(results) \in Int /\ toSend \in Int
      BY <2>2, TailFacts DEF Types
    <3>2. QED
      BY <2>1, <3>1
  <2>4. Types'
    BY <2>1, <2>2, <2>3 DEF Types
  <2>5. Errors'
    BY <2>1 DEF Errors
  <2>6. QED
    BY <2>4, <2>5
<1>10. ASSUME results # <<>>, results' = Tail(results)
       PROVE  /\ results' \in Seq({-1} \cup 0 .. MAX_BUFFER_SIZE)
              /\ Errors /\ closing' = closing /\ clients' = clients => Errors'
              /\ results[1] = -1 => \A j \in 1 .. Len(results') : results'[j] # -1
  <2>1. PICK m \in Nat : m = Len(results) /\ m > 0
    BY <1>10, TailFacts
  <2>2. Len(results') = m - 1 /\ \A j \in 1 .. m - 1 : results'[j] = results[j + 1]
    BY <1>10, <2>1, TailFacts
  <2>3. \A j \in 1 .. m - 1 : j + 1 \in 1 .. m
    OBVIOUS
  <2>4. ASSUME Errors, closing' = closing, clients' = clients
        PROVE  Errors'
    <3>1. closing # "no" => clients <= MaxErrors /\ \A j \in 1 .. m - 1 : results'[j] # -1
      BY <2>1, <2>2, <2>3, <2>4 DEF Errors
    <3>2. \A j, k \in 1 .. m - 1 : results'[j] = -1 /\ results'[k] = -1 => j = k
      <4>1. ASSUME NEW j \in 1 .. m - 1, NEW k \in 1 .. m - 1, results'[j] = -1, results'[k] = -1
            PROVE  j = k
        <5>1. j + 1 = k + 1
          BY <4>1, <2>1, <2>2, <2>3 DEF Errors
        <5>2. QED
          BY <5>1
      <4>2. QED
        BY <4>1
    <3>3. \A j \in 1 .. m - 1 : results'[j] = -1 => clients <= MaxErrors
      BY <2>1, <2>2, <2>3 DEF Errors
    <3>4. QED
      BY <2>2, <2>4, <3>1, <3>2, <3>3 DEF Errors
  <2>5. ASSUME results[1] = -1, NEW j \in 1 .. m - 1
        PROVE  results'[j] # -1
    <3>1. 1 \in 1 .. m /\ j + 1 \in 1 .. m /\ j + 1 # 1
      BY <2>1
    <3>2. results[j + 1] # -1
      BY <2>1, <2>5, <3>1 DEF Errors
    <3>3. QED
      BY <2>2, <3>2
  <2>6. QED
    BY <1>10, <2>2, <2>4, <2>5, TailFacts
<1>11. CASE TestLeft
  <2>1. /\ loop = "test" /\ loop' = "idle" /\ results' = Tail(results) /\ results # <<>>
        /\ UNCHANGED <<wb, toSend, flight, received, closing, clients, worker, answers, said>>
    BY <1>11 DEF TestLeft, AtLoop, socket, Types
  <2>2. iov' \in Iov /\ prepared' \in Nat /\ aborted' \in BOOLEAN
    <3>1. CASE toSend > 0
      BY <3>1, <1>11, PreparedTypes DEF TestLeft
    <3>2. CASE ~ (toSend > 0)
      BY <3>2, <1>11 DEF TestLeft, Types
    <3>3. QED
      BY <3>1, <3>2
  <2>3. QED
    BY <2>1, <2>2, <1>10 DEF Types
<1>12. CASE Disconnect
  <2>1. /\ results # <<>> /\ Head(results) < 0 /\ results' = Tail(results) /\ closing' = "prepared"
        /\ loop = "idle"
        /\ UNCHANGED <<wb, iov, toSend, flight, received, clients, worker, loop, prepared, answers, aborted, said>>
    BY <1>12 DEF Disconnect, AtLoop, memory
  <2>2. results[1] = -1 /\ 1 \in 1 .. Len(results)
    BY <2>1, TailFacts
  <2>3. clients <= MaxErrors /\ \A j \in 1 .. Len(results') : results'[j] # -1
    BY <2>1, <2>2, <1>10 DEF Errors
  <2>4. Types'
    BY <2>1, <1>10 DEF Types
  <2>5. Errors'
    BY <2>1, <2>3 DEF Errors
  <2>6. QED
    BY <2>4, <2>5
<1>13. CASE Closed
  <2>1. /\ closing = "submitted" /\ closing' = "no" /\ clients' = clients + 1 /\ wb' = clear(wb)
        /\ UNCHANGED <<iov, toSend, flight, results, received, worker, loop, prepared, answers, aborted, said>>
    BY <1>13 DEF Closed, kernel
  <2>2. clients <= MaxErrors /\ \A i \in 1 .. Len(results) : results[i] # -1
    BY <2>1 DEF Errors
  <2>3. clients' \in Client
    BY <2>1, <2>2, WriteAssumption DEF Types, Client
  <2>4. wb' \in Ring
    BY <2>1, ClearedEmpty DEF Types
  <2>5. \A i \in 1 .. Len(flight) : flight[i].client \in 1 .. clients'
    BY <2>1, WriteAssumption DEF Types, Client
  <2>6. Types'
    BY <2>1, <2>3, <2>4, <2>5 DEF Types
  <2>7. Errors'
    BY <2>1, <2>2 DEF Errors
  <2>8. QED
    BY <2>6, <2>7
<1>14. CASE UNCHANGED vars
  BY <1>14 DEF vars, memory, kernel, socket, Types, Errors
<1>15. QED
  BY <1>1, <1>2, <1>3, <1>4, <1>6, <1>7, <1>8, <1>9, <1>11, <1>12, <1>13, <1>14
     DEF Next, Worker, Callback, Kernel

\* The types, for any buffer, any answers and any errors: the regions of a write are
\* less than the ring, whatever the event loop and the worker do to the indices.
THEOREM WriteTypeOK == Spec => []TypeOK
<1>1. Types => TypeOK
  <2> SUFFICES ASSUME Types
               PROVE  TypeOK
    OBVIOUS
  <2>1. wb \in [buf : [Cell -> Byte], readIndex : Cell, writeIndex : Cell]
    BY DEF Types, Ring
  <2>2. \A k \in 1 .. 2 : iov[k].first \in Cell /\ iov[k].len \in 0 .. MAX_BUFFER_SIZE
    <3>1. iov \in Part \X Part
      BY DEF Types, Iov
    <3>2. iov[1] \in Part /\ iov[2] \in Part
      BY <3>1
    <3>3. QED
      BY <3>2 DEF Part
  <2>3. ASSUME NEW i \in 1 .. Len(flight)
        PROVE  flight[i].client \in 1 .. clients /\ Size(flight[i].iov) < MAX_BUFFER_SIZE
    <3>1. flight[i] \in Op
      BY ElementOfSeq DEF Types
    <3>2. flight[i].iov \in Iov
      BY <3>1 DEF Op
    <3>3. QED
      BY <3>2 DEF Iov, Types
  <2>4. clients \in Nat
    BY WriteAssumption DEF Types, Client
  <2>5. QED
    BY <2>1, <2>2, <2>3, <2>4 DEF Types, TypeOK
<1>2. QED
  BY <1>1, WriteInit, WriteNextTypes, PTL DEF Spec
-----------------------------------------------------------------------------
(* One write to the first client at a time.                                *)

\* The bytes that are said to a client and not received; those received that are still in
\* the buffer, and those that are still counted in _to_send_bytes.
Unsent(c) == Len(said[c]) - Len(received[c])
Untaken   == IF loop = "idle" /\ results # <<>> /\ results[1] > 0 THEN results[1] ELSE 0
Uncounted == IF loop # "test" /\ results # <<>> /\ results[1] > 0 THEN results[1] ELSE 0

\* Writes that are under way.
Operations == prepared + Len(flight) + Len(results)

\* What a client has received is what was said to it.
Agreeing(c) == \A i \in 1 .. Len(received[c]) : i <= Len(said[c]) /\ received[c][i] = said[c][i]

\* There is one write at a time, none while an answer is being added, and none when all is sent.
Single(c) ==
    /\ Operations <= 1
    /\ worker # "idle" => Operations = 0 /\ closing = "no" /\ Unsent(c) > 0
    /\ closing # "no" => Operations = 0
    /\ Operations > 0 => said[c] # <<>>
    /\ worker = "idle" /\ Operations = 0 /\ closing = "no" => Unsent(c) = 0

\* The buffer has the bytes that are not received, behind those that are and were not taken.
InRing(c) ==
    /\ Agreeing(c)
    /\ Unsent(c) >= 0
    /\ readableBytes(wb) = Unsent(c) + Untaken
    /\ \A i \in 1 .. readableBytes(wb) : ByteAt(wb, i) = said[c][Len(received[c]) - Untaken + i]

\* The write is of all that the buffer has.
Regions(c) ==
    /\ prepared > 0 => iov = readvBegin(wb)
    /\ flight # <<>> => flight[1] = [iov |-> readvBegin(wb), client |-> c]
    /\ prepared > 0 \/ flight # <<>> => Unsent(c) > 0

\* _to_send_bytes has what is not sent.
Counted(c) ==
    /\ worker = "count" =>
          /\ toSend = 0
          /\ \A i \in 1 .. Len(said[c]) : said[c][i][1] = answers <=> i > Len(received[c])
    /\ worker # "count" => toSend = Unsent(c) + Uncounted

Holds(c) == Single(c) /\ InRing(c) /\ Regions(c) /\ Counted(c)

Lock == clients = 1 => Holds(1)

\* Writes to the first client do not outlive it, and a client gets nothing before its time.
Behind   == clients > 1 => \A i \in 1 .. Len(flight) : flight[i].client > 1
Future   == \A c \in Client : c > clients => said[c] = <<>> /\ received[c] = <<>>
Numbered == \A c \in Client : \A i \in 1 .. Len(said[c]) : said[c][i] \in (1 .. answers) \X Nat

WInv == Types /\ Errors /\ Behind /\ Future /\ Numbered /\ Agreeing(1) /\ Lock

LEMMA Sizes ==
  ASSUME Types, NEW c \in Client
  PROVE  /\ Len(said[c]) \in Nat /\ Len(received[c]) \in Nat
         /\ said[c] \in Seq(Byte) /\ received[c] \in Seq(Byte)
         /\ c \in Nat
<1>1. said[c] \in Seq(Byte) /\ received[c] \in Seq(Byte)
  BY DEF Types, Bytes
<1>2. QED
  BY <1>1, LenProperties, WriteAssumption DEF Client

LEMMA Lengths ==
  ASSUME Types
  PROVE  /\ prepared \in Nat /\ Len(flight) \in Nat /\ Len(results) \in Nat
         /\ flight = <<>> <=> Len(flight) = 0
         /\ results = <<>> <=> Len(results) = 0
  BY LenProperties, EmptySeq DEF Types

\* With one write at a time, where it is.
LEMMA OneWrite ==
  ASSUME Types, NEW c \in Client, Single(c)
  PROVE  /\ prepared > 0 => prepared = 1 /\ flight = <<>> /\ results = <<>>
         /\ flight # <<>> => prepared = 0 /\ Len(flight) = 1 /\ results = <<>>
         /\ results # <<>> => prepared = 0 /\ flight = <<>> /\ Len(results) = 1
         /\ prepared > 0 \/ flight # <<>> \/ results # <<>> =>
               worker = "idle" /\ closing = "no" /\ said[c] # <<>>
         /\ loop # "idle" => results # <<>> /\ results[1] >= 0
         /\ worker # "idle" \/ closing # "no" => prepared = 0 /\ flight = <<>> /\ results = <<>> /\ loop = "idle"
<1>1. PICK p \in Nat, f \in Nat, r \in Nat :
         /\ p = prepared /\ f = Len(flight) /\ r = Len(results)
         /\ flight = <<>> <=> f = 0
         /\ results = <<>> <=> r = 0
  BY Lengths
<1>2. /\ p + f + r <= 1
      /\ worker # "idle" => p + f + r = 0
      /\ closing # "no" => p + f + r = 0
      /\ p + f + r > 0 => said[c] # <<>>
  BY <1>1 DEF Single, Operations
<1>3. loop # "idle" => results # <<>> /\ results[1] >= 0
  BY DEF Types
<1>4. /\ p > 0 => p = 1 /\ f = 0 /\ r = 0
      /\ f # 0 => p = 0 /\ f = 1 /\ r = 0
      /\ r # 0 => p = 0 /\ f = 0 /\ r = 1
      /\ p > 0 \/ f # 0 \/ r # 0 => p + f + r > 0
      /\ p + f + r = 0 => p = 0 /\ f = 0 /\ r = 0
      /\ p + f + r > 0 => p + f + r # 0
  BY <1>2
<1>5. QED
  BY <1>1, <1>2, <1>3, <1>4
LEMMA UnsentType ==
  ASSUME Types, NEW c \in Client, InRing(c)
  PROVE  Unsent(c) \in Nat
  BY Sizes DEF InRing, Unsent

LEMMA CountHolds ==
  ASSUME Types, NEW c \in Client, c = clients, Holds(c), Count
  PROVE  Holds(c)'
<1>1. PICK k \in Nat, m \in Nat, u \in Nat :
         k = Len(said[c]) /\ m = Len(received[c]) /\ u = Unsent(c) /\ u = k - m
  BY Sizes, UnsentType DEF Holds, Unsent
<1>2. /\ worker = "count" /\ worker' = "prepare" /\ toSend' = toSend + Current
      /\ UNCHANGED <<wb, iov, flight, results, received, closing, clients, loop, prepared, answers, aborted, said>>
  BY DEF Count, AtWorker, kernel, socket
<1>3. results = <<>> /\ loop = "idle" /\ prepared = 0 /\ flight = <<>>
  BY <1>2, OneWrite DEF Holds
<1>4. Current = u
  <2>1. said[c] \in Seq(Byte)
    BY Sizes
  <2>2. DOMAIN said[c] = 1 .. k
    BY <1>1, <2>1, LenProperties
  <2>3. \A i \in 1 .. k : said[c][i][1] = answers <=> i > m
    BY <1>1, <1>2 DEF Holds, Counted
  <2>4. {i \in 1 .. k : said[c][i][1] = answers} = {i \in 1 .. k : i > m}
    BY <2>3
  <2>5. {i \in 1 .. k : i > m} = m + 1 .. k
    OBVIOUS
  <2>6. Current = Cardinality(m + 1 .. k)
    BY <2>2, <2>4, <2>5 DEF Current
  <2>7. Cardinality(m + 1 .. k) = IF m + 1 > k THEN 0 ELSE k - (m + 1) + 1
    <3>1. PICK a \in Int, b \in Int : a = m + 1 /\ b = k
      OBVIOUS
    <3>2. Cardinality(a .. b) = IF a > b THEN 0 ELSE b - a + 1
      BY FS_Interval
    <3>3. QED
      BY <3>1, <3>2
  <2>8. (IF m + 1 > k THEN 0 ELSE k - (m + 1) + 1) = u
    <3>1. u = k - m
      BY <1>1
    <3>2. QED
      BY <3>1
  <2>9. QED
    BY <2>6, <2>7, <2>8, Zenon
<1>5. Single(c)'
  BY <1>2, <1>3 DEF Holds, Single, Operations, Unsent
<1>6. InRing(c)'
  BY <1>2 DEF Holds, InRing, Untaken, Unsent, Agreeing
<1>7. Regions(c)'
  BY <1>2, <1>3 DEF Holds, Regions
<1>8. Counted(c)'
  <2>1. toSend = 0 /\ Uncounted' = 0
    BY <1>2, <1>3 DEF Holds, Counted, Uncounted
  <2>2. Unsent(c)' = u
    BY <1>1, <1>2 DEF Unsent
  <2>3. toSend' = u + 0
    BY <1>2, <1>4, <2>1
  <2>4. QED
    BY <1>2, <2>1, <2>2, <2>3 DEF Counted
<1>9. QED
  BY <1>5, <1>6, <1>7, <1>8 DEF Holds

LEMMA PrepareHolds ==
  ASSUME Types, NEW c \in Client, c = clients, Holds(c), Prepare
  PROVE  Holds(c)'
<1>1. /\ worker = "prepare" /\ worker' = "idle" /\ iov' = readvBegin(wb) /\ prepared' = prepared + 1
      /\ UNCHANGED <<wb, toSend, flight, results, received, closing, clients, loop, answers, said>>
  BY DEF Prepare, PrepareWrite, AtWorker, kernel, socket
<1>2. results = <<>> /\ loop = "idle" /\ prepared = 0 /\ flight = <<>> /\ prepared' = 1
  BY <1>1, OneWrite DEF Holds
<1>3. closing = "no" /\ Unsent(c) > 0 /\ Unsent(c)' = Unsent(c)
  BY <1>1 DEF Holds, Single, Unsent
<1>4. said[c] # <<>>
  <2>1. PICK k \in Nat, m \in Nat : k = Len(said[c]) /\ m = Len(received[c]) /\ k - m > 0
    BY <1>3, Sizes DEF Unsent
  <2>2. k - m > 0
    BY <2>1
  <2>3. k # 0
    BY <2>2
  <2>4. QED
    BY <2>1, <2>3, EmptySeq
<1>5. Single(c)'
  <2>1. Operations' = 1
    BY <1>1, <1>2, Lengths DEF Operations
  <2>2. QED
    BY <1>1, <1>3, <1>4, <2>1 DEF Single
<1>6. InRing(c)'
  BY <1>1 DEF Holds, InRing, Untaken, Unsent, Agreeing
<1>7. Regions(c)'
  BY <1>1, <1>2, <1>3 DEF Regions
<1>8. Counted(c)'
  BY <1>1, <1>3 DEF Holds, Counted, Uncounted
<1>9. QED
  BY <1>5, <1>6, <1>7, <1>8 DEF Holds

LEMMA SubmitHolds ==
  ASSUME Types, NEW c \in Client, c = clients, Holds(c), Submit
  PROVE  Holds(c)'
<1>1. /\ prepared' = 0 /\ loop = "idle"
      /\ prepared > 0 \/ closing = "prepared"
      /\ closing' = IF closing = "prepared" THEN "submitted" ELSE closing
      /\ UNCHANGED <<wb, iov, toSend, results, received, clients, worker, loop, answers, aborted, said>>
  BY DEF Submit, AtLoop, memory
<1>2. PICK p \in Nat, f \in Nat, r \in Nat :
         /\ p = prepared /\ f = Len(flight) /\ r = Len(results)
         /\ flight = <<>> <=> f = 0
  BY Lengths
<1>3. /\ flight' \in Seq(Op) /\ Len(flight') = f + p
      /\ \A i \in 1 .. f : flight'[i] = flight[i]
      /\ \A i \in 1 .. f + p : i > f => flight'[i] = [iov |-> iov, client |-> c]
  BY <1>2, SubmitFacts
<1>4. closing' = "no" <=> closing = "no"
  BY <1>1
<1>5. Operations' = Operations
  BY <1>1, <1>2, <1>3 DEF Operations
<1>6. Single(c)'
  BY <1>1, <1>4, <1>5 DEF Holds, Single, Unsent
<1>7. InRing(c)'
  BY <1>1 DEF Holds, InRing, Untaken, Unsent, Agreeing
<1>8. Regions(c)'
  <2>1. CASE p > 0
    <3>1. p = 1 /\ f = 0
      BY <2>1, <1>2, OneWrite DEF Holds
    <3>2. flight'[1] = [iov |-> iov, client |-> c]
      BY <1>3, <3>1
    <3>3. iov = readvBegin(wb) /\ Unsent(c) > 0
      BY <2>1, <1>2 DEF Holds, Regions
    <3>4. QED
      BY <1>1, <3>2, <3>3 DEF Regions, Unsent
  <2>2. CASE p = 0
    <3>1. f = 0
      BY <2>2, <1>1, <1>2, OneWrite DEF Holds
    <3>2. Len(flight') = 0
      BY <1>3, <2>2, <3>1
    <3>3. flight' = <<>>
      BY <1>3, <3>2, EmptySeq
    <3>4. QED
      BY <1>1, <3>3 DEF Regions
  <2>3. QED
    BY <2>1, <2>2
<1>9. Counted(c)'
  BY <1>1 DEF Holds, Counted, Uncounted, Unsent
<1>10. QED
  BY <1>6, <1>7, <1>8, <1>9 DEF Holds

\* The completion of the one write.
LEMMA CompletesOne ==
  ASSUME Types, NEW c \in Client, c = clients, Single(c),
         NEW i \in 1 .. Len(flight), NEW r \in {-1} \cup 0 .. MAX_BUFFER_SIZE, Completes(i, r)
  PROVE  /\ i = 1 /\ flight # <<>> /\ prepared = 0 /\ results = <<>> /\ worker = "idle" /\ loop = "idle"
         /\ closing = "no" /\ said[c] # <<>>
         /\ flight' = <<>> /\ results' # <<>> /\ results'[1] = r /\ Operations' = 1
         /\ UNCHANGED <<wb, iov, toSend, closing, clients, worker, loop, prepared, answers, aborted, said>>
<1>1. PICK f \in Nat : f = Len(flight) /\ (flight = <<>> <=> f = 0)
  BY Lengths
<1>2. flight # <<>>
  BY <1>1
<1>3. /\ prepared = 0 /\ f = 1 /\ results = <<>> /\ Len(results) = 0
      /\ worker = "idle" /\ closing = "no" /\ said[c] # <<>> /\ loop = "idle"
  BY <1>1, <1>2, OneWrite, Lengths
<1>4. /\ flight' \in Seq(Op) /\ Len(flight') = f - 1
      /\ results' \in Seq({-1} \cup 0 .. MAX_BUFFER_SIZE) /\ Len(results') = 0 + 1
      /\ results'[0 + 1] = r
      /\ UNCHANGED <<wb, iov, toSend, closing, clients, worker, loop, prepared, answers, aborted, said>>
  BY <1>1, <1>3, CompletesFacts
<1>5. i = 1 /\ Len(flight') = 0 /\ Len(results') = 1 /\ results'[1] = r
  BY <1>1, <1>3, <1>4
<1>6. flight' = <<>> /\ results' # <<>>
  BY <1>4, <1>5, EmptySeq
<1>7. Operations' = 1
  BY <1>3, <1>4, <1>5 DEF Operations
<1>8. QED
  BY <1>2, <1>3, <1>4, <1>5, <1>6, <1>7
LEMMA TransferHolds ==
  ASSUME Types, NEW c \in Client, c = clients, Holds(c),
         NEW i \in 1 .. Len(flight), NEW n \in 0 .. MAX_BUFFER_SIZE, Transfer(i, n)
  PROVE  Holds(c)'
<1>1. n \in Nat /\ n \in {-1} \cup 0 .. MAX_BUFFER_SIZE /\ Completes(i, n)
  BY TransferFacts
<1>2. /\ i = 1 /\ flight # <<>> /\ prepared = 0 /\ results = <<>> /\ worker = "idle" /\ loop = "idle"
      /\ closing = "no" /\ said[c] # <<>>
      /\ flight' = <<>> /\ results' # <<>> /\ results'[1] = n /\ Operations' = 1
      /\ UNCHANGED <<wb, iov, toSend, closing, clients, worker, loop, prepared, answers, aborted, said>>
  BY <1>1, CompletesOne DEF Holds
<1>3. flight[i].iov = readvBegin(wb) /\ flight[i].client = c
  BY <1>2 DEF Holds, Regions
<1>4. PICK k \in Nat, m \in Nat, u \in Nat :
         k = Len(said[c]) /\ m = Len(received[c]) /\ u = Unsent(c) /\ u = k - m
  BY Sizes, UnsentType DEF Holds, Unsent
<1>5. wb \in Ring /\ readableBytes(wb) = u
  <2>1. Untaken = 0 /\ readableBytes(wb) = Unsent(c) + Untaken
    BY <1>2 DEF Untaken, Holds, InRing
  <2>2. u + 0 = u
    OBVIOUS
  <2>3. readableBytes(wb) = u
    BY <1>4, <2>1, <2>2
  <2>4. QED
    BY <2>3 DEF Types
<1>6. /\ n <= u
      /\ received' \in [Client -> Bytes]
      /\ Len(received'[c]) = m + n
      /\ \A j \in 1 .. m : received'[c][j] = received[c][j]
      /\ \A j \in 1 .. n : received'[c][m + j] = wb.buf[CellOf(readvBegin(wb), j)]
  BY <1>3, <1>4, <1>5, TransferFacts, BeginRegions
<1>7. \A j \in 1 .. u : ByteAt(wb, j) = said[c][m + j]
  <2>1. Untaken = 0
    BY <1>2 DEF Untaken
  <2>2. \A j \in 1 .. u : ByteAt(wb, j) = said[c][m - 0 + j]
    BY <1>4, <1>5, <2>1 DEF Holds, InRing
  <2>3. m - 0 = m
    OBVIOUS
  <2>4. QED
    BY <2>2, <2>3
<1>8. \A j \in 1 .. n : received'[c][m + j] = said[c][m + j]
  <2>1. ASSUME NEW j \in 1 .. n
        PROVE  received'[c][m + j] = said[c][m + j]
    <3>1. j \in 1 .. u
      BY <1>1, <1>6
    <3>2. wb.buf[CellOf(readvBegin(wb), j)] = ByteAt(wb, j)
      BY <3>1, <1>5, BeginRegions
    <3>3. QED
      BY <3>1, <3>2, <1>6, <1>7
  <2>2. QED
    BY <2>1
<1>9. PICK v \in Nat : v = u - n /\ v = k - (m + n)
  <2>1. u = k - m /\ n <= u
    BY <1>4, <1>6
  <2>2. u - n \in Nat /\ u - n = k - (m + n)
    BY <2>1, <1>1
  <2>3. QED
    BY <2>2
<1>10. Unsent(c)' = v
  BY <1>2, <1>4, <1>6, <1>9 DEF Unsent
<1>11. Untaken' = n /\ Uncounted' = n /\ Uncounted = 0
  <2>1. n > 0 \/ n = 0
    BY <1>1
  <2>2. QED
    BY <1>2, <2>1 DEF Untaken, Uncounted
<1>12. Single(c)'
  BY <1>2 DEF Single
<1>13. Agreeing(c)'
  <2>1. \A j \in 1 .. m : j <= k /\ received[c][j] = said[c][j]
    BY <1>4 DEF Holds, InRing, Agreeing
  <2>2. ASSUME NEW j \in 1 .. m + n
        PROVE  j <= k /\ received'[c][j] = said[c][j]
    <3>1. CASE j <= m
      <4>1. j \in 1 .. m
        BY <3>1
      <4>2. QED
        BY <4>1, <1>6, <2>1
    <3>2. CASE j > m
      <4>1. PICK l \in 1 .. n : j = m + l
        <5>1. j - m \in 1 .. n /\ j = m + (j - m)
          BY <3>2, <1>1
        <5>2. QED
          BY <5>1
      <4>2. m + l <= k
        BY <1>1, <1>9
      <4>3. QED
        BY <4>1, <4>2, <1>8
    <3>3. j <= m \/ j > m
      BY <1>1
    <3>4. QED
      BY <3>1, <3>2, <3>3
  <2>3. said' = said
    BY <1>2
  <2>4. QED
    BY <1>4, <1>6, <2>2, <2>3 DEF Agreeing
<1>14. InRing(c)'
  <2>1. readableBytes(wb)' = u /\ wb' = wb /\ said' = said
    BY <1>2, <1>5
  <2>2. u = v + n
    BY <1>1, <1>9
  <2>3. m + n - n = m
    BY <1>1
  <2>4. \A j \in 1 .. u : ByteAt(wb, j)' = said'[c][m + n - n + j]
    BY <1>7, <2>1, <2>3 DEF ByteAt
  <2>5. Len(received[c])' = m + n
    BY <1>6
  <2>6. QED
    BY <1>9, <1>10, <1>11, <1>13, <2>1, <2>2, <2>4, <2>5 DEF InRing
<1>15. Regions(c)'
  BY <1>2 DEF Regions
<1>16. Counted(c)'
  <2>1. toSend = u + 0
    BY <1>2, <1>4, <1>11 DEF Holds, Counted
  <2>2. u + 0 = v + n
    BY <1>1, <1>9
  <2>3. toSend' = v + n
    BY <1>2, <2>1, <2>2
  <2>4. QED
    BY <1>2, <1>10, <1>11, <2>1, <2>3 DEF Counted
<1>17. QED
  BY <1>12, <1>14, <1>15, <1>16 DEF Holds

LEMMA FailHolds ==
  ASSUME Types, NEW c \in Client, c = clients, Holds(c),
         NEW i \in 1 .. Len(flight), Fail(i)
  PROVE  Holds(c)'
<1>1. -1 \in {-1} \cup 0 .. MAX_BUFFER_SIZE /\ Completes(i, -1) /\ received' = received
  BY DEF Fail
<1>2. /\ i = 1 /\ flight # <<>> /\ prepared = 0 /\ results = <<>> /\ worker = "idle" /\ loop = "idle"
      /\ closing = "no" /\ said[c] # <<>>
      /\ flight' = <<>> /\ results' # <<>> /\ results'[1] = -1 /\ Operations' = 1
      /\ UNCHANGED <<wb, iov, toSend, closing, clients, worker, loop, prepared, answers, aborted, said>>
  BY <1>1, CompletesOne DEF Holds
<1>3. Untaken = 0 /\ Uncounted = 0 /\ Untaken' = 0 /\ Uncounted' = 0 /\ Unsent(c)' = Unsent(c)
  <2>1. ~ (results'[1] > 0)
    BY <1>2
  <2>2. QED
    BY <1>1, <1>2, <2>1 DEF Untaken, Uncounted, Unsent
<1>4. Single(c)'
  BY <1>2 DEF Single
<1>5. InRing(c)'
  BY <1>1, <1>2, <1>3 DEF Holds, InRing, Agreeing
<1>6. Regions(c)'
  BY <1>2 DEF Regions
<1>7. Counted(c)'
  BY <1>1, <1>2, <1>3 DEF Holds, Counted
<1>8. QED
  BY <1>4, <1>5, <1>6, <1>7 DEF Holds

LEMMA HasReadHolds ==
  ASSUME Types, NEW c \in Client, c = clients, Holds(c), HasRead
  PROVE  Holds(c)'
<1>1. /\ loop = "idle" /\ results # <<>> /\ Head(results) >= 0
      /\ wb' = hasRead(wb, Head(results)) /\ loop' = "subtract"
      /\ UNCHANGED <<iov, toSend, flight, results, received, closing, clients, worker, prepared, answers, aborted, said>>
  BY DEF HasRead, AtLoop, kernel, socket
<1>2. prepared = 0 /\ flight = <<>> /\ worker = "idle"
  BY <1>1, OneWrite DEF Holds
<1>3. PICK h \in Nat : h = Head(results) /\ h = results[1]
  BY <1>1, TailFacts
<1>4. PICK k \in Nat, m \in Nat, u \in Nat :
         k = Len(said[c]) /\ m = Len(received[c]) /\ u = Unsent(c) /\ u = k - m
  BY Sizes, UnsentType DEF Holds, Unsent
<1>5. Untaken = h /\ Untaken' = 0 /\ Uncounted' = Uncounted /\ Unsent(c)' = Unsent(c)
  <2>1. h > 0 \/ h = 0
    OBVIOUS
  <2>2. QED
    BY <1>1, <1>3, <2>1 DEF Untaken, Uncounted, Unsent
<1>6. /\ wb \in Ring /\ readableBytes(wb) = u + h
      /\ \A j \in 1 .. u + h : ByteAt(wb, j) = said[c][m - h + j]
  BY <1>4, <1>5 DEF Types, Holds, InRing
<1>7. /\ readableBytes(hasRead(wb, h)) = u + h - h
      /\ \A j \in 1 .. u + h - h : ByteAt(hasRead(wb, h), j) = ByteAt(wb, h + j)
  <2>1. h <= u + h
    OBVIOUS
  <2>2. QED
    BY <1>6, <2>1, ReadableRead
<1>8. wb' = hasRead(wb, h) /\ u + h - h = u
  BY <1>1, <1>3
<1>9. ASSUME NEW j \in 1 .. u
      PROVE  ByteAt(hasRead(wb, h), j) = said[c][m - 0 + j]
  <2>1. h + j \in 1 .. u + h /\ m - h + (h + j) = m - 0 + j
    OBVIOUS
  <2>2. ByteAt(wb, h + j) = said[c][m - h + (h + j)]
    BY <1>6, <2>1
  <2>3. QED
    BY <1>7, <1>8, <2>1, <2>2
<1>10. InRing(c)'
  <2>1. readableBytes(wb)' = u + 0
    BY <1>7, <1>8
  <2>2. \A j \in 1 .. u : ByteAt(wb, j)' = said'[c][m - 0 + j]
    BY <1>1, <1>8, <1>9 DEF ByteAt
  <2>3. Agreeing(c)'
    BY <1>1 DEF Holds, InRing, Agreeing
  <2>4. Len(received[c])' = m /\ u + 0 = u /\ u >= 0
    BY <1>1, <1>4
  <2>5. Unsent(c)' = u /\ Untaken' = 0
    BY <1>4, <1>5
  <2>6. QED
    BY <2>1, <2>2, <2>3, <2>4, <2>5 DEF InRing
<1>11. Single(c)'
  BY <1>1, <1>5 DEF Holds, Single, Operations
<1>12. Regions(c)'
  BY <1>1, <1>2 DEF Regions
<1>13. Counted(c)'
  BY <1>1, <1>5 DEF Holds, Counted
<1>14. QED
  BY <1>10, <1>11, <1>12, <1>13 DEF Holds

LEMMA SubtractHolds ==
  ASSUME Types, NEW c \in Client, c = clients, Holds(c), Subtract
  PROVE  Holds(c)'
<1>1. /\ loop = "subtract" /\ toSend' = toSend - Head(results) /\ loop' = "test"
      /\ UNCHANGED <<wb, iov, flight, results, received, closing, clients, worker, prepared, answers, aborted, said>>
  BY DEF Subtract, AtLoop, kernel, socket
<1>2. results # <<>> /\ results[1] >= 0 /\ prepared = 0 /\ flight = <<>> /\ worker = "idle"
  BY <1>1, OneWrite DEF Holds
<1>3. PICK h \in Nat : h = Head(results) /\ h = results[1]
  BY <1>2, TailFacts
<1>4. PICK u \in Nat : u = Unsent(c)
  BY UnsentType DEF Holds
<1>5. /\ Uncounted = h /\ Uncounted' = 0 /\ Unsent(c)' = u
      /\ Untaken' = 0 /\ Untaken = 0
  <2>1. h > 0 \/ h = 0
    OBVIOUS
  <2>2. QED
    BY <1>1, <1>2, <1>3, <1>4, <2>1 DEF Untaken, Uncounted, Unsent
<1>6. Single(c)'
  BY <1>1, <1>4, <1>5 DEF Holds, Single, Operations
<1>7. InRing(c)'
  BY <1>1, <1>4, <1>5 DEF Holds, InRing, Agreeing
<1>8. Regions(c)'
  BY <1>1, <1>2 DEF Regions
<1>9. Counted(c)'
  <2>1. toSend = u + h
    BY <1>2, <1>4, <1>5 DEF Holds, Counted
  <2>2. u + h - h = u + 0
    OBVIOUS
  <2>3. toSend' = u + 0
    BY <1>1, <1>3, <2>1, <2>2
  <2>4. QED
    BY <1>1, <1>2, <1>5, <2>1, <2>3 DEF Counted
<1>10. QED
  BY <1>6, <1>7, <1>8, <1>9 DEF Holds
LEMMA TestLeftHolds ==
  ASSUME Types, NEW c \in Client, c = clients, Holds(c), TestLeft
  PROVE  Holds(c)'
<1>1. /\ loop = "test" /\ results' = Tail(results) /\ loop' = "idle"
      /\ UNCHANGED <<wb, toSend, flight, received, closing, clients, worker, answers, said>>
  BY DEF TestLeft, AtLoop, socket
<1>2. /\ results # <<>> /\ results[1] >= 0 /\ Len(results) = 1
      /\ prepared = 0 /\ flight = <<>> /\ worker = "idle" /\ closing = "no" /\ said[c] # <<>>
  BY <1>1, OneWrite DEF Holds
<1>3. results' = <<>> /\ Len(results') = 0 /\ Len(flight') = 0
  <2>1. /\ Tail(results) \in Seq({-1} \cup 0 .. MAX_BUFFER_SIZE)
        /\ Len(Tail(results)) = 1 - 1
    BY <1>2, TailFacts
  <2>2. Len(Tail(results)) = 0
    BY <2>1
  <2>3. QED
    BY <1>1, <1>2, <2>1, <2>2, EmptySeq
<1>4. PICK u \in Nat : u = Unsent(c)
  BY UnsentType DEF Holds
<1>5. Untaken = 0 /\ Uncounted = 0 /\ Untaken' = 0 /\ Uncounted' = 0 /\ Unsent(c)' = u
  BY <1>1, <1>3, <1>4 DEF Untaken, Uncounted, Unsent
<1>6. toSend = u
  <2>1. toSend = u + 0
    BY <1>2, <1>4, <1>5 DEF Holds, Counted
  <2>2. u + 0 = u
    OBVIOUS
  <2>3. QED
    BY <2>1, <2>2 DEF Holds, Counted
<1>7. InRing(c)'
  BY <1>1, <1>4, <1>5 DEF Holds, InRing, Agreeing
<1>8. Counted(c)'
  <2>1. u + 0 = u
    OBVIOUS
  <2>2. QED
    BY <1>1, <1>2, <1>5, <1>6, <2>1 DEF Counted
<1>9. CASE toSend > 0
  <2>1. iov' = readvBegin(wb) /\ prepared' = prepared + 1
    BY <1>9 DEF TestLeft, PrepareWrite
  <2>2. prepared' = 1 /\ Operations' = 1
    BY <1>2, <1>3, <2>1 DEF Operations
  <2>3. u > 0
    BY <1>6, <1>9
  <2>4. Single(c)'
    BY <1>1, <1>2, <2>2 DEF Single
  <2>5. Regions(c)'
    BY <1>1, <1>2, <1>5, <2>1, <2>3 DEF Regions
  <2>6. QED
    BY <1>7, <1>8, <2>4, <2>5 DEF Holds
<1>10. CASE ~ (toSend > 0)
  <2>1. prepared' = 0 /\ Operations' = 0
    BY <1>2, <1>3, <1>10 DEF TestLeft, Operations
  <2>2. u = 0
    <3>1. ~ (u > 0)
      BY <1>6, <1>10
    <3>2. QED
      BY <3>1
  <2>3. Single(c)'
    BY <1>1, <1>2, <1>5, <2>1, <2>2 DEF Single
  <2>4. Regions(c)'
    BY <1>1, <1>2, <2>1 DEF Regions
  <2>5. QED
    BY <1>7, <1>8, <2>3, <2>4 DEF Holds
<1>11. QED
  BY <1>9, <1>10

LEMMA DisconnectHolds ==
  ASSUME Types, NEW c \in Client, c = clients, Holds(c), Disconnect
  PROVE  Holds(c)'
<1>1. /\ loop = "idle" /\ results # <<>> /\ Head(results) < 0 /\ results' = Tail(results)
      /\ closing' = "prepared"
      /\ UNCHANGED <<wb, iov, toSend, flight, received, clients, worker, loop, prepared, answers, aborted, said>>
  BY DEF Disconnect, AtLoop, memory
<1>2. Len(results) = 1 /\ prepared = 0 /\ flight = <<>> /\ worker = "idle" /\ said[c] # <<>>
  BY <1>1, OneWrite DEF Holds
<1>3. results' = <<>> /\ Len(results') = 0 /\ Len(flight') = 0
  <2>1. /\ Tail(results) \in Seq({-1} \cup 0 .. MAX_BUFFER_SIZE)
        /\ Len(Tail(results)) = 1 - 1
    BY <1>1, <1>2, TailFacts
  <2>2. Len(Tail(results)) = 0
    BY <2>1
  <2>3. QED
    BY <1>1, <1>2, <2>1, <2>2, EmptySeq
<1>4. ~ (results[1] > 0)
  BY <1>1, TailFacts
<1>5. Untaken = 0 /\ Uncounted = 0 /\ Untaken' = 0 /\ Uncounted' = 0 /\ Unsent(c)' = Unsent(c)
  BY <1>1, <1>3, <1>4 DEF Untaken, Uncounted, Unsent
<1>6. Operations' = 0
  BY <1>1, <1>2, <1>3 DEF Operations
<1>7. Single(c)'
  BY <1>1, <1>2, <1>6 DEF Single
<1>8. InRing(c)'
  BY <1>1, <1>5 DEF Holds, InRing, Agreeing
<1>9. Regions(c)'
  BY <1>1, <1>2 DEF Regions
<1>10. Counted(c)'
  BY <1>1, <1>5 DEF Holds, Counted
<1>11. QED
  BY <1>7, <1>8, <1>9, <1>10 DEF Holds

\* A client that waits asks when nothing is under way, so the buffer is empty.
LEMMA AddHolds ==
  ASSUME Types, Numbered, NEW c \in Client, c = clients, Holds(c),
         ~Pipelined, NEW n \in Length, n < MAX_BUFFER_SIZE, Add(n)
  PROVE  Holds(c)' /\ aborted' = FALSE
<1>1. /\ worker = "idle" /\ worker' = "count" /\ wb' = append(wb, Answer(n))
      /\ closing = "no" /\ received[c] = said[c] /\ results = <<>> /\ loop = "idle"
      /\ aborted' = (Stored(wb, n) < n)
      /\ UNCHANGED <<iov, toSend, flight, results, received, closing, clients, loop, prepared>>
  BY DEF Add, AtWorker, Asks, kernel, socket
<1>2. /\ n \in Nat /\ n > 0 /\ answers \in Nat /\ answers' = answers + 1
      /\ said'[c] = said[c] \o Answer(n)
  BY AddTypes
<1>3. PICK k \in Nat : k = Len(said[c]) /\ k = Len(received[c])
  BY <1>1, Sizes
<1>4. Unsent(c) = 0 /\ Untaken = 0 /\ Uncounted = 0 /\ Untaken' = 0
  BY <1>1, <1>3 DEF Unsent, Untaken, Uncounted
<1>5. wb \in Ring /\ readableBytes(wb) = 0
  BY <1>4 DEF Types, Holds, InRing
<1>6. PICK a \in Seq(Byte) : /\ a = Answer(n) /\ a \in Bytes /\ Len(a) = n
                             /\ \A i \in 1 .. n : a[i] = <<answers + 1, i>>
  BY <1>2, AnswerFacts DEF Bytes
<1>7. /\ Stored(wb, n) = n
      /\ readableBytes(wb)' = n
      /\ \A i \in 1 .. n : ByteAt(append(wb, a), i) = a[i]
  BY <1>1, <1>5, <1>6, AppendAt
<1>8. /\ Len(said'[c]) = k + n
      /\ \A i \in 1 .. k + n : said'[c][i] = IF i <= k THEN said[c][i] ELSE a[i - k]
  <2>1. PICK s \in Seq(Byte) : s = said[c] /\ Len(s) = k
    BY <1>3, Sizes
  <2>2. /\ Len(s \o a) = Len(s) + Len(a)
        /\ \A i \in 1 .. Len(s) + Len(a) : (s \o a)[i] = IF i <= Len(s) THEN s[i] ELSE a[i - Len(s)]
    BY ConcatProperties
  <2>3. said'[c] = s \o a /\ Len(a) = n
    BY <1>2, <1>6, <2>1
  <2>4. QED
    BY <2>1, <2>2, <2>3
<1>9. /\ \A i \in 1 .. k : said'[c][i] = said[c][i]
      /\ \A i \in 1 .. n : said'[c][k + i] = a[i]
  <2>1. ASSUME NEW i \in 1 .. k
        PROVE  said'[c][i] = said[c][i]
    <3>1. i \in 1 .. k + n /\ i <= k
      BY <1>2
    <3>2. QED
      BY <3>1, <1>8
  <2>2. ASSUME NEW i \in 1 .. n
        PROVE  said'[c][k + i] = a[i]
    <3>1. k + i \in 1 .. k + n /\ ~ (k + i <= k) /\ k + i - k = i
      BY <1>2
    <3>2. said'[c][k + i] = a[k + i - k]
      BY <3>1, <1>8
    <3>3. QED
      BY <3>1, <3>2
  <2>3. QED
    BY <2>1, <2>2
<1>10. \A i \in 1 .. k : said[c][i][1] \in 1 .. answers
  <2>1. \A i \in 1 .. k : said[c][i] \in (1 .. answers) \X Nat
    BY <1>3 DEF Numbered
  <2>2. QED
    BY <2>1
<1>11. prepared = 0 /\ flight = <<>>
  <2>1. ~ (prepared > 0 \/ flight # <<>>)
    BY <1>4 DEF Holds, Regions
  <2>2. QED
    BY <2>1, Lengths
<1>12. Operations' = 0
  BY <1>1, <1>11, Lengths DEF Operations
<1>13. Unsent(c)' = n
  <2>1. (k + n) - k = n
    BY <1>2
  <2>2. Unsent(c)' = Len(said'[c]) - Len(received'[c])
    BY DEF Unsent
  <2>3. Len(said'[c]) = k + n /\ Len(received'[c]) = k
    BY <1>1, <1>3, <1>8
  <2>4. QED
    BY <2>1, <2>2, <2>3
<1>14. Single(c)'
  BY <1>1, <1>2, <1>12, <1>13 DEF Single
<1>15. InRing(c)'
  <2>1. Agreeing(c)'
    <3>1. \A i \in 1 .. k : i <= k + n
      BY <1>2
    <3>2. \A i \in 1 .. k : received'[c][i] = said'[c][i]
      BY <1>1, <1>9
    <3>3. QED
      BY <1>1, <1>3, <1>8, <3>1, <3>2 DEF Agreeing
  <2>2. \A i \in 1 .. n : ByteAt(append(wb, a), i) = said'[c][k - 0 + i]
    <3>1. k - 0 = k
      OBVIOUS
    <3>2. QED
      BY <1>7, <1>9, <3>1
  <2>3. wb' = append(wb, a) /\ Len(received[c])' = k /\ n + 0 = n /\ n >= 0
    BY <1>1, <1>2, <1>3, <1>6
  <2>4. \A i \in 1 .. n : ByteAt(wb, i)' = said'[c][k - 0 + i]
    BY <2>2, <2>3 DEF ByteAt
  <2>5. QED
    BY <1>4, <1>7, <1>13, <2>1, <2>3, <2>4 DEF InRing
<1>16. Regions(c)'
  BY <1>1, <1>11, Lengths DEF Regions
<1>17. Counted(c)'
  <2>1. toSend = 0
    <3>1. toSend = 0 + 0
      BY <1>1, <1>4 DEF Holds, Counted
    <3>2. QED
      BY <3>1
  <2>2. ASSUME NEW i \in 1 .. k + n
        PROVE  said'[c][i][1] = answers + 1 <=> i > k
    <3>1. CASE i <= k
      <4>1. i \in 1 .. k
        BY <3>1
      <4>2. PICK q \in 1 .. answers : q = said[c][i][1]
        BY <4>1, <1>10
      <4>3. said'[c][i][1] = q
        BY <4>1, <4>2, <1>9
      <4>4. q # answers + 1 /\ ~ (i > k)
        BY <3>1, <1>2
      <4>5. QED
        BY <4>3, <4>4
    <3>2. CASE i > k
      <4>1. PICK j \in 1 .. n : i = k + j
        <5>1. i - k \in 1 .. n /\ i = k + (i - k)
          BY <3>2, <1>2
        <5>2. QED
          BY <5>1
      <4>2. said'[c][i][1] = answers + 1
        BY <4>1, <1>6, <1>9
      <4>3. QED
        BY <4>2, <3>2
    <3>3. i <= k \/ i > k
      BY <1>2
    <3>4. QED
      BY <3>1, <3>2, <3>3
  <2>3. QED
    BY <1>1, <1>2, <1>3, <1>8, <2>1, <2>2 DEF Counted
<1>18. aborted' = FALSE
  <2>1. (n < n) = FALSE
    BY <1>2
  <2>2. aborted' = (n < n)
    BY <1>1, <1>7
  <2>3. QED
    BY <2>1, <2>2
<1>19. QED
  BY <1>14, <1>15, <1>16, <1>17, <1>18 DEF Holds

\* An answer is added behind what was said before.
LEMMA AddGrows ==
  ASSUME Types, NEW n \in Length, Add(n)
  PROVE  \E k \in Nat :
            /\ k = Len(said[clients]) /\ Len(said'[clients]) = k + n
            /\ \A i \in 1 .. k : said'[clients][i] = said[clients][i]
            /\ \A i \in 1 .. n : said'[clients][k + i] = <<answers + 1, i>>
<1>1. PICK k \in Nat, s \in Seq(Byte) : k = Len(said[clients]) /\ s = said[clients] /\ Len(s) = k
  BY Sizes DEF Types
<1>2. /\ n \in Nat /\ n > 0 /\ answers \in Nat
      /\ said'[clients] = said[clients] \o Answer(n)
  BY AddTypes
<1>3. PICK a \in Seq(Byte) : /\ a = Answer(n) /\ Len(a) = n
                             /\ \A i \in 1 .. n : a[i] = <<answers + 1, i>>
  BY <1>2, AnswerFacts DEF Bytes
<1>4. /\ Len(s \o a) = Len(s) + Len(a)
      /\ \A i \in 1 .. Len(s) + Len(a) : (s \o a)[i] = IF i <= Len(s) THEN s[i] ELSE a[i - Len(s)]
  BY ConcatProperties
<1>5. PICK t : t = said'[clients]
  OBVIOUS
<1>6. /\ t = s \o a /\ Len(t) = k + n
      /\ \A i \in 1 .. k + n : t[i] = IF i <= k THEN s[i] ELSE a[i - k]
  BY <1>1, <1>2, <1>3, <1>4, <1>5
<1>7. \A i \in 1 .. k : t[i] = s[i]
  BY <1>2, <1>6
<1>8. ASSUME NEW i \in 1 .. n
      PROVE  t[k + i] = <<answers + 1, i>>
  <2>1. k + i \in 1 .. k + n /\ ~ (k + i <= k) /\ (k + i) - k = i
    BY <1>2
  <2>2. t[k + i] = a[(k + i) - k]
    BY <2>1, <1>6
  <2>3. QED
    BY <2>1, <2>2, <1>3
<1>9. QED
  BY <1>1, <1>5, <1>6, <1>7, <1>8

\* What a step does to what was said: it grows, and Add is the only step that adds.
LEMMA SaidGrows ==
  ASSUME Types, [Next]_vars
  PROVE  /\ (said' = said /\ answers' = answers) \/ \E n \in Length : Add(n)
         /\ clients' = clients \/ Closed
<1>1. CASE UNCHANGED vars
  BY <1>1 DEF vars, socket
<1>2. CASE Next
  <2>1. ASSUME NEW n \in Length, Add(n)
        PROVE  clients' = clients
    BY <2>1 DEF Add, socket
  <2>2. CASE Worker
    BY <2>2 DEF Worker, Count, Prepare, socket
  <2>3. CASE Submit
    BY <2>3 DEF Submit
  <2>4. CASE Kernel
    BY <2>4 DEF Kernel, Transfer, Completes, socket
  <2>5. CASE Callback
    BY <2>5 DEF Callback, HasRead, Subtract, TestLeft, Disconnect, socket
  <2>6. CASE Closed
    BY <2>6 DEF Closed
  <2>7. ASSUME NEW i \in 1 .. Len(flight), Fail(i)
        PROVE  said' = said /\ answers' = answers /\ clients' = clients
    BY <2>7 DEF Fail, Completes, socket
  <2>8. QED
    BY <1>2, <2>1, <2>2, <2>3, <2>4, <2>5, <2>6, <2>7 DEF Next
<1>3. QED
  BY <1>1, <1>2

LEMMA NextHolds ==
  ASSUME ~Pipelined, \A n \in Length : n < MAX_BUFFER_SIZE,
         Types, Types', Numbered, NEW c \in Client, c = clients, Holds(c),
         [Next]_vars, clients' = clients
  PROVE  Holds(c)'
<1>1. CASE UNCHANGED vars
  BY <1>1 DEF vars, memory, kernel, socket, Holds, Single, InRing, Agreeing, Regions, Counted,
              Unsent, Untaken, Uncounted, Operations
<1>2. CASE Next
  <2>1. ASSUME NEW n \in Length, Add(n)
        PROVE  Holds(c)'
    BY <2>1, AddHolds
  <2>2. CASE Worker
    BY <2>2, CountHolds, PrepareHolds DEF Worker
  <2>3. CASE Submit
    BY <2>3, SubmitHolds
  <2>4. CASE Kernel
    BY <2>4, TransferHolds DEF Kernel
  <2>5. CASE Callback
    BY <2>5, HasReadHolds, SubtractHolds, TestLeftHolds, DisconnectHolds DEF Callback
  <2>6. ~ Closed
    BY WriteAssumption DEF Closed, Types, Client
  <2>7. ASSUME NEW i \in 1 .. Len(flight), Fail(i)
        PROVE  Holds(c)'
    BY <2>7, FailHolds
  <2>8. QED
    BY <1>2, <2>1, <2>2, <2>3, <2>4, <2>5, <2>6, <2>7 DEF Next
<1>3. QED
  BY <1>1, <1>2

LEMMA LockNext ==
  ASSUME ~Pipelined, \A n \in Length : n < MAX_BUFFER_SIZE,
         Types, Types', Numbered, Lock, [Next]_vars
  PROVE  Lock'
<1>1. SUFFICES ASSUME clients' = 1
               PROVE  Holds(1)'
  BY DEF Lock
<1>2. clients \in Client /\ clients \in Nat /\ clients >= 1 /\ 1 \in Client
  BY WriteAssumption DEF Types, Client
<1>3. clients' = clients
  <2>1. ~ Closed
    BY <1>1, <1>2 DEF Closed
  <2>2. QED
    BY <2>1, SaidGrows
<1>4. clients = 1 /\ Holds(1)
  BY <1>1, <1>3 DEF Lock
<1>5. QED
  BY <1>2, <1>3, <1>4, NextHolds

\* What a step does to what was received.
LEMMA ReceivedGrows ==
  ASSUME Types, [Next]_vars
  PROVE  \/ received' = received
         \/ \E i \in 1 .. Len(flight) : \E n \in 0 .. MAX_BUFFER_SIZE : Transfer(i, n)
<1>1. CASE UNCHANGED vars
  BY <1>1 DEF vars, kernel
<1>2. CASE Next
  <2>1. ASSUME NEW n \in Length, Add(n)
        PROVE  received' = received
    BY <2>1 DEF Add, kernel
  <2>2. CASE Worker
    BY <2>2 DEF Worker, Count, Prepare, kernel
  <2>3. CASE Submit
    BY <2>3 DEF Submit
  <2>4. CASE Callback
    BY <2>4 DEF Callback, HasRead, Subtract, TestLeft, Disconnect, kernel
  <2>5. CASE Closed
    BY <2>5 DEF Closed, kernel
  <2>6. ASSUME NEW i \in 1 .. Len(flight), Fail(i)
        PROVE  received' = received
    BY <2>6 DEF Fail
  <2>7. QED
    BY <1>2, <2>1, <2>2, <2>3, <2>4, <2>5, <2>6 DEF Next, Kernel
<1>3. QED
  BY <1>1, <1>2

\* What a step does to the writes that the kernel has.
LEMMA FlightSteps ==
  ASSUME Types, [Next]_vars
  PROVE  \/ flight' = flight
         \/ Submit
         \/ \A j \in 1 .. Len(flight') : \E k \in 1 .. Len(flight) : flight'[j] = flight[k]
<1>1. CASE UNCHANGED vars
  BY <1>1 DEF vars, kernel
<1>2. CASE Next
  <2>1. ASSUME NEW n \in Length, Add(n)
        PROVE  flight' = flight
    BY <2>1 DEF Add, kernel
  <2>2. CASE Worker
    BY <2>2 DEF Worker, Count, Prepare, kernel
  <2>3. ASSUME NEW i \in 1 .. Len(flight), NEW r \in {-1} \cup 0 .. MAX_BUFFER_SIZE, Completes(i, r)
        PROVE  \A j \in 1 .. Len(flight') : \E k \in 1 .. Len(flight) : flight'[j] = flight[k]
    BY <2>3, CompletesFacts
  <2>4. CASE Callback
    BY <2>4 DEF Callback, HasRead, Subtract, TestLeft, Disconnect, kernel
  <2>5. CASE Closed
    BY <2>5 DEF Closed, kernel
  <2>6. ASSUME NEW i \in 1 .. Len(flight), Fail(i)
        PROVE  Completes(i, -1) /\ -1 \in {-1} \cup 0 .. MAX_BUFFER_SIZE
    BY <2>6 DEF Fail
  <2>7. ASSUME NEW i \in 1 .. Len(flight), NEW n \in 0 .. MAX_BUFFER_SIZE, Transfer(i, n)
        PROVE  Completes(i, n) /\ n \in {-1} \cup 0 .. MAX_BUFFER_SIZE
    BY <2>7 DEF Transfer
  <2>8. QED
    BY <1>2, <2>1, <2>2, <2>3, <2>4, <2>5, <2>6, <2>7 DEF Next, Kernel
<1>3. QED
  BY <1>1, <1>2

LEMMA BehindNext ==
  ASSUME Types, Types', Behind, Lock, [Next]_vars
  PROVE  Behind'
<1>1. SUFFICES ASSUME clients' > 1, NEW i \in 1 .. Len(flight')
               PROVE  flight'[i].client > 1
  BY DEF Behind
<1>2. clients \in Client /\ clients \in Nat
  BY WriteAssumption DEF Types, Client
<1>3. CASE Closed
  <2>1. flight' = flight /\ closing = "submitted" /\ clients' = clients + 1
    BY <1>3 DEF Closed, kernel
  <2>2. CASE clients = 1
    <3>1. Holds(1)
      BY <2>2 DEF Lock
    <3>2. flight = <<>>
      BY <1>2, <2>1, <2>2, <3>1, OneWrite DEF Holds
    <3>3. QED
      BY <1>1, <2>1, <3>2, Lengths
  <2>3. CASE clients # 1
    BY <1>1, <1>2, <2>1, <2>3, WriteAssumption DEF Behind, Client
  <2>4. QED
    BY <2>2, <2>3
<1>4. CASE clients' = clients
  <2>1. \A j \in 1 .. Len(flight) : flight[j].client > 1
    BY <1>1, <1>4 DEF Behind
  <2>2. CASE flight' = flight
    BY <1>1, <2>1, <2>2
  <2>3. CASE Submit
    <3>1. PICK m \in Nat : m = Len(flight)
      BY Lengths
    <3>2. CASE i <= m
      <4>1. i \in 1 .. m
        BY <3>2
      <4>2. QED
        BY <2>1, <2>3, <3>1, <4>1, SubmitFacts
    <3>3. CASE i > m
      <4>1. flight'[i] = [iov |-> iov, client |-> clients]
        BY <2>3, <3>1, <3>3, SubmitFacts
      <4>2. flight'[i].client = clients
        BY <4>1
      <4>3. QED
        BY <1>1, <1>4, <4>2
    <3>4. QED
      BY <3>1, <3>2, <3>3
  <2>4. CASE \A j \in 1 .. Len(flight') : \E k \in 1 .. Len(flight) : flight'[j] = flight[k]
    <3>1. PICK k \in 1 .. Len(flight) : flight'[i] = flight[k]
      BY <2>4
    <3>2. QED
      BY <2>1, <3>1
  <2>5. QED
    BY <2>2, <2>3, <2>4, FlightSteps
<1>5. QED
  BY <1>3, <1>4, SaidGrows

LEMMA FutureNext ==
  ASSUME Types, Types', Future, [Next]_vars
  PROVE  Future'
<1>1. SUFFICES ASSUME NEW c \in Client, c > clients'
               PROVE  said'[c] = <<>> /\ received'[c] = <<>>
  BY DEF Future
<1>2. clients \in Nat /\ c \in Nat
  BY WriteAssumption DEF Types, Client
<1>3. c > clients
  <2>1. clients' = clients \/ clients' = clients + 1
    BY SaidGrows DEF Closed
  <2>2. QED
    BY <1>1, <1>2, <2>1
<1>4. said[c] = <<>> /\ received[c] = <<>> /\ c # clients
  BY <1>2, <1>3 DEF Future
<1>5. said'[c] = <<>>
  <2>1. ASSUME NEW n \in Length, Add(n)
        PROVE  said'[c] = said[c]
    BY <1>4, <2>1, AddTypes
  <2>2. QED
    BY <1>4, <2>1, SaidGrows
<1>6. received'[c] = <<>>
  <2>1. ASSUME NEW i \in 1 .. Len(flight), NEW n \in 0 .. MAX_BUFFER_SIZE, Transfer(i, n)
        PROVE  received'[c] = received[c]
    <3>1. flight[i].client \in 1 .. clients
      BY <2>1, TransferFacts
    <3>2. c # flight[i].client
      BY <1>2, <1>3, <3>1
    <3>3. QED
      BY <2>1, <3>2, TransferFacts
  <2>2. QED
    BY <1>4, <2>1, ReceivedGrows
<1>7. QED
  BY <1>5, <1>6

LEMMA NumberedNext ==
  ASSUME Types, Types', Numbered, [Next]_vars
  PROVE  Numbered'
<1>1. CASE said' = said /\ answers' = answers
  BY <1>1 DEF Numbered
<1>2. ASSUME NEW n \in Length, Add(n)
      PROVE  Numbered'
  <2>1. answers \in Nat /\ answers' = answers + 1 /\ n \in Nat
    BY <1>2, AddTypes
  <2>2. SUFFICES ASSUME NEW c \in Client, NEW i \in 1 .. Len(said'[c])
                 PROVE  said'[c][i] \in (1 .. answers + 1) \X Nat
    BY <2>1 DEF Numbered
  <2>3. 1 .. answers \subseteq 1 .. answers + 1 /\ answers + 1 \in 1 .. answers + 1
    BY <2>1
  <2>4. \A j \in 1 .. Len(said[c]) : said[c][j] \in (1 .. answers + 1) \X Nat
    BY <2>3 DEF Numbered
  <2>5. CASE c # clients
    BY <1>2, <2>2, <2>4, <2>5, AddTypes
  <2>6. CASE c = clients
    <3>1. PICK k \in Nat :
             /\ k = Len(said[c]) /\ Len(said'[c]) = k + n
             /\ \A j \in 1 .. k : said'[c][j] = said[c][j]
             /\ \A j \in 1 .. n : said'[c][k + j] = <<answers + 1, j>>
      BY <1>2, <2>6, AddGrows
    <3>2. i \in 1 .. k + n
      BY <2>2, <3>1
    <3>3. CASE i <= k
      <4>1. i \in 1 .. k
        BY <3>2, <3>3
      <4>2. QED
        BY <2>4, <3>1, <4>1
    <3>4. CASE i > k
      <4>1. PICK j \in 1 .. n : i = k + j
        <5>1. i - k \in 1 .. n /\ i = k + (i - k)
          BY <2>1, <3>2, <3>4
        <5>2. QED
          BY <5>1
      <4>2. said'[c][k + j] = <<answers + 1, j>>
        BY <3>1
      <4>3. j \in Nat
        BY <2>1
      <4>4. QED
        BY <2>3, <4>1, <4>2, <4>3
    <3>5. QED
      BY <3>2, <3>3, <3>4
  <2>7. QED
    BY <2>5, <2>6
<1>3. QED
  BY <1>1, <1>2, SaidGrows

\* Nothing that is sent to a later client reaches the first one.
LEMMA AgreeingNext ==
  ASSUME Types, Types', Behind, Agreeing(1), Lock', [Next]_vars
  PROVE  Agreeing(1)'
<1>1. 1 \in Client /\ clients \in Client /\ clients' \in Client /\ clients \in Nat /\ clients >= 1
  BY WriteAssumption DEF Types, Client
<1>2. CASE clients' = 1
  <2>1. Holds(1)'
    BY <1>2 DEF Lock
  <2>2. QED
    BY <2>1 DEF Holds, InRing
<1>3. CASE clients' = clients /\ clients # 1
  <2>1. said'[1] = said[1]
    BY <1>1, <1>3, AddTypes, SaidGrows
  <2>2. received'[1] = received[1]
    <3>1. ASSUME NEW i \in 1 .. Len(flight), NEW n \in 0 .. MAX_BUFFER_SIZE, Transfer(i, n)
          PROVE  received'[1] = received[1]
      <4>1. flight[i].client > 1
        BY <1>1, <1>3 DEF Behind
      <4>2. flight[i].client # 1
        BY <4>1
      <4>3. QED
        BY <1>1, <3>1, <4>2, TransferFacts
    <3>2. QED
      BY <3>1, ReceivedGrows
  <2>3. QED
    BY <2>1, <2>2 DEF Agreeing
<1>4. CASE Closed
  BY <1>4 DEF Closed, kernel, Agreeing
<1>5. QED
  BY <1>1, <1>2, <1>3, <1>4, SaidGrows

LEMMA WInvInit == Init => WInv
<1> SUFFICES ASSUME Init
             PROVE  WInv
  OBVIOUS
<1>1. Types /\ Errors
  BY WriteInit
<1>2. /\ wb = Empty /\ toSend = 0 /\ worker = "idle" /\ loop = "idle" /\ prepared = 0
      /\ flight = <<>> /\ results = <<>> /\ closing = "no" /\ clients = 1
      /\ \A c \in Client : said[c] = <<>> /\ received[c] = <<>>
      /\ 1 \in Client
  BY <1>1 DEF Init, Types
<1>3. \A c \in Client : Len(said[c]) = 0 /\ Len(received[c]) = 0
  BY <1>1, <1>2, Sizes, EmptySeq
<1>4. Behind /\ Future /\ Numbered /\ Agreeing(1)
  BY <1>2, <1>3 DEF Behind, Future, Numbered, Agreeing
<1>5. Unsent(1) = 0 /\ Untaken = 0 /\ Uncounted = 0 /\ Operations = 0
  BY <1>1, <1>2, <1>3, Lengths DEF Unsent, Untaken, Uncounted, Operations
<1>6. Single(1)
  BY <1>2, <1>5 DEF Single
<1>7. InRing(1)
  <2>1. readableBytes(wb) = 0
    <3>1. wb.readIndex = 0 /\ wb.writeIndex = 0
      BY <1>2 DEF Empty
    <3>2. QED
      BY <3>1 DEF readableBytes
  <2>2. QED
    BY <1>4, <1>5, <2>1 DEF InRing
<1>8. Regions(1) /\ Counted(1)
  BY <1>1, <1>2, <1>5, Lengths DEF Regions, Counted
<1>9. Lock
  BY <1>2, <1>6, <1>7, <1>8 DEF Lock, Holds
<1>10. QED
  BY <1>1, <1>4, <1>9 DEF WInv

LEMMA WInvNext ==
  ASSUME ~Pipelined, \A n \in Length : n < MAX_BUFFER_SIZE, WInv, [Next]_vars
  PROVE  WInv'
<1>1. Types /\ Errors /\ Behind /\ Future /\ Numbered /\ Agreeing(1) /\ Lock
  BY DEF WInv
<1>2. Types' /\ Errors'
  BY <1>1, WriteNextTypes
<1>3. Lock'
  BY <1>1, <1>2, LockNext
<1>4. Behind' /\ Future' /\ Numbered' /\ Agreeing(1)'
  BY <1>1, <1>2, <1>3, BehindNext, FutureNext, NumberedNext, AgreeingNext
<1>5. QED
  BY <1>2, <1>3, <1>4 DEF WInv

LEMMA WInvSpec ==
  ASSUME ~Pipelined, \A n \in Length : n < MAX_BUFFER_SIZE
  PROVE  Spec => []WInv
<1>1. WInv /\ [Next]_vars => WInv'
  BY WInvNext
<1>2. QED
  BY <1>1, WInvInit, PTL DEF Spec

\* When nothing is under way the first client has all of its answers, the buffer is empty
\* and _to_send_bytes is 0, for every buffer, every length of answer that fits into it and
\* every way in which the writes are cut short: of clients that wait for their answers.
THEOREM WriteSettled ==
  ASSUME ~Pipelined, \A n \in Length : n < MAX_BUFFER_SIZE
  PROVE  Spec => []Settled
<1>1. WInv => Settled
  <2> SUFFICES ASSUME WInv, clients = 1, closing = "no", Quiet
               PROVE  received[1] = said[1] /\ toSend = 0 /\ readableBytes(wb) = 0
    BY DEF Settled
  <2>0. Types /\ 1 \in Client
    BY DEF WInv, Types
  <2>1. Holds(1)
    BY DEF WInv, Lock
  <2>2. /\ worker = "idle" /\ loop = "idle" /\ Operations = 0 /\ Untaken = 0 /\ Uncounted = 0
    BY <2>0, Lengths DEF Quiet, Operations, Untaken, Uncounted
  <2>3. Unsent(1) = 0
    BY <2>1, <2>2 DEF Holds, Single
  <2>4. toSend = 0 /\ readableBytes(wb) = 0
    BY <2>1, <2>2, <2>3 DEF Holds, Counted, InRing
  <2>5. PICK k \in Nat : k = Len(said[1]) /\ k = Len(received[1])
    BY <2>0, <2>3, Sizes DEF Unsent
  <2>6. received[1] \in Seq(Byte) /\ said[1] \in Seq(Byte)
    BY <2>0, Sizes
  <2>7. \A i \in 1 .. k : received[1][i] = said[1][i]
    BY <2>1, <2>5 DEF Holds, InRing, Agreeing
  <2>8. received[1] = said[1]
    BY <2>5, <2>6, <2>7, SeqEqual
  <2>9. QED
    BY <2>4, <2>8
<1>2. QED
  BY <1>1, WInvSpec, PTL

\* A sequence that agrees with another one as far as it goes is a prefix of it.
LEMMA AgreeIsPrefix ==
  ASSUME NEW S, NEW s \in Seq(S), NEW t \in Seq(S), Len(s) <= Len(t),
         \A j \in 1 .. Len(s) : s[j] = t[j]
  PROVE  Promise!IsPrefix(s, t)
<1>1. PICK n \in Nat, m \in Nat : n = Len(s) /\ m = Len(t) /\ n <= m
  BY LenProperties
<1>2. \A j \in 1 .. n : s[j] \in S /\ t[j] \in S
  BY <1>1, ElementOfSeq
<1>3. 1 \in Int /\ n \in Int /\ n - 1 + 1 = n /\ (~ (1 <= n) => n = 0)
  OBVIOUS
<1>4. /\ SubSeq(s, 1, n) \in Seq(S) /\ Len(SubSeq(s, 1, n)) = n
      /\ \A i \in 1 .. n : SubSeq(s, 1, n)[i] = s[1 + i - 1]
  BY <1>2, <1>3, SubSeqProperties
<1>5. /\ SubSeq(t, 1, n) \in Seq(S) /\ Len(SubSeq(t, 1, n)) = n
      /\ \A i \in 1 .. n : SubSeq(t, 1, n)[i] = t[1 + i - 1]
  BY <1>2, <1>3, SubSeqProperties
<1>6. \A i \in 1 .. n : SubSeq(s, 1, n)[i] = SubSeq(t, 1, n)[i]
  <2>1. \A i \in 1 .. n : 1 + i - 1 = i
    OBVIOUS
  <2>2. QED
    BY <1>1, <1>4, <1>5, <2>1
<1>7. SubSeq(s, 1, n) = SubSeq(t, 1, n)
  BY <1>4, <1>5, <1>6, SeqEqual
<1>8. QED
  BY <1>1, <1>7 DEF Promise!IsPrefix

\* The answers to the first client reach it each byte once and in order: what it has
\* received is a prefix of what was said, which only grows, step by step as Stream says,
\* and stays so when the connection serves other clients.
THEOREM WriteInOrder ==
  ASSUME ~Pipelined, \A n \in Length : n < MAX_BUFFER_SIZE
  PROVE  Spec => InOrder
<1>1. Init => Promise!Init
  <2> SUFFICES ASSUME Init
               PROVE  Promise!Init
    OBVIOUS
  <2>1. 1 \in Client
    BY WriteInit DEF Init, Types
  <2>2. QED
    BY <2>1 DEF Init, Promise!Init
<1>2. ASSUME WInv, WInv', [Next]_vars
      PROVE  [Promise!Next]_<<said[1], received[1]>>
  <2>0. Types /\ Types' /\ 1 \in Client /\ said[1] \in Seq(Byte) /\ received[1] \in Seq(Byte)
    <3>1. Types /\ Types'
      BY <1>2 DEF WInv
    <3>2. 1 \in Client
      BY WriteAssumption DEF Client
    <3>3. QED
      BY <3>1, <3>2, Sizes
  <2>1. PICK s, r, s2, r2 \in Seq(Byte) :
           s = said[1] /\ r = received[1] /\ s2 = said'[1] /\ r2 = received'[1]
    BY <2>0 DEF Types, Bytes
  <2>2. CASE received' = received
    <3>1. CASE said' = said
      BY <2>2, <3>1
    <3>2. ASSUME NEW n \in Length, Add(n)
          PROVE  Promise!Next \/ UNCHANGED <<said[1], received[1]>>
      <4>1. CASE clients = 1
        <5>1. PICK k \in Nat : /\ k = Len(s) /\ Len(s2) = k + n /\ \A i \in 1 .. k : s2[i] = s[i]
          BY <2>0, <2>1, <3>2, <4>1, AddGrows
        <5>2. n \in Nat
          BY <2>0, <3>2, AddTypes
        <5>3. Len(s) <= Len(s2)
          BY <5>1, <5>2
        <5>4. Promise!IsPrefix(s, s2)
          BY <5>1, <5>3, AgreeIsPrefix
        <5>5. QED
          BY <2>1, <2>2, <5>4 DEF Promise!Next, Promise!Send
      <4>2. CASE clients # 1
        BY <2>0, <2>2, <3>2, <4>2, AddTypes
      <4>3. QED
        BY <4>1, <4>2
    <3>3. QED
      BY <1>2, <2>0, <3>1, <3>2, SaidGrows
  <2>3. ASSUME NEW i \in 1 .. Len(flight), NEW n \in 0 .. MAX_BUFFER_SIZE, Transfer(i, n)
        PROVE  Promise!Next \/ UNCHANGED <<said[1], received[1]>>
    <3>1. said' = said
      BY <2>0, <2>3, CompletesFacts DEF Transfer, Completes
    <3>2. CASE flight[i].client # 1
      BY <2>0, <2>3, <3>1, <3>2, TransferFacts
    <3>3. CASE flight[i].client = 1
      <4>1. /\ Len(r2) = Len(r) + n /\ Len(r) \in Nat
            /\ \A j \in 1 .. Len(r) : r2[j] = r[j]
        BY <2>0, <2>1, <2>3, <3>3, TransferFacts, LenProperties
      <4>2. Len(r) <= Len(r2)
        BY <4>1
      <4>3. Promise!IsPrefix(r, r2)
        BY <4>1, <4>2, AgreeIsPrefix
      <4>4. \A j \in 1 .. Len(r2) : j <= Len(s) /\ r2[j] = s[j]
        BY <1>2, <2>1, <3>1 DEF WInv, Agreeing
      <4>5. Len(r2) <= Len(s)
        <5>1. PICK a \in Nat, b \in Nat : a = Len(r2) /\ b = Len(s)
          BY LenProperties
        <5>2. CASE a = 0
          BY <5>1, <5>2
        <5>3. CASE a # 0
          <6>1. a \in 1 .. a
            BY <5>3
          <6>2. QED
            BY <4>4, <5>1, <6>1
        <5>4. QED
          BY <5>2, <5>3
      <4>6. Promise!IsPrefix(r2, s)
        BY <4>4, <4>5, AgreeIsPrefix
      <4>7. QED
        BY <2>1, <3>1, <4>3, <4>6 DEF Promise!Next, Promise!Receive
    <3>4. QED
      BY <3>2, <3>3
  <2>4. QED
    BY <1>2, <2>0, <2>2, <2>3, ReceivedGrows
<1>3. WInv /\ WInv' /\ [Next]_vars => [Promise!Next]_<<said[1], received[1]>>
  BY <1>2
<1>4. QED
  BY <1>1, <1>3, WInvSpec, PTL DEF Spec, InOrder, Promise!Spec
=============================================================================
