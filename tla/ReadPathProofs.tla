---------------------------- MODULE ReadPathProofs ----------------------------
(***************************************************************************)
(* Proofs about ReadPath for a buffer of any size and requests of any      *)
(* shape and number.  The types need no hypothesis.  The rest needs that   *)
(* what clients have outstanding fits into the ring (Window), as that of   *)
(* an RpcCaller does, which waits for each answer; and what the parser     *)
(* hands over needs that a client that breaks a request off does so inside *)
(* its header (BreakAt): the run read_recycled has what happens otherwise. *)
(*                                                                         *)
(* The invariant says of each byte that the parser has not taken which one *)
(* it is: those of the request that the parser is at begin as far before   *)
(* the read index as it has come (Place), and those of the next request    *)
(* behind its last one, in the ring or on the wire (Pending, Placed).  So  *)
(* the parser always stands where the bytes are that it waits for.         *)
(***************************************************************************)
EXTENDS ReadPath, SequenceTheorems, TLAPS

-----------------------------------------------------------------------------
(* Lemmas about the ring.                                                  *)

Ring == [buf : [Cell -> {NoByte} \cup Nat \X Nat], readIndex : Cell, writeIndex : Cell]

\* The i-th readable byte.
ByteAt(b, i) == b.buf[(b.readIndex + i - 1) % MAX_BUFFER_SIZE]

LEMMA ModOnce ==
  ASSUME NEW a \in Nat, a < 2 * MAX_BUFFER_SIZE
  PROVE  /\ a < MAX_BUFFER_SIZE => a % MAX_BUFFER_SIZE = a
         /\ a >= MAX_BUFFER_SIZE => a % MAX_BUFFER_SIZE = a - MAX_BUFFER_SIZE
         /\ a % MAX_BUFFER_SIZE \in Cell
  BY SizeAssumption DEF Cell

\* The same, for a sum.
LEMMA ModOf ==
  ASSUME NEW a \in Nat, a < 2 * MAX_BUFFER_SIZE, NEW c, c = a % MAX_BUFFER_SIZE
  PROVE  c \in Cell /\ c = IF a < MAX_BUFFER_SIZE THEN a ELSE a - MAX_BUFFER_SIZE
  BY ModOnce, SizeAssumption

LEMMA ModInCell ==
  ASSUME NEW a \in Int
  PROVE  a % MAX_BUFFER_SIZE \in Cell
  BY SizeAssumption DEF Cell

LEMMA Readable ==
  ASSUME NEW b \in Ring
  PROVE  /\ readableBytes(b) \in 0 .. MAX_BUFFER_SIZE - 1
         /\ b.readIndex \in Cell /\ b.writeIndex \in Cell
         /\ \/ b.writeIndex = b.readIndex + readableBytes(b)
            \/ b.writeIndex = b.readIndex + readableBytes(b) - MAX_BUFFER_SIZE
  BY SizeAssumption DEF Ring, Cell, readableBytes

\* What the kernel adds is readable, as long as the ring does not become full.
LEMMA ReadableWritten ==
  ASSUME NEW b \in Ring, NEW n \in Nat, readableBytes(b) + n < MAX_BUFFER_SIZE
  PROVE  /\ hasWritten(b, n) \in Ring
         /\ readableBytes(hasWritten(b, n)) = readableBytes(b) + n
         /\ hasWritten(b, n).buf = b.buf /\ hasWritten(b, n).readIndex = b.readIndex
<1>1. PICK r \in Cell, w \in Cell : r = b.readIndex /\ w = b.writeIndex
  BY DEF Ring
<1>2. PICK v : v = (w + n) % MAX_BUFFER_SIZE
  OBVIOUS
<1>3. hasWritten(b, n) = [b EXCEPT !.writeIndex = v]
  BY <1>1, <1>2 DEF hasWritten
<1>4. /\ v \in Cell
      /\ w + n < MAX_BUFFER_SIZE => v = w + n
      /\ w + n >= MAX_BUFFER_SIZE => v = w + n - MAX_BUFFER_SIZE
  <2>1. PICK a \in Nat : a = w + n /\ a < 2 * MAX_BUFFER_SIZE
    BY Readable, SizeAssumption DEF Cell
  <2>2. v = a % MAX_BUFFER_SIZE
    BY <1>2, <2>1
  <2>3. v \in Cell /\ v = IF a < MAX_BUFFER_SIZE THEN a ELSE a - MAX_BUFFER_SIZE
    BY <2>1, <2>2, ModOf
  <2>4. QED
    BY <2>1, <2>3, SizeAssumption DEF Cell
<1>5. hasWritten(b, n) \in Ring
  BY <1>3, <1>4 DEF Ring
<1>6. /\ hasWritten(b, n).writeIndex = v /\ hasWritten(b, n).readIndex = r
      /\ hasWritten(b, n).buf = b.buf
  BY <1>1, <1>3 DEF Ring
<1>7. readableBytes(b) = IF w >= r THEN w - r ELSE MAX_BUFFER_SIZE - r + w
  BY <1>1 DEF readableBytes
<1>8. readableBytes(hasWritten(b, n)) = IF v >= r THEN v - r ELSE MAX_BUFFER_SIZE - r + v
  BY <1>6 DEF readableBytes
<1>9. QED
  BY <1>1, <1>4, <1>5, <1>6, <1>7, <1>8, SizeAssumption DEF Cell

\* What the parser takes is gone, and the rest is where it was.
LEMMA ReadableRead ==
  ASSUME NEW b \in Ring, NEW n \in Nat, n <= readableBytes(b)
  PROVE  /\ hasRead(b, n) \in Ring
         /\ readableBytes(hasRead(b, n)) = readableBytes(b) - n
         /\ \A i \in 1 .. readableBytes(b) - n : ByteAt(hasRead(b, n), i) = ByteAt(b, n + i)
<1>1. PICK r \in Cell, w \in Cell : r = b.readIndex /\ w = b.writeIndex
  BY DEF Ring
<1>2. PICK v : v = (r + n) % MAX_BUFFER_SIZE
  OBVIOUS
<1>3. hasRead(b, n) = [b EXCEPT !.readIndex = v]
  BY <1>1, <1>2 DEF hasRead
<1>4. /\ v \in Cell
      /\ r + n < MAX_BUFFER_SIZE => v = r + n
      /\ r + n >= MAX_BUFFER_SIZE => v = r + n - MAX_BUFFER_SIZE
  <2>1. PICK a \in Nat : a = r + n /\ a < 2 * MAX_BUFFER_SIZE
    BY Readable, SizeAssumption DEF Cell
  <2>2. v = a % MAX_BUFFER_SIZE
    BY <1>2, <2>1
  <2>3. v \in Cell /\ v = IF a < MAX_BUFFER_SIZE THEN a ELSE a - MAX_BUFFER_SIZE
    BY <2>1, <2>2, ModOf
  <2>4. QED
    BY <2>1, <2>3, SizeAssumption DEF Cell
<1>5. hasRead(b, n) \in Ring
  BY <1>3, <1>4 DEF Ring
<1>6. /\ hasRead(b, n).readIndex = v /\ hasRead(b, n).writeIndex = w
      /\ hasRead(b, n).buf = b.buf
  BY <1>1, <1>3 DEF Ring
<1>7. readableBytes(b) = IF w >= r THEN w - r ELSE MAX_BUFFER_SIZE - r + w
  BY <1>1 DEF readableBytes
<1>8. readableBytes(hasRead(b, n)) = IF w >= v THEN w - v ELSE MAX_BUFFER_SIZE - v + w
  BY <1>6 DEF readableBytes
<1>9. readableBytes(hasRead(b, n)) = readableBytes(b) - n
  BY <1>4, <1>7, <1>8, SizeAssumption DEF Cell
<1>10. ASSUME NEW i \in 1 .. readableBytes(b) - n
       PROVE  ByteAt(hasRead(b, n), i) = ByteAt(b, n + i)
  <2>1. readableBytes(b) \in Nat /\ readableBytes(b) < MAX_BUFFER_SIZE
    BY Readable, SizeAssumption
  <2>2. PICK x \in Nat, y \in Nat : x = v + i - 1 /\ y = r + (n + i) - 1
    BY <1>4, <2>1 DEF Cell
  <2>3. /\ x < 2 * MAX_BUFFER_SIZE /\ y < 2 * MAX_BUFFER_SIZE
        /\ x = y \/ (x = y - MAX_BUFFER_SIZE /\ x < MAX_BUFFER_SIZE)
    BY <1>4, <2>1, <2>2, SizeAssumption DEF Cell
  <2>4. x % MAX_BUFFER_SIZE = y % MAX_BUFFER_SIZE
    <3>1. PICK c, d : c = x % MAX_BUFFER_SIZE /\ d = y % MAX_BUFFER_SIZE
      OBVIOUS
    <3>2. /\ c = IF x < MAX_BUFFER_SIZE THEN x ELSE x - MAX_BUFFER_SIZE
          /\ d = IF y < MAX_BUFFER_SIZE THEN y ELSE y - MAX_BUFFER_SIZE
      BY <2>3, <3>1, ModOf
    <3>3. c = d
      BY <2>3, <3>2, SizeAssumption
    <3>4. QED
      BY <3>1, <3>3
  <2>5. QED
    BY <1>1, <1>6, <2>2, <2>4 DEF ByteAt
<1>11. QED
  BY <1>5, <1>9, <1>10

\* readv() stores the bytes behind the readable ones.
LEMMA ScatterAt ==
  ASSUME NEW b \in Ring, NEW bytes \in Seq(Nat \X Nat),
         Len(bytes) <= Size(writevBegin(b)), readableBytes(b) + Len(bytes) < MAX_BUFFER_SIZE
  PROVE  /\ Scatter(b, writevBegin(b), bytes) \in Ring
         /\ Scatter(b, writevBegin(b), bytes).readIndex = b.readIndex
         /\ Scatter(b, writevBegin(b), bytes).writeIndex = b.writeIndex
         /\ \A i \in 1 .. readableBytes(b) : ByteAt(Scatter(b, writevBegin(b), bytes), i) = ByteAt(b, i)
         /\ \A i \in 1 .. Len(bytes) :
               ByteAt(Scatter(b, writevBegin(b), bytes), readableBytes(b) + i) = bytes[i]
<1> DEFINE iov == writevBegin(b)
           there == Scatter(b, iov, bytes)
<1>1. PICK r \in Cell, w \in Cell : r = b.readIndex /\ w = b.writeIndex
  BY DEF Ring
<1>2. PICK n \in Nat, len \in Nat : n = Len(bytes) /\ len = readableBytes(b)
  BY Readable, LenProperties
<1>3. /\ len + n < MAX_BUFFER_SIZE
      /\ len = IF w >= r THEN w - r ELSE MAX_BUFFER_SIZE - r + w
  BY <1>1, <1>2 DEF readableBytes
\* The cell of each of them.
<1>4. ASSUME NEW i \in 1 .. n
      PROVE  /\ CellOf(iov, i) \in Cell
             /\ w + i - 1 < MAX_BUFFER_SIZE => CellOf(iov, i) = w + i - 1
             /\ w + i - 1 >= MAX_BUFFER_SIZE => CellOf(iov, i) = w + i - 1 - MAX_BUFFER_SIZE
  <2>1. CASE w >= r
    <3>1. iov = <<Region(w, MAX_BUFFER_SIZE - w), Region(0, r)>>
      BY <1>1, <2>1 DEF writevBegin
    <3>2. iov[1].first = w /\ iov[1].len = MAX_BUFFER_SIZE - w /\ iov[2].first = 0
      BY <3>1 DEF Region
    <3>3. CellOf(iov, i) = IF i <= MAX_BUFFER_SIZE - w THEN w + i - 1
                           ELSE 0 + i - 1 - (MAX_BUFFER_SIZE - w)
      BY <3>2 DEF CellOf
    <3>4. QED
      BY <2>1, <3>3, <1>3, SizeAssumption DEF Cell
  <2>2. CASE w < r
    <3>1. iov = <<Region(w, r - 1 - w), Region(0, 0)>>
      BY <1>1, <2>2 DEF writevBegin, Cell
    <3>2. iov[1].first = w /\ iov[1].len = r - 1 - w
      BY <3>1 DEF Region
    <3>3. i <= r - 1 - w
      BY <2>2, <1>3, SizeAssumption DEF Cell
    <3>4. CellOf(iov, i) = w + i - 1
      BY <3>2, <3>3 DEF CellOf
    <3>5. QED
      BY <2>2, <3>3, <3>4, SizeAssumption DEF Cell
  <2>3. QED
    BY <2>1, <2>2, SizeAssumption DEF Cell
<1>5. \A i, j \in 1 .. n : CellOf(iov, i) = CellOf(iov, j) => i = j
  <2>1. ASSUME NEW i \in 1 .. n, NEW j \in 1 .. n, CellOf(iov, i) = CellOf(iov, j)
        PROVE  i = j
    BY <2>1, <1>3, <1>4, SizeAssumption DEF Cell
  <2>2. QED
    BY <2>1
<1>6. /\ there.buf = [c \in Cell |->
            IF \E i \in 1 .. n : CellOf(iov, i) = c
              THEN bytes[CHOOSE i \in 1 .. n : CellOf(iov, i) = c]
              ELSE b.buf[c]]
      /\ there = [b EXCEPT !.buf = there.buf]
      /\ there.readIndex = r /\ there.writeIndex = w
  BY <1>1, <1>2 DEF Scatter, Ring
<1>7. ASSUME NEW i \in 1 .. n
      PROVE  there.buf[CellOf(iov, i)] = bytes[i]
  <2>1. PICK c \in Cell : c = CellOf(iov, i)
    BY <1>4
  <2>2. (CHOOSE j \in 1 .. n : CellOf(iov, j) = c) = i
    BY <1>5, <2>1
  <2>3. there.buf[c] = bytes[CHOOSE j \in 1 .. n : CellOf(iov, j) = c]
    BY <1>6, <2>1
  <2>4. QED
    BY <2>1, <2>2, <2>3
<1>8. \A c \in Cell : (\A i \in 1 .. n : CellOf(iov, i) # c) => there.buf[c] = b.buf[c]
  BY <1>6
<1>9. there \in Ring
  <2>1. ASSUME NEW c \in Cell
        PROVE  there.buf[c] \in {NoByte} \cup Nat \X Nat
    <3>1. CASE \A i \in 1 .. n : CellOf(iov, i) # c
      BY <1>8, <3>1 DEF Ring
    <3>2. ASSUME NEW i \in 1 .. n, CellOf(iov, i) = c
          PROVE  there.buf[c] \in {NoByte} \cup Nat \X Nat
      BY <1>2, <1>7, <3>2, ElementOfSeq
    <3>3. QED
      BY <3>1, <3>2
  <2>2. there.buf \in [Cell -> {NoByte} \cup Nat \X Nat]
    BY <2>1, <1>6
  <2>3. QED
    BY <1>6, <2>2 DEF Ring
<1>10. ASSUME NEW i \in 1 .. len
       PROVE  ByteAt(there, i) = ByteAt(b, i)
  <2>1. PICK c \in Cell : c = (r + i - 1) % MAX_BUFFER_SIZE
    BY ModInCell DEF Cell
  <2>2. /\ r + i - 1 < MAX_BUFFER_SIZE => c = r + i - 1
        /\ r + i - 1 >= MAX_BUFFER_SIZE => c = r + i - 1 - MAX_BUFFER_SIZE
    <3>1. PICK a \in Nat : a = r + i - 1 /\ a < 2 * MAX_BUFFER_SIZE
      BY <1>3, SizeAssumption DEF Cell
    <3>2. c = a % MAX_BUFFER_SIZE
      BY <2>1, <3>1
    <3>3. c = IF a < MAX_BUFFER_SIZE THEN a ELSE a - MAX_BUFFER_SIZE
      BY <3>1, <3>2, ModOf
    <3>4. QED
      BY <3>1, <3>3, SizeAssumption
  <2>3. ASSUME NEW j \in 1 .. n
        PROVE  CellOf(iov, j) # c
    <3>1. PICK e \in Cell : /\ e = CellOf(iov, j)
                            /\ w + j - 1 < MAX_BUFFER_SIZE => e = w + j - 1
                            /\ w + j - 1 >= MAX_BUFFER_SIZE => e = w + j - 1 - MAX_BUFFER_SIZE
      BY <1>4
    <3>2. e # c
      BY <2>2, <3>1, <1>3, SizeAssumption DEF Cell
    <3>3. QED
      BY <3>1, <3>2
  <2>4. there.buf[c] = b.buf[c]
    BY <1>8, <2>3
  <2>5. QED
    BY <1>1, <1>6, <2>1, <2>4 DEF ByteAt
<1>11. ASSUME NEW i \in 1 .. n
       PROVE  ByteAt(there, len + i) = bytes[i]
  <2>1. r + (len + i) - 1 \in Nat /\ r + (len + i) - 1 < 2 * MAX_BUFFER_SIZE
    BY <1>3, SizeAssumption DEF Cell
  <2>2. PICK c \in Cell : c = (r + (len + i) - 1) % MAX_BUFFER_SIZE
    BY <2>1, ModOnce
  <2>3. /\ r + (len + i) - 1 < MAX_BUFFER_SIZE => c = r + (len + i) - 1
        /\ r + (len + i) - 1 >= MAX_BUFFER_SIZE => c = r + (len + i) - 1 - MAX_BUFFER_SIZE
    <3>1. PICK a \in Nat : a = r + (len + i) - 1 /\ a < 2 * MAX_BUFFER_SIZE
      BY <2>1
    <3>2. c = a % MAX_BUFFER_SIZE
      BY <2>2, <3>1
    <3>3. c = IF a < MAX_BUFFER_SIZE THEN a ELSE a - MAX_BUFFER_SIZE
      BY <3>1, <3>2, ModOf
    <3>4. QED
      BY <3>1, <3>3, SizeAssumption
  <2>4. c = CellOf(iov, i)
    BY <2>3, <1>3, <1>4, SizeAssumption DEF Cell
  <2>5. there.buf[c] = bytes[i]
    BY <1>7, <2>4
  <2>6. ByteAt(there, len + i) = there.buf[c]
    BY <1>6, <2>2 DEF ByteAt
  <2>7. QED
    BY <2>5, <2>6
<1>12. QED
  BY <1>1, <1>2, <1>6, <1>9, <1>10, <1>11

-----------------------------------------------------------------------------
(* Types.                                                                  *)

LEMMA WrittenType ==
  ASSUME NEW b \in Ring, NEW n \in Nat
  PROVE  hasWritten(b, n) \in Ring
<1>1. PICK v \in Cell : v = (b.writeIndex + n) % MAX_BUFFER_SIZE
  BY ModInCell DEF Ring, Cell
<1>2. QED
  BY <1>1 DEF hasWritten, Ring

LEMMA ScatterType ==
  ASSUME NEW b \in Ring, NEW iov, NEW bytes \in Seq(Nat \X Nat)
  PROVE  Scatter(b, iov, bytes) \in Ring
<1> DEFINE there == [c \in Cell |->
               IF \E i \in 1 .. Len(bytes) : CellOf(iov, i) = c
                 THEN bytes[CHOOSE i \in 1 .. Len(bytes) : CellOf(iov, i) = c]
                 ELSE b.buf[c]]
<1>1. ASSUME NEW c \in Cell
      PROVE  there[c] \in {NoByte} \cup Nat \X Nat
  <2>1. CASE \E i \in 1 .. Len(bytes) : CellOf(iov, i) = c
    <3>1. PICK i : i = CHOOSE j \in 1 .. Len(bytes) : CellOf(iov, j) = c
      OBVIOUS
    <3>2. i \in 1 .. Len(bytes)
      BY <2>1, <3>1
    <3>3. there[c] = bytes[i]
      BY <2>1, <3>1
    <3>4. QED
      BY <3>2, <3>3, ElementOfSeq
  <2>2. CASE ~ \E i \in 1 .. Len(bytes) : CellOf(iov, i) = c
    BY <2>2 DEF Ring
  <2>3. QED
    BY <2>1, <2>2
<1>2. there \in [Cell -> {NoByte} \cup Nat \X Nat]
  BY <1>1
<1>3. Scatter(b, iov, bytes) = [b EXCEPT !.buf = there]
  BY DEF Scatter, Ring
<1> HIDE DEF there
<1>4. QED
  BY <1>2, <1>3 DEF Ring

LEMMA BytesType ==
  ASSUME NEW id \in Nat, NEW first \in Nat, NEW last \in Nat, first <= last
  PROVE  /\ Bytes(id, first, last) \in Seq(Nat \X Nat)
         /\ Len(Bytes(id, first, last)) = last - first
         /\ \A i \in 1 .. last - first : Bytes(id, first, last)[i] = <<id, first + i>>
<1>1. PICK n \in Nat : n = last - first
  OBVIOUS
<1>2. Bytes(id, first, last) = [i \in 1 .. n |-> <<id, first + i>>]
  BY <1>1 DEF Bytes
<1>3. \A i \in 1 .. n : <<id, first + i>> \in Nat \X Nat
  OBVIOUS
<1>4. [i \in 1 .. n |-> <<id, first + i>>] \in [1 .. n -> Nat \X Nat]
  BY <1>3
<1>5. Bytes(id, first, last) \in Seq(Nat \X Nat) /\ Len(Bytes(id, first, last)) = n
  BY <1>2, <1>4, IsASeq, LenProperties
<1>6. QED
  BY <1>1, <1>2, <1>5

\* A sequence that is cut in two.
LEMMA CutAt ==
  ASSUME NEW S, NEW s \in Seq(S), NEW n \in 1 .. Len(s)
  PROVE  /\ SubSeq(s, 1, n) \in Seq(S) /\ Len(SubSeq(s, 1, n)) = n
         /\ \A i \in 1 .. n : SubSeq(s, 1, n)[i] = s[i]
         /\ SubSeq(s, n + 1, Len(s)) \in Seq(S) /\ Len(SubSeq(s, n + 1, Len(s))) = Len(s) - n
         /\ \A i \in 1 .. Len(s) - n : SubSeq(s, n + 1, Len(s))[i] = s[n + i]
<1>1. Len(s) \in Nat /\ \A i \in 1 .. Len(s) : s[i] \in S
  BY LenProperties, ElementOfSeq
<1>2. PICK m \in Nat : m = Len(s)
  BY <1>1
<1>3. \A i \in 1 .. n : s[i] \in S
  BY <1>1
<1>4. /\ SubSeq(s, 1, n) \in Seq(S) /\ Len(SubSeq(s, 1, n)) = n
      /\ \A i \in 1 .. n : SubSeq(s, 1, n)[i] = s[i]
  <2>1. /\ SubSeq(s, 1, n) \in Seq(S) /\ Len(SubSeq(s, 1, n)) = IF 1 <= n THEN n - 1 + 1 ELSE 0
        /\ \A i \in 1 .. n - 1 + 1 : SubSeq(s, 1, n)[i] = s[1 + i - 1]
    BY <1>3, SubSeqProperties
  <2>2. n - 1 + 1 = n /\ 1 <= n
    OBVIOUS
  <2>3. \A i \in 1 .. n : 1 + i - 1 = i
    OBVIOUS
  <2>4. QED
    BY <2>1, <2>2, <2>3
<1>5. \A i \in n + 1 .. m : s[i] \in S
  BY <1>1, <1>2
<1>6. /\ SubSeq(s, n + 1, m) \in Seq(S) /\ Len(SubSeq(s, n + 1, m)) = m - n
      /\ \A i \in 1 .. m - n : SubSeq(s, n + 1, m)[i] = s[n + i]
  <2>1. /\ SubSeq(s, n + 1, m) \in Seq(S)
        /\ Len(SubSeq(s, n + 1, m)) = IF n + 1 <= m THEN m - (n + 1) + 1 ELSE 0
        /\ \A i \in 1 .. m - (n + 1) + 1 : SubSeq(s, n + 1, m)[i] = s[n + 1 + i - 1]
    <3>1. PICK k \in Int, e \in Int : k = n + 1 /\ e = m
      OBVIOUS
    <3>2. \A i \in k .. e : s[i] \in S
      BY <3>1, <1>5
    <3>3. /\ SubSeq(s, k, e) \in Seq(S)
          /\ Len(SubSeq(s, k, e)) = IF k <= e THEN e - k + 1 ELSE 0
          /\ \A i \in 1 .. e - k + 1 : SubSeq(s, k, e)[i] = s[k + i - 1]
      BY <3>2, SubSeqProperties
    <3>4. QED
      BY <3>1, <3>3
  <2>2. m - (n + 1) + 1 = m - n /\ (~ (n + 1 <= m) => m - n = 0)
    BY <1>2
  <2>3. \A i \in 1 .. m - n : n + 1 + i - 1 = n + i
    OBVIOUS
  <2>4. QED
    BY <2>1, <2>2, <2>3
<1>7. QED
  BY <1>2, <1>4, <1>6

LEMMA ShapeTypes ==
  ASSUME NEW q \in Shape
  PROVE  /\ q.rpc \in Nat \ {0} /\ q.body \in Nat /\ Total(q) = HeaderLen + q.rpc + q.body
         /\ Total(q) \in Nat /\ Total(q) > 0 /\ HeaderLen \in Nat \ {0}
  BY ReadAssumption DEF Total

LEMMA AskedTypes ==
  ASSUME asked \in Seq(Shape), NEW id \in 1 .. Len(asked)
  PROVE  asked[id] \in Shape
  BY ElementOfSeq

LEMMA ReadInitType == Init => TypeOK
  BY ReadAssumption, SizeAssumption DEF Init, TypeOK, Empty, Cell

LEMMA ReadNextType == TypeOK /\ [Next]_vars => TypeOK'
<1> SUFFICES ASSUME TypeOK, [Next]_vars
             PROVE  TypeOK'
  OBVIOUS
<1> USE DEF TypeOK
<1>0. rb \in Ring /\ HeaderLen \in Nat
  BY ReadAssumption DEF Ring
<1>1. ASSUME NEW q \in Shape, Ask(q)
      PROVE  TypeOK'
  <2>1. /\ asked' = Append(asked, q) /\ sent' = Append(sent, Len(asked'))
        /\ wire' = wire \o Bytes(Len(asked'), 0, Total(q))
        /\ UNCHANGED <<rb, process, target, ri, pc, connected, before, delivered>>
    BY <1>1 DEF Ask, Request, parser
  <2>2. asked' \in Seq(Shape) /\ Len(asked') = Len(asked) + 1 /\ Len(asked) \in Nat
    BY <2>1
  <2>3. Bytes(Len(asked'), 0, Total(q)) \in Seq(Nat \X Nat)
    <3>1. PICK id \in Nat, n \in Nat : id = Len(asked') /\ n = Total(q)
      BY <2>2, ShapeTypes
    <3>2. Bytes(id, 0, n) \in Seq(Nat \X Nat)
      BY BytesType
    <3>3. QED
      BY <3>1, <3>2
  <2>4. wire' \in Seq(Nat \X Nat) /\ sent' \in Seq(Nat)
    BY <2>1, <2>2, <2>3
  <2>5. QED
    BY <2>1, <2>2, <2>4
<1>2. ASSUME NEW q \in Shape, NEW n \in BreakAt, BreakOff(q, n)
      PROVE  TypeOK'
  <2>1. /\ asked' = Append(asked, q) /\ connected' = FALSE
        /\ wire' = wire \o Bytes(Len(asked'), 0, n)
        /\ UNCHANGED <<rb, process, target, ri, pc, sent, before, delivered>>
    BY <1>2 DEF BreakOff, Request, parser
  <2>2. asked' \in Seq(Shape) /\ Len(asked') = Len(asked) + 1 /\ Len(asked) \in Nat
    BY <2>1
  <2>3. Bytes(Len(asked'), 0, n) \in Seq(Nat \X Nat)
    BY <2>2, BytesType, ReadAssumption
  <2>4. wire' \in Seq(Nat \X Nat)
    BY <2>1, <2>3
  <2>5. ri' \in 0 .. Len(asked') /\ before' \in 0 .. Len(asked')
    BY <2>1, <2>2
  <2>6. QED
    BY <2>1, <2>2, <2>4, <2>5
<1>3. ASSUME NEW n \in 1 .. MAX_BUFFER_SIZE, ReadDone(n)
      PROVE  TypeOK'
  <2>1. /\ n \in 1 .. Len(wire)
        /\ rb' = hasWritten(Scatter(rb, writevBegin(rb), SubSeq(wire, 1, n)), n)
        /\ wire' = SubSeq(wire, n + 1, Len(wire)) /\ pc' = "parse"
        /\ UNCHANGED <<process, target, ri, connected, asked, before, sent, delivered>>
    BY <1>3 DEF ReadDone, parser
  <2>2. SubSeq(wire, 1, n) \in Seq(Nat \X Nat) /\ wire' \in Seq(Nat \X Nat)
    BY <2>1, CutAt
  <2>3. rb' \in Ring
    <3>1. PICK b \in Ring : b = Scatter(rb, writevBegin(rb), SubSeq(wire, 1, n))
      BY <1>0, <2>2, ScatterType
    <3>2. hasWritten(b, n) \in Ring
      BY WrittenType
    <3>3. QED
      BY <2>1, <3>1, <3>2
  <2>4. QED
    BY <2>1, <2>2, <2>3 DEF Ring
<1>4. ASSUME NEW stage \in 0 .. 2, Parsing(stage)
      PROVE  rb' \in Ring /\ UNCHANGED <<pc, wire, connected, asked, before, sent>>
  BY <1>0, <1>4, ReadableRead DEF Parsing, client
<1>5. Lengths \subseteq Nat
  BY ShapeTypes DEF Lengths
<1>6. CASE ParseHeader
  <2>1. /\ Parsing(0) /\ process' = 1 /\ delivered' = delivered
        /\ \/ \E id \in 1 .. Len(asked) : ri' = id /\ target' = asked[id].rpc
           \/ ri' = 0 /\ target' \in Lengths
    BY <1>6 DEF ParseHeader
  <2>2. ri' \in 0 .. Len(asked) /\ target' \in Nat
    <3>1. CASE ri' = 0 /\ target' \in Lengths
      BY <3>1, <1>5, LenProperties
    <3>2. ASSUME NEW id \in 1 .. Len(asked), ri' = id /\ target' = asked[id].rpc
          PROVE  ri' \in 0 .. Len(asked) /\ target' \in Nat
      <4>1. asked[id] \in Shape
        BY AskedTypes
      <4>2. QED
        BY <3>2, <4>1, ShapeTypes
    <3>3. QED
      BY <2>1, <3>1, <3>2
  <2>3. QED
    BY <1>4, <2>1, <2>2 DEF Ring
<1>7. CASE ParseRpcHeader
  <2>1. /\ Parsing(1) /\ process' = 2 /\ delivered' = delivered
        /\ \/ ri # 0 /\ ri' = ri /\ target' = asked[ri].body
           \/ ri' = 0 /\ target' \in Lengths
    BY <1>7 DEF ParseRpcHeader
  <2>2. ri' \in 0 .. Len(asked) /\ target' \in Nat
    <3>1. CASE ri' = 0 /\ target' \in Lengths
      BY <3>1, <1>5, LenProperties
    <3>2. CASE ri # 0 /\ ri' = ri /\ target' = asked[ri].body
      <4>1. asked[ri] \in Shape
        BY <3>2, AskedTypes
      <4>2. QED
        BY <3>2, <4>1, ShapeTypes
    <3>3. QED
      BY <2>1, <3>1, <3>2
  <2>3. QED
    BY <1>4, <2>1, <2>2 DEF Ring
<1>8. CASE ParseBody
  <2>1. /\ Parsing(2) /\ process' = 0 /\ target' = HeaderLen /\ ri' = 0
        /\ \/ delivered' = Append(delivered, ri)
           \/ delivered' = Append(delivered, 0)
    BY <1>8 DEF ParseBody
  <2>2. delivered' \in Seq(Nat)
    <3>1. PICK id \in Nat : delivered' = Append(delivered, id)
      BY <2>1
    <3>2. delivered \in Seq(Nat)
      OBVIOUS
    <3>3. QED
      BY <3>1, <3>2, AppendProperties
  <2>3. QED
    BY <1>0, <1>4, <2>1, <2>2 DEF Ring
<1>9. CASE Accept
  BY <1>9 DEF Accept, parser
<1>10. CASE Closed
  <2>1. clear(rb) \in Ring
    <3>1. 0 \in Cell
      BY SizeAssumption DEF Cell
    <3>2. QED
      BY <1>0, <3>1 DEF clear, Ring
  <2>2. QED
    BY <1>10, <2>1 DEF Closed, Ring, parser, client
<1>11. CASE HangUp \/ ReadEof \/ ReadFailed \/ ReadOn
  BY <1>11 DEF HangUp, ReadEof, ReadFailed, ReadOn, parser, client
<1>12. CASE UNCHANGED vars
  BY <1>12 DEF vars, parser, client
<1>13. QED
  BY <1>1, <1>2, <1>3, <1>6, <1>7, <1>8, <1>9, <1>10, <1>11, <1>12 DEF Next, Parse

\* The indices stay inside the ring and the parser inside its three stages, whatever is sent.
THEOREM ReadTypeOK == Spec => []TypeOK
  BY ReadInitType, ReadNextType, PTL DEF Spec

-----------------------------------------------------------------------------
(* The ring does not become full, if clients do not send that far ahead.   *)

Room == Outstanding \in 0 .. Window

LEMMA OutstandingType ==
  ASSUME TypeOK
  PROVE  /\ rb \in Ring /\ wire \in Seq(Nat \X Nat) /\ Len(wire) \in Nat
         /\ readableBytes(rb) \in 0 .. MAX_BUFFER_SIZE - 1
         /\ Outstanding = Len(wire) + readableBytes(rb) /\ Outstanding \in Nat
<1>1. rb \in Ring /\ wire \in Seq(Nat \X Nat)
  BY DEF TypeOK, Ring
<1>2. Len(wire) \in Nat /\ readableBytes(rb) \in 0 .. MAX_BUFFER_SIZE - 1
  BY <1>1, LenProperties, Readable
<1>3. QED
  BY <1>1, <1>2 DEF Outstanding

\* A read moves bytes from the wire to the end of the ring.
LEMMA ReadMoves ==
  ASSUME TypeOK, Room, Window < MAX_BUFFER_SIZE, NEW n \in 1 .. MAX_BUFFER_SIZE, ReadDone(n)
  PROVE  /\ n \in 1 .. Len(wire)
         /\ readableBytes(rb)' = readableBytes(rb) + n
         /\ Len(wire)' = Len(wire) - n
         /\ \A i \in 1 .. readableBytes(rb) : ByteAt(rb', i) = ByteAt(rb, i)
         /\ \A i \in 1 .. n : ByteAt(rb', readableBytes(rb) + i) = wire[i]
         /\ \A i \in 1 .. Len(wire) - n : wire'[i] = wire[n + i]
<1> DEFINE got == SubSeq(wire, 1, n)
           iov == writevBegin(rb)
<1>1. /\ n \in 1 .. Len(wire) /\ n <= Size(iov)
      /\ rb' = hasWritten(Scatter(rb, iov, got), n)
      /\ wire' = SubSeq(wire, n + 1, Len(wire))
  BY DEF ReadDone
<1>2. /\ got \in Seq(Nat \X Nat) /\ Len(got) = n /\ \A i \in 1 .. n : got[i] = wire[i]
      /\ Len(wire') = Len(wire) - n
      /\ \A i \in 1 .. Len(wire) - n : wire'[i] = wire[n + i]
  BY <1>1, CutAt, OutstandingType
<1>3. rb \in Ring /\ readableBytes(rb) + n < MAX_BUFFER_SIZE
  BY <1>1, OutstandingType, SizeAssumption, ReadAssumption DEF Room
<1>4. PICK b \in Ring :
        /\ b = Scatter(rb, iov, got)
        /\ b.readIndex = rb.readIndex /\ b.writeIndex = rb.writeIndex
        /\ \A i \in 1 .. readableBytes(rb) : ByteAt(b, i) = ByteAt(rb, i)
        /\ \A i \in 1 .. n : ByteAt(b, readableBytes(rb) + i) = got[i]
  <2>1. PICK bytes \in Seq(Nat \X Nat) : bytes = got /\ Len(bytes) = n
    BY <1>2
  <2>2. Len(bytes) <= Size(writevBegin(rb)) /\ readableBytes(rb) + Len(bytes) < MAX_BUFFER_SIZE
    BY <1>1, <1>3, <2>1
  <2>3. /\ Scatter(rb, writevBegin(rb), bytes) \in Ring
        /\ Scatter(rb, writevBegin(rb), bytes).readIndex = rb.readIndex
        /\ Scatter(rb, writevBegin(rb), bytes).writeIndex = rb.writeIndex
        /\ \A i \in 1 .. readableBytes(rb) :
              ByteAt(Scatter(rb, writevBegin(rb), bytes), i) = ByteAt(rb, i)
        /\ \A i \in 1 .. Len(bytes) :
              ByteAt(Scatter(rb, writevBegin(rb), bytes), readableBytes(rb) + i) = bytes[i]
    BY <1>3, <2>2, ScatterAt
  <2> HIDE DEF got
  <2>4. QED
    BY <2>1, <2>3
<1>5. readableBytes(b) = readableBytes(rb)
  BY <1>4 DEF readableBytes
<1>6. PICK m \in Nat : m = n
  OBVIOUS
<1>7. /\ rb' = hasWritten(b, m)
      /\ readableBytes(hasWritten(b, m)) = readableBytes(b) + m
      /\ hasWritten(b, m).buf = b.buf /\ hasWritten(b, m).readIndex = b.readIndex
  BY <1>1, <1>3, <1>4, <1>5, <1>6, ReadableWritten
<1>8. \A i : ByteAt(rb', i) = ByteAt(b, i)
  BY <1>7 DEF ByteAt
<1>9. readableBytes(rb)' = readableBytes(rb) + n
  BY <1>5, <1>6, <1>7
<1>10. QED
  BY <1>1, <1>2, <1>4, <1>8, <1>9

\* What the parser takes is gone, and the rest is where it was.
LEMMA ParsingMoves ==
  ASSUME TypeOK, NEW stage \in 0 .. 2, Parsing(stage)
  PROVE  /\ target \in 0 .. readableBytes(rb)
         /\ readableBytes(rb)' = readableBytes(rb) - target
         /\ \A i \in 1 .. readableBytes(rb) - target : ByteAt(rb', i) = ByteAt(rb, target + i)
         /\ UNCHANGED <<pc, wire, connected, asked, before, sent>>
         /\ Outstanding' = Outstanding - target
         /\ pc = "parse" /\ process = stage
<1>1. /\ readableBytes(rb) >= target /\ rb' = hasRead(rb, target)
      /\ UNCHANGED <<pc, wire, connected, asked, before, sent>>
      /\ pc = "parse" /\ process = stage
  BY DEF Parsing, client
<1>2. target \in Nat
  BY DEF TypeOK
<1>3. /\ readableBytes(hasRead(rb, target)) = readableBytes(rb) - target
      /\ \A i \in 1 .. readableBytes(rb) - target : ByteAt(hasRead(rb, target), i) = ByteAt(rb, target + i)
  BY <1>1, <1>2, OutstandingType, ReadableRead
<1>4. readableBytes(rb)' = readableBytes(rb) - target
  BY <1>1, <1>3
<1>5. Outstanding' = Outstanding - target
  BY <1>1, <1>2, <1>4, OutstandingType DEF Outstanding
<1>6. QED
  BY <1>1, <1>2, <1>3, <1>4, <1>5, OutstandingType

\* A request, or a part of one, is sent behind the bytes that are on the wire.
LEMMA RequestMoves ==
  ASSUME TypeOK, NEW q \in Shape, Request(q), NEW n \in 0 .. Total(q),
         wire' = wire \o Bytes(Len(asked'), 0, n), UNCHANGED rb
  PROVE  /\ Len(asked') = Len(asked) + 1 /\ asked'[Len(asked) + 1] = q
         /\ \A id \in 1 .. Len(asked) : asked'[id] = asked[id]
         /\ Len(wire') = Len(wire) + n
         /\ \A i \in 1 .. Len(wire) : wire'[i] = wire[i]
         /\ \A i \in 1 .. n : wire'[Len(wire) + i] = <<Len(asked) + 1, i>>
         /\ Outstanding' = Outstanding + n /\ Outstanding + n <= Window
<1>1. asked' = Append(asked, q) /\ Outstanding + Total(q) <= Window
  BY DEF Request
<1>2. asked \in Seq(Shape)
  BY DEF TypeOK
<1>3. /\ Len(asked') = Len(asked) + 1 /\ Len(asked) \in Nat /\ asked'[Len(asked) + 1] = q
      /\ \A id \in 1 .. Len(asked) : asked'[id] = asked[id]
  BY <1>1, <1>2, AppendProperties, LenProperties
<1>4. PICK id \in Nat, m \in Nat : id = Len(asked) + 1 /\ m = n
  BY <1>3, ShapeTypes
<1>5. /\ Bytes(id, 0, m) \in Seq(Nat \X Nat) /\ Len(Bytes(id, 0, m)) = m
      /\ \A i \in 1 .. m : Bytes(id, 0, m)[i] = <<id, i>>
  <2>1. /\ Bytes(id, 0, m) \in Seq(Nat \X Nat) /\ Len(Bytes(id, 0, m)) = m - 0
        /\ \A i \in 1 .. m - 0 : Bytes(id, 0, m)[i] = <<id, 0 + i>>
    <3>1. PICK z \in Nat : z = 0 /\ z <= m
      OBVIOUS
    <3>2. /\ Bytes(id, z, m) \in Seq(Nat \X Nat) /\ Len(Bytes(id, z, m)) = m - z
          /\ \A i \in 1 .. m - z : Bytes(id, z, m)[i] = <<id, z + i>>
      BY <3>1, BytesType
    <3>3. QED
      BY <3>1, <3>2
  <2>2. m - 0 = m /\ \A i \in 1 .. m : 0 + i = i
    OBVIOUS
  <2>3. QED
    BY <2>1, <2>2
<1>6. wire' = wire \o Bytes(id, 0, m)
  BY <1>3, <1>4
<1>7. /\ Len(wire') = Len(wire) + m
      /\ \A i \in 1 .. Len(wire) : wire'[i] = wire[i]
      /\ \A i \in 1 .. m : wire'[Len(wire) + i] = <<id, i>>
  <2>1. PICK more \in Seq(Nat \X Nat) : more = Bytes(id, 0, m)
    BY <1>5
  <2>2. wire \in Seq(Nat \X Nat) /\ wire' = wire \o more
    BY <1>6, <2>1, OutstandingType
  <2>3. /\ Len(wire \o more) = Len(wire) + Len(more) /\ Len(wire) \in Nat /\ Len(more) \in Nat
        /\ \A i \in 1 .. Len(wire) + Len(more) :
              (wire \o more)[i] = IF i <= Len(wire) THEN wire[i] ELSE more[i - Len(wire)]
    BY <2>2, ConcatProperties, LenProperties
  <2>4. Len(wire') = Len(wire) + m /\ Len(more) = m
    BY <1>5, <2>1, <2>2, <2>3
  <2>5. \A i \in 1 .. Len(wire) : wire'[i] = wire[i]
    BY <2>2, <2>3
  <2>6. ASSUME NEW i \in 1 .. m
        PROVE  wire'[Len(wire) + i] = <<id, i>>
    <3>1. /\ Len(wire) + i \in 1 .. Len(wire) + Len(more) /\ ~ (Len(wire) + i <= Len(wire))
          /\ Len(wire) + i - Len(wire) = i
      BY <2>3, <2>4
    <3>2. wire'[Len(wire) + i] = more[i]
      BY <2>2, <2>3, <3>1
    <3>3. QED
      BY <1>5, <2>1, <3>2
  <2>7. QED
    BY <2>4, <2>5, <2>6
<1>8. Outstanding' = Outstanding + n
  BY <1>4, <1>7, OutstandingType DEF Outstanding
<1>9. Outstanding + n <= Window
  BY <1>1, OutstandingType, ShapeTypes, ReadAssumption
<1>10. QED
  BY <1>3, <1>4, <1>7, <1>8, <1>9

LEMMA ClearedEmpty ==
  ASSUME NEW b \in Ring
  PROVE  clear(b) \in Ring /\ readableBytes(clear(b)) = 0
<1>1. 0 \in Cell
  BY SizeAssumption DEF Cell
<1>2. clear(b) \in Ring /\ clear(b).readIndex = 0 /\ clear(b).writeIndex = 0
  BY <1>1 DEF clear, Ring
<1>3. QED
  BY <1>2 DEF readableBytes

LEMMA RoomInit == Init => Room
  BY ReadAssumption DEF Init, Room, Outstanding, Empty, readableBytes

LEMMA RoomNext ==
  ASSUME TypeOK, Room, Window < MAX_BUFFER_SIZE, [Next]_vars
  PROVE  Room'
<1>0. TypeOK' /\ Outstanding' \in Nat
  <2>1. TypeOK'
    BY ReadNextType
  <2>2. PICK b \in Ring, w \in Seq(Nat \X Nat) : b = rb' /\ w = wire'
    BY <2>1 DEF TypeOK, Ring
  <2>3. Len(w) \in Nat /\ readableBytes(b) \in 0 .. MAX_BUFFER_SIZE - 1
    BY LenProperties, Readable
  <2>4. Outstanding' = Len(w) + readableBytes(b)
    BY <2>2 DEF Outstanding
  <2>5. QED
    BY <2>1, <2>3, <2>4
<1>1. ASSUME NEW q \in Shape, Ask(q)
      PROVE  Room'
  <2>1. PICK n \in 0 .. Total(q) : n = Total(q)
    BY ShapeTypes
  <2>2. Request(q) /\ UNCHANGED rb /\ wire' = wire \o Bytes(Len(asked'), 0, n)
    BY <1>1, <2>1 DEF Ask
  <2>3. Outstanding' = Outstanding + n /\ Outstanding + n <= Window
    BY <2>2, RequestMoves
  <2>4. QED
    BY <1>0, <2>3, ReadAssumption DEF Room
<1>2. ASSUME NEW q \in Shape, NEW n \in BreakAt, BreakOff(q, n)
      PROVE  Room'
  <2>1. PICK m \in 0 .. Total(q) : m = n
    BY <1>2, ShapeTypes, ReadAssumption DEF BreakOff
  <2>2. Request(q) /\ UNCHANGED rb /\ wire' = wire \o Bytes(Len(asked'), 0, m)
    BY <1>2, <2>1 DEF BreakOff
  <2>3. Outstanding' = Outstanding + m /\ Outstanding + m <= Window
    BY <2>2, RequestMoves
  <2>4. QED
    BY <1>0, <2>3, ReadAssumption DEF Room
<1>3. ASSUME NEW n \in 1 .. MAX_BUFFER_SIZE, ReadDone(n)
      PROVE  Room'
  <2>1. readableBytes(rb)' = readableBytes(rb) + n /\ Len(wire)' = Len(wire) - n
    BY <1>3, ReadMoves
  <2>2. Outstanding' = Outstanding
    BY <2>1, OutstandingType DEF Outstanding
  <2>3. QED
    BY <2>2 DEF Room
<1>4. CASE ParseHeader \/ ParseRpcHeader \/ ParseBody
  <2>1. PICK stage \in 0 .. 2 : Parsing(stage)
    BY <1>4 DEF ParseHeader, ParseRpcHeader, ParseBody
  <2>2. QED
    <3>1. Outstanding' = Outstanding - target /\ target \in Nat
      BY <2>1, ParsingMoves DEF TypeOK
    <3>2. QED
      BY <1>0, <3>1, ReadAssumption DEF Room
<1>5. CASE Accept
  <2>1. Len(wire') = 0 /\ rb' = rb
    BY <1>5 DEF Accept
  <2>2. Outstanding' = readableBytes(rb)
    BY <2>1, OutstandingType DEF Outstanding
  <2>3. QED
    BY <1>0, <2>2, OutstandingType, ReadAssumption DEF Room
<1>6. CASE Closed
  <2>1. wire' = wire /\ rb' = clear(rb)
    BY <1>6 DEF Closed, client
  <2>2. readableBytes(clear(rb)) = 0
    BY OutstandingType, ClearedEmpty
  <2>3. Outstanding' = Len(wire)
    BY <2>1, <2>2, OutstandingType DEF Outstanding
  <2>4. QED
    BY <1>0, <2>3, OutstandingType, ReadAssumption DEF Room
<1>7. CASE HangUp \/ ReadEof \/ ReadFailed \/ ReadOn \/ UNCHANGED vars
  BY <1>7 DEF HangUp, ReadEof, ReadFailed, ReadOn, vars, client, Room, Outstanding
<1>8. QED
  BY <1>1, <1>2, <1>3, <1>4, <1>5, <1>6, <1>7 DEF Next, Parse

-----------------------------------------------------------------------------
(* Where the bytes are that the parser has not taken.                      *)

\* The i-th of them: in the ring, or still on the wire.
Pending(i) == IF i <= readableBytes(rb) THEN ByteAt(rb, i) ELSE wire[i - readableBytes(rb)]

\* How many bytes the parser has taken of the request it is at.
Place(cur) ==
    CASE process = 0 -> 0
      [] process = 1 -> HeaderLen
      [] process = 2 -> HeaderLen + asked[cur].rpc

\* The parser is at request cur, and whole is the last request that the present client has
\* sent to the end.  They are numbered one after the other, from the present client's first.
Numbers(cur, whole) ==
    /\ Len(delivered) <= Len(sent)
    /\ \A j \in 1 .. Len(delivered) : delivered[j] = sent[j]
    /\ \A j \in 1 .. Len(sent) : j > Len(delivered) => sent[j] = cur + (j - Len(delivered) - 1)
    /\ whole + 1 = cur + (Len(sent) - Len(delivered))
    /\ before < cur
    /\ whole <= Len(asked)
    /\ connected => whole = Len(asked)

Stage(cur, whole) ==
    /\ process = 0 => target = HeaderLen
    /\ process > 0 => cur <= whole /\ ri = cur
    /\ process = 1 => target = asked[cur].rpc
    /\ process = 2 => target = asked[cur].body

Waits(cur, whole) ==
    /\ pc = "read" => readableBytes(rb) < target
    /\ pc \in {"close", "accept"} => cur > whole /\ wire = <<>> /\ ~connected
    /\ pc = "accept" => readableBytes(rb) = 0

\* The bytes of request c begin behind place off[c], the next request's behind its last
\* one, and behind those of the last there are less than a header.
Placed(cur, whole, off, rest) ==
    /\ off[cur] = 0 - Place(cur)
    /\ \A c \in cur .. whole : off[c + 1] = off[c] + Total(asked[c])
    /\ \A c, e \in cur .. whole + 1 : c < e => off[e] >= off[c] + Total(asked[c])
    /\ Outstanding = off[whole + 1] + rest
    /\ rest < HeaderLen
    /\ connected => rest = 0
    /\ \A c \in cur .. whole : \A p \in 1 .. Total(asked[c]) :
          off[c] + p >= 1 => Pending(off[c] + p) = <<c, p>>

Layout(cur, whole, off, rest) ==
    /\ Numbers(cur, whole)
    /\ Stage(cur, whole)
    /\ Waits(cur, whole)
    /\ Placed(cur, whole, off, rest)

LaidOut == \E cur, whole, rest \in Nat, off \in [Nat -> Int] : Layout(cur, whole, off, rest)

RInv == TypeOK /\ Room /\ LaidOut

LEMMA LayoutFacts ==
  ASSUME TypeOK, NEW cur \in Nat, NEW whole \in Nat, NEW rest \in Nat, NEW off \in [Nat -> Int],
         Layout(cur, whole, off, rest)
  PROVE  /\ cur \in 1 .. whole + 1
         /\ \A c \in cur .. whole : c \in 1 .. Len(asked) /\ asked[c] \in Shape
         /\ \A c \in cur .. whole : Total(asked[c]) \in Nat /\ Total(asked[c]) > 0
         /\ \A c \in cur .. whole : \A p \in 1 .. Total(asked[c]) :
               off[c] + p \in Int /\ off[c] + p <= Outstanding
         /\ target \in Nat /\ process \in 0 .. 2
<1>1. /\ asked \in Seq(Shape) /\ Len(asked) \in Nat /\ Len(sent) \in Nat /\ Len(delivered) \in Nat
      /\ target \in Nat /\ before \in Nat /\ process \in 0 .. 2
  BY LenProperties DEF TypeOK
<1>2. /\ Len(delivered) <= Len(sent) /\ whole + 1 = cur + (Len(sent) - Len(delivered))
      /\ before < cur /\ whole <= Len(asked)
  BY DEF Layout, Numbers
<1>3. cur \in 1 .. whole + 1
  BY <1>1, <1>2
<1>4. ASSUME NEW c \in cur .. whole
      PROVE  /\ c \in 1 .. Len(asked) /\ asked[c] \in Shape
             /\ Total(asked[c]) \in Nat /\ Total(asked[c]) > 0
  <2>1. c \in 1 .. Len(asked)
    BY <1>1, <1>2, <1>3
  <2>2. asked[c] \in Shape
    BY <1>1, <2>1, ElementOfSeq
  <2>3. QED
    BY <2>1, <2>2, ShapeTypes
<1>5. ASSUME NEW c \in cur .. whole, NEW p \in 1 .. Total(asked[c])
      PROVE  off[c] + p \in Int /\ off[c] + p <= Outstanding
  <2>1. off[whole + 1] >= off[c] + Total(asked[c])
    <3>1. c \in cur .. whole + 1 /\ whole + 1 \in cur .. whole + 1 /\ c < whole + 1
      BY <1>3
    <3>2. QED
      BY <3>1 DEF Layout, Placed
  <2>2. Outstanding = off[whole + 1] + rest
    BY DEF Layout, Placed
  <2>3. Total(asked[c]) \in Nat
    BY <1>4
  <2>4. off[c] \in Int /\ off[whole + 1] \in Int
    OBVIOUS
  <2>5. QED
    BY <2>1, <2>2, <2>3, <2>4
<1>6. QED
  BY <1>1, <1>3, <1>4, <1>5

\* As long as a request is on its way, so is the part that the parser waits for.
LEMMA PartIsThere ==
  ASSUME TypeOK, NEW cur \in Nat, NEW whole \in Nat, NEW rest \in Nat, NEW off \in [Nat -> Int],
         Layout(cur, whole, off, rest), cur <= whole
  PROVE  /\ cur \in 1 .. Len(asked) /\ asked[cur] \in Shape /\ Place(cur) \in Nat
         /\ Place(cur) + target <= Total(asked[cur]) /\ Outstanding >= target
         /\ \A i \in 1 .. target : Pending(i) = <<cur, Place(cur) + i>>
         /\ process = 0 => Place(cur) = 0 /\ target = HeaderLen
         /\ process = 1 => Place(cur) = HeaderLen /\ target = asked[cur].rpc
         /\ process = 2 => Place(cur) = HeaderLen + asked[cur].rpc /\ target = asked[cur].body
<1>1. /\ cur \in cur .. whole /\ cur \in 1 .. Len(asked) /\ asked[cur] \in Shape
      /\ Total(asked[cur]) \in Nat /\ target \in Nat /\ process \in 0 .. 2
      /\ \A p \in 1 .. Total(asked[cur]) : off[cur] + p <= Outstanding
  BY LayoutFacts
<1>2. /\ Total(asked[cur]) = HeaderLen + asked[cur].rpc + asked[cur].body
      /\ asked[cur].rpc \in Nat \ {0} /\ asked[cur].body \in Nat /\ HeaderLen \in Nat \ {0}
  BY <1>1, ShapeTypes
<1>3. /\ process = 0 => Place(cur) = 0 /\ target = HeaderLen
      /\ process = 1 => Place(cur) = HeaderLen /\ target = asked[cur].rpc
      /\ process = 2 => Place(cur) = HeaderLen + asked[cur].rpc /\ target = asked[cur].body
  BY DEF Layout, Stage, Place
<1>4. Place(cur) \in Nat /\ Place(cur) + target <= Total(asked[cur])
  <2>1. PICK h \in Nat, r \in Nat, b \in Nat, t \in Nat :
           h = HeaderLen /\ r = asked[cur].rpc /\ b = asked[cur].body /\ t = Total(asked[cur])
    BY <1>1, <1>2
  <2>2. t = h + r + b
    BY <1>2, <2>1
  <2>3. /\ process = 0 => Place(cur) = 0 /\ target = h
        /\ process = 1 => Place(cur) = h /\ target = r
        /\ process = 2 => Place(cur) = h + r /\ target = b
    BY <1>3, <2>1
  <2>4. Place(cur) \in Nat /\ Place(cur) + target <= t
    <3>1. CASE process = 0
      BY <3>1, <2>2, <2>3
    <3>2. CASE process = 1
      BY <3>2, <2>2, <2>3
    <3>3. CASE process = 2
      BY <3>3, <2>2, <2>3
    <3>4. QED
      BY <1>1, <3>1, <3>2, <3>3
  <2>5. QED
    BY <2>1, <2>4
<1>5. off[cur] = 0 - Place(cur)
  BY DEF Layout, Placed
<1>6. ASSUME NEW i \in 1 .. target
      PROVE  Pending(i) = <<cur, Place(cur) + i>> /\ i <= Outstanding
  <2>1. /\ Place(cur) + i \in 1 .. Total(asked[cur])
        /\ off[cur] + (Place(cur) + i) = i /\ off[cur] + (Place(cur) + i) >= 1
    <3>1. PICK pl \in Nat, t \in Nat, o \in Int : pl = Place(cur) /\ t = Total(asked[cur]) /\ o = off[cur]
      BY <1>1, <1>4
    <3>2. pl + target <= t /\ o = 0 - pl /\ target \in Nat
      BY <1>1, <1>4, <1>5, <3>1
    <3>3. pl + i \in 1 .. t /\ o + (pl + i) = i /\ o + (pl + i) >= 1
      BY <3>2
    <3>4. QED
      BY <3>1, <3>3
  <2>2. Pending(off[cur] + (Place(cur) + i)) = <<cur, Place(cur) + i>>
    BY <1>1, <2>1 DEF Layout, Placed
  <2>3. off[cur] + (Place(cur) + i) <= Outstanding
    BY <1>1, <2>1
  <2>4. QED
    BY <2>1, <2>2, <2>3
<1>7. Outstanding >= target
  <2>1. CASE target = 0
    BY <2>1, OutstandingType
  <2>2. CASE target # 0
    <3>1. target \in 1 .. target
      BY <1>1, <2>2
    <3>2. QED
      BY <3>1, <1>6
  <2>3. QED
    BY <2>1, <2>2
<1>8. QED
  BY <1>1, <1>3, <1>4, <1>6, <1>7

\* When none is, the parser waits for a header, and less than that is there.
LEMMA NothingPending ==
  ASSUME TypeOK, NEW cur \in Nat, NEW whole \in Nat, NEW rest \in Nat, NEW off \in [Nat -> Int],
         Layout(cur, whole, off, rest), cur > whole
  PROVE  /\ cur = whole + 1 /\ process = 0 /\ target = HeaderLen
         /\ Len(delivered) = Len(sent) /\ Outstanding = rest
<1>1. cur \in 1 .. whole + 1 /\ process \in 0 .. 2
  BY LayoutFacts
<1>2. cur = whole + 1
  BY <1>1
<1>3. process = 0 /\ target = HeaderLen
  BY <1>1 DEF Layout, Stage
<1>4. Len(delivered) = Len(sent)
  <2>1. Len(delivered) \in Nat /\ Len(sent) \in Nat
    BY LenProperties DEF TypeOK
  <2>2. whole + 1 = cur + (Len(sent) - Len(delivered))
    BY DEF Layout, Numbers
  <2>3. QED
    BY <1>2, <2>1, <2>2
<1>5. off[whole + 1] = 0
  BY <1>2, <1>3 DEF Layout, Placed, Place
<1>6. Outstanding = rest
  BY <1>5 DEF Layout, Placed
<1>7. QED
  BY <1>2, <1>3, <1>4, <1>6

-----------------------------------------------------------------------------
(* The layout is kept: one lemma per action.                               *)

LEMMA SameBytes ==
  ASSUME NEW cur \in Nat, NEW whole \in Nat, NEW rest \in Nat, NEW off \in [Nat -> Int],
         Layout(cur, whole, off, rest), connected' => connected, Waits(cur, whole)',
         UNCHANGED <<rb, process, target, ri, wire, asked, before, sent, delivered>>
  PROVE  LaidOut'
<1>1. Numbers(cur, whole)'
  BY DEF Layout, Numbers
<1>2. Stage(cur, whole)'
  BY DEF Layout, Stage
<1>3. \A i : Pending(i)' = Pending(i)
  BY DEF Pending
<1>4. Outstanding' = Outstanding /\ Place(cur)' = Place(cur)
  BY DEF Outstanding, Place
<1>5. Placed(cur, whole, off, rest)'
  BY <1>3, <1>4 DEF Layout, Placed
<1>6. Layout(cur, whole, off, rest)'
  BY <1>1, <1>2, <1>5 DEF Layout
<1>7. QED
  BY <1>6 DEF LaidOut

LEMMA HangUpLayout ==
  ASSUME LaidOut, HangUp
  PROVE  LaidOut'
<1>1. PICK cur, whole, rest \in Nat, off \in [Nat -> Int] : Layout(cur, whole, off, rest)
  BY DEF LaidOut
<1>2. /\ connected' => connected
      /\ UNCHANGED <<rb, process, target, ri, pc, wire, asked, before, sent, delivered>>
  BY DEF HangUp, parser
<1>3. Waits(cur, whole)'
  BY <1>1, <1>2 DEF Layout, Waits
<1>4. QED
  BY <1>1, <1>2, <1>3, SameBytes

LEMMA ReadOnLayout ==
  ASSUME LaidOut, ReadOn
  PROVE  LaidOut'
<1>1. PICK cur, whole, rest \in Nat, off \in [Nat -> Int] : Layout(cur, whole, off, rest)
  BY DEF LaidOut
<1>2. /\ readableBytes(rb) < target /\ pc' = "read"
      /\ UNCHANGED <<rb, process, target, ri, wire, connected, asked, before, sent, delivered>>
  BY DEF ReadOn, parser, client
<1>3. Waits(cur, whole)'
  BY <1>1, <1>2 DEF Layout, Waits
<1>4. QED
  BY <1>1, <1>2, <1>3, SameBytes

\* The regions are empty only if all cells but the reserved one are full.
LEMMA NoRegion ==
  ASSUME NEW b \in Ring, Size(writevBegin(b)) = 0
  PROVE  readableBytes(b) = MAX_BUFFER_SIZE - 1 /\ readableBytes(b) > 0
<1>1. PICK r \in Cell, w \in Cell : r = b.readIndex /\ w = b.writeIndex
  BY DEF Ring
<1>2. CASE w >= r
  <2>1. writevBegin(b) = <<Region(w, MAX_BUFFER_SIZE - w), Region(0, r)>>
    BY <1>1, <1>2 DEF writevBegin
  <2>2. Size(writevBegin(b)) = MAX_BUFFER_SIZE - w + r
    BY <2>1 DEF Size, Region
  <2>3. QED
    BY <2>2, SizeAssumption DEF Cell
<1>3. CASE w < r
  <2>1. writevBegin(b) = <<Region(w, r - 1 - w), Region(0, 0)>>
    BY <1>1, <1>3 DEF writevBegin, Cell
  <2>2. Size(writevBegin(b)) = r - 1 - w
    BY <2>1, SizeAssumption DEF Size, Region, Cell
  <2>3. readableBytes(b) = MAX_BUFFER_SIZE - r + w
    BY <1>1, <1>3 DEF readableBytes, Cell
  <2>4. QED
    BY <2>2, <2>3, <1>3, SizeAssumption DEF Cell
<1>4. QED
  BY <1>2, <1>3 DEF Cell

\* A read of no bytes: the client has hung up, and all that it sent to the end is handed over.
LEMMA ReadEofFacts ==
  ASSUME TypeOK, Room, Window < MAX_BUFFER_SIZE, ReadEof,
         NEW cur \in Nat, NEW whole \in Nat, NEW rest \in Nat, NEW off \in [Nat -> Int],
         Layout(cur, whole, off, rest)
  PROVE  cur > whole /\ wire = <<>> /\ ~connected
<1>1. /\ Size(writevBegin(rb)) = 0 \/ (wire = <<>> /\ ~connected)
      /\ readableBytes(rb) < target
  BY DEF ReadEof, Layout, Waits
<1>2. /\ rb \in Ring /\ Len(wire) \in Nat /\ readableBytes(rb) \in Nat
      /\ Outstanding = Len(wire) + readableBytes(rb) /\ Outstanding <= Window
  BY OutstandingType DEF Room
<1>3. Size(writevBegin(rb)) = 0 => Len(wire) = 0 /\ readableBytes(rb) > 0
  BY <1>2, NoRegion, SizeAssumption, ReadAssumption
<1>4. wire = <<>>
  BY <1>1, <1>3, OutstandingType, EmptySeq
<1>5. Outstanding < target
  BY <1>1, <1>2, <1>4
<1>6. cur > whole
  <2>1. SUFFICES ASSUME cur <= whole
                 PROVE  FALSE
    OBVIOUS
  <2>2. Outstanding >= target
    BY <2>1, PartIsThere
  <2>3. target \in Nat
    BY DEF TypeOK
  <2>4. QED
    BY <1>2, <1>5, <2>2, <2>3
<1>7. ~connected
  <2>1. SUFFICES ASSUME connected
                 PROVE  FALSE
    OBVIOUS
  <2>2. Outstanding = 0
    BY <2>1, <1>6, NothingPending DEF Layout, Placed
  <2>3. readableBytes(rb) > 0
    BY <2>1, <1>1, <1>3
  <2>4. QED
    BY <1>2, <2>2, <2>3
<1>8. QED
  BY <1>4, <1>6, <1>7

LEMMA ReadEofLayout ==
  ASSUME TypeOK, Room, Window < MAX_BUFFER_SIZE, LaidOut, ReadEof
  PROVE  LaidOut'
<1>1. PICK cur, whole, rest \in Nat, off \in [Nat -> Int] : Layout(cur, whole, off, rest)
  BY DEF LaidOut
<1>2. /\ pc' = "close"
      /\ UNCHANGED <<rb, process, target, ri, wire, connected, asked, before, sent, delivered>>
  BY DEF ReadEof, parser, client
<1>3. cur > whole /\ wire = <<>> /\ ~connected
  BY <1>1, ReadEofFacts
<1>4. Waits(cur, whole)'
  BY <1>2, <1>3 DEF Waits
<1>5. QED
  BY <1>1, <1>2, <1>4, SameBytes

\* Nothing is on its way from a client that is not there.
LEMMA NothingLayout ==
  ASSUME NEW cur \in Nat, NEW whole \in Nat, cur = whole + 1, process' = 0, Outstanding' = 0,
         Numbers(cur, whole)', Stage(cur, whole)', Waits(cur, whole)'
  PROVE  LaidOut'
<1> DEFINE zero == [c \in Nat |-> 0]
<1>1. zero \in [Nat -> Int] /\ \A c \in Nat : zero[c] = 0
  OBVIOUS
<1> HIDE DEF zero
<1>2. PICK off \in [Nat -> Int] : \A c \in Nat : off[c] = 0
  BY <1>1
<1>3. Place(cur)' = 0
  BY DEF Place
<1>4. cur .. whole = {} /\ cur .. whole + 1 = {cur}
  OBVIOUS
<1>5. off[cur] = 0 /\ off[whole + 1] = 0
  BY <1>2
<1>6. Placed(cur, whole, off, 0)'
  BY <1>3, <1>4, <1>5, ReadAssumption DEF Placed
<1>7. Layout(cur, whole, off, 0)'
  BY <1>6 DEF Layout
<1>8. QED
  BY <1>7 DEF LaidOut

LEMMA ClosedLayout ==
  ASSUME TypeOK, LaidOut, Closed
  PROVE  LaidOut'
<1>1. PICK cur, whole, rest \in Nat, off \in [Nat -> Int] : Layout(cur, whole, off, rest)
  BY DEF LaidOut
<1>2. /\ pc = "close" /\ pc' = "accept" /\ rb' = clear(rb)
      /\ UNCHANGED <<process, target, ri, wire, connected, asked, before, sent, delivered>>
  BY DEF Closed, parser, client
<1>3. cur > whole /\ wire = <<>> /\ ~connected
  BY <1>1, <1>2 DEF Layout, Waits
<1>4. cur = whole + 1 /\ process = 0
  BY <1>1, <1>3, NothingPending
<1>5. readableBytes(rb)' = 0
  BY <1>2, OutstandingType, ClearedEmpty
<1>6. Outstanding' = 0
  BY <1>2, <1>3, <1>5 DEF Outstanding
<1>7. Numbers(cur, whole)' /\ Stage(cur, whole)'
  BY <1>1, <1>2 DEF Layout, Numbers, Stage
<1>8. Waits(cur, whole)'
  BY <1>2, <1>3, <1>5 DEF Waits
<1>9. process' = 0
  BY <1>2, <1>4
<1>10. QED
  BY <1>4, <1>6, <1>7, <1>8, <1>9, NothingLayout

\* The next client begins with the next number, and with an empty buffer.
LEMMA AcceptLayout ==
  ASSUME TypeOK, LaidOut, Accept
  PROVE  LaidOut'
<1>1. PICK cur, whole, rest \in Nat, off \in [Nat -> Int] : Layout(cur, whole, off, rest)
  BY DEF LaidOut
<1>2. /\ pc = "accept" /\ pc' = "read" /\ wire' = <<>> /\ connected' = TRUE /\ before' = Len(asked)
      /\ UNCHANGED <<rb, process, target, ri, asked, sent, delivered>>
  BY DEF Accept, parser
<1>3. cur > whole /\ readableBytes(rb) = 0
  BY <1>1, <1>2 DEF Layout, Waits
<1>4. process = 0 /\ target = HeaderLen /\ Len(delivered) = Len(sent)
  BY <1>1, <1>3, NothingPending
<1>5. PICK w \in Nat : w = Len(asked)
  BY LenProperties DEF TypeOK
<1>6. /\ Len(sent) \in Nat /\ Len(delivered) \in Nat
      /\ \A j \in 1 .. Len(delivered) : delivered[j] = sent[j]
  BY <1>1, LenProperties DEF TypeOK, Layout, Numbers
<1>7. Numbers(w + 1, w)'
  BY <1>2, <1>4, <1>5, <1>6 DEF Numbers
<1>8. Stage(w + 1, w)'
  BY <1>2, <1>4 DEF Stage
<1>9. Waits(w + 1, w)'
  BY <1>2, <1>3, <1>4, ReadAssumption DEF Waits
<1>10. Outstanding' = 0 /\ process' = 0
  BY <1>2, <1>3, <1>4 DEF Outstanding
<1>11. w + 1 \in Nat
  OBVIOUS
<1>12. PICK n \in Nat : n = w + 1
  BY <1>11
<1>13. QED
  BY <1>7, <1>8, <1>9, <1>10, <1>12, NothingLayout

\* What the kernel takes from the wire stays where it is in the order of the bytes.
LEMMA ReadDoneLayout ==
  ASSUME TypeOK, Room, Window < MAX_BUFFER_SIZE, LaidOut, NEW n \in 1 .. MAX_BUFFER_SIZE, ReadDone(n)
  PROVE  LaidOut'
<1>1. PICK cur, whole, rest \in Nat, off \in [Nat -> Int] : Layout(cur, whole, off, rest)
  BY DEF LaidOut
<1>2. /\ n \in 1 .. Len(wire)
      /\ readableBytes(rb)' = readableBytes(rb) + n
      /\ Len(wire)' = Len(wire) - n
      /\ \A i \in 1 .. readableBytes(rb) : ByteAt(rb', i) = ByteAt(rb, i)
      /\ \A i \in 1 .. n : ByteAt(rb', readableBytes(rb) + i) = wire[i]
      /\ \A i \in 1 .. Len(wire) - n : wire'[i] = wire[n + i]
  BY ReadMoves
<1>3. /\ pc = "read" /\ pc' = "parse"
      /\ UNCHANGED <<process, target, ri, connected, asked, before, sent, delivered>>
  BY DEF ReadDone, parser
<1>4. PICK r \in Nat, l \in Nat : r = readableBytes(rb) /\ l = Len(wire) /\ Outstanding = l + r
  BY OutstandingType
<1>5. Outstanding' = Outstanding
  BY <1>2, <1>4 DEF Outstanding
<1>6. ASSUME NEW i \in 1 .. Outstanding
      PROVE  Pending(i)' = Pending(i)
  <2>1. Pending(i) = IF i <= r THEN ByteAt(rb, i) ELSE wire[i - r]
    BY <1>4 DEF Pending
  <2>2. Pending(i)' = IF i <= r + n THEN ByteAt(rb', i) ELSE wire'[i - (r + n)]
    BY <1>2, <1>4 DEF Pending
  <2>3. CASE i <= r
    BY <2>1, <2>2, <2>3, <1>2, <1>4
  <2>4. CASE i > r /\ i <= r + n
    <3>1. i - r \in 1 .. n /\ r + (i - r) = i
      <4>1. PICK m \in Nat, j \in Nat : m = n /\ j = i /\ j > r /\ j <= r + m
        BY <2>4, <1>4
      <4>2. j - r \in 1 .. m /\ r + (j - r) = j
        BY <4>1
      <4>3. QED
        BY <4>1, <4>2
    <3>2. ByteAt(rb', i) = wire[i - r]
      BY <3>1, <1>2, <1>4
    <3>3. QED
      BY <2>1, <2>2, <2>4, <3>2
  <2>5. CASE i > r + n
    <3>1. i - (r + n) \in 1 .. l - n /\ n + (i - (r + n)) = i - r
      <4>1. PICK m \in Nat, j \in Nat : m = n /\ j = i /\ j <= l + r /\ j > r + m
        BY <2>5, <1>4
      <4>2. j - (r + m) \in 1 .. l - m /\ m + (j - (r + m)) = j - r
        BY <4>1
      <4>3. QED
        BY <4>1, <4>2
    <3>2. wire'[i - (r + n)] = wire[i - r]
      BY <3>1, <1>2, <1>4
    <3>3. QED
      BY <2>1, <2>2, <2>5, <3>2, <1>4
  <2>6. QED
    BY <2>3, <2>4, <2>5, <1>4
<1>7. Numbers(cur, whole)' /\ Stage(cur, whole)' /\ Place(cur)' = Place(cur)
  BY <1>1, <1>3 DEF Layout, Numbers, Stage, Place
<1>8. Waits(cur, whole)'
  BY <1>3 DEF Waits
<1>9. Placed(cur, whole, off, rest)'
  <2>1. ASSUME NEW c \in cur .. whole, NEW p \in 1 .. Total(asked[c]), off[c] + p >= 1
        PROVE  Pending(off[c] + p)' = <<c, p>>
    <3>0. off[c] + p <= Outstanding /\ off[c] + p \in Int
      BY <1>1, LayoutFacts
    <3>1. PICK i \in 1 .. Outstanding : i = off[c] + p
      BY <3>0, <2>1, <1>4
    <3>2. Pending(i) = <<c, p>>
      BY <2>1, <3>1, <1>1 DEF Layout, Placed
    <3>3. Pending(i)' = <<c, p>>
      BY <3>2, <1>6
    <3>4. QED
      BY <3>1, <3>3
  <2>2. QED
    BY <2>1, <1>1, <1>3, <1>5, <1>7 DEF Layout, Placed
<1>10. Layout(cur, whole, off, rest)'
  BY <1>7, <1>8, <1>9 DEF Layout
<1>11. QED
  BY <1>10 DEF LaidOut

LEMMA RequestPending ==
  ASSUME TypeOK, NEW q \in Shape, Request(q), NEW n \in 0 .. Total(q),
         wire' = wire \o Bytes(Len(asked'), 0, n), UNCHANGED rb, NEW o \in Nat, o = Outstanding
  PROVE  /\ \A i \in 1 .. o : Pending(i)' = Pending(i)
         /\ \A i \in 1 .. n : Pending(o + i)' = <<Len(asked) + 1, i>>
<1>1. /\ \A i \in 1 .. Len(wire) : wire'[i] = wire[i]
      /\ \A i \in 1 .. n : wire'[Len(wire) + i] = <<Len(asked) + 1, i>>
  BY RequestMoves
<1>2. PICK r \in Nat, l \in Nat : r = readableBytes(rb) /\ l = Len(wire) /\ Outstanding = l + r
  BY OutstandingType
<1>3. \A i : Pending(i)' = IF i <= r THEN ByteAt(rb, i) ELSE wire'[i - r]
  BY <1>2 DEF Pending
<1>4. \A i : Pending(i) = IF i <= r THEN ByteAt(rb, i) ELSE wire[i - r]
  BY <1>2 DEF Pending
<1>5. ASSUME NEW i \in 1 .. o
      PROVE  Pending(i)' = Pending(i)
  <2>1. CASE i <= r
    BY <2>1, <1>3, <1>4
  <2>2. CASE i > r
    <3>1. i - r \in 1 .. l /\ ~ (i <= r)
      BY <2>2, <1>2
    <3>2. wire'[i - r] = wire[i - r]
      BY <3>1, <1>1, <1>2
    <3>3. QED
      BY <3>1, <3>2, <1>3, <1>4
  <2>3. QED
    BY <2>1, <2>2, <1>2
<1>6. ASSUME NEW i \in 1 .. n
      PROVE  Pending(o + i)' = <<Len(asked) + 1, i>>
  <2>0. o = l + r /\ i \in Nat \ {0}
    BY <1>2
  <2>1. PICK j \in Nat : j = o + i /\ ~ (j <= r) /\ j - r = l + i
    BY <2>0
  <2>2. Pending(j)' = wire'[j - r]
    BY <2>1, <1>3
  <2>3. wire'[j - r] = <<Len(asked) + 1, i>>
    BY <2>1, <1>1, <1>2
  <2>4. QED
    BY <2>1, <2>2, <2>3
<1>7. QED
  BY <1>5, <1>6

LEMMA AskLayout ==
  ASSUME TypeOK, LaidOut, NEW q \in Shape, Ask(q)
  PROVE  LaidOut'
<1>1. PICK cur, whole, rest \in Nat, off \in [Nat -> Int] : Layout(cur, whole, off, rest)
  BY DEF LaidOut
<1>2. /\ Request(q) /\ wire' = wire \o Bytes(Len(asked'), 0, Total(q))
      /\ sent' = Append(sent, Len(asked'))
      /\ UNCHANGED <<rb, process, target, ri, pc, connected, before, delivered>>
  BY DEF Ask, parser
<1>3. connected /\ whole = Len(asked) /\ rest = 0
  BY <1>1, <1>2 DEF Request, Layout, Numbers, Placed
<1>4. PICK t \in Nat, o \in Nat, id \in Nat : t = Total(q) /\ o = Outstanding /\ id = whole + 1
  BY ShapeTypes, OutstandingType
<1>5. /\ Len(asked') = id /\ asked'[id] = q
      /\ \A c \in 1 .. whole : asked'[c] = asked[c]
      /\ Outstanding' = o + t
      /\ \A i \in 1 .. o : Pending(i)' = Pending(i)
      /\ \A p \in 1 .. t : Pending(o + p)' = <<id, p>>
  <2>1. t \in 0 .. Total(q) /\ wire' = wire \o Bytes(Len(asked'), 0, t)
    BY <1>2, <1>4
  <2>2. /\ Len(asked') = Len(asked) + 1 /\ asked'[Len(asked) + 1] = q
        /\ \A c \in 1 .. Len(asked) : asked'[c] = asked[c]
        /\ Outstanding' = Outstanding + t
    BY <1>2, <2>1, RequestMoves
  <2>3. /\ \A i \in 1 .. o : Pending(i)' = Pending(i)
        /\ \A p \in 1 .. t : Pending(o + p)' = <<Len(asked) + 1, p>>
    BY <1>2, <1>4, <2>1, RequestPending
  <2>4. QED
    BY <1>3, <1>4, <2>2, <2>3
<1>6. /\ cur \in 1 .. id
      /\ \A c \in cur .. whole : c \in 1 .. Len(asked)
      /\ \A c \in cur .. whole : Total(asked[c]) \in Nat
      /\ \A c \in cur .. whole : \A p \in 1 .. Total(asked[c]) :
            off[c] + p \in Int /\ off[c] + p <= o
  BY <1>1, <1>4, LayoutFacts
<1>7. \A c \in cur .. whole : asked'[c] = asked[c]
  BY <1>3, <1>5, <1>6
<1>8. PICK g \in [Nat -> Int] :
         /\ \A c \in cur .. id : g[c] = off[c]
         /\ g[id + 1] = off[id] + t
  <2> DEFINE f == [off EXCEPT ![id + 1] = off[id] + t]
  <2>1. f \in [Nat -> Int]
    OBVIOUS
  <2>2. f[id + 1] = off[id] + t /\ \A c \in cur .. id : f[c] = off[c]
    OBVIOUS
  <2>3. QED
    BY <2>1, <2>2
<1>9. Numbers(cur, id)'
  <2>1. /\ sent \in Seq(Nat) /\ Len(sent) \in Nat /\ Len(delivered) \in Nat
        /\ Len(delivered) <= Len(sent)
        /\ \A j \in 1 .. Len(delivered) : delivered[j] = sent[j]
        /\ \A j \in 1 .. Len(sent) : j > Len(delivered) => sent[j] = cur + (j - Len(delivered) - 1)
        /\ id = cur + (Len(sent) - Len(delivered))
        /\ before < cur
    BY <1>1, <1>4, LenProperties DEF TypeOK, Layout, Numbers
  <2>2. /\ Len(sent') = Len(sent) + 1 /\ sent'[Len(sent) + 1] = id
        /\ \A j \in 1 .. Len(sent) : sent'[j] = sent[j]
    <3>1. sent' = Append(sent, id)
      BY <1>2, <1>5
    <3>2. QED
      BY <2>1, <3>1, AppendProperties
  <2>3. PICK s \in Nat, d \in Nat : s = Len(sent) /\ d = Len(delivered)
    BY <2>1
  <2>4. ASSUME NEW j \in 1 .. s + 1, j > d
        PROVE  sent'[j] = cur + (j - d - 1)
    <3>1. CASE j = s + 1
      BY <3>1, <2>1, <2>2, <2>3
    <3>2. CASE j # s + 1
      <4>1. j \in 1 .. s
        BY <3>2
      <4>2. QED
        BY <4>1, <2>1, <2>2, <2>3, <2>4
    <3>3. QED
      BY <3>1, <3>2
  <2>5. \A j \in 1 .. d : delivered'[j] = sent'[j]
    BY <1>2, <2>1, <2>2, <2>3
  <2>6. /\ Len(delivered') = d /\ Len(sent') = s + 1 /\ d <= s + 1
        /\ id + 1 = cur + ((s + 1) - d)
    BY <1>2, <2>1, <2>2, <2>3
  <2>7. \A j \in 1 .. Len(sent') : j > Len(delivered') => sent'[j] = cur + (j - Len(delivered') - 1)
    BY <2>4, <2>6
  <2>8. /\ Len(delivered') <= Len(sent')
        /\ \A j \in 1 .. Len(delivered') : delivered'[j] = sent'[j]
        /\ id + 1 = cur + (Len(sent') - Len(delivered'))
    BY <2>5, <2>6
  <2>9. before' < cur /\ id <= Len(asked') /\ id = Len(asked')
    BY <1>2, <1>5, <2>1
  <2>10. QED
    BY <2>7, <2>8, <2>9 DEF Numbers
<1>10. Stage(cur, id)' /\ Place(cur)' = Place(cur)
  <2>1. process > 0 => cur \in cur .. whole /\ cur <= id
    BY <1>1, <1>4 DEF Layout, Stage
  <2>2. process \in 0 .. 2
    BY DEF TypeOK
  <2>3. process > 0 => asked'[cur] = asked[cur]
    BY <1>7, <2>1
  <2>4. Place(cur)' = Place(cur)
    BY <1>2, <2>3 DEF Place
  <2>5. Stage(cur, id)'
    <3>1. Stage(cur, whole)
      BY <1>1 DEF Layout
    <3>2. CASE process = 0
      BY <1>2, <3>1, <3>2 DEF Stage
    <3>3. CASE process > 0
      BY <1>2, <2>1, <2>3, <3>1, <3>3 DEF Stage
    <3>4. QED
      BY <2>2, <3>2, <3>3
  <2>6. QED
    BY <2>4, <2>5
<1>11. Waits(cur, id)'
  BY <1>1, <1>2, <1>3 DEF Layout, Waits
<1>12. /\ off[cur] = 0 - Place(cur)
       /\ \A c \in cur .. whole : off[c + 1] = off[c] + Total(asked[c])
       /\ \A c, e \in cur .. id : c < e => off[e] >= off[c] + Total(asked[c])
       /\ o = off[id]
       /\ \A c \in cur .. whole : \A p \in 1 .. Total(asked[c]) :
             off[c] + p >= 1 => Pending(off[c] + p) = <<c, p>>
  <2>1. Placed(cur, whole, off, 0)
    BY <1>1, <1>3 DEF Layout
  <2>2. Outstanding = off[whole + 1] + 0 /\ off[id] \in Int
    BY <2>1 DEF Placed
  <2>3. o = off[id]
    BY <1>4, <2>2
  <2>4. QED
    BY <1>4, <2>1, <2>3 DEF Placed
<1>13. Placed(cur, id, g, 0)'
  <2>1. g[cur] = 0 - Place(cur)'
    BY <1>6, <1>8, <1>10, <1>12
  <2>2. ASSUME NEW c \in cur .. id
        PROVE  g[c + 1] = g[c] + Total(asked'[c])
    <3>1. CASE c = id
      BY <3>1, <1>4, <1>5, <1>6, <1>8
    <3>2. CASE c # id
      <4>1. c \in cur .. whole /\ c + 1 \in cur .. id
        BY <3>2, <1>4, <1>6
      <4>2. QED
        BY <4>1, <1>7, <1>8, <1>12
    <3>3. QED
      BY <3>1, <3>2
  <2>3. ASSUME NEW c \in cur .. id + 1, NEW e \in cur .. id + 1, c < e
        PROVE  g[e] >= g[c] + Total(asked'[c])
    <3>1. CASE e = id + 1 /\ c = id
      BY <3>1, <1>4, <1>5, <1>6, <1>8
    <3>2. CASE e = id + 1 /\ c # id
      <4>1. c \in cur .. whole /\ c \in cur .. id /\ id \in cur .. id /\ c < id
        BY <2>3, <3>2, <1>4, <1>6
      <4>2. off[id] >= off[c] + Total(asked[c])
        BY <4>1, <1>12
      <4>3. g[e] = off[id] + t /\ g[c] = off[c] /\ asked'[c] = asked[c] /\ Total(asked[c]) \in Nat
        BY <3>2, <4>1, <1>6, <1>7, <1>8
      <4>4. off[id] \in Int /\ off[c] \in Int
        OBVIOUS
      <4>5. QED
        BY <4>2, <4>3, <4>4
    <3>3. CASE e # id + 1
      <4>1. c \in cur .. whole /\ c \in cur .. id /\ e \in cur .. id
        BY <2>3, <3>3, <1>4, <1>6
      <4>2. QED
        BY <2>3, <4>1, <1>7, <1>8, <1>12
    <3>4. QED
      BY <3>1, <3>2, <3>3
  <2>4. Outstanding' = g[id + 1] + 0
    BY <1>5, <1>8, <1>12
  <2>5. ASSUME NEW c \in cur .. id, NEW p \in 1 .. Total(asked'[c]), g[c] + p >= 1
        PROVE  Pending(g[c] + p)' = <<c, p>>
    <3>1. CASE c = id
      <4>1. g[c] = o /\ p \in 1 .. t
        BY <3>1, <1>4, <1>5, <1>6, <1>8, <1>12
      <4>2. Pending(o + p)' = <<id, p>>
        BY <4>1, <1>5
      <4>3. QED
        BY <3>1, <4>1, <4>2
    <3>2. CASE c # id
      <4>1. c \in cur .. whole /\ c \in cur .. id
        BY <3>2, <1>4, <1>6
      <4>2. g[c] = off[c] /\ p \in 1 .. Total(asked[c])
        BY <4>1, <1>7, <1>8
      <4>3. PICK i \in 1 .. o : i = off[c] + p
        BY <2>5, <4>1, <4>2, <1>6
      <4>4. Pending(i) = <<c, p>>
        BY <2>5, <4>1, <4>2, <4>3, <1>12
      <4>5. Pending(i)' = <<c, p>>
        BY <4>4, <1>5
      <4>6. QED
        BY <4>2, <4>3, <4>5
    <3>3. QED
      BY <3>1, <3>2
  <2>6. QED
    BY <2>1, <2>2, <2>3, <2>4, <2>5, ReadAssumption DEF Placed
<1>14. Layout(cur, id, g, 0)'
  BY <1>9, <1>10, <1>11, <1>13 DEF Layout
<1>15. QED
  BY <1>14 DEF LaidOut

\* A part of a request is behind the requests, and stays there.
LEMMA BreakOffLayout ==
  ASSUME TypeOK, LaidOut, NEW q \in Shape, NEW n \in BreakAt, n < HeaderLen, BreakOff(q, n)
  PROVE  LaidOut'
<1>1. PICK cur, whole, rest \in Nat, off \in [Nat -> Int] : Layout(cur, whole, off, rest)
  BY DEF LaidOut
<1>2. /\ Request(q) /\ wire' = wire \o Bytes(Len(asked'), 0, n) /\ connected' = FALSE
      /\ n < Total(q)
      /\ UNCHANGED <<rb, process, target, ri, pc, sent, before, delivered>>
  BY DEF BreakOff, parser
<1>3. connected /\ whole = Len(asked) /\ rest = 0
  BY <1>1, <1>2 DEF Request, Layout, Numbers, Placed
<1>4. PICK o \in Nat, m \in Nat : o = Outstanding /\ m = n
  BY OutstandingType, ReadAssumption
<1>5. /\ Len(asked') = whole + 1
      /\ \A c \in 1 .. whole : asked'[c] = asked[c]
      /\ Outstanding' = o + m
      /\ \A i \in 1 .. o : Pending(i)' = Pending(i)
  <2>1. m \in 0 .. Total(q) /\ wire' = wire \o Bytes(Len(asked'), 0, m)
    BY <1>2, <1>4, ShapeTypes
  <2>2. /\ Len(asked') = Len(asked) + 1
        /\ \A c \in 1 .. Len(asked) : asked'[c] = asked[c]
        /\ Outstanding' = Outstanding + m
    BY <1>2, <2>1, RequestMoves
  <2>3. \A i \in 1 .. o : Pending(i)' = Pending(i)
    BY <1>2, <1>4, <2>1, RequestPending
  <2>4. QED
    BY <1>3, <1>4, <2>2, <2>3
<1>6. /\ cur \in 1 .. whole + 1 /\ process \in 0 .. 2
      /\ \A c \in cur .. whole : c \in 1 .. Len(asked)
      /\ \A c \in cur .. whole : \A p \in 1 .. Total(asked[c]) :
            off[c] + p \in Int /\ off[c] + p <= o
  BY <1>1, <1>4, LayoutFacts
<1>7. \A c \in cur .. whole : asked'[c] = asked[c]
  BY <1>3, <1>5, <1>6
<1>8. Numbers(cur, whole)'
  <2>1. whole <= Len(asked') /\ ~connected'
    BY <1>2, <1>5
  <2>2. Numbers(cur, whole)
    BY <1>1 DEF Layout
  <2>3. QED
    BY <1>2, <2>1, <2>2 DEF Numbers
<1>9. Stage(cur, whole)' /\ Place(cur)' = Place(cur)
  <2>1. process > 0 => cur \in cur .. whole
    BY <1>1 DEF Layout, Stage
  <2>2. process > 0 => asked'[cur] = asked[cur]
    BY <1>7, <2>1
  <2>3. Place(cur)' = Place(cur)
    BY <1>2, <2>2 DEF Place
  <2>4. Stage(cur, whole)
    BY <1>1 DEF Layout
  <2>5. CASE process = 0
    BY <1>2, <2>3, <2>4, <2>5 DEF Stage
  <2>6. CASE process > 0
    BY <1>2, <2>2, <2>3, <2>4, <2>6 DEF Stage
  <2>7. QED
    BY <1>6, <2>5, <2>6
<1>10. Waits(cur, whole)'
  BY <1>1, <1>2, <1>3 DEF Layout, Waits
<1>11. Placed(cur, whole, off, m)'
  <2>1. Placed(cur, whole, off, 0)
    BY <1>1, <1>3 DEF Layout
  <2>2. off[cur] = 0 - Place(cur)'
    BY <1>9, <2>1 DEF Placed
  <2>3. \A c \in cur .. whole : off[c + 1] = off[c] + Total(asked'[c])
    BY <1>7, <2>1 DEF Placed
  <2>4. ASSUME NEW c \in cur .. whole + 1, NEW e \in cur .. whole + 1, c < e
        PROVE  off[e] >= off[c] + Total(asked'[c])
    <3>1. c \in cur .. whole
      BY <1>6, <2>4
    <3>2. QED
      BY <3>1, <1>7, <2>1, <2>4 DEF Placed
  <2>5. Outstanding' = off[whole + 1] + m
    <3>1. Outstanding = off[whole + 1] + 0 /\ off[whole + 1] \in Int
      BY <2>1 DEF Placed
    <3>2. QED
      BY <1>4, <1>5, <3>1
  <2>6. ASSUME NEW c \in cur .. whole, NEW p \in 1 .. Total(asked'[c]), off[c] + p >= 1
        PROVE  Pending(off[c] + p)' = <<c, p>>
    <3>1. p \in 1 .. Total(asked[c])
      BY <1>7
    <3>2. PICK i \in 1 .. o : i = off[c] + p
      BY <2>6, <3>1, <1>6
    <3>3. Pending(i) = <<c, p>>
      BY <2>1, <2>6, <3>1, <3>2 DEF Placed
    <3>4. Pending(i)' = <<c, p>>
      BY <3>3, <1>5
    <3>5. QED
      BY <3>2, <3>4
  <2>7. m < HeaderLen /\ ~connected'
    BY <1>2, <1>4
  <2>8. QED
    BY <2>2, <2>3, <2>4, <2>5, <2>6, <2>7 DEF Placed
<1>12. Layout(cur, whole, off, m)'
  BY <1>8, <1>9, <1>10, <1>11 DEF Layout
<1>13. QED
  BY <1>12 DEF LaidOut

-----------------------------------------------------------------------------
(* Parsing.                                                                *)

\* What the parser takes is the part of the present request that it takes it for.
LEMMA PeekPart ==
  ASSUME TypeOK, NEW stage \in 0 .. 2, Parsing(stage),
         NEW cur \in Nat, NEW whole \in Nat, NEW rest \in Nat, NEW off \in [Nat -> Int],
         Layout(cur, whole, off, rest)
  PROVE  /\ cur <= whole
         /\ Peek(rb, target) = [i \in 1 .. target |-> <<cur, Place(cur) + i>>]
<1>1. /\ target \in 0 .. readableBytes(rb) /\ process = stage
      /\ readableBytes(rb) <= Outstanding /\ Outstanding \in Nat
  <2>1. target \in 0 .. readableBytes(rb) /\ process = stage
    BY ParsingMoves
  <2>2. PICK r \in Nat, l \in Nat : r = readableBytes(rb) /\ l = Len(wire) /\ Outstanding = l + r
    BY OutstandingType
  <2>3. r <= l + r /\ l + r \in Nat
    OBVIOUS
  <2>4. QED
    BY <2>1, <2>2, <2>3
<1>2. cur <= whole
  <2>1. SUFFICES ASSUME cur > whole
                 PROVE  FALSE
    BY LayoutFacts
  <2>2. target = HeaderLen /\ Outstanding = rest
    BY <2>1, NothingPending
  <2>3. rest < HeaderLen
    BY DEF Layout, Placed
  <2>4. HeaderLen <= rest
    <3>1. PICK r \in Nat : r = readableBytes(rb)
      BY <1>1, OutstandingType
    <3>2. HeaderLen <= r /\ r <= rest
      BY <1>1, <2>2, <3>1
    <3>3. QED
      BY <3>2, ReadAssumption
  <2>5. QED
    BY <2>3, <2>4, ReadAssumption
<1>3. \A i \in 1 .. target : Pending(i) = <<cur, Place(cur) + i>>
  BY <1>2, PartIsThere
<1>4. \A i \in 1 .. target : Pending(i) = rb.buf[(rb.readIndex + i - 1) % MAX_BUFFER_SIZE]
  <2>1. ASSUME NEW i \in 1 .. target
        PROVE  Pending(i) = ByteAt(rb, i)
    <3>1. i <= readableBytes(rb)
      <4>1. PICK r \in Nat : r = readableBytes(rb)
        BY <1>1, OutstandingType
      <4>2. QED
        BY <1>1, <4>1
    <3>2. QED
      BY <3>1 DEF Pending
  <2>2. QED
    BY <2>1 DEF ByteAt
<1>5. \A i \in 1 .. target : rb.buf[(rb.readIndex + i - 1) % MAX_BUFFER_SIZE] = <<cur, Place(cur) + i>>
  BY <1>3, <1>4
<1>6. Peek(rb, target) = [i \in 1 .. target |-> <<cur, Place(cur) + i>>]
  BY <1>5 DEF Peek
<1>7. QED
  BY <1>2, <1>6

\* The places of all bytes move on by what is taken.
LEMMA ShiftPlaced ==
  ASSUME TypeOK, NEW stage \in 0 .. 2, Parsing(stage),
         NEW cur \in Nat, NEW whole \in Nat, NEW rest \in Nat, NEW off \in [Nat -> Int],
         Layout(cur, whole, off, rest),
         NEW next \in cur .. whole + 1, off[next] - target = 0 - Place(next)'
  PROVE  \E g \in [Nat -> Int] : Placed(next, whole, g, rest)'
<1>1. /\ target \in 0 .. readableBytes(rb)
      /\ readableBytes(rb)' = readableBytes(rb) - target
      /\ \A i \in 1 .. readableBytes(rb) - target : ByteAt(rb', i) = ByteAt(rb, target + i)
      /\ wire' = wire /\ connected' = connected /\ asked' = asked
      /\ Outstanding' = Outstanding - target
  BY ParsingMoves
<1>2. PICK t \in Nat, r \in Nat, l \in Nat :
         t = target /\ r = readableBytes(rb) /\ l = Len(wire) /\ Outstanding = l + r /\ t <= r
  <2>1. PICK r \in Nat, l \in Nat : r = readableBytes(rb) /\ l = Len(wire) /\ Outstanding = l + r
    BY OutstandingType
  <2>2. target \in Nat /\ target <= r
    BY <1>1, <2>1
  <2>3. QED
    BY <2>1, <2>2
<1>3. ASSUME NEW i \in 1 .. l + r - t
      PROVE  Pending(i)' = Pending(t + i)
  <2>1. Pending(i)' = IF i <= r - t THEN ByteAt(rb', i) ELSE wire[i - (r - t)]
    BY <1>1, <1>2 DEF Pending
  <2>2. Pending(t + i) = IF t + i <= r THEN ByteAt(rb, t + i) ELSE wire[t + i - r]
    <3>1. PICK k \in Nat : k = t + i
      OBVIOUS
    <3>2. Pending(k) = IF k <= r THEN ByteAt(rb, k) ELSE wire[k - r]
      BY <1>2 DEF Pending
    <3>3. QED
      BY <3>1, <3>2
  <2>3. (i <= r - t <=> t + i <= r) /\ i - (r - t) = t + i - r
    OBVIOUS
  <2>4. i <= r - t => ByteAt(rb', i) = ByteAt(rb, t + i)
    BY <1>1, <1>2
  <2>5. QED
    BY <2>1, <2>2, <2>3, <2>4
<1>4. PICK g \in [Nat -> Int] : \A c \in Nat : g[c] = off[c] - t
  <2> DEFINE f == [c \in Nat |-> off[c] - t]
  <2>1. f \in [Nat -> Int] /\ \A c \in Nat : f[c] = off[c] - t
    OBVIOUS
  <2>2. QED
    BY <2>1
<1>5. /\ cur \in 1 .. whole + 1
      /\ \A c \in cur .. whole : Total(asked[c]) \in Nat
      /\ \A c \in cur .. whole : \A p \in 1 .. Total(asked[c]) :
            off[c] + p \in Int /\ off[c] + p <= Outstanding
  BY LayoutFacts
<1>6. Placed(cur, whole, off, rest)
  BY DEF Layout
<1>7. g[next] = 0 - Place(next)'
  BY <1>2, <1>4
<1>8. ASSUME NEW c \in next .. whole
      PROVE  g[c + 1] = g[c] + Total(asked'[c])
  <2>1. c \in cur .. whole /\ c \in Nat /\ c + 1 \in Nat
    OBVIOUS
  <2>2. off[c + 1] = off[c] + Total(asked[c]) /\ Total(asked[c]) \in Nat
    BY <2>1, <1>5, <1>6 DEF Placed
  <2>3. off[c + 1] \in Int /\ off[c] \in Int /\ g[c + 1] = off[c + 1] - t /\ g[c] = off[c] - t
    BY <2>1, <1>4
  <2>4. QED
    BY <2>2, <2>3, <1>1
<1>9. ASSUME NEW c \in next .. whole + 1, NEW e \in next .. whole + 1, c < e
      PROVE  g[e] >= g[c] + Total(asked'[c])
  <2>1. c \in cur .. whole /\ c \in cur .. whole + 1 /\ e \in cur .. whole + 1 /\ c \in Nat /\ e \in Nat
    BY <1>9
  <2>2. off[e] >= off[c] + Total(asked[c]) /\ Total(asked[c]) \in Nat
    BY <2>1, <1>5, <1>6, <1>9 DEF Placed
  <2>3. off[e] \in Int /\ off[c] \in Int /\ g[e] = off[e] - t /\ g[c] = off[c] - t
    BY <2>1, <1>4
  <2>4. QED
    BY <2>2, <2>3, <1>1
<1>10. Outstanding' = g[whole + 1] + rest
  <2>1. Outstanding = off[whole + 1] + rest
    BY <1>6 DEF Placed
  <2>2. g[whole + 1] = off[whole + 1] - t /\ off[whole + 1] \in Int
    BY <1>4
  <2>3. QED
    <3>1. PICK o \in Nat, f \in Int : o = Outstanding /\ f = off[whole + 1]
      BY <2>2, OutstandingType
    <3>2. o = f + rest /\ Outstanding' = o - t /\ g[whole + 1] = f - t
      BY <2>1, <2>2, <1>1, <1>2, <3>1
    <3>3. QED
      BY <3>2
<1>11. rest < HeaderLen /\ (connected' => rest = 0)
  BY <1>1, <1>6 DEF Placed
<1>12. ASSUME NEW c \in next .. whole, NEW p \in 1 .. Total(asked'[c]), g[c] + p >= 1
       PROVE  Pending(g[c] + p)' = <<c, p>>
  <2>1. c \in cur .. whole /\ c \in Nat /\ p \in 1 .. Total(asked[c])
    BY <1>1
  <2>2. /\ g[c] = off[c] - t /\ off[c] \in Int
        /\ off[c] + p \in Int /\ off[c] + p <= l + r
    BY <2>1, <1>2, <1>4, <1>5
  <2>3. PICK i \in 1 .. l + r - t : i = g[c] + p /\ t + i = off[c] + p
    BY <2>2, <1>12
  <2>4. off[c] + p >= 1
    BY <2>3
  <2>5. Pending(off[c] + p) = <<c, p>>
    BY <2>1, <2>4, <1>6 DEF Placed
  <2>6. Pending(i)' = <<c, p>>
    BY <2>3, <2>5, <1>3
  <2>7. QED
    BY <2>3, <2>6
<1>13. Placed(next, whole, g, rest)'
  BY <1>7, <1>8, <1>9, <1>10, <1>11, <1>12 DEF Placed
<1>14. QED
  BY <1>13

LEMMA ParseHeaderLayout ==
  ASSUME TypeOK, LaidOut, ParseHeader
  PROVE  LaidOut'
<1>1. PICK cur, whole, rest \in Nat, off \in [Nat -> Int] : Layout(cur, whole, off, rest)
  BY DEF LaidOut
<1>2. Parsing(0) /\ process' = 1 /\ UNCHANGED delivered
  BY DEF ParseHeader
<1>3. /\ pc = "parse" /\ process = 0
      /\ UNCHANGED <<pc, wire, connected, asked, before, sent>>
  BY <1>2, ParsingMoves
<1>4. /\ cur <= whole /\ Peek(rb, target) = [i \in 1 .. target |-> <<cur, Place(cur) + i>>]
  BY <1>1, <1>2, PeekPart
<1>5. cur \in 1 .. Len(asked) /\ Place(cur) = 0 /\ target = HeaderLen
  BY <1>1, <1>3, <1>4, PartIsThere
<1>6. \A id : Header(id) = [i \in 1 .. HeaderLen |-> <<id, i>>]
  <2>1. HeaderLen \in Nat /\ HeaderLen - 0 = HeaderLen /\ \A i \in 1 .. HeaderLen : 0 + i = i
    BY ReadAssumption
  <2>2. QED
    BY <2>1 DEF Header, Bytes
<1>7. Peek(rb, target) = Header(cur)
  <2>1. \A i \in 1 .. HeaderLen : 0 + i = i
    OBVIOUS
  <2>2. QED
    BY <1>4, <1>5, <1>6, <2>1
<1>8. \A id : Header(id) = Header(cur) => id = cur
  <2>1. 1 \in 1 .. HeaderLen
    BY ReadAssumption
  <2>2. \A id : Header(id)[1] = <<id, 1>>
    BY <1>6, <2>1
  <2>3. QED
    BY <2>2
<1>9. ri' = cur /\ target' = asked[cur].rpc
  <2>1. PICK id \in 1 .. Len(asked) : Peek(rb, target) = Header(id) /\ ri' = id /\ target' = asked[id].rpc
    BY <1>5, <1>7 DEF ParseHeader
  <2>2. id = cur
    BY <1>7, <1>8, <2>1
  <2>3. QED
    BY <2>1, <2>2
<1>10. Numbers(cur, whole)'
  BY <1>1, <1>2, <1>3 DEF Layout, Numbers
<1>11. Stage(cur, whole)'
  BY <1>2, <1>3, <1>4, <1>9 DEF Stage
<1>12. Waits(cur, whole)'
  BY <1>3 DEF Waits
<1>13. off[cur] - target = 0 - Place(cur)'
  <2>1. Place(cur)' = HeaderLen
    BY <1>2 DEF Place
  <2>2. off[cur] = 0 - 0
    BY <1>1, <1>5 DEF Layout, Placed
  <2>3. QED
    BY <1>5, <2>1, <2>2, ReadAssumption
<1>14. PICK g \in [Nat -> Int] : Placed(cur, whole, g, rest)'
  <2>1. cur \in cur .. whole + 1
    BY <1>4
  <2>2. QED
    BY <1>1, <1>2, <1>13, <2>1, ShiftPlaced
<1>15. Layout(cur, whole, g, rest)'
  BY <1>10, <1>11, <1>12, <1>14 DEF Layout
<1>16. QED
  BY <1>15 DEF LaidOut

LEMMA ParseRpcHeaderLayout ==
  ASSUME TypeOK, LaidOut, ParseRpcHeader
  PROVE  LaidOut'
<1>1. PICK cur, whole, rest \in Nat, off \in [Nat -> Int] : Layout(cur, whole, off, rest)
  BY DEF LaidOut
<1>2. Parsing(1) /\ process' = 2 /\ UNCHANGED delivered
  BY DEF ParseRpcHeader
<1>3. /\ pc = "parse" /\ process = 1
      /\ UNCHANGED <<pc, wire, connected, asked, before, sent>>
  BY <1>2, ParsingMoves
<1>4. /\ cur <= whole /\ Peek(rb, target) = [i \in 1 .. target |-> <<cur, Place(cur) + i>>]
  BY <1>1, <1>2, PeekPart
<1>5. /\ cur \in 1 .. Len(asked) /\ asked[cur] \in Shape
      /\ Place(cur) = HeaderLen /\ target = asked[cur].rpc
  BY <1>1, <1>3, <1>4, PartIsThere
<1>6. PICK h \in Nat, r \in Nat : h = HeaderLen /\ r = asked[cur].rpc
  BY <1>5, ShapeTypes
<1>7. Peek(rb, target) = RpcHeader(cur)
  <2>1. RpcHeader(cur) = [i \in 1 .. (h + r) - h |-> <<cur, h + i>>]
    BY <1>6 DEF RpcHeader, Bytes
  <2>2. (h + r) - h = r
    OBVIOUS
  <2>3. QED
    BY <1>4, <1>5, <1>6, <2>1, <2>2
<1>8. ri = cur /\ ri # 0
  BY <1>1, <1>3, <1>5 DEF Layout, Stage
<1>9. ri' = cur /\ target' = asked[cur].body
  BY <1>7, <1>8 DEF ParseRpcHeader
<1>10. Numbers(cur, whole)'
  BY <1>1, <1>2, <1>3 DEF Layout, Numbers
<1>11. Stage(cur, whole)'
  BY <1>2, <1>3, <1>4, <1>9 DEF Stage
<1>12. Waits(cur, whole)'
  BY <1>3 DEF Waits
<1>13. off[cur] - target = 0 - Place(cur)'
  <2>1. Place(cur)' = h + r
    BY <1>2, <1>3, <1>6 DEF Place
  <2>2. off[cur] = 0 - h
    BY <1>1, <1>5, <1>6 DEF Layout, Placed
  <2>3. QED
    BY <1>5, <1>6, <2>1, <2>2
<1>14. PICK g \in [Nat -> Int] : Placed(cur, whole, g, rest)'
  <2>1. cur \in cur .. whole + 1
    BY <1>4
  <2>2. QED
    BY <1>1, <1>2, <1>13, <2>1, ShiftPlaced
<1>15. Layout(cur, whole, g, rest)'
  BY <1>10, <1>11, <1>12, <1>14 DEF Layout
<1>16. QED
  BY <1>15 DEF LaidOut

\* The request that is handed over is the next of those that were sent to the end.
LEMMA ParseBodyFacts ==
  ASSUME TypeOK, ParseBody,
         NEW cur \in Nat, NEW whole \in Nat, NEW rest \in Nat, NEW off \in [Nat -> Int],
         Layout(cur, whole, off, rest)
  PROVE  /\ cur <= whole /\ delivered' = Append(delivered, cur) /\ UNCHANGED sent
         /\ Len(delivered) + 1 \in 1 .. Len(sent) /\ sent[Len(delivered) + 1] = cur
         /\ \A j \in 1 .. Len(delivered) : delivered[j] = sent[j]
<1>1. Parsing(2) /\ process' = 0 /\ target' = HeaderLen
  BY DEF ParseBody
<1>2. process = 2 /\ UNCHANGED sent
  BY <1>1, ParsingMoves
<1>3. /\ cur <= whole /\ Peek(rb, target) = [i \in 1 .. target |-> <<cur, Place(cur) + i>>]
  BY <1>1, PeekPart
<1>4. /\ cur \in 1 .. Len(asked) /\ asked[cur] \in Shape
      /\ Place(cur) = HeaderLen + asked[cur].rpc /\ target = asked[cur].body
  BY <1>2, <1>3, PartIsThere
<1>5. PICK h \in Nat, r \in Nat, b \in Nat : h = HeaderLen /\ r = asked[cur].rpc /\ b = asked[cur].body
  BY <1>4, ShapeTypes
<1>6. Peek(rb, target) = Body(cur)
  <2>1. Body(cur) = [i \in 1 .. (h + r + b) - (h + r) |-> <<cur, (h + r) + i>>]
    BY <1>5 DEF Body, Bytes, Total
  <2>2. (h + r + b) - (h + r) = b
    OBVIOUS
  <2>3. QED
    BY <1>3, <1>4, <1>5, <2>1, <2>2
<1>7. ri = cur /\ ri # 0
  BY <1>2, <1>4 DEF Layout, Stage
<1>8. delivered' = Append(delivered, cur)
  BY <1>6, <1>7 DEF ParseBody
<1>9. PICK s \in Nat, d \in Nat : s = Len(sent) /\ d = Len(delivered)
  BY LenProperties DEF TypeOK
<1>10. /\ d <= s /\ whole + 1 = cur + (s - d)
       /\ \A j \in 1 .. d : delivered[j] = sent[j]
       /\ \A j \in 1 .. s : j > d => sent[j] = cur + (j - d - 1)
  BY <1>9 DEF Layout, Numbers
<1>11. d + 1 \in 1 .. s /\ d + 1 > d /\ cur + ((d + 1) - d - 1) = cur
  BY <1>3, <1>10
<1>12. sent[d + 1] = cur
  BY <1>10, <1>11
<1>13. QED
  BY <1>2, <1>3, <1>8, <1>9, <1>10, <1>11, <1>12

LEMMA ParseBodyLayout ==
  ASSUME TypeOK, LaidOut, ParseBody
  PROVE  LaidOut'
<1>1. PICK cur, whole, rest \in Nat, off \in [Nat -> Int] : Layout(cur, whole, off, rest)
  BY DEF LaidOut
<1>2. Parsing(2) /\ process' = 0 /\ target' = HeaderLen
  BY DEF ParseBody
<1>3. /\ pc = "parse" /\ process = 2
      /\ UNCHANGED <<pc, wire, connected, asked, before, sent>>
  BY <1>2, ParsingMoves
<1>4. /\ cur <= whole /\ delivered' = Append(delivered, cur)
      /\ Len(delivered) + 1 \in 1 .. Len(sent) /\ sent[Len(delivered) + 1] = cur
      /\ \A j \in 1 .. Len(delivered) : delivered[j] = sent[j]
  BY <1>1, ParseBodyFacts
<1>5. /\ cur \in 1 .. Len(asked) /\ asked[cur] \in Shape
      /\ Place(cur) = HeaderLen + asked[cur].rpc /\ target = asked[cur].body
  BY <1>1, <1>3, <1>4, PartIsThere
<1>6. PICK next \in Nat : next = cur + 1
  OBVIOUS
<1>7. Numbers(next, whole)'
  <2>1. /\ delivered \in Seq(Nat) /\ before \in Nat
        /\ Len(delivered) \in Nat /\ Len(sent) \in Nat
    BY LenProperties DEF TypeOK
  <2>2. PICK s \in Nat, d \in Nat : s = Len(sent) /\ d = Len(delivered)
    BY <2>1
  <2>3. /\ Len(delivered') = d + 1 /\ delivered'[d + 1] = cur
        /\ \A j \in 1 .. d : delivered'[j] = delivered[j]
    BY <1>4, <2>1, <2>2, AppendProperties
  <2>4. /\ d <= s /\ whole + 1 = cur + (s - d) /\ before < cur /\ whole <= Len(asked)
        /\ connected => whole = Len(asked)
        /\ \A j \in 1 .. s : j > d => sent[j] = cur + (j - d - 1)
    BY <1>1, <2>2 DEF Layout, Numbers
  <2>5. d + 1 <= s /\ whole + 1 = next + (s - (d + 1)) /\ before < next
    <3>1. d + 1 <= s
      BY <1>4, <2>2
    <3>2. whole + 1 = next + (s - (d + 1))
      BY <1>6, <2>4
    <3>3. before < next
      BY <1>6, <2>1, <2>4
    <3>4. QED
      BY <3>1, <3>2, <3>3
  <2>6. ASSUME NEW j \in 1 .. d + 1
        PROVE  delivered'[j] = sent[j]
    <3>1. CASE j = d + 1
      BY <3>1, <1>4, <2>2, <2>3
    <3>2. CASE j # d + 1
      <4>1. j \in 1 .. d
        BY <3>2
      <4>2. QED
        BY <4>1, <1>4, <2>2, <2>3
    <3>3. QED
      BY <3>1, <3>2
  <2>7. ASSUME NEW j \in 1 .. s, j > d + 1
        PROVE  sent[j] = next + (j - (d + 1) - 1)
    BY <2>4, <2>7, <1>6
  <2>8. QED
    BY <1>3, <2>2, <2>3, <2>4, <2>5, <2>6, <2>7 DEF Numbers
<1>8. Stage(next, whole)'
  BY <1>2 DEF Stage
<1>9. Waits(next, whole)'
  BY <1>3 DEF Waits
<1>10. off[next] - target = 0 - Place(next)'
  <2>1. PICK h \in Nat, r \in Nat, b \in Nat : h = HeaderLen /\ r = asked[cur].rpc /\ b = asked[cur].body
    BY <1>5, ShapeTypes
  <2>2. Place(next)' = 0
    BY <1>2 DEF Place
  <2>3. off[cur] = 0 - (h + r)
    BY <1>1, <1>5, <2>1 DEF Layout, Placed
  <2>4. off[cur + 1] = off[cur] + (h + r + b)
    <3>1. cur \in cur .. whole
      BY <1>4
    <3>2. Total(asked[cur]) = h + r + b
      BY <2>1 DEF Total
    <3>3. QED
      BY <1>1, <3>1, <3>2 DEF Layout, Placed
  <2>5. QED
    <3>1. off[next] = 0 - (h + r) + (h + r + b)
      BY <1>6, <2>3, <2>4
    <3>2. target = b
      BY <1>5, <2>1
    <3>3. 0 - (h + r) + (h + r + b) - b = 0 - 0
      OBVIOUS
    <3>4. QED
      BY <2>2, <3>1, <3>2, <3>3
<1>11. PICK g \in [Nat -> Int] : Placed(next, whole, g, rest)'
  <2>1. next \in cur .. whole + 1
    BY <1>4, <1>6
  <2>2. QED
    BY <1>1, <1>2, <1>10, <2>1, ShiftPlaced
<1>12. Layout(next, whole, g, rest)'
  BY <1>7, <1>8, <1>9, <1>11 DEF Layout
<1>13. QED
  BY <1>12 DEF LaidOut

-----------------------------------------------------------------------------
(* The theorems about what the parser hands over.                          *)

LEMMA LaidOutInit == Init => LaidOut
<1> SUFFICES ASSUME Init
             PROVE  LaidOut
  OBVIOUS
<1> DEFINE zero == [c \in Nat |-> 0]
<1>1. zero \in [Nat -> Int] /\ \A c \in Nat : zero[c] = 0
  OBVIOUS
<1> HIDE DEF zero
<1>2. PICK off \in [Nat -> Int] : \A c \in Nat : off[c] = 0
  BY <1>1
<1>3. readableBytes(rb) = 0 /\ Outstanding = 0
  BY DEF Init, Empty, readableBytes, Outstanding
<1>4. Numbers(1, 0)
  BY DEF Init, Numbers
<1>5. Stage(1, 0) /\ Place(1) = 0
  BY DEF Init, Stage, Place
<1>6. Waits(1, 0)
  BY <1>3 DEF Init, Waits
<1>7. Placed(1, 0, off, 0)
  <2>1. 1 .. 0 = {} /\ 1 .. 0 + 1 = {1} /\ 0 + 1 = 1 /\ 0 - 0 = 0 /\ 0 + 0 = 0
    OBVIOUS
  <2>2. off[1] = 0
    BY <1>2
  <2>3. QED
    BY <1>3, <1>5, <2>1, <2>2, ReadAssumption DEF Placed
<1>8. Layout(1, 0, off, 0)
  BY <1>4, <1>5, <1>6, <1>7 DEF Layout
<1>9. QED
  BY <1>8 DEF LaidOut

LEMMA RInvNext ==
  ASSUME RInv, [Next]_vars, Window < MAX_BUFFER_SIZE, \A n \in BreakAt : n < HeaderLen
  PROVE  RInv'
<1>0. TypeOK /\ Room /\ LaidOut
  BY DEF RInv
<1>1. TypeOK' /\ Room'
  BY <1>0, ReadNextType, RoomNext
<1>2. ASSUME NEW q \in Shape, Ask(q)
      PROVE  LaidOut'
  BY <1>0, <1>2, AskLayout
<1>3. ASSUME NEW q \in Shape, NEW n \in BreakAt, BreakOff(q, n)
      PROVE  LaidOut'
  BY <1>0, <1>3, BreakOffLayout
<1>4. ASSUME NEW n \in 1 .. MAX_BUFFER_SIZE, ReadDone(n)
      PROVE  LaidOut'
  BY <1>0, <1>4, ReadDoneLayout
<1>5. CASE ParseHeader
  BY <1>0, <1>1, <1>5, ParseHeaderLayout DEF RInv
<1>6. CASE ParseRpcHeader
  BY <1>0, <1>1, <1>6, ParseRpcHeaderLayout DEF RInv
<1>7. CASE ParseBody
  BY <1>0, <1>1, <1>7, ParseBodyLayout DEF RInv
<1>8. CASE ReadOn
  BY <1>0, <1>1, <1>8, ReadOnLayout DEF RInv
<1>9. CASE HangUp
  BY <1>0, <1>1, <1>9, HangUpLayout DEF RInv
<1>10. CASE Accept
  BY <1>0, <1>1, <1>10, AcceptLayout DEF RInv
<1>11. CASE ReadEof
  BY <1>0, <1>1, <1>11, ReadEofLayout DEF RInv
<1>12. CASE Closed
  BY <1>0, <1>1, <1>12, ClosedLayout DEF RInv
<1>13. CASE ReadFailed \/ UNCHANGED vars
  <2>1. PICK cur, whole, rest \in Nat, off \in [Nat -> Int] : Layout(cur, whole, off, rest)
    BY <1>0 DEF LaidOut
  <2>2. /\ UNCHANGED <<rb, process, target, ri, wire, connected, asked, before, sent, delivered>>
        /\ pc' = pc \/ pc' = "failed"
    BY <1>13 DEF ReadFailed, vars, parser, client
  <2>3. Waits(cur, whole)'
    BY <2>1, <2>2 DEF Layout, Waits
  <2>4. QED
    BY <1>1, <2>1, <2>2, <2>3, SameBytes DEF RInv
<1>14. CASE \/ \E q \in Shape : Ask(q) \/ \E n \in BreakAt : BreakOff(q, n)
            \/ \E n \in 1 .. MAX_BUFFER_SIZE : ReadDone(n)
  BY <1>1, <1>2, <1>3, <1>4, <1>14 DEF RInv
<1>15. QED
  BY <1>5, <1>6, <1>7, <1>8, <1>9, <1>10, <1>11, <1>12, <1>13, <1>14 DEF Next, Parse

\* For clients that fit into the ring, and break a request off only inside its header.
LEMMA RInvSpec ==
  ASSUME Window < MAX_BUFFER_SIZE, \A n \in BreakAt : n < HeaderLen
  PROVE  Spec => []RInv
<1>1. Init => RInv
  BY ReadInitType, RoomInit, LaidOutInit DEF RInv
<1>2. RInv /\ [Next]_vars => RInv'
  BY RInvNext
<1>3. QED
  BY <1>1, <1>2, PTL DEF Spec

\* callback_read() closes the connection on a read of 0 bytes: that comes of a client that
\* has hung up, and never of a buffer with no room left for a request.
THEOREM ReadClosedByPeer ==
  ASSUME Window < MAX_BUFFER_SIZE, \A n \in BreakAt : n < HeaderLen
  PROVE  Spec => []ClosedByPeer
<1>1. RInv => ClosedByPeer
  BY DEF RInv, LaidOut, Layout, Waits, ClosedByPeer
<1>2. QED
  BY <1>1, RInvSpec, PTL

\* A sequence that agrees with another one as far as it goes is a prefix of it.
LEMMA AgreeIsPrefix ==
  ASSUME NEW S, NEW s \in Seq(S), NEW t \in Seq(S), Len(s) <= Len(t),
         \A j \in 1 .. Len(s) : s[j] = t[j]
  PROVE  Promise!IsPrefix(s, t)
<1>1. PICK n \in Nat, m \in Nat : n = Len(s) /\ m = Len(t) /\ n <= m
  BY LenProperties
<1>2. \A j \in 1 .. n : s[j] \in S /\ t[j] \in S
  BY <1>1, ElementOfSeq
<1>3. 1 \in Int /\ n \in Int /\ n - 1 + 1 = n /\ (~ (1 <= n) => n = 0)
  OBVIOUS
<1>4. /\ SubSeq(s, 1, n) \in Seq(S) /\ Len(SubSeq(s, 1, n)) = n
      /\ \A i \in 1 .. n : SubSeq(s, 1, n)[i] = s[1 + i - 1]
  BY <1>2, <1>3, SubSeqProperties
<1>5. /\ SubSeq(t, 1, n) \in Seq(S) /\ Len(SubSeq(t, 1, n)) = n
      /\ \A i \in 1 .. n : SubSeq(t, 1, n)[i] = t[1 + i - 1]
  BY <1>2, <1>3, SubSeqProperties
<1>6. \A i \in 1 .. n : SubSeq(s, 1, n)[i] = SubSeq(t, 1, n)[i]
  <2>1. \A i \in 1 .. n : 1 + i - 1 = i
    OBVIOUS
  <2>2. QED
    BY <1>1, <1>4, <1>5, <2>1
<1>7. SubSeq(s, 1, n) = SubSeq(t, 1, n)
  BY <1>4, <1>5, <1>6, SeqEqual
<1>8. QED
  BY <1>1, <1>7 DEF Promise!IsPrefix

\* One element more is behind a prefix.
LEMMA AppendIsPrefix ==
  ASSUME NEW S, NEW s \in Seq(S), NEW e \in S
  PROVE  Promise!IsPrefix(s, Append(s, e))
<1>1. PICK t \in Seq(S) : t = Append(s, e)
  BY AppendProperties
<1>2. Len(s) <= Len(t) /\ \A i \in 1 .. Len(s) : s[i] = t[i]
  BY <1>1, AppendProperties, LenProperties
<1>3. QED
  BY <1>1, <1>2, AgreeIsPrefix

\* Requests reach the thread pool whole, once and in order: what is handed over is a prefix
\* of what was sent to the end, step by step as Stream says.
THEOREM ReadInOrder ==
  ASSUME Window < MAX_BUFFER_SIZE, \A n \in BreakAt : n < HeaderLen
  PROVE  Spec => InOrder
<1>1. Init => Promise!Init
  BY DEF Init, Promise!Init
<1>2. RInv /\ [Next]_vars => [Promise!Next]_<<sent, delivered>>
  <2> SUFFICES ASSUME RInv, [Next]_vars
               PROVE  Promise!Next \/ UNCHANGED <<sent, delivered>>
    OBVIOUS
  <2>0. TypeOK /\ sent \in Seq(Nat) /\ delivered \in Seq(Nat) /\ asked \in Seq(Shape)
    BY DEF RInv, TypeOK
  <2>1. ASSUME NEW q \in Shape, Ask(q)
        PROVE  Promise!Next
    <3>1. sent' = Append(sent, Len(asked')) /\ delivered' = delivered /\ asked' = Append(asked, q)
      BY <2>1 DEF Ask, Request
    <3>2. PICK id \in Nat : id = Len(asked')
      BY <2>0, <3>1
    <3>3. Promise!IsPrefix(sent, sent')
      BY <2>0, <3>1, <3>2, AppendIsPrefix
    <3>4. QED
      BY <3>1, <3>3 DEF Promise!Next, Promise!Send
  <2>2. CASE ParseBody
    <3>1. PICK cur, whole, rest \in Nat, off \in [Nat -> Int] : Layout(cur, whole, off, rest)
      BY DEF RInv, LaidOut
    <3>2. /\ delivered' = Append(delivered, cur) /\ UNCHANGED sent
          /\ Len(delivered) + 1 \in 1 .. Len(sent) /\ sent[Len(delivered) + 1] = cur
          /\ \A j \in 1 .. Len(delivered) : delivered[j] = sent[j]
      BY <2>0, <2>2, <3>1, ParseBodyFacts
    <3>3. Promise!IsPrefix(delivered, delivered')
      BY <2>0, <3>2, AppendIsPrefix
    <3>4. /\ delivered' \in Seq(Nat) /\ Len(delivered') = Len(delivered) + 1 /\ Len(delivered) \in Nat
          /\ \A j \in 1 .. Len(delivered) : delivered'[j] = delivered[j]
          /\ delivered'[Len(delivered) + 1] = cur
      BY <2>0, <3>2, AppendProperties, LenProperties
    <3>5. PICK d \in Nat : d = Len(delivered)
      BY <3>4
    <3>6. \A j \in 1 .. d + 1 : delivered'[j] = sent[j]
      <4>1. ASSUME NEW j \in 1 .. d + 1
            PROVE  delivered'[j] = sent[j]
        <5>1. CASE j = d + 1
          BY <5>1, <3>2, <3>4, <3>5
        <5>2. CASE j # d + 1
          <6>1. j \in 1 .. d
            BY <5>2
          <6>2. QED
            BY <6>1, <3>2, <3>4, <3>5
        <5>3. QED
          BY <5>1, <5>2
      <4>2. QED
        BY <4>1
    <3>7. Len(delivered') <= Len(sent)
      BY <3>2, <3>4
    <3>8. PICK t \in Seq(Nat) : t = delivered' /\ Len(t) = d + 1
      BY <3>4, <3>5
    <3>9. Promise!IsPrefix(t, sent)
      BY <2>0, <3>6, <3>7, <3>8, AgreeIsPrefix
    <3>10. QED
      BY <3>2, <3>3, <3>8, <3>9 DEF Promise!Next, Promise!Receive
  <2>3. CASE ParseHeader \/ ParseRpcHeader
    BY <2>3 DEF ParseHeader, ParseRpcHeader, Parsing, client
  <2>4. CASE HangUp \/ Accept \/ ReadEof \/ ReadFailed \/ ReadOn \/ Closed \/ UNCHANGED vars
    BY <2>4 DEF HangUp, Accept, ReadEof, ReadFailed, ReadOn, Closed, vars, client
  <2>5. ASSUME NEW q \in Shape, NEW n \in BreakAt, BreakOff(q, n)
        PROVE  UNCHANGED <<sent, delivered>>
    BY <2>5 DEF BreakOff
  <2>6. ASSUME NEW n \in 1 .. MAX_BUFFER_SIZE, ReadDone(n)
        PROVE  UNCHANGED <<sent, delivered>>
    BY <2>6 DEF ReadDone
  <2>7. QED
    BY <2>1, <2>2, <2>3, <2>4, <2>5, <2>6 DEF Next, Parse
<1>3. QED
  BY <1>1, <1>2, RInvSpec, PTL DEF Spec, InOrder, Promise!Spec
===============================================================================
