----------------------- MODULE ConnectionManagerProofs -----------------------
(***************************************************************************)
(* The connection pool for every configuration and any environment: what   *)
(* its counters promise, who may use a pooled connection, and that none is *)
(* lost but by an error of its own.                                        *)
(***************************************************************************)
EXTENDS ConnectionManager, SequenceTheorems, FiniteSetTheorems, TLAPS

-----------------------------------------------------------------------------
(* Sequences.                                                              *)

LEMMA WithoutProperties ==
  ASSUME NEW S, NEW s \in Seq(S), NEW i \in 1 .. Len(s)
  PROVE  /\ Without(s, i) \in Seq(S)
         /\ Len(Without(s, i)) = Len(s) - 1
         /\ \A j \in 1 .. Len(s) - 1 :
               Without(s, i)[j] = IF j < i THEN s[j] ELSE s[j + 1]
<1> DEFINE front == SubSeq(s, 1, i - 1)
           back  == SubSeq(s, i + 1, Len(s))
<1>1. Len(s) \in Nat /\ \A j \in 1 .. Len(s) : s[j] \in S
  BY LenProperties, ElementOfSeq
<1>2. /\ front \in Seq(S)
      /\ Len(front) = IF 1 <= i - 1 THEN (i - 1) - 1 + 1 ELSE 0
      /\ \A j \in 1 .. (i - 1) - 1 + 1 : front[j] = s[1 + j - 1]
  <2>1. \A j \in 1 .. i - 1 : s[j] \in S
    BY <1>1
  <2>. QED
    BY <1>1, <2>1, SubSeqProperties
<1>3. /\ back \in Seq(S)
      /\ Len(back) = IF i + 1 <= Len(s) THEN Len(s) - (i + 1) + 1 ELSE 0
      /\ \A j \in 1 .. Len(s) - (i + 1) + 1 : back[j] = s[(i + 1) + j - 1]
  <2>1. \A j \in i + 1 .. Len(s) : s[j] \in S
    BY <1>1
  <2>. QED
    BY <1>1, <2>1, SubSeqProperties
<1>4. Without(s, i) = front \o back
  BY DEF Without
<1> HIDE DEF front, back
<1>5. Len(front) = i - 1 /\ Len(back) = Len(s) - i
  BY <1>1, <1>2, <1>3
<1>6. /\ front \o back \in Seq(S)
      /\ Len(front \o back) = Len(front) + Len(back)
      /\ \A j \in 1 .. Len(front) + Len(back) :
            (front \o back)[j] = IF j <= Len(front) THEN front[j]
                                                   ELSE back[j - Len(front)]
  BY <1>2, <1>3, ConcatProperties
<1>7. ASSUME NEW j \in 1 .. Len(s) - 1
      PROVE  (front \o back)[j] = IF j < i THEN s[j] ELSE s[j + 1]
  <2>1. CASE j < i
    <3>1. j \in 1 .. (i - 1) - 1 + 1 /\ 1 + j - 1 = j
      BY <1>1, <2>1
    <3>2. front[j] = s[j]
      BY <1>2, <3>1
    <3>. QED
      BY <1>1, <1>5, <1>6, <2>1, <3>2
  <2>2. CASE ~(j < i)
    <3>1. /\ j - Len(front) \in 1 .. Len(s) - (i + 1) + 1
          /\ (i + 1) + (j - Len(front)) - 1 = j + 1
      BY <1>1, <1>5, <2>2
    <3>2. back[j - Len(front)] = s[j + 1]
      BY <1>3, <3>1
    <3>. QED
      BY <1>1, <1>5, <1>6, <2>2, <3>2
  <2>. QED
    BY <2>1, <2>2
<1>. QED
  BY <1>1, <1>4, <1>5, <1>6, <1>7

LEMMA PrefixProperties ==
  ASSUME NEW S, NEW s \in Seq(S), NEW n \in 0 .. Len(s)
  PROVE  /\ SubSeq(s, 1, n) \in Seq(S)
         /\ Len(SubSeq(s, 1, n)) = n
         /\ \A i \in 1 .. n : SubSeq(s, 1, n)[i] = s[i]
<1>1. n \in Nat /\ \A j \in 1 .. n : s[j] \in S
  BY LenProperties, ElementOfSeq
<1>2. /\ SubSeq(s, 1, n) \in Seq(S)
      /\ Len(SubSeq(s, 1, n)) = IF 1 <= n THEN n - 1 + 1 ELSE 0
      /\ \A i \in 1 .. n - 1 + 1 : SubSeq(s, 1, n)[i] = s[1 + i - 1]
  BY <1>1, SubSeqProperties
<1>3. ASSUME NEW i \in 1 .. n
      PROVE  SubSeq(s, 1, n)[i] = s[i]
  <2>1. i \in 1 .. n - 1 + 1 /\ 1 + i - 1 = i
    BY <1>1
  <2>. QED
    BY <1>2, <2>1
<1>. QED
  BY <1>1, <1>2, <1>3

-----------------------------------------------------------------------------
(* New connections, and the pool that acceptForCount() takes from.         *)

LEMMA NewConnsSeq ==
  ASSUME NEW m \in Nat, NEW n \in Int, m + n <= MaxAllocated
  PROVE  /\ NewConns(m, n) \in Seq(Conn)
         /\ Len(NewConns(m, n)) = IF n > 0 THEN n ELSE 0
         /\ \A i \in 1 .. n : NewConns(m, n)[i] = m + i
<1>1. CASE n <= 0
  <2>1. 1 .. n = {}
    BY <1>1
  <2>2. NewConns(m, n) = <<>>
    BY <2>1 DEF NewConns
  <2>. QED
    BY <1>1, <2>1, <2>2, EmptySeq
<1>2. CASE n > 0
  <2>1. NewConns(m, n) \in [1 .. n -> Conn]
    BY <1>2, ConnAssumption DEF NewConns, Conn, MaxAllocated
  <2>2. n \in Nat
    BY <1>2
  <2>3. NewConns(m, n) \in Seq(Conn)
    BY <2>1, <2>2, SeqDef
  <2>4. Len(NewConns(m, n)) = n
    BY <2>1, <2>2, <2>3, LenProperties
  <2>. QED
    BY <1>2, <2>3, <2>4 DEF NewConns
<1>. QED
  BY <1>1, <1>2

(***************************************************************************)
(* The counters, in any environment.  An accept in flight is always in     *)
(* accepting; one that failed stays there, so the converse does not hold.  *)
(***************************************************************************)
Covered == Len(accepts) <= accepting
Accepting == accepting <= AcceptTarget /\ accepting + outer <= UpperLimit
Ledger == TypeOK /\ Accepting /\ Balance /\ Covered

(***************************************************************************)
(* The argument of AllocBound: the pool grows only when it holds fewer     *)
(* than Wanted connections, and then by no more than Room.                 *)
(***************************************************************************)
LEMMA Growth ==
  ASSUME Ledger, Wanted > 0
  PROVE  /\ Wanted \in Nat /\ Wanted <= Room /\ Wanted <= AcceptTarget - accepting
         /\ Expansion \in Nat
         /\ Len(idle) \in Nat
         /\ Wanted <= Len(idle) + Expansion
         /\ allocated + Expansion <= MaxAllocated
<1> USE DEF Ledger
<1>1. Len(idle) \in Nat /\ accepting \in Nat /\ outer \in Int
  BY LenProperties DEF TypeOK, Covered
<1>2. Wanted \in Int /\ Room \in Int
  BY ConnAssumption DEF TypeOK, Wanted, Room, Min
<1>3. Wanted <= Room /\ Wanted <= AcceptTarget - accepting
  BY ConnAssumption DEF TypeOK, Wanted, Room, Min
<1>4. CASE Len(idle) < Wanted
  <2>1. Expansion = IF 2 * Wanted < Room THEN 2 * Wanted ELSE Room
    BY <1>4 DEF Expansion, Min
  <2>2. Expansion \in Nat /\ Wanted <= Expansion /\ Expansion <= Room
    BY <1>2, <1>3, <2>1
  <2>3. allocated + Expansion <= Len(idle) + UpperLimit
    BY <1>1, <2>2, ConnAssumption DEF Room, Balance
  <2>4. Len(idle) <= AcceptTarget - 1
    BY <1>1, <1>2, <1>3, <1>4, ConnAssumption
  <2>5. allocated \in Int
    BY <1>1 DEF Balance
  <2>. QED
    BY <1>1, <1>2, <1>3, <2>2, <2>3, <2>4, <2>5, ConnAssumption DEF MaxAllocated
<1>5. CASE ~(Len(idle) < Wanted)
  <2>1. Expansion = 0
    BY <1>5 DEF Expansion
  <2>. QED
    BY <1>1, <1>2, <1>3, <1>5, <2>1, ConnAssumption DEF TypeOK, MaxAllocated
<1>. QED
  BY <1>4, <1>5

\* The pool as acceptForCount() sees it after expandConnections().
Pool == idle \o NewConns(allocated, Expansion)

LEMMA PoolSeq ==
  ASSUME Ledger, Wanted > 0
  PROVE  /\ Pool \in Seq(Conn)
         /\ Len(Pool) = Len(idle) + Expansion
         /\ \A i \in 1 .. Len(idle) : Pool[i] = idle[i]
         /\ \A i \in Len(idle) + 1 .. Len(Pool) : Pool[i] = allocated + i - Len(idle)
         /\ Min(Wanted, Len(Pool)) = Wanted
<1>1. /\ Expansion \in Nat /\ Len(idle) \in Nat /\ Wanted \in Nat
      /\ allocated + Expansion <= MaxAllocated
      /\ Wanted <= Len(idle) + Expansion
  BY Growth
<1> DEFINE new == NewConns(allocated, Expansion)
<1>2. allocated \in Nat
  BY ConnAssumption DEF Ledger, TypeOK, MaxAllocated
<1>3. /\ new \in Seq(Conn)
      /\ Len(new) = Expansion
      /\ \A i \in 1 .. Expansion : new[i] = allocated + i
  BY <1>1, <1>2, NewConnsSeq
<1>4. idle \in Seq(Conn)
  BY DEF Ledger, TypeOK
<1> HIDE DEF new
<1>5. /\ idle \o new \in Seq(Conn)
      /\ Len(idle \o new) = Len(idle) + Expansion
      /\ \A i \in 1 .. Len(idle) + Expansion :
            (idle \o new)[i] = IF i <= Len(idle) THEN idle[i] ELSE new[i - Len(idle)]
  BY <1>3, <1>4, ConcatProperties
<1>6. Pool = idle \o new
  BY DEF Pool, new
<1>7. ASSUME NEW i \in Len(idle) + 1 .. Len(idle) + Expansion
      PROVE  (idle \o new)[i] = allocated + i - Len(idle)
  <2>1. i - Len(idle) \in 1 .. Expansion
    BY <1>1
  <2>2. new[i - Len(idle)] = allocated + (i - Len(idle))
    BY <1>3, <2>1
  <2>. QED
    BY <1>1, <1>2, <1>5, <2>1, <2>2
<1>. QED
  BY <1>1, <1>5, <1>6, <1>7 DEF Min

\* What an iteration of the event loop takes and leaves.
LEMMA AcceptStep ==
  ASSUME Ledger, AcceptForCount
  PROVE  /\ Wanted > 0
         /\ idle' = SubSeq(Pool, Wanted + 1, Len(Pool))
         /\ idle' \in Seq(Conn)
         /\ Len(idle') = Len(Pool) - Wanted
         /\ \A i \in 1 .. Len(idle') : idle'[i] = Pool[Wanted + i]
         /\ allocated' = allocated + Expansion
         /\ accepting' = accepting + Wanted
         /\ accepts' \in Seq(Conn)
         /\ Len(accepts') = Len(accepts) + Wanted
         /\ \A i \in 1 .. Len(accepts') :
               accepts'[i] = IF i <= Len(accepts) THEN accepts[i]
                                                  ELSE Pool[i - Len(accepts)]
         /\ UNCHANGED <<outer, reads, writes, closes, inHand, open, env>>
<1>1. Wanted > 0
  BY DEF AcceptForCount
<1>2. /\ Pool \in Seq(Conn) /\ Len(Pool) = Len(idle) + Expansion
      /\ Min(Wanted, Len(Pool)) = Wanted
  BY <1>1, PoolSeq
<1>3. /\ Wanted \in Nat /\ Len(idle) \in Nat /\ Expansion \in Nat
      /\ Wanted <= Len(idle) + Expansion
  BY <1>1, Growth
<1>4. idle' = SubSeq(Pool, Wanted + 1, Len(Pool))
  BY <1>2 DEF AcceptForCount, Pool
<1>5. \A i \in Wanted + 1 .. Len(Pool) : Pool[i] \in Conn
  BY <1>2, <1>3, ElementOfSeq
<1>6. /\ idle' \in Seq(Conn)
      /\ Len(idle') = IF Wanted + 1 <= Len(Pool) THEN Len(Pool) - (Wanted + 1) + 1 ELSE 0
      /\ \A i \in 1 .. Len(Pool) - (Wanted + 1) + 1 : idle'[i] = Pool[Wanted + 1 + i - 1]
  BY <1>2, <1>3, <1>4, <1>5, SubSeqProperties
<1>7. Len(idle') = Len(Pool) - Wanted
  BY <1>2, <1>3, <1>6
<1>8. ASSUME NEW i \in 1 .. Len(idle')
      PROVE  idle'[i] = Pool[Wanted + i]
  <2>1. i \in 1 .. Len(Pool) - (Wanted + 1) + 1 /\ Wanted + 1 + i - 1 = Wanted + i
    BY <1>2, <1>3, <1>7
  <2>2. idle'[i] = Pool[Wanted + 1 + i - 1]
    BY <1>6, <2>1
  <2>. QED
    BY <2>1, <2>2
<1>9. /\ accepting' = accepting + Min(Wanted, Len(Pool))
      /\ accepts' = accepts \o SubSeq(Pool, 1, Min(Wanted, Len(Pool)))
      /\ allocated' = allocated + Expansion
      /\ UNCHANGED <<outer, reads, writes, closes, inHand, open, env>>
  BY DEF AcceptForCount, Pool
<1> DEFINE taken == SubSeq(Pool, 1, Wanted)
<1>10. Wanted \in 0 .. Len(Pool)
  BY <1>2, <1>3
<1>11. /\ taken \in Seq(Conn)
       /\ Len(taken) = Wanted
       /\ \A i \in 1 .. Wanted : taken[i] = Pool[i]
  BY <1>2, <1>10, PrefixProperties
<1>12. accepting' = accepting + Wanted /\ accepts' = accepts \o taken
  BY <1>2, <1>9
<1>13. accepts \in Seq(Conn) /\ Len(accepts) \in Nat
  BY LenProperties DEF Ledger, TypeOK
<1> HIDE DEF taken
<1>14. /\ accepts \o taken \in Seq(Conn)
       /\ Len(accepts \o taken) = Len(accepts) + Len(taken)
       /\ \A i \in 1 .. Len(accepts) + Len(taken) :
             (accepts \o taken)[i] = IF i <= Len(accepts) THEN accepts[i]
                                                         ELSE taken[i - Len(accepts)]
  BY <1>11, <1>13, ConcatProperties
<1>15. ASSUME NEW i \in 1 .. Len(accepts'), ~(i <= Len(accepts))
       PROVE  accepts'[i] = Pool[i - Len(accepts)]
  <2>1. i - Len(accepts) \in 1 .. Wanted
    BY <1>3, <1>11, <1>12, <1>13, <1>14, <1>15
  <2>2. taken[i - Len(accepts)] = Pool[i - Len(accepts)]
    BY <1>11, <2>1
  <2>. QED
    BY <1>12, <1>14, <1>15, <2>2
<1>. QED
  BY <1>1, <1>4, <1>6, <1>7, <1>8, <1>9, <1>11, <1>12, <1>14, <1>15

-----------------------------------------------------------------------------
(* The ledger is inductive, whatever the environment does.                 *)

LEMMA InitLedger == Init => Ledger
<1> SUFFICES ASSUME Init
             PROVE  Ledger
  OBVIOUS
<1>1. /\ Min(InitConn, UpperLimit) \in 0 .. MaxAllocated
      /\ Min(InitConn, UpperLimit) \in Nat
  BY ConnAssumption DEF Min, MaxAllocated
<1>2. idle \in Seq(Conn) /\ Len(idle) = Min(InitConn, UpperLimit)
  <2>1. 0 + Min(InitConn, UpperLimit) <= MaxAllocated
    BY <1>1, ConnAssumption DEF MaxAllocated
  <2>. QED
    BY <1>1, <2>1, NewConnsSeq DEF Init
<1>3. accepts \in Seq(Conn) /\ Len(accepts) = 0
  BY EmptySeq DEF Init
<1>4. TypeOK
  BY <1>1, <1>2, <1>3, ConnAssumption DEF Init, TypeOK
<1>5. Accepting /\ Balance /\ Covered
  BY <1>1, <1>2, <1>3, ConnAssumption DEF Init, Accepting, Balance, Covered
<1>. QED
  BY <1>4, <1>5 DEF Ledger

LEMMA NextLedger == Ledger /\ [Next]_vars => Ledger'
<1> SUFFICES ASSUME Ledger, [Next]_vars
             PROVE  Ledger'
  OBVIOUS
<1>0. /\ Len(idle) \in Nat /\ Len(accepts) \in Nat
      /\ accepting \in Nat /\ outer \in Int /\ allocated \in Nat
  BY LenProperties, ConnAssumption DEF Ledger, TypeOK, Covered, MaxAllocated
<1>1. CASE AcceptForCount
  <2>1. /\ Wanted \in Nat /\ Expansion \in Nat
        /\ Wanted <= Room /\ Wanted <= AcceptTarget - accepting
        /\ allocated + Expansion <= MaxAllocated
    BY <1>1, AcceptStep, Growth
  <2>2. /\ idle' \in Seq(Conn) /\ accepts' \in Seq(Conn)
        /\ Len(idle') = Len(idle) + Expansion - Wanted
        /\ Len(accepts') = Len(accepts) + Wanted
        /\ allocated' = allocated + Expansion
        /\ accepting' = accepting + Wanted
        /\ UNCHANGED <<outer, reads, writes, closes, inHand, open, env>>
    <3>1. Wanted > 0
      BY <1>1 DEF AcceptForCount
    <3>2. Len(Pool) = Len(idle) + Expansion
      BY <3>1, PoolSeq
    <3>3. /\ idle' \in Seq(Conn) /\ accepts' \in Seq(Conn)
          /\ Len(idle') = Len(Pool) - Wanted
          /\ Len(accepts') = Len(accepts) + Wanted
          /\ allocated' = allocated + Expansion
          /\ accepting' = accepting + Wanted
          /\ UNCHANGED <<outer, reads, writes, closes, inHand, open, env>>
      BY <1>1, AcceptStep
    <3>. QED
      BY <1>0, <2>1, <3>2, <3>3
  <2>3. TypeOK'
    BY <1>0, <2>1, <2>2, ConnAssumption DEF Ledger, TypeOK, MaxAllocated, env
  <2>4. Accepting' /\ Balance' /\ Covered'
    BY <1>0, <2>1, <2>2, ConnAssumption DEF Ledger, Accepting, Balance, Covered, Room
  <2>. QED
    BY <2>3, <2>4 DEF Ledger
<1>2. ASSUME NEW i \in 1 .. Len(accepts), Accepted(i) \/ AcceptFailed(i)
      PROVE  Ledger'
  <2>1. /\ accepts' \in Seq(Conn)
        /\ Len(accepts') = Len(accepts) - 1
    <3>1. accepts \in Seq(Conn)
      BY DEF Ledger, TypeOK
    <3>2. accepts' = Without(accepts, i)
      BY <1>2 DEF Accepted, AcceptFailed
    <3>. QED
      BY <3>1, <3>2, WithoutProperties
  <2>2. accepts[i] \in Conn
    BY ElementOfSeq DEF Ledger, TypeOK
  <2>3. CASE Accepted(i)
    <3>1. TypeOK'
      <4>1. reads' \in [Conn -> Nat] /\ open' \in [Conn -> BOOLEAN]
        <5>1. PICK c \in Conn : c = accepts[i]
          BY <2>2
        <5>2. reads' = [reads EXCEPT ![c] = @ + 1] /\ open' = [open EXCEPT ![c] = TRUE]
          BY <2>3, <5>1 DEF Accepted, One
        <5>3. reads \in [Conn -> Nat] /\ open \in [Conn -> BOOLEAN]
          BY DEF Ledger, TypeOK
        <5>4. QED
          BY <5>2, <5>3
      <4>2. accepting' \in Int /\ outer' \in Int
        BY <1>0, <2>3 DEF Accepted
      <4>3. UNCHANGED <<idle, allocated, writes, closes, inHand, env>>
        BY <2>3 DEF Accepted
      <4>. QED
        BY <2>1, <4>1, <4>2, <4>3 DEF Ledger, TypeOK, env
    <3>2. Accepting' /\ Balance' /\ Covered'
      BY <1>0, <2>1, <2>3, ConnAssumption
         DEF Accepted, Ledger, Accepting, Balance, Covered
    <3>. QED
      BY <3>1, <3>2 DEF Ledger
  <2>4. CASE AcceptFailed(i)
    <3>1. TypeOK'
      <4>1. UNCHANGED <<idle, counts, flight, inHand, open>>
        BY <2>4 DEF AcceptFailed
      <4>2. faults' \in 0 .. MaxFaults /\ hit' \subseteq Conn /\ refused' \in Nat
        BY <2>2, <2>4, ConnAssumption DEF AcceptFailed, Fault, Spend, Ledger, TypeOK
      <4>. QED
        BY <2>1, <4>1, <4>2 DEF Ledger, TypeOK, counts, flight
    <3>2. Accepting' /\ Balance' /\ Covered'
      BY <1>0, <2>1, <2>4, ConnAssumption
         DEF AcceptFailed, Ledger, Accepting, Balance, Covered, counts
    <3>. QED
      BY <3>1, <3>2 DEF Ledger
  <2>. QED
    BY <1>2, <2>3, <2>4
<1>3. ASSUME NEW c \in Conn, Closed(c)
      PROVE  Ledger'
  <2>1. idle' \in Seq(Conn) /\ Len(idle') = Len(idle) + 1
    BY <1>3, AppendProperties DEF Closed, Ledger, TypeOK
  <2>2. TypeOK'
    BY <1>0, <1>3, <2>1 DEF Closed, Ledger, TypeOK, Less, env
  <2>3. Accepting' /\ Balance' /\ Covered'
    BY <1>0, <1>3, <2>1, ConnAssumption DEF Closed, Ledger, Accepting, Balance, Covered
  <2>. QED
    BY <2>2, <2>3 DEF Ledger
<1>4. ASSUME NEW c \in Conn,
             ReadRequest(c) \/ ReadEof(c) \/ ReadFailed(c) \/ Written(c)
               \/ WriteFailed(c) \/ Send(c) \/ Drop(c)
      PROVE  Ledger'
  <2>1. UNCHANGED <<idle, accepts, counts, open>>
    BY <1>4 DEF ReadRequest, ReadEof, ReadFailed, Written, WriteFailed, Send, Drop,
                counts
  <2>2. faults' \in 0 .. MaxFaults /\ hit' \subseteq Conn /\ refused' \in Nat
    BY <1>4, ConnAssumption
       DEF ReadRequest, ReadEof, ReadFailed, Written, WriteFailed, Send, Drop,
           Fault, Spend, env, Ledger, TypeOK
  <2>3. /\ reads' \in [Conn -> Nat] /\ writes' \in [Conn -> Nat]
        /\ closes' \in [Conn -> Nat] /\ inHand' \in [Conn -> Nat]
    <3> USE DEF Ledger, TypeOK, One, Less, flight
    <3>1. CASE ReadRequest(c)
      BY <3>1 DEF ReadRequest
    <3>2. CASE ReadEof(c)
      BY <3>2 DEF ReadEof
    <3>3. CASE ReadFailed(c)
      BY <3>3 DEF ReadFailed
    <3>4. CASE Written(c)
      BY <3>4 DEF Written
    <3>5. CASE WriteFailed(c)
      BY <3>5 DEF WriteFailed
    <3>6. CASE Send(c)
      BY <3>6 DEF Send
    <3>7. CASE Drop(c)
      BY <3>7 DEF Drop
    <3>. QED
      BY <1>4, <3>1, <3>2, <3>3, <3>4, <3>5, <3>6, <3>7
  <2>4. TypeOK'
    BY <2>1, <2>2, <2>3 DEF Ledger, TypeOK, counts
  <2>5. Accepting' /\ Balance' /\ Covered'
    BY <2>1 DEF Ledger, Accepting, Balance, Covered, counts
  <2>. QED
    BY <2>4, <2>5 DEF Ledger
<1>5. CASE UNCHANGED vars
  <2>1. TypeOK'
    BY <1>5 DEF vars, counts, flight, env, Ledger, TypeOK
  <2>2. Accepting' /\ Balance' /\ Covered'
    BY <1>5 DEF vars, counts, Ledger, Accepting, Balance, Covered
  <2>. QED
    BY <2>1, <2>2 DEF Ledger
<1>. QED
  BY <1>1, <1>2, <1>3, <1>4, <1>5 DEF Next, Completion

LEMMA LedgerHolds == Spec => []Ledger
BY InitLedger, NextLedger, PTL DEF Spec

\* Every variable keeps its type; in particular there are never more connections
\* than MaxAllocated.
THEOREM TypeCorrect == Spec => []TypeOK
<1>1. Ledger => TypeOK
  BY DEF Ledger
<1>. QED
  BY <1>1, LedgerHolds, PTL

\* acceptForCount() keeps both of its limits in any environment, and the pool overshoots
\* its own by less than AcceptTarget.
THEOREM BudgetKept == Spec => []Budget
<1>1. Ledger => Budget
  BY ConnAssumption DEF Ledger, Accepting, TypeOK, Budget, AllocBound, MaxAllocated
<1>. QED
  BY <1>1, LedgerHolds, PTL

\* The counters and the idle pool always add up to what was allocated.
THEOREM Balanced == Spec => []Balance
<1>1. Ledger => Balance
  BY DEF Ledger
<1>. QED
  BY <1>1, LedgerHolds, PTL

LEMMA NextLeaks == Ledger /\ LeaksCounted /\ [Next]_vars => LeaksCounted'
<1> SUFFICES ASSUME Ledger, LeaksCounted, [Next]_vars
             PROVE  LeaksCounted'
  OBVIOUS
<1>1. /\ Len(accepts) \in Nat /\ accepting \in Nat /\ refused \in Nat
      /\ accepting = Len(accepts) + refused
  BY LenProperties DEF Ledger, TypeOK, Covered, LeaksCounted, Leaked
<1>2. ASSUME NEW d \in Int, Len(accepts') = Len(accepts) + d, accepting' = accepting + d,
             refused' = refused
      PROVE  LeaksCounted'
  BY <1>1, <1>2 DEF LeaksCounted, Leaked
<1>3. CASE AcceptForCount
  <2>1. /\ Wanted \in Nat /\ Len(accepts') = Len(accepts) + Wanted
        /\ accepting' = accepting + Wanted /\ refused' = refused
    BY <1>3, AcceptStep, Growth DEF env
  <2>2. QED
    BY <1>2, <2>1
<1>4. ASSUME NEW i \in 1 .. Len(accepts), Accepted(i) \/ AcceptFailed(i)
      PROVE  LeaksCounted'
  <2>1. accepts' = Without(accepts, i)
    BY <1>4 DEF Accepted, AcceptFailed
  <2>2. Len(accepts') = Len(accepts) - 1
    BY <2>1, WithoutProperties DEF Ledger, TypeOK
  <2>3. CASE Accepted(i)
    BY <1>1, <2>2, <2>3 DEF Accepted, env, LeaksCounted, Leaked
  <2>4. CASE AcceptFailed(i)
    BY <1>1, <2>2, <2>4 DEF AcceptFailed, counts, LeaksCounted, Leaked
  <2>5. QED
    BY <1>4, <2>3, <2>4
<1>5. ASSUME NEW c \in Conn, Completion(c) \/ Send(c) \/ Drop(c)
      PROVE  LeaksCounted'
  <2>1. UNCHANGED <<accepts, accepting, refused>>
    BY <1>5 DEF Completion, ReadRequest, ReadEof, ReadFailed, Written, WriteFailed, Closed, Send,
                Drop, Fault, counts, env
  <2>2. QED
    BY <2>1 DEF LeaksCounted, Leaked
<1>6. CASE UNCHANGED vars
  BY <1>6 DEF vars, counts, env, LeaksCounted, Leaked
<1>7. QED
  BY <1>3, <1>4, <1>5, <1>6 DEF Next

\* Each accept that is counted and not in flight has failed, and each that failed is counted
\* for ever (callback_accepted returns before acceptDone()): what AcceptsOn excepts is the
\* failed accepts, one for one, and no other error costs the server an accept.
THEOREM FailedAcceptsCounted == Spec => []LeaksCounted
<1>1. Init => LeaksCounted
  <2> SUFFICES ASSUME Init PROVE LeaksCounted
    OBVIOUS
  <2>1. accepting = 0 /\ refused = 0
    BY DEF Init
  <2>2. Len(accepts) = 0
    BY DEF Init
  <2>3. QED
    BY <2>1, <2>2 DEF LeaksCounted, Leaked
<1>2. QED
  BY <1>1, InitLedger, NextLedger, NextLeaks, PTL DEF Spec

-----------------------------------------------------------------------------
(***************************************************************************)
(* Exclusive use, in any environment.  Every connection that no error has  *)
(* hit is in one place: in the idle pool and among the accepts it is free  *)
(* and not twice, and while it still owes an answer it is neither closed   *)
(* nor about to be.  A connection that was hit may be anywhere, twice too, *)
(* but it is one that was allocated.                                       *)
(***************************************************************************)
Free == {c \in Conn : reads[c] = 0 /\ closes[c] = 0 /\ Answered(c)}
Distinct(s) == \A i, j \in 1 .. Len(s) : s[i] = s[j] /\ s[i] \notin hit => i = j
AllFree(s) ==
  \A i \in 1 .. Len(s) : s[i] <= allocated /\ (s[i] \notin hit => s[i] \in Free)
Apart == \A i \in 1 .. Len(idle) : \A j \in 1 .. Len(accepts) :
            idle[i] = accepts[j] => idle[i] \in hit
OneUse(c) == /\ reads[c] + closes[c] <= 1
             /\ closes[c] > 0 => Answered(c)
             /\ reads[c] > 0 \/ ~Answered(c) => open[c]
Somewhere(c) == \/ \E i \in 1 .. Len(idle) : idle[i] = c
                \/ \E i \in 1 .. Len(accepts) : accepts[i] = c
                \/ reads[c] + closes[c] > 0

Lent == /\ Distinct(idle) /\ Distinct(accepts) /\ Apart
        /\ AllFree(idle) /\ AllFree(accepts)
        /\ \A c \in Conn : /\ c \notin hit => OneUse(c)
                           /\ allocated < c => c \in Free /\ c \notin hit
                           /\ c <= allocated /\ c \notin hit => Somewhere(c)

LEMMA InitLent == Init => Lent
<1> SUFFICES ASSUME Init
             PROVE  Lent
  OBVIOUS
<1> DEFINE n == Min(InitConn, UpperLimit)
<1>1. n \in Nat /\ 0 + n <= MaxAllocated
  BY ConnAssumption DEF Min, MaxAllocated
<1> HIDE DEF n
<1>2. /\ Len(idle) = n
      /\ \A i \in 1 .. n : idle[i] = i
      /\ allocated = n
      /\ idle \in Seq(Conn)
  BY <1>1, NewConnsSeq DEF Init, n
<1>3. \A i \in 1 .. n : i \in Conn
  BY <1>1, ConnAssumption DEF Conn, MaxAllocated
<1>4. Len(accepts) = 0
  BY EmptySeq DEF Init
<1>5. \A c \in Conn : c \in Free
  BY DEF Init, Free, Answered
<1>6. hit = {} /\ \A c \in Conn : OneUse(c)
  BY DEF Init, OneUse, Answered
<1>7. Distinct(idle) /\ AllFree(idle)
  BY <1>1, <1>2, <1>3, <1>5 DEF Distinct, AllFree
<1>8. Distinct(accepts) /\ AllFree(accepts) /\ Apart
  BY <1>4 DEF Distinct, AllFree, Apart
<1>9. ASSUME NEW c \in Conn, c <= allocated
      PROVE  Somewhere(c)
  <2>1. c \in 1 .. n
    BY <1>1, <1>2, <1>9, ConnAssumption DEF Conn, MaxAllocated
  <2>. QED
    BY <1>2, <2>1 DEF Somewhere
<1>. QED
  BY <1>5, <1>6, <1>7, <1>8, <1>9 DEF Lent

LEMMA PoolLent ==
  ASSUME Ledger, Lent, Wanted > 0
  PROVE  /\ Distinct(Pool)
         /\ \A i \in 1 .. Len(Pool) :
               /\ Pool[i] <= allocated + Expansion
               /\ Pool[i] \notin hit => Pool[i] \in Free
               /\ \A j \in 1 .. Len(accepts) : Pool[i] = accepts[j] => Pool[i] \in hit
         /\ \A c \in Conn : c <= allocated + Expansion /\ c \notin hit =>
               \/ \E i \in 1 .. Len(Pool) : Pool[i] = c
               \/ \E i \in 1 .. Len(accepts) : accepts[i] = c
               \/ reads[c] + closes[c] > 0
<1>1. /\ Pool \in Seq(Conn)
      /\ Len(Pool) = Len(idle) + Expansion
      /\ \A i \in 1 .. Len(idle) : Pool[i] = idle[i]
      /\ \A i \in Len(idle) + 1 .. Len(Pool) : Pool[i] = allocated + i - Len(idle)
  BY PoolSeq
<1>2. /\ Len(idle) \in Nat /\ Len(accepts) \in Nat /\ allocated \in Nat
      /\ Expansion \in Nat
  BY Growth, LenProperties, ConnAssumption DEF Ledger, TypeOK, MaxAllocated
<1>3. \A i \in 1 .. Len(Pool) : Pool[i] \in Conn /\ Pool[i] \in Int
  BY <1>1, ElementOfSeq, ConnAssumption DEF Conn, MaxAllocated
<1>4. \A i \in 1 .. Len(idle) :
         /\ Pool[i] <= allocated
         /\ Pool[i] \notin hit => Pool[i] \in Free
         /\ \A j \in 1 .. Len(accepts) : Pool[i] = accepts[j] => Pool[i] \in hit
  BY <1>1 DEF Lent, AllFree, Apart
<1>5. ASSUME NEW i \in 1 .. Len(Pool), ~(i <= Len(idle))
      PROVE  /\ Pool[i] = allocated + i - Len(idle)
             /\ allocated < Pool[i] /\ Pool[i] <= allocated + Expansion
             /\ Pool[i] \in Free
             /\ \A j \in 1 .. Len(accepts) : Pool[i] # accepts[j]
  <2>1. i \in Len(idle) + 1 .. Len(Pool)
    BY <1>1, <1>2, <1>5
  <2>2. Pool[i] = allocated + i - Len(idle)
    BY <1>1, <2>1
  <2>3. allocated < Pool[i] /\ Pool[i] <= allocated + Expansion
    BY <1>1, <1>2, <2>1, <2>2
  <2>4. Pool[i] \in Free
    BY <1>3, <2>3 DEF Lent
  <2>5. ASSUME NEW j \in 1 .. Len(accepts)
        PROVE  Pool[i] # accepts[j]
    <3>1. accepts[j] <= allocated
      BY DEF Lent, AllFree
    <3>2. accepts[j] \in Conn
      BY ElementOfSeq DEF Ledger, TypeOK
    <3>3. accepts[j] \in Int
      BY <3>2, ConnAssumption DEF Conn, MaxAllocated
    <3>. QED
      BY <1>2, <1>3, <2>3, <3>1, <3>3
  <2>. QED
    BY <2>2, <2>3, <2>4, <2>5
<1>6. Distinct(Pool)
  <2> SUFFICES ASSUME NEW i \in 1 .. Len(Pool), NEW j \in 1 .. Len(Pool),
                      Pool[i] = Pool[j], Pool[i] \notin hit
               PROVE  i = j
    BY DEF Distinct
  <2>1. CASE i <= Len(idle) /\ j <= Len(idle)
    <3>1. i \in 1 .. Len(idle) /\ j \in 1 .. Len(idle)
      BY <1>1, <1>2, <2>1
    <3>. QED
      BY <1>1, <3>1 DEF Lent, Distinct
  <2>2. CASE i <= Len(idle) /\ ~(j <= Len(idle))
    <3>1. Pool[i] <= allocated
      BY <1>1, <1>2, <1>4, <2>2
    <3>2. allocated < Pool[j]
      BY <1>5, <2>2
    <3>. QED
      BY <1>2, <1>3, <3>1, <3>2
  <2>3. CASE ~(i <= Len(idle)) /\ j <= Len(idle)
    <3>1. Pool[j] <= allocated
      BY <1>1, <1>2, <1>4, <2>3
    <3>2. allocated < Pool[i]
      BY <1>5, <2>3
    <3>. QED
      BY <1>2, <1>3, <3>1, <3>2
  <2>4. CASE ~(i <= Len(idle)) /\ ~(j <= Len(idle))
    <3>1. allocated + i - Len(idle) = allocated + j - Len(idle)
      BY <1>5, <2>4
    <3>. QED
      BY <1>1, <1>2, <3>1
  <2>. QED
    BY <2>1, <2>2, <2>3, <2>4
<1>7. ASSUME NEW i \in 1 .. Len(Pool)
      PROVE  /\ Pool[i] <= allocated + Expansion
             /\ Pool[i] \notin hit => Pool[i] \in Free
             /\ \A j \in 1 .. Len(accepts) : Pool[i] = accepts[j] => Pool[i] \in hit
  <2>1. CASE i <= Len(idle)
    <3>1. i \in 1 .. Len(idle)
      BY <1>1, <1>2, <2>1
    <3>. QED
      BY <1>2, <1>3, <1>4, <3>1
  <2>2. CASE ~(i <= Len(idle))
    BY <1>5, <2>2
  <2>. QED
    BY <2>1, <2>2
\* the pool holds the idle connections and those just allocated
<1>8. ASSUME NEW c \in Conn, c <= allocated + Expansion, c \notin hit
      PROVE  \/ \E i \in 1 .. Len(Pool) : Pool[i] = c
             \/ \E i \in 1 .. Len(accepts) : accepts[i] = c
             \/ reads[c] + closes[c] > 0
  <2>1. c \in Int
    BY ConnAssumption DEF Conn, MaxAllocated
  <2>2. CASE c <= allocated
    <3>1. Somewhere(c)
      BY <1>8, <2>2 DEF Lent
    <3>2. ASSUME NEW i \in 1 .. Len(idle), idle[i] = c
          PROVE  i \in 1 .. Len(Pool) /\ Pool[i] = c
      BY <1>1, <1>2, <3>2
    <3>. QED
      BY <3>1, <3>2 DEF Somewhere
  <2>3. CASE allocated < c
    <3>1. /\ Len(idle) + c - allocated \in Len(idle) + 1 .. Len(Pool)
          /\ Len(idle) + c - allocated \in 1 .. Len(Pool)
      BY <1>1, <1>2, <1>8, <2>1, <2>3
    <3>2. Pool[Len(idle) + c - allocated]
             = allocated + (Len(idle) + c - allocated) - Len(idle)
      BY <1>1, <3>1
    <3>3. Pool[Len(idle) + c - allocated] = c
      BY <1>2, <2>1, <3>2
    <3>. QED
      BY <3>1, <3>3
  <2>. QED
    BY <1>2, <2>1, <2>2, <2>3
<1>. QED
  BY <1>6, <1>7, <1>8

LEMMA AcceptLent ==
  ASSUME Ledger, Lent, AcceptForCount
  PROVE  Lent'
<1>1. /\ Wanted \in Nat /\ Wanted > 0 /\ Expansion \in Nat
      /\ Len(idle) \in Nat /\ Len(accepts) \in Nat /\ allocated \in Nat
      /\ Wanted <= Len(idle) + Expansion
      /\ Len(Pool) = Len(idle) + Expansion
  <2>1. Wanted > 0
    BY DEF AcceptForCount
  <2>2. Len(idle) \in Nat /\ Len(accepts) \in Nat /\ allocated \in Nat
    BY LenProperties, ConnAssumption DEF Ledger, TypeOK, MaxAllocated
  <2>. QED
    BY <2>1, <2>2, Growth, PoolSeq
<1>2. /\ Len(idle') = Len(Pool) - Wanted
      /\ \A i \in 1 .. Len(idle') : idle'[i] = Pool[Wanted + i]
      /\ allocated' = allocated + Expansion
      /\ Len(accepts') = Len(accepts) + Wanted
      /\ \A i \in 1 .. Len(accepts') :
            accepts'[i] = IF i <= Len(accepts) THEN accepts[i]
                                               ELSE Pool[i - Len(accepts)]
      /\ UNCHANGED <<outer, reads, writes, closes, inHand, open, hit>>
  BY AcceptStep DEF env
<1>3. /\ Distinct(Pool)
      /\ \A i \in 1 .. Len(Pool) :
            /\ Pool[i] <= allocated + Expansion
            /\ Pool[i] \notin hit => Pool[i] \in Free
            /\ \A j \in 1 .. Len(accepts) : Pool[i] = accepts[j] => Pool[i] \in hit
  BY <1>1, PoolLent
<1>4. \A c : c \in Free' <=> c \in Free
  BY <1>2 DEF Free, Answered
\* what stays in the idle pool comes from behind the first Wanted places
<1>5. ASSUME NEW i \in 1 .. Len(idle')
      PROVE  Wanted + i \in 1 .. Len(Pool) /\ idle'[i] = Pool[Wanted + i]
  BY <1>1, <1>2
<1>6. Distinct(idle)'
  <2> SUFFICES ASSUME NEW i \in 1 .. Len(idle'), NEW j \in 1 .. Len(idle'),
                      idle'[i] = idle'[j], idle'[i] \notin hit
               PROVE  i = j
    BY <1>2 DEF Distinct
  <2>1. Wanted + i = Wanted + j
    BY <1>3, <1>5 DEF Distinct
  <2>. QED
    BY <1>1, <2>1
<1>7. AllFree(idle)'
  BY <1>2, <1>3, <1>4, <1>5 DEF AllFree
\* what accepts is an old accept or comes from the first Wanted places
<1>8. ASSUME NEW j \in 1 .. Len(accepts')
      PROVE  \/ j \in 1 .. Len(accepts) /\ accepts'[j] = accepts[j]
             \/ /\ j - Len(accepts) \in 1 .. Wanted
                /\ j - Len(accepts) \in 1 .. Len(Pool)
                /\ accepts'[j] = Pool[j - Len(accepts)]
  BY <1>1, <1>2
<1>9. Distinct(accepts)'
  <2> SUFFICES ASSUME NEW i \in 1 .. Len(accepts'), NEW j \in 1 .. Len(accepts'),
                      accepts'[i] = accepts'[j], accepts'[i] \notin hit
               PROVE  i = j
    BY <1>2 DEF Distinct
  <2> DEFINE Old(k) == k \in 1 .. Len(accepts) /\ accepts'[k] = accepts[k]
             New(k) == /\ k - Len(accepts) \in 1 .. Len(Pool)
                       /\ accepts'[k] = Pool[k - Len(accepts)]
  <2>0. Old(i) \/ New(i)
    BY <1>8
  <2>1. Old(j) \/ New(j)
    BY <1>8
  <2>2. CASE Old(i) /\ Old(j)
    BY <2>2 DEF Lent, Distinct
  <2>3. CASE Old(i) /\ New(j)
    BY <1>3, <2>3
  <2>4. CASE New(i) /\ Old(j)
    BY <1>3, <2>4
  <2>5. CASE New(i) /\ New(j)
    <3>1. i - Len(accepts) = j - Len(accepts)
      BY <1>3, <2>5 DEF Distinct
    <3>. QED
      BY <1>1, <1>2, <3>1
  <2>. QED
    BY <2>0, <2>1, <2>2, <2>3, <2>4, <2>5
<1>10. AllFree(accepts)'
  <2> SUFFICES ASSUME NEW j \in 1 .. Len(accepts')
               PROVE  /\ accepts'[j] <= allocated'
                      /\ accepts'[j] \notin hit => accepts'[j] \in Free
    BY <1>2, <1>4 DEF AllFree
  <2>1. CASE j \in 1 .. Len(accepts) /\ accepts'[j] = accepts[j]
    <3>1. accepts[j] <= allocated /\ (accepts[j] \notin hit => accepts[j] \in Free)
      BY <2>1 DEF Lent, AllFree
    <3>2. accepts[j] \in Conn
      BY <2>1, ElementOfSeq DEF Ledger, TypeOK
    <3>3. accepts[j] \in Int
      BY <3>2, ConnAssumption DEF Conn, MaxAllocated
    <3>. QED
      BY <1>1, <1>2, <2>1, <3>1, <3>3
  <2>2. CASE j - Len(accepts) \in 1 .. Len(Pool) /\ accepts'[j] = Pool[j - Len(accepts)]
    BY <1>2, <1>3, <2>2
  <2>. QED
    BY <1>8, <2>1, <2>2
<1>11. Apart'
  <2> SUFFICES ASSUME NEW i \in 1 .. Len(idle'), NEW j \in 1 .. Len(accepts'),
                      idle'[i] = accepts'[j]
               PROVE  idle'[i] \in hit
    BY <1>2 DEF Apart
  <2>1. CASE j \in 1 .. Len(accepts) /\ accepts'[j] = accepts[j]
    BY <1>3, <1>5, <2>1
  <2>2. CASE /\ j - Len(accepts) \in 1 .. Wanted
             /\ j - Len(accepts) \in 1 .. Len(Pool)
             /\ accepts'[j] = Pool[j - Len(accepts)]
    <3>1. Wanted + i # j - Len(accepts)
      BY <1>1, <1>2, <2>2
    <3>. QED
      BY <1>3, <1>5, <2>2, <3>1 DEF Distinct
  <2>. QED
    BY <1>8, <2>1, <2>2
\* nothing that was in the pool drops out between the two queues
<1>12. ASSUME NEW c \in Conn, c <= allocated', c \notin hit
       PROVE  Somewhere(c)'
  <2>1. ASSUME NEW i \in 1 .. Len(Pool), Pool[i] = c
        PROVE  Somewhere(c)'
    <3>1. CASE i <= Wanted
      <4>1. Len(accepts) + i \in 1 .. Len(accepts') /\ ~(Len(accepts) + i <= Len(accepts))
        BY <1>1, <1>2, <3>1
      <4>2. Len(accepts) + i - Len(accepts) = i
        BY <1>1
      <4>3. accepts'[Len(accepts) + i] = c
        BY <1>2, <2>1, <4>1, <4>2
      <4>. QED
        BY <4>1, <4>3 DEF Somewhere
    <3>2. CASE Wanted < i
      <4>1. i - Wanted \in 1 .. Len(idle') /\ Wanted + (i - Wanted) = i
        BY <1>1, <1>2, <3>2
      <4>2. idle'[i - Wanted] = c
        BY <1>2, <2>1, <4>1
      <4>. QED
        BY <4>1, <4>2 DEF Somewhere
    <3>. QED
      BY <1>1, <3>1, <3>2
  <2>2. ASSUME NEW i \in 1 .. Len(accepts), accepts[i] = c
        PROVE  Somewhere(c)'
    <3>1. i \in 1 .. Len(accepts') /\ accepts'[i] = c
      BY <1>1, <1>2, <2>2
    <3>. QED
      BY <3>1 DEF Somewhere
  <2>3. ASSUME reads[c] + closes[c] > 0
        PROVE  Somewhere(c)'
    BY <1>2, <2>3 DEF Somewhere
  <2>. QED
    BY <1>1, <1>2, <1>12, <2>1, <2>2, <2>3, PoolLent
<1>13. ASSUME NEW c \in Conn
       PROVE  /\ c \notin hit => OneUse(c)'
              /\ allocated' < c => c \in Free' /\ c \notin hit
  <2>1. c \in Int
    BY ConnAssumption DEF Conn, MaxAllocated
  <2>2. allocated' < c => allocated < c
    BY <1>1, <1>2, <2>1
  <2>3. OneUse(c)' <=> OneUse(c)
    BY <1>2 DEF OneUse, Answered
  <2>. QED
    BY <1>4, <2>2, <2>3 DEF Lent
<1>. QED
  BY <1>2, <1>6, <1>7, <1>9, <1>10, <1>11, <1>12, <1>13 DEF Lent

\* An accept that completes takes its connection out of the queue, and every other
\* connection stays where it was.
LEMMA FewerAccepts ==
  ASSUME Ledger, Lent, NEW i \in 1 .. Len(accepts), accepts' = Without(accepts, i),
         hit \subseteq hit', UNCHANGED <<idle, allocated>>
  PROVE  /\ Distinct(accepts)' /\ Distinct(idle)' /\ Apart'
         /\ \A j \in 1 .. Len(accepts') :
               /\ accepts'[j] = accepts[i] => accepts[i] \in hit
               /\ \E k \in 1 .. Len(accepts) : accepts'[j] = accepts[k]
         /\ \A k \in 1 .. Len(accepts) : accepts[k] # accepts[i] =>
               \E j \in 1 .. Len(accepts') : accepts'[j] = accepts[k]
         /\ \A j \in 1 .. Len(idle) : idle[j] = accepts[i] => accepts[i] \in hit
         /\ accepts[i] \in Conn /\ accepts[i] <= allocated
         /\ accepts[i] \notin hit => accepts[i] \in Free
<1>1. accepts \in Seq(Conn)
  BY DEF Ledger, TypeOK
<1>2. /\ Len(accepts') = Len(accepts) - 1
      /\ \A j \in 1 .. Len(accepts) - 1 :
            accepts'[j] = IF j < i THEN accepts[j] ELSE accepts[j + 1]
  BY <1>1, WithoutProperties
<1>3. Len(accepts) \in Nat
  BY <1>1, LenProperties
<1> DEFINE src(j) == IF j < i THEN j ELSE j + 1
<1>4. ASSUME NEW j \in 1 .. Len(accepts')
      PROVE  src(j) \in 1 .. Len(accepts) /\ src(j) # i /\ accepts'[j] = accepts[src(j)]
  BY <1>2, <1>3
<1>5. ASSUME NEW j \in 1 .. Len(accepts'), NEW k \in 1 .. Len(accepts'),
             src(j) = src(k)
      PROVE  j = k
  BY <1>2, <1>3, <1>5
<1>10. ASSUME NEW k \in 1 .. Len(accepts), accepts[k] # accepts[i]
       PROVE  \E j \in 1 .. Len(accepts') : accepts'[j] = accepts[k]
  <2>1. CASE k < i
    BY <1>2, <1>3, <2>1
  <2>2. CASE k > i
    <3>1. k - 1 \in 1 .. Len(accepts') /\ ~(k - 1 < i) /\ (k - 1) + 1 = k
      BY <1>2, <1>3, <2>2
    <3>. QED
      BY <1>2, <1>3, <3>1
  <2>. QED
    BY <1>3, <1>10, <2>1, <2>2
<1> HIDE DEF src
<1>6. \A j, k \in 1 .. Len(accepts) :
         accepts[j] = accepts[k] /\ accepts[j] \notin hit => j = k
  BY DEF Lent, Distinct
<1>7. Distinct(accepts)'
  BY <1>4, <1>5, <1>6 DEF Distinct
<1>8. Apart' /\ Distinct(idle)'
  BY <1>4 DEF Lent, Apart, Distinct
<1>9. accepts[i] \in Conn
  BY <1>1, ElementOfSeq
<1>. QED
  BY <1>4, <1>6, <1>7, <1>8, <1>9, <1>10 DEF Lent, AllFree, Apart

\* A step on behalf of a connection that has a client touches no other and no queue.
LEMMA BusyLent ==
  ASSUME Ledger, Lent, NEW c \in Conn, c \notin Free,
         UNCHANGED <<idle, accepts, allocated, open>>,
         hit' = hit \/ hit' = hit \cup {c},
         \A d \in Conn : d # c => /\ reads'[d] = reads[d] /\ closes'[d] = closes[d]
                                 /\ writes'[d] = writes[d] /\ inHand'[d] = inHand[d],
         c \notin hit' => OneUse(c)' /\ reads'[c] + closes'[c] > 0
  PROVE  Lent'
<1>1. \A d \in Conn : d # c =>
         /\ d \in Free' <=> d \in Free
         /\ OneUse(d)' <=> OneUse(d)
         /\ Somewhere(d)' <=> Somewhere(d)
  BY DEF Free, Answered, OneUse, Somewhere
<1>2. idle \in Seq(Conn) /\ accepts \in Seq(Conn)
  BY DEF Ledger, TypeOK
<1>3. AllFree(idle)'
  <2> SUFFICES ASSUME NEW i \in 1 .. Len(idle)
               PROVE  idle[i] <= allocated /\ (idle[i] \notin hit' => idle[i] \in Free')
    BY DEF AllFree
  <2>1. /\ idle[i] \in Conn /\ idle[i] <= allocated
        /\ idle[i] \notin hit => idle[i] \in Free
    BY <1>2, ElementOfSeq DEF Lent, AllFree
  <2>. QED
    BY <1>1, <2>1
<1>4. AllFree(accepts)'
  <2> SUFFICES ASSUME NEW i \in 1 .. Len(accepts)
               PROVE  /\ accepts[i] <= allocated
                      /\ accepts[i] \notin hit' => accepts[i] \in Free'
    BY DEF AllFree
  <2>1. /\ accepts[i] \in Conn /\ accepts[i] <= allocated
        /\ accepts[i] \notin hit => accepts[i] \in Free
    BY <1>2, ElementOfSeq DEF Lent, AllFree
  <2>. QED
    BY <1>1, <2>1
<1>5. Distinct(idle)' /\ Distinct(accepts)' /\ Apart'
  BY DEF Lent, Distinct, Apart
<1>6. ~(allocated < c)
  BY DEF Lent
<1>7. ASSUME NEW d \in Conn
      PROVE  /\ d \notin hit' => OneUse(d)'
             /\ allocated' < d => d \in Free' /\ d \notin hit'
             /\ d <= allocated' /\ d \notin hit' => Somewhere(d)'
  <2>1. CASE d = c
    BY <1>6, <2>1 DEF Somewhere
  <2>2. CASE d # c
    BY <1>1, <2>2 DEF Lent
  <2>. QED
    BY <2>1, <2>2
<1>. QED
  BY <1>3, <1>4, <1>5, <1>7 DEF Lent

LEMMA NextLent == Ledger /\ Lent /\ [Next]_vars => Lent'
<1> SUFFICES ASSUME Ledger, Lent, [Next]_vars
             PROVE  Lent'
  OBVIOUS
<1> DEFINE Each(c) == /\ c \notin hit => OneUse(c)
                      /\ allocated < c => c \in Free /\ c \notin hit
                      /\ c <= allocated /\ c \notin hit => Somewhere(c)
<1>0. /\ idle \in Seq(Conn) /\ accepts \in Seq(Conn)
      /\ Len(idle) \in Nat /\ Len(accepts) \in Nat /\ allocated \in Nat
      /\ reads \in [Conn -> Nat] /\ writes \in [Conn -> Nat]
      /\ closes \in [Conn -> Nat] /\ inHand \in [Conn -> Nat]
      /\ open \in [Conn -> BOOLEAN]
  BY LenProperties, ConnAssumption DEF Ledger, TypeOK, MaxAllocated
<1>1. CASE AcceptForCount
  BY <1>1, AcceptLent
<1>2. ASSUME NEW i \in 1 .. Len(accepts), Accepted(i) \/ AcceptFailed(i)
      PROVE  Lent'
  <2>1. /\ accepts' = Without(accepts, i) /\ UNCHANGED <<idle, allocated>>
        /\ hit \subseteq hit' /\ hit' \subseteq hit \cup {accepts[i]}
    BY <1>2 DEF Accepted, AcceptFailed, Fault, Spend, counts, env
  <2>2. /\ Distinct(accepts)' /\ Distinct(idle)' /\ Apart'
    BY <2>1, FewerAccepts
  <2>3. \A c \in Conn : c # accepts[i] =>
           /\ reads'[c] = reads[c] /\ closes'[c] = closes[c]
           /\ writes'[c] = writes[c] /\ inHand'[c] = inHand[c]
           /\ open'[c] = open[c]
    BY <1>0, <1>2 DEF Accepted, AcceptFailed, One, flight
  <2>4. \A c \in Conn : c # accepts[i] => (c \in Free' <=> c \in Free)
    BY <2>3 DEF Free, Answered
  <2>5. AllFree(accepts)'
    <3> SUFFICES ASSUME NEW j \in 1 .. Len(accepts')
                 PROVE  /\ accepts'[j] <= allocated'
                        /\ accepts'[j] \notin hit' => accepts'[j] \in Free'
      BY DEF AllFree
    <3>1. PICK k \in 1 .. Len(accepts) : accepts'[j] = accepts[k]
      BY <2>1, FewerAccepts
    <3>2. accepts[k] = accepts[i] => accepts[k] \in hit
      BY <2>1, <3>1, FewerAccepts
    <3>3. /\ accepts[k] \in Conn /\ accepts[k] <= allocated
          /\ accepts[k] \notin hit => accepts[k] \in Free
      BY <1>0, ElementOfSeq DEF Lent, AllFree
    <3>. QED
      BY <2>1, <2>4, <3>1, <3>2, <3>3
  <2>6. AllFree(idle)'
    <3> SUFFICES ASSUME NEW j \in 1 .. Len(idle)
                 PROVE  idle[j] <= allocated /\ (idle[j] \notin hit' => idle[j] \in Free')
      BY <2>1 DEF AllFree
    <3>1. idle[j] = accepts[i] => idle[j] \in hit
      BY <2>1, FewerAccepts
    <3>2. /\ idle[j] \in Conn /\ idle[j] <= allocated
          /\ idle[j] \notin hit => idle[j] \in Free
      BY <1>0, ElementOfSeq DEF Lent, AllFree
    <3>. QED
      BY <2>1, <2>4, <3>1, <3>2
  <2>7. ASSUME NEW c \in Conn
        PROVE  Each(c)'
    <3>1. /\ accepts[i] <= allocated /\ accepts[i] \in Conn
          /\ accepts[i] \notin hit => accepts[i] \in Free
      BY <2>1, FewerAccepts
    <3>2. CASE c = accepts[i]
      <4>0. c \in Int
        BY ConnAssumption DEF Conn, MaxAllocated
      <4>1. ~(allocated' < c)
        BY <1>0, <2>1, <3>1, <3>2, <4>0
      <4>2. c \notin hit' => c \notin hit /\ Accepted(i)
        BY <1>2, <2>1, <3>2 DEF AcceptFailed, Fault, Spend
      <4>3. ASSUME c \in Free, Accepted(i)
            PROVE  reads'[c] = 1 /\ closes'[c] = 0 /\ open'[c]
        <5>1. reads[c] = 0 /\ closes[c] = 0
          BY <4>3 DEF Free
        <5>2. /\ reads' = [reads EXCEPT ![c] = @ + 1]
              /\ open' = [open EXCEPT ![c] = TRUE]
              /\ closes' = closes
          BY <3>2, <4>3 DEF Accepted, One
        <5>. QED
          BY <1>0, <5>1, <5>2
      <4>4. ASSUME c \in Free, Accepted(i)
            PROVE  OneUse(c)' /\ Somewhere(c)'
        BY <4>3, <4>4 DEF OneUse, Somewhere
      <4>. QED
        BY <3>1, <3>2, <4>1, <4>2, <4>4
    <3>3. CASE c # accepts[i]
      <4>1. OneUse(c)' <=> OneUse(c)
        BY <2>3, <3>3 DEF OneUse, Answered
      <4>2. Somewhere(c) => Somewhere(c)'
        <5>1. ASSUME NEW k \in 1 .. Len(accepts), accepts[k] = c
              PROVE  Somewhere(c)'
          BY <2>1, <3>3, <5>1, FewerAccepts DEF Somewhere
        <5>. QED
          BY <2>1, <2>3, <3>3, <5>1 DEF Somewhere
      <4>. QED
        BY <2>1, <2>4, <3>3, <4>1, <4>2 DEF Lent
    <3>. QED
      BY <3>2, <3>3
  <2>. QED
    BY <2>2, <2>5, <2>6, <2>7 DEF Lent
<1>3. ASSUME NEW c \in Conn, Closed(c)
      PROVE  Lent'
  <2>1. /\ closes[c] > 0 /\ c \notin Free
        /\ c \notin hit => closes[c] = 1 /\ reads[c] = 0 /\ Answered(c)
    BY <1>0, <1>3 DEF Closed, Lent, Free, OneUse
  <2>2. /\ Len(idle') = Len(idle) + 1
        /\ \A i \in 1 .. Len(idle) : idle'[i] = idle[i]
        /\ idle'[Len(idle) + 1] = c
        /\ UNCHANGED <<accepts, allocated, hit>>
    BY <1>0, <1>3, AppendProperties DEF Closed, env
  <2>3. \A i \in 1 .. Len(idle) : idle[i] = c => c \in hit
    BY <2>1 DEF Lent, AllFree
  <2>4. \A j \in 1 .. Len(accepts) : accepts[j] = c => c \in hit
    BY <2>1 DEF Lent, AllFree
  <2>5. /\ c \notin hit => c \in Free'
        /\ \A d \in Conn : d # c => (d \in Free' <=> d \in Free)
    BY <1>0, <1>3, <2>1 DEF Closed, Less, Free, Answered
  <2>6. c <= allocated
    <3>1. ~(allocated < c)
      BY <2>1 DEF Lent
    <3>. QED
      BY <1>0, <3>1, ConnAssumption DEF Conn, MaxAllocated
  <2>7. \A i \in 1 .. Len(idle') : i \in 1 .. Len(idle) \/ i = Len(idle) + 1
    BY <1>0, <2>2
  <2>8. Distinct(idle)' /\ Distinct(accepts)' /\ Apart'
    <3>1. Distinct(idle)'
      BY <2>2, <2>3, <2>7 DEF Lent, Distinct
    <3>2. Apart'
      BY <2>2, <2>4, <2>7 DEF Lent, Apart
    <3>. QED
      BY <2>2, <3>1, <3>2 DEF Lent, Distinct
  <2>9. AllFree(idle)'
    <3> SUFFICES ASSUME NEW i \in 1 .. Len(idle')
                 PROVE  /\ idle'[i] <= allocated
                        /\ idle'[i] \notin hit => idle'[i] \in Free'
      BY <2>2 DEF AllFree
    <3>1. CASE i \in 1 .. Len(idle)
      <4>1. /\ idle[i] \in Conn /\ idle[i] <= allocated
            /\ idle[i] \notin hit => idle[i] \in Free
        BY <1>0, <3>1, ElementOfSeq DEF Lent, AllFree
      <4>. QED
        BY <2>2, <2>3, <2>5, <3>1, <4>1
    <3>2. CASE i = Len(idle) + 1
      BY <2>2, <2>5, <2>6, <3>2
    <3>. QED
      BY <2>7, <3>1, <3>2
  <2>10. AllFree(accepts)'
    <3> SUFFICES ASSUME NEW j \in 1 .. Len(accepts)
                 PROVE  /\ accepts[j] <= allocated
                        /\ accepts[j] \notin hit => accepts[j] \in Free'
      BY <2>2 DEF AllFree
    <3>1. /\ accepts[j] \in Conn /\ accepts[j] <= allocated
          /\ accepts[j] \notin hit => accepts[j] \in Free
      BY <1>0, ElementOfSeq DEF Lent, AllFree
    <3>. QED
      BY <2>4, <2>5, <3>1
  <2>11. ASSUME NEW d \in Conn
         PROVE  Each(d)'
    <3>1. CASE d = c
      <4>1. ~(allocated' < d)
        BY <2>1, <2>2, <3>1 DEF Lent
      <4>2. c \notin hit => OneUse(c)'
        <5>1. c \notin hit => reads'[c] = 0 /\ closes'[c] = 0 /\ Answered(c)'
          BY <2>5 DEF Free, Answered
        <5>. QED
          BY <5>1 DEF OneUse
      <4>3. Somewhere(c)'
        <5>1. Len(idle) + 1 \in 1 .. Len(idle')
          BY <1>0, <2>2
        <5>. QED
          BY <2>2, <5>1 DEF Somewhere
      <4>. QED
        BY <2>2, <3>1, <4>1, <4>2, <4>3
    <3>2. CASE d # c
      <4>1. /\ reads'[d] = reads[d] /\ closes'[d] = closes[d]
            /\ writes'[d] = writes[d] /\ inHand'[d] = inHand[d] /\ open'[d] = open[d]
        BY <1>0, <1>3, <3>2 DEF Closed, Less
      <4>2. OneUse(d)' <=> OneUse(d)
        BY <4>1 DEF OneUse, Answered
      <4>3. Somewhere(d) => Somewhere(d)'
        <5>1. ASSUME NEW i \in 1 .. Len(idle), idle[i] = d
              PROVE  Somewhere(d)'
          <6>1. Len(idle) \in Nat /\ Len(idle') = Len(idle) + 1
            BY <1>0, <2>2
          <6>2. i \in 1 .. Len(idle')
            BY <6>1
          <6>3. idle'[i] = d
            BY <2>2, <5>1
          <6>. QED
            BY <6>2, <6>3 DEF Somewhere
        <5>. QED
          BY <2>2, <4>1, <5>1 DEF Somewhere
      <4>. QED
        BY <2>2, <2>5, <3>2, <4>2, <4>3 DEF Lent
    <3>. QED
      BY <3>1, <3>2
  <2>. QED
    BY <2>8, <2>9, <2>10, <2>11 DEF Lent
<1>4. ASSUME NEW c \in Conn,
             ReadRequest(c) \/ ReadEof(c) \/ ReadFailed(c) \/ Written(c)
               \/ WriteFailed(c) \/ Send(c) \/ Drop(c)
      PROVE  Lent'
  <2>1. c \notin hit => /\ reads[c] + closes[c] <= 1
                        /\ closes[c] > 0 => Answered(c)
                        /\ reads[c] > 0 \/ ~Answered(c) => open[c]
    BY DEF Lent, OneUse
  <2>2. /\ c \notin Free
        /\ UNCHANGED <<idle, accepts, allocated, open>>
        /\ hit' = hit \/ hit' = hit \cup {c}
        /\ \A d \in Conn : d # c => /\ reads'[d] = reads[d] /\ closes'[d] = closes[d]
                                    /\ writes'[d] = writes[d] /\ inHand'[d] = inHand[d]
    BY <1>0, <1>4
       DEF ReadRequest, ReadEof, ReadFailed, Written, WriteFailed, Send, Drop, Free,
           Answered, One, Less, Fault, Spend, counts, flight, env
  \* what errors hit needs no argument
  <2>3. CASE c \in hit'
    BY <2>2, <2>3, BusyLent
  <2>4. CASE c \notin hit'
    <3>1. c \notin hit
      BY <2>2, <2>4
    <3>2. ~Answered(c) => closes[c] = 0 /\ open[c] /\ Somewhere(c)
      <4>1. ~(allocated < c)
        BY <2>2 DEF Lent
      <4>2. c <= allocated
        BY <1>0, <4>1, ConnAssumption DEF Conn, MaxAllocated
      <4>. QED
        BY <1>0, <2>1, <3>1, <4>2 DEF Lent
    \* so a connection that still owes an answer is one that reads
    <3>3. ~Answered(c) => reads[c] > 0
      <4>1. ASSUME ~Answered(c), reads[c] = 0
            PROVE  FALSE
        <5>1. c \notin Free /\ ~(reads[c] + closes[c] > 0)
          BY <1>0, <2>2, <3>2, <4>1
        <5>2. \/ \E i \in 1 .. Len(idle) : idle[i] = c
              \/ \E i \in 1 .. Len(accepts) : accepts[i] = c
          BY <3>2, <4>1, <5>1 DEF Somewhere
        <5>. QED
          BY <3>1, <5>1, <5>2 DEF Lent, AllFree
      <4>. QED
        BY <1>0, <4>1
    <3>4. CASE ReadRequest(c)
      <4>1. reads'[c] = 1 /\ closes'[c] = 0 /\ open'[c]
        BY <1>0, <2>1, <3>1, <3>4 DEF ReadRequest, flight
      <4>2. OneUse(c)' /\ reads'[c] + closes'[c] > 0
        BY <4>1 DEF OneUse
      <4>. QED
        BY <2>2, <4>2, BusyLent
    <3>5. CASE ReadEof(c)
      <4>1. Answered(c)
        BY <2>4, <3>5 DEF ReadEof, Fault, Spend
      <4>2. reads'[c] = 0 /\ closes'[c] = 1 /\ Answered(c)'
        BY <1>0, <2>1, <3>1, <3>5, <4>1 DEF ReadEof, Less, One, Answered
      <4>3. OneUse(c)' /\ reads'[c] + closes'[c] > 0
        BY <4>2 DEF OneUse
      <4>. QED
        BY <2>2, <4>3, BusyLent
    <3>6. CASE Written(c) \/ Send(c) \/ Drop(c)
      <4>1. ~Answered(c)
        BY <1>0, <3>6 DEF Written, Send, Drop, Answered
      <4>2. reads'[c] = 1 /\ closes'[c] = 0 /\ open'[c]
        BY <1>0, <2>1, <2>2, <3>1, <3>2, <3>3, <3>6, <4>1 DEF Written, Send, Drop, flight
      <4>3. OneUse(c)' /\ reads'[c] + closes'[c] > 0
        BY <4>2 DEF OneUse
      <4>. QED
        BY <2>2, <4>3, BusyLent
    <3>. QED
      BY <1>4, <2>4, <3>4, <3>5, <3>6 DEF ReadFailed, WriteFailed, Fault, Spend
  <2>. QED
    BY <2>3, <2>4
<1>5. CASE UNCHANGED vars
  <2>1. \A c : /\ c \in Free' <=> c \in Free
               /\ OneUse(c)' <=> OneUse(c)
               /\ Somewhere(c)' <=> Somewhere(c)
    BY <1>5 DEF vars, flight, Free, Answered, OneUse, Somewhere
  <2>. QED
    BY <1>5, <2>1 DEF vars, counts, flight, env, Lent, Distinct, AllFree, Apart
<1>. QED
  BY <1>1, <1>2, <1>3, <1>4, <1>5 DEF Next, Completion

LEMMA OnePlace ==
  ASSUME NEW s \in Seq(Conn), Distinct(s), NEW c \in Conn \ hit
  PROVE  /\ Cardinality(Places(s, c)) \in {0, 1}
         /\ Cardinality(Places(s, c)) = 1 <=> \E i \in 1 .. Len(s) : s[i] = c
<1>1. CASE \E i \in 1 .. Len(s) : s[i] = c
  <2>1. PICK i \in 1 .. Len(s) : s[i] = c
    BY <1>1
  <2>2. Places(s, c) = {i}
    BY <2>1 DEF Places, Distinct
  <2>. QED
    BY <1>1, <2>2, FS_Singleton
<1>2. CASE ~\E i \in 1 .. Len(s) : s[i] = c
  <2>1. Places(s, c) = {}
    BY <1>2 DEF Places
  <2>2. Cardinality(Places(s, c)) = 0
    BY <2>1, FS_EmptySet
  <2>. QED
    BY <1>2, <2>2
<1>. QED
  BY <1>1, <1>2

\* Where a connection is counted: at most once in the two queues together, and
\* only while no operation is in flight for it.
LEMMA Placed ==
  ASSUME Ledger, Lent, NEW c \in Conn \ hit
  PROVE  /\ Holders(c) <= 1
         /\ Holders(c) - reads[c] > 0 => Answered(c)
         /\ c <= allocated => Holders(c) = 1
<1> DEFINE m == Cardinality(Places(idle, c))
           n == Cardinality(Places(accepts, c))
<1>1. /\ m \in {0, 1} /\ n \in {0, 1}
      /\ m = 1 <=> \E i \in 1 .. Len(idle) : idle[i] = c
      /\ n = 1 <=> \E i \in 1 .. Len(accepts) : accepts[i] = c
  BY OnePlace DEF Ledger, TypeOK, Lent
<1>2. Holders(c) = m + n + reads[c] + closes[c]
  BY DEF Holders
<1> HIDE DEF m, n
<1>3. m = 1 => c \in Free /\ n = 0
  <2>1. ASSUME m = 1, n = 1
        PROVE  FALSE
    BY <1>1, <2>1 DEF Lent, Apart
  <2>. QED
    BY <1>1, <2>1 DEF Lent, AllFree
<1>4. n = 1 => c \in Free
  BY <1>1 DEF Lent, AllFree
<1>5. reads[c] \in Nat /\ closes[c] \in Nat
  BY DEF Ledger, TypeOK
<1>6. /\ reads[c] + closes[c] <= 1
      /\ closes[c] > 0 => Answered(c)
  BY DEF Lent, OneUse
<1>7. c <= allocated => m = 1 \/ n = 1 \/ reads[c] + closes[c] > 0
  BY <1>1 DEF Lent, Somewhere
<1>. QED
  BY <1>1, <1>2, <1>3, <1>4, <1>5, <1>6, <1>7 DEF Free

\* A pooled connection that no error and no early hang-up has hit serves one client
\* at a time, however accepts, reads and closes mix and whatever befalls the others.
THEOREM ExclusiveUse == Spec => []Exclusive
<1>1. Ledger /\ Lent => Exclusive
  BY Placed DEF Exclusive
<1>2. Ledger /\ Lent /\ [Next]_vars => Lent'
  BY NextLent
<1>. QED
  BY <1>1, <1>2, InitLent, LedgerHolds, PTL DEF Spec

\* Such a connection is never lost either: it is in exactly one of the two queues,
\* or the kernel owes it exactly one read or close.
THEOREM NothingLost == Spec => []NoneLost
<1>1. Ledger /\ Lent => NoneLost
  <2> SUFFICES ASSUME Ledger, Lent, NEW c \in (1 .. allocated) \ hit
               PROVE  Holders(c) = 1
    BY DEF NoneLost
  <2>1. allocated \in Nat /\ allocated <= MaxAllocated
    BY ConnAssumption DEF Ledger, TypeOK, MaxAllocated
  <2>2. c \in Conn \ hit /\ c <= allocated
    BY <2>1, ConnAssumption DEF Conn, MaxAllocated
  <2>. QED
    BY <2>2, Placed
<1>2. Ledger /\ Lent /\ [Next]_vars => Lent'
  BY NextLent
<1>. QED
  BY <1>1, <1>2, InitLent, LedgerHolds, PTL DEF Spec
=============================================================================
