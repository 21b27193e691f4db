------------------------- MODULE ServiceSeekerProofs -------------------------
(***************************************************************************)
(* Proofs about HashHeap and ServiceSeeker for any nodes, services and     *)
(* scores, however long etcd changes and the events of it are delayed.     *)
(*                                                                         *)
(* Agree and BestFirst follow from one invariant (Tables): the index of    *)
(* the heap is the table, and the sequence holds the entries of the index, *)
(* each once and in the order of their scores (Sorts).  A turn of the loop *)
(* of watch() or an event, which insert or remove one node, keep it: such a*)
(* sequence without one entry, or with one where its score belongs, is such*)
(* a sequence.                                                             *)
(*                                                                         *)
(* Departing needs another (Sync): of the events of a node that wait the   *)
(* last one says whether etcd has the node (Latest), and a node that the   *)
(* client has and etcd has not has an event that waits (Pending).          *)
(***************************************************************************)
EXTENDS ServiceSeeker, FunctionTheorems, FiniteSetTheorems, SequenceTheorems, WellFoundedInduction, TLAPS

-----------------------------------------------------------------------------
(* The inductive invariant.                                                *)

\* The entries of the keys of f, the best first.
Sorts(sorted, f) ==
    /\ sorted \in Seq(Entry)
    /\ \A i \in 1 .. Len(sorted) : sorted[i].key \in DOMAIN f /\ sorted[i].score = f[sorted[i].key]
    /\ \A k \in DOMAIN f : \E i \in 1 .. Len(sorted) : sorted[i].key = k
    /\ \A i, j \in 1 .. Len(sorted) :
          i < j => sorted[i].key # sorted[j].key /\ sorted[i].score >= sorted[j].score

\* A table of nodes and their scores.
Scored(f) == DOMAIN f \subseteq Node /\ f \in [DOMAIN f -> Score]

Table(meta) == /\ Scored(meta.pond)
               /\ meta.heap.index = meta.pond
               /\ Sorts(meta.heap.sorted, meta.pond)

\* The services with a table, that which watch() fills among them.
Filled == Watched \cup {kv.service : kv \in listed}

Tables == \A s \in Filled : Table(nodes[s])

Events == {e \in [type : {"PUT", "DELETE"}, service : Service, node : Node, score : Score \cup {None}] :
              e.type = "PUT" => e.score \in Score}

Types == /\ etcd \in [Service -> [Node -> Score \cup {None}]]
         /\ events \in Seq(Events)
         /\ nodes = [s \in Service |-> nodes[s]]
         /\ \A kv \in listed : kv.service \in Service /\ kv.node \in Node /\ kv.score \in Score

Inv == Types /\ Tables

About(e, s, n) == e.service = s /\ e.node = n

Waits(s, n) == \E i \in 1 .. Len(events) : About(events[i], s, n)

Latest == \A i \in 1 .. Len(events) :
    \/ \E j \in i + 1 .. Len(events) : About(events[j], events[i].service, events[i].node)
    \/ events[i].type = "PUT" <=> etcd[events[i].service][events[i].node] # None

Pending ==
    /\ \A s \in Filled : \A n \in DOMAIN nodes[s].pond : etcd[s][n] # None \/ Waits(s, n)
    /\ \A kv \in listed : etcd[kv.service][kv.node] # None \/ Waits(kv.service, kv.node)

Sync == Latest /\ Pending

-----------------------------------------------------------------------------
(* Lemmas about sequences.                                                 *)

\* What is before a place and from it on.
LEMMA Parts ==
  ASSUME NEW S, NEW s \in Seq(S), NEW h \in Nat, NEW k \in Nat, NEW n \in Nat,
         n = Len(s), h < k, k <= n + 1
  PROVE  /\ SubSeq(s, 1, h) \in Seq(S) /\ Len(SubSeq(s, 1, h)) = h
         /\ \A j \in 1 .. h : SubSeq(s, 1, h)[j] = s[j]
         /\ SubSeq(s, k, n) \in Seq(S) /\ Len(SubSeq(s, k, n)) = n + 1 - k
         /\ \A j \in 1 .. n + 1 - k : SubSeq(s, k, n)[j] = s[k - 1 + j]
<1>1. \A j \in 1 .. n : s[j] \in S
  BY ElementOfSeq
<1>2. /\ SubSeq(s, 1, h) \in Seq(S) /\ Len(SubSeq(s, 1, h)) = IF 1 <= h THEN h - 1 + 1 ELSE 0
      /\ \A j \in 1 .. h - 1 + 1 : SubSeq(s, 1, h)[j] = s[1 + j - 1]
  <2>1. 1 \in Int /\ h \in Int /\ \A j \in 1 .. h : s[j] \in S
    BY <1>1
  <2>2. QED
    BY <2>1, SubSeqProperties
<1>3. h - 1 + 1 = h /\ (~ (1 <= h) => h = 0) /\ \A j \in 1 .. h : 1 + j - 1 = j
  OBVIOUS
<1>4. /\ SubSeq(s, k, n) \in Seq(S) /\ Len(SubSeq(s, k, n)) = IF k <= n THEN n - k + 1 ELSE 0
      /\ \A j \in 1 .. n - k + 1 : SubSeq(s, k, n)[j] = s[k + j - 1]
  <2>1. k \in Int /\ n \in Int /\ \A j \in k .. n : s[j] \in S
    BY <1>1
  <2>2. QED
    BY <2>1, SubSeqProperties
<1>5. /\ n - k + 1 = n + 1 - k /\ (~ (k <= n) => n + 1 - k = 0)
      /\ \A j \in 1 .. n + 1 - k : k + j - 1 = k - 1 + j
  OBVIOUS
<1>6. QED
  BY <1>2, <1>3, <1>4, <1>5

LEMMA RemoveAtFacts ==
  ASSUME NEW S, NEW s \in Seq(S), NEW i \in 1 .. Len(s)
  PROVE  /\ RemoveAt(s, i) \in Seq(S)
         /\ Len(RemoveAt(s, i)) = Len(s) - 1
         /\ \A j \in 1 .. Len(s) - 1 : RemoveAt(s, i)[j] = IF j < i THEN s[j] ELSE s[j + 1]
<1>1. PICK n \in Nat, h \in Nat, k \in Nat : n = Len(s) /\ h = i - 1 /\ k = i + 1 /\ h + 1 <= n
  BY LenProperties
<1>2. /\ SubSeq(s, 1, h) \in Seq(S) /\ Len(SubSeq(s, 1, h)) = h
      /\ \A j \in 1 .. h : SubSeq(s, 1, h)[j] = s[j]
      /\ SubSeq(s, k, n) \in Seq(S) /\ Len(SubSeq(s, k, n)) = n + 1 - k
      /\ \A j \in 1 .. n + 1 - k : SubSeq(s, k, n)[j] = s[k - 1 + j]
  <2>1. h < k /\ k <= n + 1
    BY <1>1
  <2>2. QED
    BY <1>1, <2>1, Parts
<1>3. PICK a \in Seq(S), b \in Seq(S) :
         /\ a = SubSeq(s, 1, h) /\ b = SubSeq(s, k, n)
         /\ RemoveAt(s, i) = a \o b /\ Len(a) = h /\ Len(b) = n + 1 - k
  BY <1>1, <1>2 DEF RemoveAt
<1>4. /\ a \o b \in Seq(S) /\ Len(a \o b) = h + (n + 1 - k)
      /\ \A j \in 1 .. h + (n + 1 - k) : (a \o b)[j] = IF j <= h THEN a[j] ELSE b[j - h]
  BY <1>3, ConcatProperties
<1>5. h + (n + 1 - k) = n - 1
  BY <1>1
<1>6. ASSUME NEW j \in 1 .. n - 1
      PROVE  (a \o b)[j] = IF j < i THEN s[j] ELSE s[j + 1]
  <2>1. CASE j <= h
    <3>1. j < i /\ j \in 1 .. h
      BY <1>1, <2>1
    <3>2. (a \o b)[j] = a[j]
      BY <1>4, <1>5, <2>1
    <3>3. QED
      BY <1>2, <1>3, <3>1, <3>2
  <2>2. CASE ~ (j <= h)
    <3>1. (a \o b)[j] = b[j - h]
      BY <1>4, <1>5, <2>2
    <3>2. ~ (j < i) /\ j - h \in 1 .. n + 1 - k /\ k - 1 + (j - h) = j + 1
      BY <1>1, <2>2
    <3>3. b[j - h] = s[k - 1 + (j - h)]
      BY <1>2, <1>3, <3>2
    <3>4. QED
      BY <3>1, <3>2, <3>3
  <2>3. QED
    BY <1>1, <2>1, <2>2
<1>7. QED
  BY <1>1, <1>3, <1>4, <1>5, <1>6

LEMMA InsertAtFacts ==
  ASSUME NEW S, NEW s \in Seq(S), NEW p \in 1 .. Len(s) + 1, NEW e \in S
  PROVE  /\ InsertAt(s, p, e) \in Seq(S)
         /\ Len(InsertAt(s, p, e)) = Len(s) + 1
         /\ \A j \in 1 .. Len(s) + 1 :
               InsertAt(s, p, e)[j] = IF j < p THEN s[j] ELSE IF j = p THEN e ELSE s[j - 1]
<1>1. PICK n \in Nat, h \in Nat : n = Len(s) /\ h = p - 1 /\ h < p /\ p <= n + 1 /\ p \in Nat
  BY LenProperties
<1>2. /\ SubSeq(s, 1, h) \in Seq(S) /\ Len(SubSeq(s, 1, h)) = h
      /\ \A j \in 1 .. h : SubSeq(s, 1, h)[j] = s[j]
      /\ SubSeq(s, p, n) \in Seq(S) /\ Len(SubSeq(s, p, n)) = n + 1 - p
      /\ \A j \in 1 .. n + 1 - p : SubSeq(s, p, n)[j] = s[p - 1 + j]
  BY <1>1, Parts
<1>3. PICK a \in Seq(S), b \in Seq(S), c \in Seq(S) :
         /\ a = SubSeq(s, 1, h) /\ b = SubSeq(s, p, n) /\ c = <<e>>
         /\ InsertAt(s, p, e) = (a \o c) \o b
         /\ Len(a) = h /\ Len(b) = n + 1 - p /\ Len(c) = 1 /\ c[1] = e
  <2>1. <<e>> \in Seq(S) /\ Len(<<e>>) = 1 /\ <<e>>[1] = e
    OBVIOUS
  <2>2. InsertAt(s, p, e) = (SubSeq(s, 1, h) \o <<e>>) \o SubSeq(s, p, n)
    BY <1>1, Zenon DEF InsertAt
  <2>3. QED
    BY <1>2, <2>1, <2>2
<1>4. /\ a \o c \in Seq(S) /\ Len(a \o c) = h + 1
      /\ \A j \in 1 .. h + 1 : (a \o c)[j] = IF j <= h THEN a[j] ELSE c[j - h]
  BY <1>3, ConcatProperties
<1>5. PICK d \in Seq(S) : d = a \o c
  BY <1>4
<1>6. /\ d \o b \in Seq(S) /\ Len(d \o b) = (h + 1) + (n + 1 - p)
      /\ \A j \in 1 .. (h + 1) + (n + 1 - p) :
            (d \o b)[j] = IF j <= h + 1 THEN d[j] ELSE b[j - (h + 1)]
  BY <1>3, <1>4, <1>5, ConcatProperties
<1>7. (h + 1) + (n + 1 - p) = n + 1 /\ h + 1 = p
  BY <1>1
<1>8. ASSUME NEW j \in 1 .. n + 1
      PROVE  (d \o b)[j] = IF j < p THEN s[j] ELSE IF j = p THEN e ELSE s[j - 1]
  <2>1. CASE j < p
    <3>1. j <= h /\ j <= h + 1 /\ j \in 1 .. h /\ j \in 1 .. h + 1
      BY <1>1, <2>1
    <3>2. (d \o b)[j] = d[j]
      BY <1>6, <1>7, <3>1
    <3>3. d[j] = a[j] /\ a[j] = s[j]
      BY <1>2, <1>3, <1>4, <1>5, <3>1
    <3>4. QED
      BY <2>1, <3>2, <3>3
  <2>2. CASE j = p
    <3>1. ~ (j < p) /\ ~ (j <= h) /\ j <= h + 1 /\ j \in 1 .. h + 1 /\ j - h = 1
      BY <1>1, <2>2
    <3>2. (d \o b)[j] = d[j]
      BY <1>6, <1>7, <3>1
    <3>3. d[j] = c[1]
      BY <1>4, <1>5, <3>1
    <3>4. QED
      BY <1>3, <2>2, <3>1, <3>2, <3>3
  <2>3. CASE j > p
    <3>1. ~ (j < p) /\ j # p /\ ~ (j <= h + 1)
      BY <1>1, <2>3
    <3>2. (d \o b)[j] = b[j - (h + 1)]
      BY <1>6, <1>7, <3>1
    <3>3. j - (h + 1) \in 1 .. n + 1 - p /\ p - 1 + (j - (h + 1)) = j - 1
      BY <1>1, <2>3
    <3>4. b[j - (h + 1)] = s[p - 1 + (j - (h + 1))]
      BY <1>2, <1>3, <3>3
    <3>5. QED
      BY <3>1, <3>2, <3>3, <3>4
  <2>4. j < p \/ j = p \/ j > p
    BY <1>1
  <2>5. QED
    BY <2>1, <2>2, <2>3, <2>4
<1>9. QED
  BY <1>1, <1>3, <1>5, <1>6, <1>7, <1>8

-----------------------------------------------------------------------------
(* Lemmas about HashHeap.                                                  *)

LEMMA SortsEntry ==
  ASSUME NEW f, NEW s, Sorts(s, f), NEW i \in 1 .. Len(s)
  PROVE  /\ s[i] \in Entry /\ s[i].key \in Key /\ s[i].score \in Score /\ s[i].score \in Int
         /\ s[i].key \in DOMAIN f /\ s[i].score = f[s[i].key]
<1>1. s[i] \in Entry
  BY ElementOfSeq DEF Sorts
<1>2. QED
  BY <1>1, HeapAssumption DEF Sorts, Entry

LEMMA SortsDistinct ==
  ASSUME NEW f, NEW s, Sorts(s, f), NEW i \in 1 .. Len(s), NEW j \in 1 .. Len(s),
         s[i].key = s[j].key
  PROVE  i = j
<1>1. ~ (i < j) /\ ~ (j < i)
  BY DEF Sorts
<1>2. QED
  BY <1>1

\* A table without a node, and with one.
LEMMA WithoutFacts ==
  ASSUME NEW f, NEW k
  PROVE  /\ DOMAIN Without(f, k) = DOMAIN f \ {k}
         /\ \A x \in DOMAIN f \ {k} : Without(f, k)[x] = f[x]
         /\ Scored(f) => Scored(Without(f, k))
  BY DEF Without, Scored

LEMMA WithFacts ==
  ASSUME NEW f, NEW k, NEW v
  PROVE  /\ DOMAIN With(f, k, v) = DOMAIN f \cup {k}
         /\ \A x \in DOMAIN f \ {k} : With(f, k, v)[x] = f[x]
         /\ With(f, k, v)[k] = v
         /\ Scored(f) /\ k \in Node /\ v \in Score => Scored(With(f, k, v))
<1>1. /\ DOMAIN With(f, k, v) = DOMAIN f \cup {k}
      /\ \A x \in DOMAIN f \ {k} : With(f, k, v)[x] = f[x]
      /\ With(f, k, v)[k] = v
  BY DEF With
<1>2. Scored(f) /\ k \in Node /\ v \in Score => Scored(With(f, k, v))
  BY DEF With, Scored
<1>3. QED
  BY <1>1, <1>2

LEMMA WithAgain ==
  ASSUME NEW f, NEW k, NEW v
  PROVE  With(Without(f, k), k, v) = With(f, k, v)
<1>1. DOMAIN Without(f, k) \cup {k} = DOMAIN f \cup {k}
  BY WithoutFacts
<1>2. ASSUME NEW x \in DOMAIN f \cup {k}
      PROVE  (IF x = k THEN v ELSE Without(f, k)[x]) = (IF x = k THEN v ELSE f[x])
  BY WithoutFacts
<1>3. QED
  BY <1>1, <1>2 DEF With

\* multimap::erase() at the iterator of a known key takes its entry and no other.
LEMMA EraseSorts ==
  ASSUME NEW f, NEW s, Sorts(s, f), NEW k \in DOMAIN f
  PROVE  Sorts(Erase(s, k), Without(f, k))
<1>1. PICK n \in Nat : n = Len(s) /\ DOMAIN s = 1 .. n
  BY LenProperties DEF Sorts
<1>2. PICK c \in 1 .. n : s[c].key = k /\ Erase(s, k) = RemoveAt(s, c)
  <2>1. \E i \in DOMAIN s : s[i].key = k
    BY <1>1 DEF Sorts
  <2>2. QED
    BY <1>1, <2>1 DEF Erase
<1>3. PICK t : t = Erase(s, k)
  OBVIOUS
<1> DEFINE From(j) == IF j < c THEN j ELSE j + 1
<1>4. /\ t \in Seq(Entry) /\ Len(t) = n - 1
      /\ \A j \in 1 .. n - 1 : t[j] = s[From(j)]
  <2>1. s \in Seq(Entry) /\ c \in 1 .. Len(s)
    BY <1>1 DEF Sorts
  <2>2. /\ RemoveAt(s, c) \in Seq(Entry) /\ Len(RemoveAt(s, c)) = Len(s) - 1
        /\ \A j \in 1 .. Len(s) - 1 : RemoveAt(s, c)[j] = IF j < c THEN s[j] ELSE s[j + 1]
    BY <2>1, RemoveAtFacts
  <2>3. QED
    BY <1>1, <1>2, <1>3, <2>2
<1>5. \A j \in 1 .. n - 1 : From(j) \in 1 .. n /\ From(j) # c
  OBVIOUS
<1>6. \A i, j \in 1 .. n - 1 : i < j => From(i) < From(j)
  OBVIOUS
<1>7. \A i \in 1 .. n : i # c => \E j \in 1 .. n - 1 : From(j) = i
  <2> SUFFICES ASSUME NEW i \in 1 .. n, i # c
               PROVE  \E j \in 1 .. n - 1 : From(j) = i
    OBVIOUS
  <2>1. CASE i < c
    BY <2>1
  <2>2. CASE i > c
    <3>1. i - 1 \in 1 .. n - 1 /\ From(i - 1) = i
      BY <2>2
    <3>2. QED
      BY <3>1
  <2>3. QED
    BY <2>1, <2>2
<1> HIDE DEF From
<1>8. ASSUME NEW j \in 1 .. n - 1
      PROVE  /\ t[j].key \in DOMAIN Without(f, k)
             /\ t[j].score = Without(f, k)[t[j].key]
  <2>1. PICK i \in 1 .. n : i = From(j) /\ t[j] = s[i] /\ i # c
    BY <1>4, <1>5
  <2>2. s[i].key # k
    BY <1>1, <1>2, <2>1, SortsDistinct
  <2>3. s[i].key \in DOMAIN f \ {k} /\ s[i].score = f[s[i].key]
    BY <1>1, <2>2, SortsEntry
  <2>4. s[i].key \in DOMAIN Without(f, k) /\ Without(f, k)[s[i].key] = f[s[i].key]
    BY <2>3, WithoutFacts
  <2>5. QED
    BY <2>1, <2>3, <2>4
<1>9. ASSUME NEW x \in DOMAIN Without(f, k)
      PROVE  \E j \in 1 .. n - 1 : t[j].key = x
  <2>1. x \in DOMAIN f /\ x # k
    BY WithoutFacts
  <2>2. PICK i \in 1 .. n : s[i].key = x
    BY <1>1, <2>1 DEF Sorts
  <2>3. i # c
    BY <1>2, <2>1, <2>2
  <2>4. PICK j \in 1 .. n - 1 : From(j) = i
    BY <1>7, <2>3
  <2>5. QED
    BY <1>4, <2>2, <2>4
<1>10. ASSUME NEW i \in 1 .. n - 1, NEW j \in 1 .. n - 1, i < j
       PROVE  t[i].key # t[j].key /\ t[i].score >= t[j].score
  <2>1. PICK a \in 1 .. n, b \in 1 .. n : a = From(i) /\ b = From(j) /\ t[i] = s[a] /\ t[j] = s[b] /\ a < b
    BY <1>4, <1>5, <1>6, <1>10
  <2>2. s[a].key # s[b].key /\ s[a].score >= s[b].score
    BY <1>1, <2>1 DEF Sorts
  <2>3. QED
    BY <2>1, <2>2
<1>11. QED
  BY <1>3, <1>4, <1>8, <1>9, <1>10 DEF Sorts

\* multimap::emplace() has a place for every score.
LEMMA EmplaceAt ==
  ASSUME NEW f, NEW s, Sorts(s, f), NEW v \in Score
  PROVE  \E p \in 1 .. Len(s) + 1 : \A i \in DOMAIN s : i < p <=> s[i].score >= v
<1>1. PICK n \in Nat : n = Len(s) /\ DOMAIN s = 1 .. n
  BY LenProperties DEF Sorts
<1>2. \A i \in 1 .. n : s[i].score \in Int
  BY <1>1, SortsEntry
<1>3. v \in Int
  BY HeapAssumption
<1> DEFINE T == {i \in 1 .. n + 1 : i = n + 1 \/ s[i].score < v}
<1>4. T \subseteq Nat /\ n + 1 \in T
  OBVIOUS
<1>5. \E p \in T : \A i \in T : ~ (<<i, p>> \in OpToRel(<, Nat))
  BY <1>4, NatLessThanWellFounded, WFMin
<1>6. PICK p \in T : \A i \in T : ~ (i < p)
  BY <1>4, <1>5 DEF OpToRel
<1>7. ASSUME NEW i \in 1 .. n
      PROVE  i < p <=> s[i].score >= v
  <2>1. CASE i < p
    <3>1. i \notin T
      BY <1>6, <2>1
    <3>2. ~ (s[i].score < v)
      BY <3>1
    <3>3. QED
      BY <1>2, <1>3, <2>1, <3>2
  <2>2. CASE i = p
    <3>1. s[i].score < v
      BY <2>2
    <3>2. QED
      BY <1>2, <1>3, <2>2, <3>1
  <2>3. CASE i > p
    <3>1. p \in 1 .. n /\ s[p].score < v
      BY <2>3
    <3>2. s[p].score >= s[i].score
      BY <1>1, <2>3, <3>1 DEF Sorts
    <3>3. QED
      BY <1>2, <1>3, <2>3, <3>1, <3>2
  <2>4. QED
    BY <1>4, <2>1, <2>2, <2>3
<1>8. QED
  BY <1>1, <1>7

\* The entry of a new key goes where its score belongs.
LEMMA EmplaceSorts ==
  ASSUME NEW f, NEW s, Sorts(s, f), NEW k \in Key, k \notin DOMAIN f, NEW v \in Score
  PROVE  Sorts(Emplace(s, k, v), With(f, k, v))
<1>1. PICK n \in Nat : n = Len(s) /\ DOMAIN s = 1 .. n
  BY LenProperties DEF Sorts
<1>2. PICK e \in Entry : e = [key |-> k, score |-> v] /\ e.key = k /\ e.score = v
  <2>1. [key |-> k, score |-> v] \in Entry
    BY DEF Entry
  <2>2. [key |-> k, score |-> v].key = k /\ [key |-> k, score |-> v].score = v
    OBVIOUS
  <2>3. QED
    BY <2>1, <2>2
<1>3. PICK p \in 1 .. n + 1 :
         /\ \A i \in 1 .. n : i < p <=> s[i].score >= v
         /\ Emplace(s, k, v) = InsertAt(s, p, e)
  BY <1>1, <1>2, EmplaceAt DEF Emplace
<1>4. PICK t : t = Emplace(s, k, v)
  OBVIOUS
<1>4a. PICK g : /\ g = With(f, k, v) /\ DOMAIN g = DOMAIN f \cup {k}
               /\ (\A x \in DOMAIN f \ {k} : g[x] = f[x]) /\ g[k] = v
  <2>1. /\ DOMAIN With(f, k, v) = DOMAIN f \cup {k}
        /\ \A x \in DOMAIN f \ {k} : With(f, k, v)[x] = f[x]
        /\ With(f, k, v)[k] = v
    BY DEF With
  <2>2. QED
    BY <2>1
<1>5. /\ t \in Seq(Entry) /\ Len(t) = n + 1
      /\ \A j \in 1 .. n + 1 : t[j] = IF j < p THEN s[j] ELSE IF j = p THEN e ELSE s[j - 1]
  <2>1. s \in Seq(Entry) /\ p \in 1 .. Len(s) + 1
    BY <1>1 DEF Sorts
  <2>2. /\ InsertAt(s, p, e) \in Seq(Entry) /\ Len(InsertAt(s, p, e)) = Len(s) + 1
        /\ \A j \in 1 .. Len(s) + 1 :
              InsertAt(s, p, e)[j] = IF j < p THEN s[j] ELSE IF j = p THEN e ELSE s[j - 1]
    BY <2>1, InsertAtFacts
  <2>3. QED
    BY <1>1, <1>3, <1>4, <2>2
<1> DEFINE From(j) == IF j < p THEN j ELSE j - 1
<1>6. \A j \in 1 .. n + 1 : j # p => From(j) \in 1 .. n /\ t[j] = s[From(j)]
  BY <1>5
<1>7. t[p] = e
  BY <1>5
<1>8. \A i, j \in 1 .. n + 1 : i # p /\ j # p /\ i < j => From(i) < From(j)
  OBVIOUS
<1>9. \A i \in 1 .. n : \E j \in 1 .. n + 1 : j # p /\ From(j) = i
  <2> SUFFICES ASSUME NEW i \in 1 .. n
               PROVE  \E j \in 1 .. n + 1 : j # p /\ From(j) = i
    OBVIOUS
  <2>1. CASE i < p
    BY <2>1
  <2>2. CASE i >= p
    <3>1. i + 1 \in 1 .. n + 1 /\ i + 1 # p /\ From(i + 1) = i
      BY <2>2
    <3>2. QED
      BY <3>1
  <2>3. QED
    BY <2>1, <2>2
<1>10. \A j \in 1 .. n + 1 : /\ j < p => From(j) < p
                             /\ j > p => ~ (From(j) < p)
  OBVIOUS
<1> HIDE DEF From
<1>11. ASSUME NEW j \in 1 .. n + 1, j # p
       PROVE  t[j].key \in DOMAIN f /\ t[j].score = f[t[j].key] /\ t[j].score \in Int
  BY <1>1, <1>6, <1>11, SortsEntry
<1>12. ASSUME NEW j \in 1 .. n + 1
       PROVE  /\ t[j].key \in DOMAIN g
              /\ t[j].score = g[t[j].key]
  <2>1. CASE j = p
    BY <1>4a, <1>2, <1>7, <2>1
  <2>2. CASE j # p
    <3>1. t[j].key \in DOMAIN f \ {k} /\ t[j].score = f[t[j].key]
      BY <1>11, <2>2
    <3>2. QED
      BY <1>4a, <3>1
  <2>3. QED
    BY <2>1, <2>2
<1>13. ASSUME NEW x \in DOMAIN g
       PROVE  \E j \in 1 .. n + 1 : t[j].key = x
  <2>1. CASE x = k
    BY <1>2, <1>7, <2>1
  <2>2. CASE x # k
    <3>1. x \in DOMAIN f
      BY <1>4a, <2>2
    <3>2. PICK i \in 1 .. n : s[i].key = x
      BY <1>1, <3>1 DEF Sorts
    <3>3. QED
      BY <1>6, <1>9, <3>2
  <2>3. QED
    BY <2>1, <2>2
<1>14. ASSUME NEW i \in 1 .. n + 1, NEW j \in 1 .. n + 1, i < j
       PROVE  t[i].key # t[j].key /\ t[i].score >= t[j].score
  <2>1. CASE i # p /\ j # p
    <3>1. PICK a \in 1 .. n, b \in 1 .. n : t[i] = s[a] /\ t[j] = s[b] /\ a < b
      BY <1>6, <1>8, <1>14, <2>1
    <3>2. s[a].key # s[b].key /\ s[a].score >= s[b].score
      BY <1>1, <3>1 DEF Sorts
    <3>3. QED
      BY <3>1, <3>2
  <2>2. CASE j = p
    <3>1. i # p /\ i < p
      BY <1>14, <2>2
    <3>2. PICK a \in 1 .. n : t[i] = s[a] /\ a < p
      BY <1>6, <1>10, <3>1
    <3>3. s[a].score >= v
      BY <1>3, <3>2
    <3>4. t[i].key # k
      BY <1>11, <3>1
    <3>5. t[j] = e
      BY <1>7, <2>2
    <3>6. QED
      BY <1>2, <3>2, <3>3, <3>4, <3>5
  <2>3. CASE i = p
    <3>1. j # p /\ j > p
      BY <1>14, <2>3
    <3>2. PICK b \in 1 .. n : t[j] = s[b] /\ ~ (b < p)
      BY <1>6, <1>10, <3>1
    <3>3. ~ (s[b].score >= v) /\ s[b].score \in Int /\ v \in Int
      BY <1>1, <1>3, <3>2, SortsEntry, HeapAssumption
    <3>4. t[j].key # k
      BY <1>11, <3>1
    <3>5. t[i] = e
      BY <1>7, <2>3
    <3>6. v >= s[b].score
      BY <3>3
    <3>7. QED
      BY <1>2, <3>2, <3>4, <3>5, <3>6
  <2>4. QED
    BY <2>1, <2>2, <2>3
<1>15. QED
  <2>1. Sorts(t, g)
    BY <1>5, <1>12, <1>13, <1>14 DEF Sorts
  <2>2. QED
    BY <1>4a, <1>4, <2>1

\* A known node that is inserted again keeps one entry, a new one gets one.
LEMMA AddedTable ==
  ASSUME NEW meta, Table(meta), NEW n \in Node, NEW v \in Score
  PROVE  Table(Added(meta, n, v))
<1>1. PICK f, h, s : /\ f = meta.pond /\ h = meta.heap /\ h.index = f /\ s = h.sorted
                     /\ Scored(f) /\ Sorts(s, f)
  BY DEF Table
<1>2. PICK g : g = With(f, n, v) /\ Scored(g)
  BY <1>1, WithFacts
<1>3. /\ Added(meta, n, v).pond = g
      /\ Added(meta, n, v).heap = insert(h, n, v)
  BY <1>1, <1>2 DEF Added
<1>4. /\ insert(h, n, v).index = g
      /\ insert(h, n, v).sorted = Emplace(IF n \in DOMAIN f THEN Erase(s, n) ELSE s, n, v)
  BY <1>1, <1>2 DEF insert
<1>5. Sorts(insert(h, n, v).sorted, g)
  <2>1. n \in Key
    BY DEF Node
  <2>2. CASE n \in DOMAIN f
    <3>1. Sorts(Erase(s, n), Without(f, n))
      BY <1>1, <2>2, EraseSorts
    <3>2. n \notin DOMAIN Without(f, n)
      BY DEF Without
    <3>3. Sorts(Emplace(Erase(s, n), n, v), With(Without(f, n), n, v))
      BY <2>1, <3>1, <3>2, EmplaceSorts
    <3>4. With(Without(f, n), n, v) = g
      BY <1>2, WithAgain
    <3>5. QED
      BY <1>4, <2>2, <3>3, <3>4
  <2>3. CASE n \notin DOMAIN f
    <3>1. Sorts(Emplace(s, n, v), With(f, n, v))
      BY <1>1, <2>1, <2>3, EmplaceSorts
    <3>2. QED
      BY <1>2, <1>4, <2>3, <3>1
  <2>4. QED
    BY <2>2, <2>3
<1>6. QED
  BY <1>2, <1>3, <1>4, <1>5 DEF Table

\* A node that is removed is gone from the table and the heap, known or not.
LEMMA RemovedTable ==
  ASSUME NEW meta, Table(meta), NEW n, NEW heap \in remove(meta.heap, n)
  PROVE  Table([pond |-> Without(meta.pond, n), heap |-> heap])
<1>1. PICK f, h, s : /\ f = meta.pond /\ h = meta.heap /\ h.index = f /\ s = h.sorted
                     /\ Scored(f) /\ Sorts(s, f)
  BY DEF Table
<1>2. PICK g : g = Without(f, n) /\ Scored(g)
  BY <1>1, WithoutFacts
<1>3. /\ heap.index = g
      /\ heap.sorted = IF n \in DOMAIN f THEN Erase(s, n) ELSE s
  <2>1. PICK r \in remove_random_key(h, n) :
           heap = [sorted |-> IF n \in DOMAIN h.index THEN Erase(h.sorted, n) ELSE h.sorted,
                   index  |-> Without(h.index, n), list |-> r.list, pos |-> r.pos]
    BY <1>1 DEF remove
  <2>2. QED
    BY <1>1, <1>2, <2>1
<1>4. Sorts(heap.sorted, g)
  <2>1. CASE n \in DOMAIN f
    BY <1>1, <1>2, <1>3, <2>1, EraseSorts
  <2>2. CASE n \notin DOMAIN f
    <3>1. f = [x \in DOMAIN f |-> f[x]] /\ DOMAIN f \ {n} = DOMAIN f
      BY <1>1, <2>2 DEF Scored
    <3>2. g = f
      BY <1>2, <3>1 DEF Without
    <3>3. QED
      BY <1>1, <1>3, <2>2, <3>2
  <2>3. QED
    BY <2>1, <2>2
<1>5. QED
  BY <1>1, <1>2, <1>3, <1>4 DEF Table

LEMMA EmptyTable == Table(NoNodes)
<1>1. <<>> \in Seq(Entry) /\ Len(<<>>) = 0 /\ DOMAIN <<>> = {}
  BY EmptySeq
<1>2. /\ NoNodes.pond = <<>> /\ NoNodes.heap.index = <<>> /\ NoNodes.heap.sorted = <<>>
  BY DEF NoNodes, EmptyHeap
<1>3. Scored(<<>>)
  <2>1. <<>> \in [{} -> Score]
    OBVIOUS
  <2>2. QED
    BY <1>1, <2>1 DEF Scored
<1>4. Sorts(<<>>, <<>>)
  BY <1>1 DEF Sorts
<1>5. QED
  BY <1>2, <1>3, <1>4 DEF Table

-----------------------------------------------------------------------------
(* What the invariant says of a table.                                     *)

\* An entry for each node, and a node for each entry.
LEMMA TableAgrees ==
  ASSUME NEW meta, Table(meta)
  PROVE  /\ DOMAIN meta.heap.index = DOMAIN meta.pond
         /\ {meta.heap.sorted[i].key : i \in DOMAIN meta.heap.sorted} = DOMAIN meta.pond
         /\ Len(meta.heap.sorted) = Cardinality(DOMAIN meta.pond)
<1>1. PICK f, s : f = meta.pond /\ meta.heap.index = f /\ s = meta.heap.sorted /\ Sorts(s, f)
  BY DEF Table
<1>2. PICK n \in Nat : n = Len(s) /\ DOMAIN s = 1 .. n
  BY <1>1, LenProperties DEF Sorts
<1>3. {s[i].key : i \in DOMAIN s} = DOMAIN f
  <2>1. \A i \in 1 .. n : s[i].key \in DOMAIN f
    BY <1>1, <1>2 DEF Sorts
  <2>2. \A k \in DOMAIN f : \E i \in 1 .. n : s[i].key = k
    BY <1>1, <1>2 DEF Sorts
  <2>3. QED
    BY <1>2, <2>1, <2>2
<1> DEFINE keys == [i \in 1 .. n |-> s[i].key]
<1>4. keys \in Bijection(1 .. n, DOMAIN f)
  <2>1. keys \in [1 .. n -> DOMAIN f]
    BY <1>1, <1>2 DEF Sorts
  <2>2. \A i, j \in 1 .. n : keys[i] = keys[j] => i = j
    BY <1>1, <1>2, SortsDistinct
  <2>3. \A k \in DOMAIN f : \E i \in 1 .. n : keys[i] = k
    BY <1>1, <1>2 DEF Sorts
  <2>4. QED
    BY <2>1, <2>2, <2>3, Fun_IsBij
<1>5. n = Cardinality(DOMAIN f)
  <2>1. ExistsBijection(1 .. n, DOMAIN f)
    BY <1>4 DEF ExistsBijection
  <2>2. IsFiniteSet(1 .. n) /\ Cardinality(1 .. n) = n
    BY FS_Interval
  <2>3. QED
    BY <2>1, <2>2, FS_Bijection
<1>6. QED
  BY <1>1, <1>2, <1>3, <1>5

LEMMA TableBest ==
  ASSUME NEW meta, Table(meta)
  PROVE  IF meta.pond = <<>> THEN maxOne(meta.heap) = {}
         ELSE \E best \in DOMAIN meta.pond :
                 /\ maxOne(meta.heap) = {best}
                 /\ \A n \in DOMAIN meta.pond : meta.pond[n] <= meta.pond[best]
<1>1. PICK f, s : f = meta.pond /\ s = meta.heap.sorted /\ Sorts(s, f) /\ Scored(f)
  BY DEF Table
<1>2. PICK n \in Nat : n = Len(s) /\ DOMAIN s = 1 .. n
  BY <1>1, LenProperties DEF Sorts
<1>3. maxOne(meta.heap) = {s[i].key : i \in (1 .. n) \cap {1}}
  BY <1>1, <1>2 DEF maxOne
<1>4. CASE n = 0
  <2>1. maxOne(meta.heap) = {}
    BY <1>3, <1>4
  <2>2. DOMAIN f = {}
    BY <1>1, <1>2, <1>4 DEF Sorts
  <2>3. f = <<>>
    <3>1. f \in [{} -> Score] /\ <<>> \in [{} -> Score]
      BY <1>1, <2>2 DEF Scored
    <3>2. QED
      BY <3>1
  <2>4. QED
    BY <1>1, <2>1, <2>3
<1>5. CASE n # 0
  <2>1. 1 \in 1 .. n
    BY <1>5
  <2>2. PICK best : best = s[1].key
    OBVIOUS
  <2>3. maxOne(meta.heap) = {best}
    BY <1>3, <2>1, <2>2
  <2>4. best \in DOMAIN f /\ s[1].score = f[best] /\ s[1].score \in Int
    BY <1>1, <1>2, <2>1, <2>2, SortsEntry
  <2>5. f # <<>>
    BY <2>4
  <2>6. ASSUME NEW x \in DOMAIN f
        PROVE  f[x] <= f[best]
    <3>1. PICK i \in 1 .. n : s[i].key = x
      BY <1>1, <1>2 DEF Sorts
    <3>2. s[i].score = f[x] /\ s[i].score \in Int
      BY <1>1, <1>2, <3>1, SortsEntry
    <3>3. CASE i = 1
      BY <2>4, <3>2, <3>3
    <3>4. CASE 1 < i
      <4>1. s[1].score >= s[i].score
        BY <1>1, <1>2, <2>1, <3>4 DEF Sorts
      <4>2. QED
        BY <2>4, <3>2, <4>1
    <3>5. QED
      BY <3>3, <3>4
  <2>7. QED
    BY <1>1, <2>3, <2>4, <2>5, <2>6
<1>6. QED
  BY <1>4, <1>5

-----------------------------------------------------------------------------
(* The invariant is inductive.                                             *)

LEMMA Initially == Init => Inv
<1> SUFFICES ASSUME Init PROVE Inv
  OBVIOUS
<1>1. Watched = {} /\ nodes = [s \in Service |-> nodes[s]]
  BY DEF Init, Watched
<1>2. Types
  BY <1>1, EmptySeq DEF Init, Types
<1>3. Tables
  BY <1>1 DEF Init, Tables, Filled
<1>4. QED
  BY <1>2, <1>3 DEF Inv

\* A new event, nothing else of the client.
LEMMA Told ==
  ASSUME Inv, NEW e \in Events, etcd' \in [Service -> [Node -> Score \cup {None}]],
         events' \in {Append(events, e), <<e>>}, UNCHANGED <<nodes, listed>>
  PROVE  Inv'
<1>1. Watched' = Watched
  BY DEF Watched
<1>2. events' \in Seq(Events)
  <2>1. events \in Seq(Events)
    BY DEF Inv, Types
  <2>2. Append(events, e) \in Seq(Events) /\ <<e>> \in Seq(Events)
    BY <2>1
  <2>3. QED
    BY <2>2
<1>3. Types'
  BY <1>1, <1>2 DEF Inv, Types
<1>4. Tables'
  BY <1>1 DEF Inv, Tables, Filled
<1>5. QED
  BY <1>3, <1>4 DEF Inv

LEMMA PutStep ==
  ASSUME Inv, NEW s \in Service, NEW n \in Node, NEW v \in Score, Put(s, n, v)
  PROVE  Inv'
<1>1. Event("PUT", s, n, v) \in Events
  BY DEF Event, Events
<1>2. etcd' \in [Service -> [Node -> Score \cup {None}]]
  BY DEF Put, Inv, Types
<1>3. QED
  BY <1>1, <1>2, Told DEF Put

LEMMA LeaveStep ==
  ASSUME Inv, NEW s \in Service, NEW n \in Node, Leave(s, n)
  PROVE  Inv'
<1>1. Event("DELETE", s, n, None) \in Events
  BY DEF Event, Events
<1>2. etcd' \in [Service -> [Node -> Score \cup {None}]]
  BY DEF Leave, Inv, Types
<1>3. QED
  BY <1>1, <1>2, Told DEF Leave

LEMMA HeartbeatStep ==
  ASSUME Inv, NEW s \in Service, NEW n \in Node, Heartbeat(s, n)
  PROVE  Inv'
<1>1. etcd[s][n] \in Score
  BY DEF Heartbeat, Inv, Types
<1>2. Event("PUT", s, n, etcd[s][n]) \in Events
  BY <1>1 DEF Event, Events
<1>3. etcd' \in [Service -> [Node -> Score \cup {None}]]
  BY DEF Heartbeat, Inv, Types
<1>4. QED
  BY <1>2, <1>3, Told DEF Heartbeat

\* One service gets a table of which the invariant holds; what watch() has listed is for it
\* or for services it was for before.
LEMMA OneTable ==
  ASSUME Inv, NEW s \in Service, NEW meta, Table(meta), nodes' = [nodes EXCEPT ![s] = meta],
         \A kv \in listed' : kv.service = s \/ kv \in listed
  PROVE  Tables' /\ nodes' = [x \in Service |-> nodes'[x]]
<1>1. nodes = [x \in Service |-> nodes[x]]
  BY DEF Inv, Types
<1>2. /\ nodes' = [x \in Service |-> nodes'[x]] /\ nodes'[s] = meta
      /\ \A x \in Service : x # s => nodes'[x] = nodes[x]
  BY <1>1
<1>3. ASSUME NEW x \in Filled'
      PROVE  Table(nodes'[x])
  <2>1. CASE x = s
    BY <1>2, <2>1
  <2>2. CASE x # s
    <3>1. x \in Watched' \/ x \in {kv.service : kv \in listed}
      BY <1>3, <2>2 DEF Filled
    <3>2. x \in Service
      BY <3>1 DEF Inv, Types, Watched
    <3>3. nodes'[x] = nodes[x]
      BY <1>2, <2>2, <3>2
    <3>4. x \in Filled
      BY <3>1, <3>3 DEF Watched, Filled
    <3>5. QED
      BY <3>3, <3>4 DEF Inv, Tables, Filled
  <2>3. QED
    BY <2>1, <2>2
<1>4. Tables'
  BY <1>3 DEF Tables, Filled
<1>5. QED
  BY <1>2, <1>4

LEMMA WatchStep ==
  ASSUME Inv, NEW s \in Service, Watch(s)
  PROVE  Inv'
<1>1. PICK found \in {Registered(s), {}} :
         listed' = {[service |-> s, node |-> n, score |-> etcd[s][n]] : n \in found}
  BY DEF Watch
<1>2. \A n \in found : n \in Node /\ etcd[s][n] \in Score
  BY <1>1 DEF Registered, Inv, Types
<1>3. \A kv \in listed' : kv.service = s /\ kv.node \in Node /\ kv.score \in Score
  BY <1>1, <1>2
<1>4. Tables' /\ nodes' = [x \in Service |-> nodes'[x]]
  BY <1>3, EmptyTable, OneTable DEF Watch
<1>5. Types'
  BY <1>3, <1>4 DEF Watch, Inv, Types
<1>6. QED
  BY <1>4, <1>5 DEF Inv

LEMMA WatchNodeStep ==
  ASSUME Inv, WatchNode
  PROVE  Inv'
<1>1. PICK kv \in listed :
         /\ nodes' = [nodes EXCEPT ![kv.service] = Added(nodes[kv.service], kv.node, kv.score)]
         /\ listed' = listed \ {kv}
  BY DEF WatchNode
<1>2. kv.service \in Service /\ kv.node \in Node /\ kv.score \in Score
  BY DEF Inv, Types
<1>3. PICK meta : meta = Added(nodes[kv.service], kv.node, kv.score) /\ Table(meta)
  <2>1. Table(nodes[kv.service])
    BY DEF Inv, Tables, Filled
  <2>2. QED
    BY <1>2, <2>1, AddedTable
<1>4. Tables' /\ nodes' = [x \in Service |-> nodes'[x]]
  BY <1>1, <1>2, <1>3, OneTable
<1>5. Types'
  BY <1>1, <1>4 DEF WatchNode, Inv, Types
<1>6. QED
  BY <1>4, <1>5 DEF Inv

LEMMA UnwatchStep ==
  ASSUME Inv, NEW s \in Service, Unwatch(s)
  PROVE  Inv'
<1>1. nodes' = [nodes EXCEPT ![s] = None] /\ listed = {} /\ listed' = {}
  BY DEF Unwatch, Unlocked
<1>2. nodes = [x \in Service |-> nodes[x]]
  BY DEF Inv, Types
<1>3. /\ nodes' = [x \in Service |-> nodes'[x]] /\ nodes'[s] = None
      /\ \A x \in Service : x # s => nodes'[x] = nodes[x]
  BY <1>1, <1>2
<1>4. \A x \in Watched' : x \in Watched /\ nodes'[x] = nodes[x]
  BY <1>3 DEF Watched
<1>5. Tables'
  BY <1>1, <1>4 DEF Inv, Tables, Filled
<1>6. Types'
  BY <1>1, <1>3 DEF Unwatch, Inv, Types
<1>7. QED
  BY <1>5, <1>6 DEF Inv

LEMMA CallbackStep ==
  ASSUME Inv, Callback
  PROVE  Inv'
<1>1. events' \in Seq(Events) /\ Head(events) \in Events
  BY HeadTailProperties DEF Callback, Inv, Types
<1>2. PICK e \in Events : e = Head(events)
  BY <1>1
<1>3. e.service \in Service /\ e.node \in Node /\ (e.type = "PUT" => e.score \in Score)
  BY DEF Events
<1>4. etcd' = etcd /\ listed = {} /\ listed' = {}
  BY DEF Callback, Unlocked
<1>5. ASSUME e.service \in Watched,
             PutNode(e, nodes[e.service]) \/ DeleteNode(e, nodes[e.service])
      PROVE  Tables' /\ nodes' = [x \in Service |-> nodes'[x]]
  <2>1. PICK meta : meta = nodes[e.service] /\ Table(meta)
    BY <1>5 DEF Inv, Tables, Filled
  <2>2. CASE PutNode(e, meta)
    <3>1. e.score \in Score /\ nodes' = [nodes EXCEPT ![e.service] = Added(meta, e.node, Parsed(meta, e))]
      BY <1>3, <2>2 DEF PutNode
    <3>2. Parsed(meta, e) \in Score
      BY <2>1, <3>1 DEF Parsed, Table, Scored
    <3>3. Table(Added(meta, e.node, Parsed(meta, e)))
      BY <1>3, <2>1, <3>2, AddedTable
    <3>4. QED
      BY <1>3, <1>4, <3>1, <3>3, OneTable
  <2>3. CASE DeleteNode(e, meta)
    <3>1. PICK heap \in remove(meta.heap, e.node) :
             nodes' = [nodes EXCEPT ![e.service] = [pond |-> Without(meta.pond, e.node), heap |-> heap]]
      BY <2>3 DEF DeleteNode
    <3>2. Table([pond |-> Without(meta.pond, e.node), heap |-> heap])
      BY <2>1, RemovedTable
    <3>3. QED
      BY <1>3, <1>4, <3>1, <3>2, OneTable
  <2>4. QED
    BY <1>5, <2>1, <2>2, <2>3
<1>6. CASE e.service \in Watched
  <2>1. Tables' /\ nodes' = [x \in Service |-> nodes'[x]]
    BY <1>2, <1>5, <1>6 DEF Callback
  <2>2. Types'
    BY <1>1, <1>4, <2>1 DEF Inv, Types
  <2>3. QED
    BY <2>1, <2>2 DEF Inv
<1>7. CASE e.service \notin Watched
  <2>1. nodes' = nodes /\ Watched' = Watched
    BY <1>2, <1>7 DEF Callback, Watched
  <2>2. Tables'
    BY <1>4, <2>1 DEF Inv, Tables, Filled
  <2>3. Types'
    BY <1>1, <1>4, <2>1 DEF Inv, Types
  <2>4. QED
    BY <2>2, <2>3 DEF Inv
<1>8. QED
  BY <1>6, <1>7

LEMMA Inductive == Inv /\ [Next]_vars => Inv'
<1> SUFFICES ASSUME Inv, [Next]_vars PROVE Inv'
  OBVIOUS
<1>1. CASE UNCHANGED vars \/ \E s \in Service : getServiceNode(s)
  <2>1. UNCHANGED <<etcd, events, nodes, listed, changes>> /\ Watched' = Watched
    BY <1>1 DEF vars, Watched, getServiceNode
  <2>2. QED
    BY <2>1 DEF Inv, Types, Tables, Filled
<1>2. ASSUME NEW s \in Service, NEW n \in Node, Leave(s, n)
      PROVE  Inv'
  BY <1>2, LeaveStep
<1>3. ASSUME NEW s \in Service, NEW n \in Node, Heartbeat(s, n)
      PROVE  Inv'
  BY <1>3, HeartbeatStep
<1>4. ASSUME NEW s \in Service, NEW n \in Node, NEW v \in Score, Put(s, n, v)
      PROVE  Inv'
  BY <1>4, PutStep
<1>5. ASSUME NEW s \in Service, Watch(s)
      PROVE  Inv'
  BY <1>5, WatchStep
<1>6. ASSUME NEW s \in Service, Unwatch(s)
      PROVE  Inv'
  BY <1>6, UnwatchStep
<1>7. CASE WatchNode
  BY <1>7, WatchNodeStep
<1>8. CASE Callback
  BY <1>8, CallbackStep
<1>9. QED
  BY <1>1, <1>2, <1>3, <1>4, <1>5, <1>6, <1>7, <1>8 DEF Next

LEMMA Invariant == Spec => []Inv
<1> QED
  BY Initially, Inductive, PTL DEF Spec

-----------------------------------------------------------------------------
(* Tables, etcd and the events that wait.                                  *)

LEMMA SyncInitially == Init => Sync
<1> SUFFICES ASSUME Init PROVE Sync
  OBVIOUS
<1>1. Len(events) = 0 /\ Filled = {} /\ listed = {}
  BY EmptySeq DEF Init, Watched, Filled
<1>2. QED
  BY <1>1 DEF Sync, Latest, Pending

\* The event of a change says what etcd has then.
LEMMA SyncTold ==
  ASSUME Inv, Sync, NEW s \in Service, NEW n \in Node, NEW e \in Events, About(e, s, n),
         events' = Append(events, e), UNCHANGED <<nodes, listed>>,
         e.type = "PUT" <=> etcd'[s][n] # None,
         \A x \in Service, y \in Node : ~ (x = s /\ y = n) => etcd'[x][y] = etcd[x][y]
  PROVE  Sync'
<1>1. events \in Seq(Events)
  BY DEF Inv, Types
<1>2. PICK m \in Nat : m = Len(events)
  BY <1>1, LenProperties
<1>3. /\ Len(events') = m + 1 /\ events'[m + 1] = e
      /\ \A i \in 1 .. m : events'[i] = events[i]
  BY <1>1, <1>2
<1>4. \A i \in 1 .. m : events[i].service \in Service /\ events[i].node \in Node
  BY <1>1, <1>2, ElementOfSeq DEF Events
<1>5. ASSUME NEW i \in 1 .. m + 1
      PROVE  \/ \E j \in i + 1 .. m + 1 : About(events'[j], events'[i].service, events'[i].node)
             \/ events'[i].type = "PUT" <=> etcd'[events'[i].service][events'[i].node] # None
  <2>1. CASE i = m + 1
    BY <1>3, <2>1 DEF About
  <2>2. CASE i \in 1 .. m /\ About(events[i], s, n)
    <3>1. m + 1 \in i + 1 .. m + 1 /\ events'[i] = events[i] /\ events'[m + 1] = e
      BY <1>3, <2>2
    <3>2. About(events'[m + 1], events'[i].service, events'[i].node)
      BY <2>2, <3>1 DEF About
    <3>3. QED
      BY <3>1, <3>2
  <2>3. CASE i \in 1 .. m /\ ~ About(events[i], s, n)
    <3>1. PICK x \in Service, y \in Node : x = events[i].service /\ y = events[i].node
      BY <1>4, <2>3
    <3>2. events'[i] = events[i] /\ etcd'[x][y] = etcd[x][y]
      BY <1>3, <2>3, <3>1 DEF About
    <3>3. \/ \E j \in i + 1 .. m : About(events[j], x, y)
          \/ events[i].type = "PUT" <=> etcd[x][y] # None
      BY <1>2, <2>3, <3>1 DEF Sync, Latest
    <3>4. CASE \E j \in i + 1 .. m : About(events[j], x, y)
      <4>1. PICK j \in i + 1 .. m : About(events[j], x, y)
        BY <3>4
      <4>2. j \in i + 1 .. m + 1 /\ events'[j] = events[j]
        BY <1>3, <2>3
      <4>3. QED
        BY <3>1, <3>2, <4>1, <4>2
    <3>5. CASE events[i].type = "PUT" <=> etcd[x][y] # None
      BY <3>1, <3>2, <3>5
    <3>6. QED
      BY <3>3, <3>4, <3>5
  <2>4. i = m + 1 \/ i \in 1 .. m
    BY <1>5
  <2>5. QED
    BY <2>1, <2>2, <2>3, <2>4, Zenon
<1>6. Latest'
  BY <1>3, <1>5 DEF Latest
<1>7. ASSUME NEW x \in Service, NEW y \in Node, etcd[x][y] # None \/ Waits(x, y)
      PROVE  etcd'[x][y] # None \/ Waits(x, y)'
  <2>1. CASE x = s /\ y = n
    <3>1. m + 1 \in 1 .. Len(events') /\ About(events'[m + 1], x, y)
      BY <1>3, <2>1
    <3>2. QED
      BY <3>1 DEF Waits
  <2>2. CASE ~ (x = s /\ y = n) /\ Waits(x, y)
    <3>1. PICK i \in 1 .. m : About(events[i], x, y)
      BY <1>2, <2>2 DEF Waits
    <3>2. i \in 1 .. Len(events') /\ About(events'[i], x, y)
      BY <1>3, <3>1
    <3>3. QED
      BY <3>2 DEF Waits
  <2>3. CASE ~ (x = s /\ y = n) /\ etcd[x][y] # None
    BY <2>3
  <2>4. QED
    BY <1>7, <2>1, <2>2, <2>3
<1>8. Filled' = Filled /\ listed' = listed /\ nodes' = nodes
  BY DEF Filled, Watched
<1>9. ASSUME NEW x \in Filled, NEW y \in DOMAIN nodes[x].pond
      PROVE  etcd'[x][y] # None \/ Waits(x, y)'
  <2>1. x \in Service /\ y \in Node
    BY DEF Inv, Types, Tables, Table, Scored, Filled, Watched
  <2>2. QED
    BY <1>7, <2>1 DEF Sync, Pending
<1>10. ASSUME NEW kv \in listed
       PROVE  etcd'[kv.service][kv.node] # None \/ Waits(kv.service, kv.node)'
  <2>1. kv.service \in Service /\ kv.node \in Node
    BY DEF Inv, Types
  <2>2. QED
    BY <1>7, <2>1 DEF Sync, Pending
<1>11. Pending'
  BY <1>8, <1>9, <1>10 DEF Pending
<1>12. QED
  BY <1>6, <1>11 DEF Sync

LEMMA SyncPut ==
  ASSUME Inv, Sync, NEW s \in Service, NEW n \in Node, NEW v \in Score, Put(s, n, v)
  PROVE  Sync'
<1>1. PICK e \in Events : e = Event("PUT", s, n, v) /\ About(e, s, n) /\ e.type = "PUT"
  <2>1. Event("PUT", s, n, v) \in Events
    BY DEF Event, Events
  <2>2. QED
    BY <2>1 DEF Event, About
<1>2. /\ etcd'[s][n] = v
      /\ \A x \in Service, y \in Node : ~ (x = s /\ y = n) => etcd'[x][y] = etcd[x][y]
  BY DEF Put, Inv, Types
<1>3. v # None
  BY SeekerAssumption
<1>4. QED
  BY <1>1, <1>2, <1>3, SyncTold DEF Put

LEMMA SyncLeave ==
  ASSUME Inv, Sync, NEW s \in Service, NEW n \in Node, Leave(s, n)
  PROVE  Sync'
<1>1. PICK e \in Events : e = Event("DELETE", s, n, None) /\ About(e, s, n) /\ e.type # "PUT"
  <2>1. Event("DELETE", s, n, None) \in Events
    BY DEF Event, Events
  <2>2. QED
    BY <2>1 DEF Event, About
<1>2. /\ etcd'[s][n] = None
      /\ \A x \in Service, y \in Node : ~ (x = s /\ y = n) => etcd'[x][y] = etcd[x][y]
  BY DEF Leave, Inv, Types
<1>3. QED
  BY <1>1, <1>2, SyncTold DEF Leave

LEMMA SyncHeartbeat ==
  ASSUME Inv, Sync, NEW s \in Service, NEW n \in Node, Heartbeat(s, n)
  PROVE  Sync'
<1>1. etcd[s][n] \in Score /\ etcd[s][n] # None
  BY DEF Heartbeat, Inv, Types
<1>2. PICK e \in Events : e = Event("PUT", s, n, etcd[s][n]) /\ About(e, s, n) /\ e.type = "PUT"
  <2>1. Event("PUT", s, n, etcd[s][n]) \in Events
    BY <1>1 DEF Event, Events
  <2>2. QED
    BY <2>1 DEF Event, About
<1>3. events' = Append(events, e)
  BY <1>2 DEF Heartbeat
<1>4. etcd' = etcd /\ UNCHANGED <<nodes, listed>>
  BY DEF Heartbeat
<1>5. QED
  BY <1>1, <1>2, <1>3, <1>4, SyncTold

\* What does not change etcd and its events.
LEMMA SyncKept ==
  ASSUME Inv, Sync, UNCHANGED <<etcd, events>>
  PROVE  /\ Latest'
         /\ \A x, y : Waits(x, y)' <=> Waits(x, y)
         /\ \A x \in Filled : \A y \in DOMAIN nodes[x].pond : etcd'[x][y] # None \/ Waits(x, y)'
         /\ \A kv \in listed : etcd'[kv.service][kv.node] # None \/ Waits(kv.service, kv.node)'
  BY DEF Sync, Latest, Pending, Waits

LEMMA SyncWatch ==
  ASSUME Inv, Sync, NEW s \in Service, Watch(s)
  PROVE  Sync'
<1>1. PICK found \in {Registered(s), {}} :
         listed' = {[service |-> s, node |-> n, score |-> etcd[s][n]] : n \in found}
  BY DEF Watch
<1>2. \A kv \in listed' : kv.service = s /\ etcd[kv.service][kv.node] # None
  BY <1>1 DEF Registered
<1>3. /\ UNCHANGED <<etcd, events>> /\ listed = {}
      /\ nodes'[s] = NoNodes /\ \A x \in Service : x # s => nodes'[x] = nodes[x]
  BY DEF Watch, Unlocked, Inv, Types
<1>4. DOMAIN NoNodes.pond = {}
  BY EmptySeq DEF NoNodes
<1>5. ASSUME NEW x \in Filled', NEW y \in DOMAIN nodes'[x].pond
      PROVE  etcd'[x][y] # None \/ Waits(x, y)'
  <2>1. x # s
    BY <1>3, <1>4
  <2>2. x \in Service /\ x \in Watched'
    BY <1>2, <2>1 DEF Filled, Watched
  <2>3. nodes'[x] = nodes[x] /\ x \in Filled
    BY <1>3, <2>1, <2>2 DEF Filled, Watched
  <2>4. QED
    BY <1>3, <2>3, SyncKept
<1>6. \A kv \in listed' : etcd'[kv.service][kv.node] # None \/ Waits(kv.service, kv.node)'
  BY <1>2, <1>3
<1>7. Pending'
  BY <1>5, <1>6 DEF Pending
<1>8. QED
  BY <1>3, <1>7, SyncKept DEF Sync

LEMMA SyncWatchNode ==
  ASSUME Inv, Sync, WatchNode
  PROVE  Sync'
<1>1. PICK kv \in listed :
         /\ nodes' = [nodes EXCEPT ![kv.service] = Added(nodes[kv.service], kv.node, kv.score)]
         /\ listed' = listed \ {kv} /\ UNCHANGED <<etcd, events>>
  BY DEF WatchNode
<1>2. PICK s \in Service, n \in Node : s = kv.service /\ n = kv.node
  BY DEF Inv, Types
<1>3. /\ nodes'[s] = Added(nodes[s], n, kv.score)
      /\ \A x \in Service : x # s => nodes'[x] = nodes[x]
  BY <1>1, <1>2 DEF Inv, Types
<1>4. DOMAIN nodes'[s].pond = DOMAIN nodes[s].pond \cup {n}
  BY <1>3 DEF Added, With
<1>5. ASSUME NEW x \in Filled', NEW y \in DOMAIN nodes'[x].pond
      PROVE  etcd'[x][y] # None \/ Waits(x, y)'
  <2>1. x \in Service
    BY <1>1 DEF Filled, Watched, Inv, Types
  <2>2. CASE x = s /\ y = n
    BY <1>1, <1>2, <2>2, SyncKept
  <2>3. CASE x = s /\ y # n
    <3>1. y \in DOMAIN nodes[s].pond /\ s \in Filled
      BY <1>2, <1>4, <2>3 DEF Filled
    <3>2. QED
      BY <1>1, <2>3, <3>1, SyncKept
  <2>4. CASE x # s
    <3>1. nodes'[x] = nodes[x]
      BY <1>3, <2>1, <2>4
    <3>2. x \in Filled
      BY <1>1, <2>1, <3>1 DEF Filled, Watched
    <3>3. QED
      BY <1>1, <3>1, <3>2, SyncKept
  <2>5. QED
    BY <2>2, <2>3, <2>4
<1>6. \A k \in listed' : etcd'[k.service][k.node] # None \/ Waits(k.service, k.node)'
  BY <1>1, SyncKept
<1>7. Pending'
  BY <1>5, <1>6 DEF Pending
<1>8. QED
  BY <1>1, <1>7, SyncKept DEF Sync

LEMMA SyncUnwatch ==
  ASSUME Inv, Sync, NEW s \in Service, Unwatch(s)
  PROVE  Sync'
<1>1. /\ UNCHANGED <<etcd, events>> /\ listed = {} /\ listed' = {}
      /\ nodes'[s] = None /\ \A x \in Service : x # s => nodes'[x] = nodes[x]
  BY DEF Unwatch, Unlocked, Inv, Types
<1>2. \A x \in Filled' : x \in Filled /\ nodes'[x] = nodes[x]
  BY <1>1 DEF Filled, Watched
<1>3. Pending'
  BY <1>1, <1>2, SyncKept DEF Pending
<1>4. QED
  BY <1>1, <1>3, SyncKept DEF Sync

\* The first event goes; what it says of its node is so, unless another of the node waits.
LEMMA SyncTaken ==
  ASSUME Inv, Sync, events # <<>>, events' = Tail(events), etcd' = etcd, NEW e, e = Head(events)
  PROVE  /\ e \in Events /\ Latest'
         /\ \A x, y : Waits(x, y) /\ ~ About(e, x, y) => Waits(x, y)'
         /\ \/ Waits(e.service, e.node)'
            \/ e.type = "PUT" <=> etcd[e.service][e.node] # None
<1>1. events \in Seq(Events)
  BY DEF Inv, Types
<1>2. PICK m \in Nat : m + 1 = Len(events)
  <2>1. Len(events) \in Nat \ {0}
    BY <1>1, EmptySeq
  <2>2. Len(events) - 1 \in Nat /\ (Len(events) - 1) + 1 = Len(events)
    BY <2>1
  <2>3. QED
    BY <2>2
<1>3. /\ e = events[1] /\ e \in Events
      /\ Len(events') = m /\ \A i \in 1 .. m : events'[i] = events[i + 1]
  BY <1>1, <1>2, HeadTailProperties
<1>4. ASSUME NEW i \in 1 .. m
      PROVE  \/ \E j \in i + 1 .. m : About(events'[j], events'[i].service, events'[i].node)
             \/ events'[i].type = "PUT" <=> etcd'[events'[i].service][events'[i].node] # None
  <2>1. i + 1 \in 1 .. m + 1 /\ events'[i] = events[i + 1]
    BY <1>3
  <2>2. CASE \E j \in (i + 1) + 1 .. m + 1 : About(events[j], events[i + 1].service, events[i + 1].node)
    <3>1. PICK j \in (i + 1) + 1 .. m + 1 : About(events[j], events[i + 1].service, events[i + 1].node)
      BY <2>2
    <3>2. PICK k \in i + 1 .. m : k + 1 = j
      <4>1. j - 1 \in i + 1 .. m /\ (j - 1) + 1 = j
        OBVIOUS
      <4>2. QED
        BY <4>1
    <3>3. k \in 1 .. m
      BY <3>2
    <3>4. events'[k] = events[j]
      BY <1>3, <3>2, <3>3
    <3>5. QED
      BY <2>1, <3>1, <3>4
  <2>3. CASE events[i + 1].type = "PUT" <=> etcd[events[i + 1].service][events[i + 1].node] # None
    BY <2>1, <2>3
  <2>4. QED
    BY <1>2, <2>1, <2>2, <2>3 DEF Sync, Latest
<1>5. Latest'
  BY <1>3, <1>4 DEF Latest
<1>6. ASSUME NEW x, NEW y, NEW j \in 2 .. m + 1, About(events[j], x, y)
      PROVE  Waits(x, y)'
  <2>1. PICK k \in 1 .. m : k + 1 = j
    <3>1. j - 1 \in 1 .. m /\ (j - 1) + 1 = j
      OBVIOUS
    <3>2. QED
      BY <3>1
  <2>2. k \in 1 .. Len(events') /\ About(events'[k], x, y)
    BY <1>3, <1>6, <2>1
  <2>3. QED
    BY <2>2 DEF Waits
<1>7. ASSUME NEW x, NEW y, Waits(x, y), ~ About(e, x, y)
      PROVE  Waits(x, y)'
  <2>1. PICK i \in 1 .. m + 1 : About(events[i], x, y)
    BY <1>2, <1>7 DEF Waits
  <2>2. i \in 2 .. m + 1
    BY <1>3, <1>7, <2>1
  <2>3. QED
    BY <1>6, <2>1, <2>2
<1>8. \/ Waits(e.service, e.node)'
      \/ e.type = "PUT" <=> etcd[e.service][e.node] # None
  <2>1. \/ \E j \in 1 + 1 .. m + 1 : About(events[j], e.service, e.node)
        \/ e.type = "PUT" <=> etcd[e.service][e.node] # None
    <3>1. 1 \in 1 .. m + 1
      OBVIOUS
    <3>2. QED
      BY <1>2, <1>3, <3>1 DEF Sync, Latest
  <2>2. 1 + 1 = 2
    OBVIOUS
  <2>3. QED
    BY <1>6, <2>1, <2>2
<1>9. QED
  BY <1>3, <1>5, <1>7, <1>8

LEMMA SyncCallback ==
  ASSUME Inv, Sync, Callback
  PROVE  Sync'
<1>1. PICK e : e = Head(events)
  OBVIOUS
<1>2. /\ events # <<>> /\ events' = Tail(events) /\ etcd' = etcd /\ listed = {} /\ listed' = {}
      /\ IF e.service \in Watched
         THEN PutNode(e, nodes[e.service]) \/ DeleteNode(e, nodes[e.service])
         ELSE UNCHANGED <<nodes, crashed>>
  BY <1>1 DEF Callback, Unlocked
<1>3. /\ e \in Events /\ Latest'
      /\ \A x, y : Waits(x, y) /\ ~ About(e, x, y) => Waits(x, y)'
      /\ \/ Waits(e.service, e.node)'
         \/ e.type = "PUT" <=> etcd[e.service][e.node] # None
  BY <1>1, <1>2, SyncTaken
<1>4. e.service \in Service
  BY <1>3 DEF Events
\* The table after the event has no node but those it had, and that of a PUT.
<1>5. ASSUME NEW x \in Filled', NEW y \in DOMAIN nodes'[x].pond
      PROVE  \/ x \in Watched /\ y \in DOMAIN nodes[x].pond /\ ~ About(e, x, y)
             \/ About(e, x, y) /\ e.type = "PUT"
  <2>1. x \in Service /\ nodes'[x] # None
    BY <1>2 DEF Filled, Watched
  <2>2. CASE e.service \notin Watched
    <3>1. nodes' = nodes
      BY <1>2, <2>2
    <3>2. x \in Watched /\ x # e.service
      BY <2>1, <2>2, <3>1 DEF Watched
    <3>3. QED
      BY <3>1, <3>2 DEF About
  <2>3. CASE e.service \in Watched /\ PutNode(e, nodes[e.service])
    <3>1. PICK v : nodes' = [nodes EXCEPT ![e.service] = Added(nodes[e.service], e.node, v)]
      BY <2>3 DEF PutNode
    <3>2. e.type = "PUT"
      BY <2>3 DEF PutNode
    <3>3. /\ nodes'[e.service] = Added(nodes[e.service], e.node, v)
          /\ x # e.service => nodes'[x] = nodes[x]
      BY <1>4, <2>1, <3>1 DEF Inv, Types
    <3>4. DOMAIN nodes'[e.service].pond = DOMAIN nodes[e.service].pond \cup {e.node}
      BY <3>3 DEF Added, With
    <3>5. CASE x = e.service
      BY <2>3, <3>2, <3>4, <3>5 DEF About
    <3>6. CASE x # e.service
      BY <2>1, <3>3, <3>6 DEF About, Watched
    <3>7. QED
      BY <3>5, <3>6
  <2>4. CASE e.service \in Watched /\ DeleteNode(e, nodes[e.service])
    <3>1. PICK heap :
             nodes' = [nodes EXCEPT ![e.service] =
                          [pond |-> Without(nodes[e.service].pond, e.node), heap |-> heap]]
      BY <2>4 DEF DeleteNode
    <3>2. /\ nodes'[e.service] = [pond |-> Without(nodes[e.service].pond, e.node), heap |-> heap]
          /\ x # e.service => nodes'[x] = nodes[x]
      BY <1>4, <2>1, <3>1 DEF Inv, Types
    <3>3. DOMAIN nodes'[e.service].pond = DOMAIN nodes[e.service].pond \ {e.node}
      BY <3>2 DEF Without
    <3>4. CASE x = e.service
      BY <2>4, <3>3, <3>4 DEF About
    <3>5. CASE x # e.service
      BY <2>1, <3>2, <3>5 DEF About, Watched
    <3>6. QED
      BY <3>4, <3>5
  <2>5. QED
    BY <1>2, <2>2, <2>3, <2>4
<1>6. ASSUME NEW x \in Filled', NEW y \in DOMAIN nodes'[x].pond
      PROVE  etcd'[x][y] # None \/ Waits(x, y)'
  <2>1. CASE x \in Watched /\ y \in DOMAIN nodes[x].pond /\ ~ About(e, x, y)
    <3>1. etcd[x][y] # None \/ Waits(x, y)
      BY <2>1 DEF Sync, Pending, Filled
    <3>2. QED
      BY <1>2, <1>3, <2>1, <3>1
  <2>2. CASE About(e, x, y) /\ e.type = "PUT"
    BY <1>2, <1>3, <2>2 DEF About
  <2>3. QED
    BY <1>5, <2>1, <2>2
<1>7. Pending'
  BY <1>2, <1>6 DEF Pending
<1>8. QED
  BY <1>3, <1>7 DEF Sync

LEMMA SyncInductive == Inv /\ Sync /\ [Next]_vars => Sync'
<1> SUFFICES ASSUME Inv, Sync, [Next]_vars PROVE Sync'
  OBVIOUS
<1>1. CASE UNCHANGED vars \/ \E s \in Service : getServiceNode(s)
  <2>1. Filled' = Filled /\ nodes' = nodes /\ listed' = listed /\ UNCHANGED <<etcd, events>>
    BY <1>1 DEF vars, Filled, Watched, getServiceNode
  <2>2. QED
    BY <2>1, SyncKept DEF Sync, Pending
<1>2. ASSUME NEW s \in Service, NEW n \in Node, Leave(s, n)
      PROVE  Sync'
  BY <1>2, SyncLeave
<1>3. ASSUME NEW s \in Service, NEW n \in Node, Heartbeat(s, n)
      PROVE  Sync'
  BY <1>3, SyncHeartbeat
<1>4. ASSUME NEW s \in Service, NEW n \in Node, NEW v \in Score, Put(s, n, v)
      PROVE  Sync'
  BY <1>4, SyncPut
<1>5. ASSUME NEW s \in Service, Watch(s)
      PROVE  Sync'
  BY <1>5, SyncWatch
<1>6. ASSUME NEW s \in Service, Unwatch(s)
      PROVE  Sync'
  BY <1>6, SyncUnwatch
<1>7. CASE WatchNode
  BY <1>7, SyncWatchNode
<1>8. CASE Callback
  BY <1>8, SyncCallback
<1>9. QED
  BY <1>1, <1>2, <1>3, <1>4, <1>5, <1>6, <1>7, <1>8 DEF Next

LEMMA SyncInvariant == Spec => [](Inv /\ Sync)
<1>1. Init => Inv /\ Sync
  BY Initially, SyncInitially
<1>2. Inv /\ Sync /\ [Next]_vars => (Inv /\ Sync)'
  BY Inductive, SyncInductive
<1>3. QED
  BY <1>1, <1>2, PTL DEF Spec

\* Of the events of a node that wait, one is the last.
LEMMA LastWaiting ==
  ASSUME Inv, Sync, NEW s, NEW n, Waits(s, n)
  PROVE  \E i \in 1 .. Len(events) : /\ About(events[i], s, n)
                                     /\ events[i].type = "PUT" <=> etcd[s][n] # None
<1>1. PICK m \in Nat : m = Len(events)
  BY LenProperties DEF Inv, Types
<1> DEFINE T == {k \in 0 .. m : m - k \in 1 .. m /\ About(events[m - k], s, n)}
<1>2. T \subseteq Nat /\ T # {}
  <2>1. PICK i \in 1 .. m : About(events[i], s, n)
    BY <1>1 DEF Waits
  <2>2. m - i \in 0 .. m /\ m - (m - i) = i
    OBVIOUS
  <2>3. m - i \in T
    BY <2>1, <2>2
  <2>4. T \subseteq Nat
    <3>1. 0 .. m \subseteq Nat
      OBVIOUS
    <3>2. QED
      BY <3>1, Zenon
  <2>5. T # {}
    BY <2>3, Zenon
  <2>6. QED
    BY <2>4, <2>5
<1>3. \E k \in T : \A l \in T : ~ (<<l, k>> \in OpToRel(<, Nat))
  BY <1>2, NatLessThanWellFounded, WFMin
<1>4. PICK k \in T : \A l \in T : ~ (l < k)
  BY <1>2, <1>3 DEF OpToRel
<1>5. PICK i \in 1 .. m : i = m - k /\ About(events[i], s, n) /\ k \in 0 .. m
  BY <1>4
<1>6. ASSUME NEW j \in i + 1 .. m, About(events[j], s, n)
      PROVE  FALSE
  <2>1. m - j \in 0 .. m /\ m - (m - j) = j /\ j \in 1 .. m /\ m - j < k
    BY <1>5
  <2>2. m - j \in T
    BY <1>6, <2>1
  <2>3. QED
    BY <1>4, <2>1, <2>2
<1>7. events[i].service = s /\ events[i].node = n
  BY <1>5 DEF About
<1>8. events[i].type = "PUT" <=> etcd[s][n] # None
  <2>1. \/ \E j \in i + 1 .. m : About(events[j], events[i].service, events[i].node)
        \/ events[i].type = "PUT" <=> etcd[events[i].service][events[i].node] # None
    BY <1>1 DEF Sync, Latest
  <2>2. QED
    BY <1>6, <1>7, <2>1
<1>9. QED
  BY <1>1, <1>5, <1>8

-----------------------------------------------------------------------------
(* The theorems.                                                           *)

\* The table of a service and its heap name the same nodes, each once, between any two events
\* of etcd and any two turns of the loop of watch(), whatever was inserted and removed before
\* (watch(), the callback, HashHeap::insert(), remove()).
THEOREM TablesAgree == Spec => []Agree
<1>1. Inv => Agree
  <2> SUFFICES ASSUME Inv, NEW s \in Watched
               PROVE  LET meta == nodes[s]
                      IN  /\ DOMAIN meta.heap.index = DOMAIN meta.pond
                          /\ {meta.heap.sorted[i].key : i \in DOMAIN meta.heap.sorted} = DOMAIN meta.pond
                          /\ Len(meta.heap.sorted) = Cardinality(DOMAIN meta.pond)
    BY DEF Agree
  <2>1. PICK meta : meta = nodes[s] /\ Table(meta)
    BY DEF Inv, Tables, Filled
  <2>2. QED
    BY <2>1, TableAgrees
<1>2. QED
  BY <1>1, Invariant, PTL

\* BestScoreBalancer selects a node of the best score in the table as long as there is a node,
\* and the table has it for getServiceNode() (HashHeap::maxOne(), multimap::emplace() and
\* erase()).  Of the address that getServiceNode() then reads nothing is said: it is deleted.
THEOREM SelectsTheBest == Spec => []BestFirst
<1>1. Inv => BestFirst
  <2> SUFFICES ASSUME Inv, NEW s \in Watched
               PROVE  LET pond == nodes[s].pond
                      IN  IF pond = <<>> THEN select(s) = {}
                          ELSE \E best \in DOMAIN pond : /\ select(s) = {best}
                                                         /\ \A n \in DOMAIN pond : pond[n] <= pond[best]
    BY DEF BestFirst
  <2>1. PICK meta : meta = nodes[s] /\ Table(meta)
    BY DEF Inv, Tables, Filled
  <2>2. select(s) = maxOne(meta.heap)
    BY <2>1 DEF select
  <2>3. CASE meta.pond = <<>>
    <3>1. maxOne(meta.heap) = {}
      BY <2>1, <2>3, TableBest
    <3>2. QED
      BY <2>1, <2>2, <2>3, <3>1
  <2>4. CASE meta.pond # <<>>
    <3>1. PICK best \in DOMAIN meta.pond :
             /\ maxOne(meta.heap) = {best}
             /\ \A n \in DOMAIN meta.pond : meta.pond[n] <= meta.pond[best]
      BY <2>1, <2>4, TableBest
    <3>2. QED
      BY <2>1, <2>2, <2>4, <3>1
  <2>5. QED
    BY <2>3, <2>4
<1>2. QED
  BY <1>1, Invariant, PTL

\* What the client still has of a node that etcd no longer has the watcher is about to remove,
\* though watch() reads etcd at any time between events that are older and newer (watch(), the
\* callback).
THEOREM NoneStays == Spec => []Departing
<1>1. Inv /\ Sync => Departing
  <2> SUFFICES ASSUME Inv, Sync, NEW s \in Watched, NEW n \in Node,
                      n \in DOMAIN nodes[s].pond \ Registered(s)
               PROVE  \E i \in DOMAIN events : /\ events[i].service = s /\ events[i].node = n
                                               /\ events[i].type = "DELETE"
    BY DEF Departing
  <2>1. etcd[s][n] = None
    BY DEF Registered
  <2>2. Waits(s, n)
    BY <2>1 DEF Sync, Pending, Filled
  <2>3. PICK i \in 1 .. Len(events) : About(events[i], s, n) /\ events[i].type # "PUT"
    BY <2>1, <2>2, LastWaiting
  <2>4. events \in Seq(Events)
    BY DEF Inv, Types
  <2>5. events[i] \in Events /\ i \in DOMAIN events
    BY <2>4, ElementOfSeq, LenProperties
  <2>6. events[i].type = "DELETE"
    BY <2>3, <2>5 DEF Events
  <2>7. QED
    BY <2>3, <2>5, <2>6 DEF About
<1>2. QED
  BY <1>1, SyncInvariant, PTL
=============================================================================
