---------------------------- MODULE RpcCallProofs ----------------------------
(***************************************************************************)
(* Proofs about RpcCall for any number of callers, connections and calls,  *)
(* any queue, any length of the answers and zero bytes anywhere in them: as*)
(* long as no caller leaves that is owed an answer, an answer, a read or a *)
(* close reaches the caller it is meant for (OwnDescriptor), and what a    *)
(* call takes is its own answer, from its first byte to its first zero byte*)
(* if it has one (OwnAnswer), although neither a descriptor nor an answer  *)
(* carries an identity; and no call is forgotten, unless it is dropped.    *)
(*                                                                         *)
(* The invariant says who holds a connection: the caller whose socket the  *)
(* descriptor of the connection names, from the accept to the close.  A    *)
(* descriptor is not given away again while something is on its way to it, *)
(* because its holder has gone, and owes no answer, when it is closed.     *)
(***************************************************************************)
EXTENDS RpcCall, FiniteSetTheorems, SequenceTheorems, TLAPS

-----------------------------------------------------------------------------
(* The inductive invariant.                                                *)

Byte == [of : 0 .. Callers, call : Nat, part : Nat, size : Nat, zero : BOOLEAN]

Types ==
    /\ pc \in [Caller -> {"new", "ready", "waiting", "gone"}]
    /\ calls \in [Caller -> Nat]
    /\ result \in [Caller -> Seq(Seq(Byte))]
    /\ up \in [Caller -> Seq([from : Caller, call : Nat, known : BOOLEAN])]
    /\ down \in [Caller -> Seq(Byte)]
    /\ backlog \in Seq(Caller)
    /\ idle \in Seq(Conn)
    /\ fdOf \in [Conn -> 0 .. Callers]
    /\ file \in [Fd -> 0 .. Callers]
    /\ reads \in [Conn -> [Caller -> Nat]]
    /\ writes \in [Conn -> Seq([fd : 0 .. Callers, bytes : Seq(Byte)])]
    /\ closes \in [Conn -> Seq(0 .. Callers)]
    /\ tasks \in Seq([conn : Conn, from : Caller, call : Nat, known : BOOLEAN])

Distinct(s) == \A i, j \in 1 .. Len(s) : s[i] = s[j] => i = j

\* The caller that a connection is lent to.
Holder(k) == IF Waiting(idle, k) THEN None ELSE Named(fdOf[k])

\* A socket is in one place: nowhere, in the backlog, or behind one descriptor.
Sockets ==
    /\ Distinct(backlog)
    /\ \A d, e \in Fd : file[d] = file[e] /\ file[d] # None => d = e
    /\ \A x \in Caller : pc[x] = "new" => ~Waiting(backlog, x)
    /\ \A x \in Caller : pc[x] = "new" \/ Waiting(backlog, x) => \A d \in Fd : file[d] # x
    /\ \A x \in Caller : pc[x] \in {"ready", "waiting"} /\ ~Waiting(backlog, x) => \E d \in Fd : file[d] = x

\* A connection is idle, or held by one caller that no other connection is held by.
Lent ==
    /\ Distinct(idle)
    /\ \A k \in Conn : ~Waiting(idle, k) => fdOf[k] \in Fd /\ file[fdOf[k]] # None
    /\ \A j, k \in Conn : ~Waiting(idle, j) /\ ~Waiting(idle, k) /\ fdOf[j] = fdOf[k] => j = k

\* What is in flight on a connection is its holder's; a close comes when that has gone and
\* nothing is read any more.
Reading ==
    \A k \in Conn, x \in Caller : reads[k][x] > 0 => reads[k][x] = 1 /\ Holder(k) = x /\ closes[k] = <<>>

Closing ==
    \A k \in Conn : closes[k] # <<>> =>
        closes[k] = <<fdOf[k]>> /\ \E x \in Caller : Holder(k) = x /\ pc[x] = "gone"

Writing ==
    \A k \in Conn : \A i \in 1 .. Len(writes[k]) :
        /\ writes[k][i].fd = fdOf[k]
        /\ writes[k][i].bytes[1].of \in Caller
        /\ Holder(k) = writes[k][i].bytes[1].of

Tasking == \A i \in 1 .. Len(tasks) : tasks[i].known => Holder(tasks[i].conn) = tasks[i].from

InFlight == Reading /\ Closing /\ Writing /\ Tasking

\* Who has gone is owed nothing.
Paid == \A x \in Caller : pc[x] = "gone" => ~Owes(x, up[x])

\* Where the call of a caller is.
Asked(x)      == up[x] # <<>>
Queued(x)     == \E i \in 1 .. Len(tasks) : tasks[i].from = x
Answered(x)   == \E k \in Conn : \E i \in 1 .. Len(writes[k]) : writes[k][i].bytes[1].of = x
Received(x)   == down[x] # <<>>

IsAnswer(s, x) == \E size \in 1 .. AnswerSize, zeros \in Zeros : s = Answer(x, calls[x], size, zeros)

\* A caller that reads every answer to its end makes one call at a time, which is in one
\* place at most.
QueuedOnce(x) ==
    /\ \A i, j \in 1 .. Len(tasks) : tasks[i].from = x /\ tasks[j].from = x => i = j
    /\ \A i \in 1 .. Len(tasks) : tasks[i].from = x => tasks[i].call = calls[x]

AnsweredOnce(x) ==
    /\ \A k \in Conn : Holder(k) = x => Len(writes[k]) <= 1
    /\ \A k \in Conn : \A i \in 1 .. Len(writes[k]) :
          writes[k][i].bytes[1].of = x => IsAnswer(writes[k][i].bytes, x)

OneCall(x) ==
    /\ calls[x] = Len(result[x]) + (IF pc[x] = "waiting" THEN 1 ELSE 0)
    /\ pc[x] # "waiting" => ~Asked(x) /\ ~Queued(x) /\ ~Answered(x) /\ ~Received(x)
    /\ Asked(x) => ~Queued(x) /\ ~Answered(x) /\ ~Received(x)
    /\ Queued(x) => ~Answered(x) /\ ~Received(x)
    /\ Answered(x) => ~Received(x)
    /\ Asked(x) => Len(up[x]) = 1 /\ up[x][1].call = calls[x]
    /\ QueuedOnce(x)
    /\ AnsweredOnce(x)
    /\ Received(x) => IsAnswer(down[x], x)

Calling == \A x \in Caller \ cut : pc[x] # "gone" => OneCall(x)

\* What a call takes when it receives a whole answer.
Own(answer, s) == IF Taken(answer) = answer THEN Begins(answer, s) ELSE s = Taken(answer)

OwnResults ==
    \A x \in Caller \ cut : \A n \in 1 .. Len(result[x]) :
        \E size \in 1 .. AnswerSize : \E zeros \in Zeros :
            Own(Answer(x, n, size, zeros), result[x][n])

FromWhom == \A x \in Caller : \A i \in 1 .. Len(up[x]) : up[x][i].from = x

Inv == /\ Types /\ Sockets /\ Lent /\ InFlight /\ FromWhom /\ Paid /\ Calling /\ OwnResults

IInv == owed = {} => Inv

-----------------------------------------------------------------------------
(* Lemmas about the operators of the module.                               *)

LEMMA NoneIsNobody == None \notin Caller /\ \A x \in Caller : x # None
  BY CallAssumption DEF None, Caller

\* A set of naturals that is not empty has a least element.
LEMMA LeastNat ==
  ASSUME NEW T, T \subseteq Nat, T # {}
  PROVE  \E m \in T : \A n \in T : m <= n
<1>1. PICK m \in T : \A n \in T : ~ (<<n, m>> \in OpToRel(<, Nat))
  BY NatLessThanWellFounded, WFMin
<1>2. \A n \in T : ~ (n < m)
  BY <1>1 DEF OpToRel
<1>3. QED
  BY <1>2

LEMMA TailWaiting ==
  ASSUME NEW S, NEW s \in Seq(S), s # <<>>, Distinct(s)
  PROVE  /\ Distinct(Tail(s))
         /\ ~Waiting(Tail(s), Head(s)) /\ Waiting(s, Head(s))
         /\ \A x : x # Head(s) => (Waiting(Tail(s), x) <=> Waiting(s, x))
<1>1. /\ Tail(s) \in Seq(S) /\ Len(Tail(s)) = Len(s) - 1 /\ Len(s) \in Nat \ {0}
      /\ \A i \in 1 .. Len(Tail(s)) : Tail(s)[i] = s[i + 1]
      /\ Head(s) = s[1]
  BY HeadTailProperties, EmptySeq
<1>2. Distinct(Tail(s))
  BY <1>1 DEF Distinct
<1>3. ~Waiting(Tail(s), Head(s))
  BY <1>1 DEF Distinct, Waiting
<1>4. Waiting(s, Head(s))
  BY <1>1 DEF Waiting
<1>5. ASSUME NEW x, x # Head(s), Waiting(s, x)
      PROVE  Waiting(Tail(s), x)
  <2>1. PICK i \in 1 .. Len(s) : s[i] = x
    BY <1>5 DEF Waiting
  <2>2. i # 1 /\ i - 1 \in 1 .. Len(Tail(s))
    BY <2>1, <1>1, <1>5
  <2>3. Tail(s)[i - 1] = x
    BY <2>1, <2>2, <1>1
  <2>4. QED
    BY <2>2, <2>3 DEF Waiting
<1>6. ASSUME NEW x, Waiting(Tail(s), x)
      PROVE  Waiting(s, x)
  <2>1. PICK i \in 1 .. Len(Tail(s)) : Tail(s)[i] = x
    BY <1>6 DEF Waiting
  <2>2. i + 1 \in 1 .. Len(s) /\ s[i + 1] = x
    BY <2>1, <1>1
  <2>3. QED
    BY <2>2 DEF Waiting
<1>7. QED
  BY <1>2, <1>3, <1>4, <1>5, <1>6

LEMMA AppendWaiting ==
  ASSUME NEW S, NEW s \in Seq(S), NEW e \in S
  PROVE  /\ \A x : Waiting(Append(s, e), x) <=> Waiting(s, x) \/ x = e
         /\ Distinct(s) /\ ~Waiting(s, e) => Distinct(Append(s, e))
<1>1. /\ Len(Append(s, e)) = Len(s) + 1 /\ Len(s) \in Nat
      /\ \A i \in 1 .. Len(s) : Append(s, e)[i] = s[i]
      /\ Append(s, e)[Len(s) + 1] = e
  BY AppendProperties, LenProperties
<1>2. QED
  BY <1>1 DEF Waiting, Distinct

\* What a step of a sequence by Tail() leaves.
LEMMA TailAt ==
  ASSUME NEW S, NEW s \in Seq(S), s # <<>>
  PROVE  /\ Tail(s) \in Seq(S) /\ Len(Tail(s)) = Len(s) - 1 /\ Len(s) \in Nat \ {0}
         /\ \A i \in 1 .. Len(Tail(s)) : i + 1 \in 1 .. Len(s) /\ Tail(s)[i] = s[i + 1]
         /\ Head(s) = s[1] /\ Head(s) \in S /\ 1 \in 1 .. Len(s)
<1>1. /\ Tail(s) \in Seq(S) /\ Len(Tail(s)) = Len(s) - 1 /\ Len(s) \in Nat \ {0}
      /\ \A i \in 1 .. Len(Tail(s)) : Tail(s)[i] = s[i + 1]
      /\ Head(s) = s[1] /\ Head(s) \in S
  BY HeadTailProperties, EmptySeq
<1>2. QED
  BY <1>1

LEMMA AppendAt ==
  ASSUME NEW S, NEW s \in Seq(S), NEW e \in S
  PROVE  /\ Append(s, e) \in Seq(S) /\ Len(Append(s, e)) = Len(s) + 1 /\ Len(s) \in Nat
         /\ \A i \in 1 .. Len(Append(s, e)) :
               \/ i \in 1 .. Len(s) /\ Append(s, e)[i] = s[i]
               \/ i = Len(s) + 1 /\ Append(s, e)[i] = e
         /\ Append(s, e) # <<>>
<1>1. /\ Append(s, e) \in Seq(S) /\ Len(Append(s, e)) = Len(s) + 1 /\ Len(s) \in Nat
      /\ \A i \in 1 .. Len(s) : Append(s, e)[i] = s[i]
      /\ Append(s, e)[Len(s) + 1] = e /\ Append(s, e) # <<>>
  BY AppendProperties, LenProperties
<1>2. QED
  BY <1>1

\* While a caller waits to be accepted there is a descriptor to give away: there are as many
\* as callers, and the waiting one has none.  The kernel takes the lowest.
LEMMA FreeFdIsFree ==
  ASSUME Types, Sockets, backlog # <<>>
  PROVE  FreeFd \in Fd /\ file[FreeFd] = None
<1> DEFINE x == Head(backlog)
           T == {d \in Fd : file[d] = None}
<1>1. x \in Caller /\ Waiting(backlog, x)
  BY TailAt, TailWaiting DEF Types, Sockets
<1>2. \A d \in Fd : file[d] # x
  BY <1>1 DEF Sockets
<1>3. T # {}
  <2>1. SUFFICES ASSUME \A d \in Fd : file[d] # None
                 PROVE  FALSE
    OBVIOUS
  <2>2. file \in [Fd -> Caller \ {x}]
    BY <1>2, <2>1, CallAssumption DEF Types, None, Caller
  <2>3. /\ IsFiniteSet(Fd) /\ Cardinality(Fd) = Callers
        /\ IsFiniteSet(Caller) /\ Cardinality(Caller) = Callers
    BY FS_Interval, CallAssumption DEF Fd, Caller
  <2>4. IsFiniteSet(Caller \ {x}) /\ Cardinality(Caller \ {x}) = Callers - 1
    BY <2>3, <1>1, FS_RemoveElement
  <2>5. Cardinality(Caller \ {x}) < Cardinality(Fd)
    BY <2>3, <2>4, CallAssumption
  <2>6. \E d, e \in Fd : d # e /\ file[d] = file[e]
    BY <2>2, <2>3, <2>4, <2>5, FS_PigeonHole
  <2>7. QED
    BY <2>6, <2>1 DEF Sockets
<1>4. \E d \in T : \A e \in T : d <= e
  <2>1. T \subseteq Nat
    BY CallAssumption DEF Fd
  <2>2. QED
    BY <1>3, <2>1, LeastNat
<1>5. \E d \in Fd : file[d] = None /\ \A e \in Fd : file[e] = None => d <= e
  BY <1>4
<1>6. QED
  BY <1>5 DEF FreeFd

\* The elements of the queues.
LEMMA ElementTypes ==
  ASSUME Types
  PROVE  /\ Len(tasks) \in Nat
         /\ \A i \in 1 .. Len(tasks) : tasks[i].conn \in Conn /\ tasks[i].from \in Caller
         /\ \A k \in Conn : Len(writes[k]) \in Nat
         /\ \A x \in Caller : Len(up[x]) \in Nat /\ \A i \in 1 .. Len(up[x]) : up[x][i].from \in Caller
<1>1. tasks \in Seq([conn : Conn, from : Caller, call : Nat, known : BOOLEAN])
  BY DEF Types
<1>2. \A i \in 1 .. Len(tasks) : tasks[i] \in [conn : Conn, from : Caller, call : Nat, known : BOOLEAN]
  BY <1>1, ElementOfSeq
<1>3. \A x \in Caller : up[x] \in Seq([from : Caller, call : Nat, known : BOOLEAN])
  BY DEF Types
<1>4. \A x \in Caller : \A i \in 1 .. Len(up[x]) : up[x][i] \in [from : Caller, call : Nat, known : BOOLEAN]
  BY <1>3, ElementOfSeq
<1>5. \A k \in Conn : Len(writes[k]) \in Nat
  BY LenProperties DEF Types
<1>6. QED
  BY <1>1, <1>2, <1>3, <1>4, <1>5, LenProperties

\* A step that leaves the queue and the holders of the connections leaves Tasking.
LEMMA TaskingFrame ==
  ASSUME Inv, UNCHANGED tasks, \A k \in Conn : Holder(k)' = Holder(k)
  PROVE  Tasking'
<1>1. \A i \in 1 .. Len(tasks) : tasks[i].conn \in Conn
  BY ElementTypes DEF Inv
<1>2. \A i \in 1 .. Len(tasks) : tasks[i].known => Holder(tasks[i].conn)' = tasks[i].from
  BY <1>1 DEF Inv, InFlight, Tasking
<1>3. QED
  BY <1>2 DEF Tasking

\* Who holds which connection.
LEMMA HolderFacts ==
  ASSUME Inv
  PROVE  /\ \A k \in Conn : Holder(k) = None \/ Holder(k) \in Caller
         /\ \A k \in Conn : Waiting(idle, k) <=> Holder(k) = None
         /\ \A k \in Conn : Holder(k) # None => fdOf[k] \in Fd /\ Holder(k) = file[fdOf[k]]
         /\ \A j, k \in Conn : Holder(j) = Holder(k) /\ Holder(k) # None => j = k
         /\ \A k \in Conn : Holder(k) = None =>
               closes[k] = <<>> /\ writes[k] = <<>> /\ \A x \in Caller : reads[k][x] = 0
<1>1. \A k \in Conn : Waiting(idle, k) => Holder(k) = None
  BY DEF Holder
<1>2. \A k \in Conn : ~Waiting(idle, k) =>
         Holder(k) = file[fdOf[k]] /\ fdOf[k] \in Fd /\ Holder(k) # None /\ Holder(k) \in Caller
  BY DEF Inv, Types, Lent, Holder, Named, None, Fd, Caller
<1>3. \A j, k \in Conn : Holder(j) = Holder(k) /\ Holder(k) # None => j = k
  BY <1>1, <1>2 DEF Inv, Lent, Sockets
<1>4. ASSUME NEW k \in Conn, Holder(k) = None
      PROVE  closes[k] = <<>> /\ writes[k] = <<>> /\ \A x \in Caller : reads[k][x] = 0
  <2>1. closes[k] = <<>>
    BY <1>4, NoneIsNobody DEF Inv, InFlight, Closing
  <2>2. \A i \in 1 .. Len(writes[k]) : FALSE
    BY <1>4, NoneIsNobody DEF Inv, InFlight, Writing
  <2>3. writes[k] = <<>>
    <3>1. writes[k] \in Seq([fd : 0 .. Callers, bytes : Seq(Byte)])
      BY DEF Inv, Types
    <3>2. QED
      BY <2>2, <3>1, EmptySeq
  <2>4. \A x \in Caller : reads[k][x] \in Nat /\ ~ (reads[k][x] > 0)
    BY <1>4, NoneIsNobody DEF Inv, Types, InFlight, Reading
  <2>5. QED
    BY <2>1, <2>3, <2>4
<1>5. QED
  BY <1>1, <1>2, <1>3, <1>4

\* A step that does not touch one caller's call leaves it in its place.
LEMMA OneCallStep ==
  ASSUME NEW y \in Caller, OneCall(y),
         up'[y] = up[y], down'[y] = down[y], pc'[y] = pc[y], calls'[y] = calls[y],
         result'[y] = result[y],
         Queued(y)' => Queued(y), Answered(y)' => Answered(y),
         QueuedOnce(y)', AnsweredOnce(y)'
  PROVE  OneCall(y)'
<1>1. (Asked(y)' <=> Asked(y)) /\ (Received(y)' <=> Received(y))
  BY DEF Asked, Received
<1>2. Received(y)' => IsAnswer(down[y], y)'
  BY <1>1 DEF OneCall, IsAnswer
<1>3. /\ calls'[y] = Len(result'[y]) + (IF pc'[y] = "waiting" THEN 1 ELSE 0)
      /\ pc'[y] # "waiting" => ~Asked(y)' /\ ~Queued(y)' /\ ~Answered(y)' /\ ~Received(y)'
      /\ Asked(y)' => ~Queued(y)' /\ ~Answered(y)' /\ ~Received(y)'
      /\ Queued(y)' => ~Answered(y)' /\ ~Received(y)'
      /\ Answered(y)' => ~Received(y)'
      /\ Asked(y)' => Len(up'[y]) = 1 /\ up'[y][1].call = calls'[y]
  BY <1>1 DEF OneCall
<1>4. QED
  BY <1>2, <1>3 DEF OneCall

LEMMA QueuedFrame ==
  ASSUME NEW y \in Caller, QueuedOnce(y), calls'[y] = calls[y], UNCHANGED tasks
  PROVE  QueuedOnce(y)' /\ (Queued(y)' => Queued(y))
  BY DEF QueuedOnce, Queued

LEMMA AnsweredFrame ==
  ASSUME NEW y \in Caller, AnsweredOnce(y), calls'[y] = calls[y], UNCHANGED writes,
         \A k \in Conn : Holder(k)' = y => Holder(k) = y \/ writes[k] = <<>>
  PROVE  AnsweredOnce(y)' /\ (Answered(y)' => Answered(y))
<1>1. \A s : IsAnswer(s, y)' <=> IsAnswer(s, y)
  BY DEF IsAnswer
<1>2. \A k \in Conn : Holder(k)' = y => Len(writes'[k]) <= 1
  BY DEF AnsweredOnce
<1>3. (\A k \in Conn : \A i \in 1 .. Len(writes[k]) :
          writes[k][i].bytes[1].of = y => IsAnswer(writes[k][i].bytes, y))'
  BY <1>1 DEF AnsweredOnce, IsAnswer
<1>4. AnsweredOnce(y)'
  BY <1>2, <1>3 DEF AnsweredOnce
<1>5. QED
  BY <1>4 DEF Answered

LEMMA OneCallFrame ==
  ASSUME NEW y \in Caller, OneCall(y),
         up'[y] = up[y], down'[y] = down[y], pc'[y] = pc[y], calls'[y] = calls[y],
         result'[y] = result[y], UNCHANGED <<tasks, writes>>,
         \A k \in Conn : Holder(k)' = y => Holder(k) = y \/ writes[k] = <<>>
  PROVE  OneCall(y)'
  BY QueuedFrame, AnsweredFrame, OneCallStep DEF OneCall

-----------------------------------------------------------------------------
(* The invariant is inductive: one lemma per action.                       *)

LEMMA InitInv == Init => Inv
<1> SUFFICES ASSUME Init PROVE Inv
  OBVIOUS
<1>1. Types
  BY CallAssumption DEF Init, Types, None, Conn, Fd
<1>2. \A k \in Conn : Waiting(idle, k)
  <2>1. Len(idle) = MaxConn
    BY CallAssumption DEF Init, Conn
  <2>2. QED
    BY <2>1, CallAssumption DEF Init, Conn, Waiting
<1>3. Sockets
  BY NoneIsNobody DEF Init, Sockets, Distinct, Waiting
<1>4. Lent
  <2>1. Distinct(idle)
    <3>1. Len(idle) = MaxConn
      BY CallAssumption DEF Init, Conn
    <3>2. QED
      BY <3>1 DEF Init, Conn, Distinct
  <2>2. QED
    BY <2>1, <1>2 DEF Lent
<1>5. InFlight
  BY DEF Init, InFlight, Reading, Closing, Writing, Tasking
<1>6. FromWhom /\ OwnResults
  BY DEF Init, FromWhom, OwnResults
<1>7. Paid
  BY DEF Init, Paid
<1>8. Calling
  <2>1. ASSUME NEW x \in Caller
        PROVE  OneCall(x)
    <3>1. ~Asked(x) /\ ~Queued(x) /\ ~Answered(x) /\ ~Received(x)
      BY DEF Init, Asked, Queued, Answered, Received
    <3>2. QueuedOnce(x) /\ AnsweredOnce(x)
      BY DEF Init, QueuedOnce, AnsweredOnce
    <3>3. QED
      BY <3>1, <3>2 DEF Init, OneCall
  <2>2. QED
    BY <2>1 DEF Calling
<1>9. QED
  BY <1>1, <1>3, <1>4, <1>5, <1>6, <1>7, <1>8 DEF Inv

LEMMA ConnectInv ==
  ASSUME Inv, NEW x \in Caller, Connect(x)
  PROVE  Inv'
<1>1. /\ pc[x] = "new" /\ pc' = [pc EXCEPT ![x] = "ready"] /\ backlog' = Append(backlog, x)
      /\ UNCHANGED <<calls, result, up, down, broken, server, cut>>
  BY DEF Connect, history
<1>2. /\ Types /\ backlog \in Seq(Caller) /\ pc \in [Caller -> {"new", "ready", "waiting", "gone"}]
      /\ ~Waiting(backlog, x) /\ \A d \in Fd : file[d] # x
  BY <1>1 DEF Inv, Types, Sockets
<1>3. /\ Append(backlog, x) \in Seq(Caller)
      /\ \A y : Waiting(backlog, y)' <=> Waiting(backlog, y) \/ y = x
      /\ Distinct(backlog')
  <2>1. Append(backlog, x) \in Seq(Caller)
    BY <1>2, AppendAt
  <2>2. \A y : Waiting(Append(backlog, x), y) <=> Waiting(backlog, y) \/ y = x
    BY <1>2, AppendWaiting
  <2>3. Distinct(Append(backlog, x))
    BY <1>2, AppendWaiting DEF Inv, Sockets
  <2>4. QED
    BY <1>1, <2>1, <2>2, <2>3 DEF Waiting
<1>4. /\ pc' \in [Caller -> {"new", "ready", "waiting", "gone"}] /\ pc'[x] = "ready"
      /\ \A y \in Caller \ {x} : pc'[y] = pc[y]
  BY <1>1, <1>2
<1>5. \A k \in Conn : Holder(k)' = Holder(k)
  BY <1>1 DEF server, Holder, Named, Waiting
<1>6. Types'
  BY <1>1, <1>3, <1>4 DEF Inv, Types, server
<1>7. Sockets'
  BY <1>1, <1>2, <1>3, <1>4 DEF Inv, Sockets, server
<1>8. Lent'
  BY <1>1 DEF Inv, Lent, server, Waiting, Distinct
<1>9. InFlight'
  <2>1. Reading' /\ Writing'
    BY <1>1, <1>5 DEF Inv, InFlight, Reading, Writing, server
  <2>2. Tasking'
    BY <1>1, <1>5, TaskingFrame DEF server
  <2>3. Closing'
    BY <1>1, <1>4, <1>5 DEF Inv, InFlight, Closing, server
  <2>4. QED
    BY <2>1, <2>2, <2>3 DEF InFlight
<1>10. Paid'
  BY <1>1, <1>4 DEF Inv, Paid, Owes, server
<1>11. Calling'
  <2>1. ASSUME NEW y \in Caller \ cut', pc'[y] # "gone"
        PROVE  OneCall(y)'
    <3>1. OneCall(y)
      BY <1>1, <1>4, <2>1 DEF Inv, Calling
    <3>2. CASE y # x
      BY <3>1, <3>2, <1>1, <1>4, <1>5, OneCallFrame DEF server
    <3>3. CASE y = x
      <4>1. /\ Asked(x)' <=> Asked(x)
            /\ Queued(x)' <=> Queued(x)
            /\ Answered(x)' <=> Answered(x)
            /\ Received(x)' <=> Received(x)
        BY <1>1 DEF Asked, Queued, Answered, Received, server
      <4>2. ~Asked(x) /\ ~Queued(x) /\ ~Answered(x) /\ ~Received(x)
        BY <3>1, <3>3, <1>1 DEF OneCall
      <4>3. calls[x] = Len(result[x])
        BY <3>1, <3>3, <1>1, <1>2 DEF OneCall, Types
      <4>4. QueuedOnce(x)' /\ AnsweredOnce(x)'
        BY <3>1, <3>3, <1>1, <1>5, QueuedFrame, AnsweredFrame DEF OneCall, server
      <4>5. calls'[x] = Len(result'[x]) + 0
        BY <4>3, <1>1, <1>2 DEF Types
      <4>6. QED
        BY <3>3, <4>1, <4>2, <4>4, <4>5, <1>4 DEF OneCall
    <3>4. QED
      BY <3>2, <3>3
  <2>2. QED
    BY <2>1 DEF Calling
<1>12. FromWhom' /\ OwnResults'
  BY <1>1 DEF Inv, FromWhom, OwnResults
<1>13. QED
  BY <1>6, <1>7, <1>8, <1>9, <1>10, <1>11, <1>12 DEF Inv

\* The socket of a caller that is there is open.
LEMMA NotShut ==
  ASSUME Inv, NEW x \in Caller, pc[x] \in {"ready", "waiting"}
  PROVE  ~Shut(x)
  BY DEF Inv, Sockets, Shut

LEMMA CallMethodInv ==
  ASSUME Inv, NEW x \in Caller, NEW known \in BOOLEAN, CallMethod(x, known)
  PROVE  Inv'
<1> DEFINE r == [from |-> x, call |-> calls'[x], known |-> known]
<1>1. /\ pc[x] = "ready" /\ pc' = [pc EXCEPT ![x] = "waiting"]
      /\ calls' = [calls EXCEPT ![x] = calls[x] + 1]
      /\ UNCHANGED <<result, down, broken, backlog, server, cut>>
  BY DEF CallMethod, history
<1>2. up' = [up EXCEPT ![x] = Append(up[x], r)]
  BY <1>1, NotShut DEF CallMethod
<1>3. /\ calls' \in [Caller -> Nat] /\ calls'[x] = calls[x] + 1
      /\ pc' \in [Caller -> {"new", "ready", "waiting", "gone"}] /\ pc'[x] = "waiting"
      /\ \A y \in Caller \ {x} : pc'[y] = pc[y] /\ calls'[y] = calls[y]
  BY <1>1 DEF Inv, Types
<1>4. r \in [from : Caller, call : Nat, known : BOOLEAN] /\ r.from = x /\ r.call = calls'[x]
  BY <1>3
<1> HIDE DEF r
<1>5. up[x] \in Seq([from : Caller, call : Nat, known : BOOLEAN])
  BY DEF Inv, Types
<1>6. /\ Append(up[x], r) \in Seq([from : Caller, call : Nat, known : BOOLEAN])
      /\ Len(Append(up[x], r)) = Len(up[x]) + 1 /\ Len(up[x]) \in Nat
      /\ \A i \in 1 .. Len(Append(up[x], r)) :
            \/ i \in 1 .. Len(up[x]) /\ Append(up[x], r)[i] = up[x][i]
            \/ i = Len(up[x]) + 1 /\ Append(up[x], r)[i] = r
  BY <1>4, <1>5, AppendAt
<1>7. /\ up' \in [Caller -> Seq([from : Caller, call : Nat, known : BOOLEAN])]
      /\ up'[x] = Append(up[x], r)
      /\ \A y \in Caller \ {x} : up'[y] = up[y]
  BY <1>2, <1>6 DEF Inv, Types
<1>8. \A k \in Conn : Holder(k)' = Holder(k)
  BY <1>1 DEF server, Holder, Named, Waiting
<1>9. Types'
  BY <1>1, <1>3, <1>7 DEF Inv, Types, server
<1>10. Sockets'
  BY <1>1, <1>3 DEF Inv, Sockets, server, Waiting, Distinct
<1>11. Lent'
  BY <1>1 DEF Inv, Lent, server, Waiting, Distinct
<1>12. InFlight'
  <2>1. Reading' /\ Writing'
    BY <1>1, <1>8 DEF Inv, InFlight, Reading, Writing, server
  <2>2. Tasking'
    BY <1>1, <1>8, TaskingFrame DEF server
  <2>3. Closing'
    BY <1>1, <1>3, <1>8 DEF Inv, InFlight, Closing, server
  <2>4. QED
    BY <2>1, <2>2, <2>3 DEF InFlight
<1>13. FromWhom'
  <2>1. \A i \in 1 .. Len(up'[x]) : up'[x][i].from = x
    <3>1. \A i \in 1 .. Len(up[x]) : up[x][i].from = x
      BY DEF Inv, FromWhom
    <3>2. \A i \in 1 .. Len(Append(up[x], r)) : Append(up[x], r)[i].from = x
      BY <3>1, <1>4, <1>6
    <3>3. QED
      BY <3>2, <1>7
  <2>2. \A y \in Caller \ {x} : \A i \in 1 .. Len(up'[y]) : up'[y][i].from = y
    BY <1>7 DEF Inv, FromWhom
  <2>3. QED
    BY <2>1, <2>2 DEF FromWhom
<1>14. Paid'
  <2>1. \A y \in Caller \ {x} : Owes(y, up[y])' <=> Owes(y, up[y])
    BY <1>1, <1>7 DEF Owes, server
  <2>2. QED
    BY <2>1, <1>3 DEF Inv, Paid
<1>15. Calling'
  <2>1. ASSUME NEW y \in Caller \ cut', pc'[y] # "gone"
        PROVE  OneCall(y)'
    <3>1. OneCall(y)
      BY <1>1, <1>3, <2>1 DEF Inv, Calling
    <3>2. CASE y # x
      BY <3>1, <3>2, <1>1, <1>3, <1>7, <1>8, OneCallFrame DEF server
    <3>3. CASE y = x
      <4>1. /\ Queued(x)' <=> Queued(x)
            /\ Answered(x)' <=> Answered(x)
            /\ Received(x)' <=> Received(x)
        BY <1>1 DEF Queued, Answered, Received, server
      <4>2. ~Asked(x) /\ ~Queued(x) /\ ~Answered(x) /\ ~Received(x)
        BY <3>1, <3>3, <1>1 DEF OneCall
      <4>3. calls'[x] = Len(result'[x]) + 1
        BY <3>1, <3>3, <1>1, <1>3 DEF OneCall, Inv, Types
      <4>4. \A k \in Conn : Holder(k)' = x => Len(writes'[k]) <= 1
        BY <3>1, <3>3, <1>1, <1>8 DEF OneCall, AnsweredOnce, server
      <4>5. Len(up'[x]) = 1 /\ up'[x][1].call = calls'[x]
        <5>1. up[x] = <<>>
          BY <4>2 DEF Asked
        <5>2. Len(up[x]) = 0
          BY <5>1
        <5>3. QED
          BY <5>2, <1>4, <1>6, <1>7
      <4>6. (\A k \in Conn : \A i \in 1 .. Len(writes[k]) :
               writes[k][i].bytes[1].of = x => IsAnswer(writes[k][i].bytes, x))'
        BY <4>1, <4>2 DEF Answered
      <4>7. \A i \in 1 .. Len(tasks') : tasks'[i].from # x
        BY <4>1, <4>2 DEF Queued
      <4>8. QueuedOnce(x)' /\ AnsweredOnce(x)'
        BY <4>4, <4>6, <4>7 DEF QueuedOnce, AnsweredOnce
      <4>9. QED
        BY <3>3, <4>1, <4>2, <4>3, <4>5, <4>8, <1>3 DEF OneCall
    <3>4. QED
      BY <3>2, <3>3
  <2>2. QED
    BY <2>1 DEF Calling
<1>16. OwnResults'
  BY <1>1 DEF Inv, OwnResults
<1>17. QED
  BY <1>9, <1>10, <1>11, <1>12, <1>13, <1>14, <1>15, <1>16 DEF Inv

LEMMA CloseSocketInv ==
  ASSUME Inv, owed' = {}, NEW x \in Caller, pc[x] \in {"ready", "waiting"}, CloseSocket(x)
  PROVE  Inv'
<1>1. /\ pc' = [pc EXCEPT ![x] = "gone"] /\ down' = [down EXCEPT ![x] = <<>>]
      /\ up' = [up EXCEPT ![x] = <<>>] \/ up' = up
      /\ ~Owes(x, up'[x])
      /\ UNCHANGED <<calls, result, backlog, server, cut>>
  BY DEF CloseSocket
<1>2. /\ pc' \in [Caller -> {"new", "ready", "waiting", "gone"}] /\ pc'[x] = "gone"
      /\ down' \in [Caller -> Seq(Byte)]
      /\ \A y \in Caller \ {x} : pc'[y] = pc[y] /\ down'[y] = down[y]
  BY <1>1 DEF Inv, Types
<1>3. /\ up' \in [Caller -> Seq([from : Caller, call : Nat, known : BOOLEAN])]
      /\ \A y \in Caller : up'[y] = up[y] \/ up'[y] = <<>>
      /\ \A y \in Caller \ {x} : up'[y] = up[y]
  <2>1. up \in [Caller -> Seq([from : Caller, call : Nat, known : BOOLEAN])]
    BY DEF Inv, Types
  <2>2. <<>> \in Seq([from : Caller, call : Nat, known : BOOLEAN])
    BY EmptySeq
  <2>3. CASE up' = [up EXCEPT ![x] = <<>>]
    BY <2>1, <2>2, <2>3
  <2>4. CASE up' = up
    BY <2>1, <2>4
  <2>5. QED
    BY <2>3, <2>4, <1>1
<1>4. \A k \in Conn : Holder(k)' = Holder(k)
  BY <1>1 DEF server, Holder, Named, Waiting
<1>5. Types'
  BY <1>1, <1>2, <1>3 DEF Inv, Types, server
<1>6. Sockets'
  BY <1>1, <1>2 DEF Inv, Sockets, server, Waiting, Distinct
<1>7. Lent'
  BY <1>1 DEF Inv, Lent, server, Waiting, Distinct
<1>8. InFlight'
  <2>1. Reading' /\ Writing'
    BY <1>1, <1>4 DEF Inv, InFlight, Reading, Writing, server
  <2>2. Tasking'
    BY <1>1, <1>4, TaskingFrame DEF server
  <2>3. \A y \in Caller : pc[y] = "gone" => pc'[y] = "gone"
    BY <1>2
  <2>4. Closing'
    BY <1>1, <2>3, <1>4 DEF Inv, InFlight, Closing, server
  <2>5. QED
    BY <2>1, <2>2, <2>4 DEF InFlight
<1>9. FromWhom'
  <2>1. \A y \in Caller : up'[y] = <<>> => \A i \in 1 .. Len(up'[y]) : up'[y][i].from = y
    OBVIOUS
  <2>2. QED
    BY <2>1, <1>3 DEF Inv, FromWhom
<1>10. Paid'
  <2>1. ~Owes(x, up[x])'
    BY <1>1 DEF Owes, server
  <2>2. \A y \in Caller \ {x} : Owes(y, up[y])' <=> Owes(y, up[y])
    BY <1>1, <1>3 DEF Owes, server
  <2>3. QED
    BY <2>1, <2>2, <1>2 DEF Inv, Paid
<1>11. Calling'
  <2>1. ASSUME NEW y \in Caller \ cut', pc'[y] # "gone"
        PROVE  OneCall(y)'
    <3>1. OneCall(y) /\ y # x
      BY <1>1, <1>2, <2>1 DEF Inv, Calling
    <3>2. QED
      BY <3>1, <1>1, <1>2, <1>3, <1>4, OneCallFrame DEF server
  <2>2. QED
    BY <2>1 DEF Calling
<1>12. OwnResults'
  BY <1>1 DEF Inv, OwnResults
<1>13. QED
  BY <1>5, <1>6, <1>7, <1>8, <1>9, <1>10, <1>11, <1>12 DEF Inv

LEMMA AnswerIsSeq ==
  ASSUME NEW x \in Caller, NEW c \in Nat, NEW size \in 1 .. AnswerSize, NEW zeros \in Zeros
  PROVE  /\ Answer(x, c, size, zeros) \in Seq(Byte) /\ Len(Answer(x, c, size, zeros)) = size
         /\ \A i \in 1 .. size : Answer(x, c, size, zeros)[i] = [of |-> x, call |-> c, part |-> i, size |-> size, zero |-> i \in zeros]
         /\ Answer(x, c, size, zeros) # <<>>
<1>1. size \in Nat \ {0}
  BY CallAssumption
<1>2. \A i \in 1 .. size : [of |-> x, call |-> c, part |-> i, size |-> size, zero |-> i \in zeros] \in Byte
  BY <1>1 DEF Byte, Caller
<1>3. Answer(x, c, size, zeros) \in Seq(Byte) /\ Len(Answer(x, c, size, zeros)) = size
  BY <1>1, <1>2 DEF Answer
<1>4. Answer(x, c, size, zeros) # <<>>
  BY <1>1, <1>3
<1>5. QED
  BY <1>3, <1>4 DEF Answer

\* What may be in the buffer behind what was received.
LEMMA TailsTyped ==
  ASSUME NEW n \in Nat, NEW tail \in Tails(n)
  PROVE  tail \in Seq(Byte)
<1>1. \A i \in 1 .. AnswerSize :
         /\ Stale[i] = [of |-> None, call |-> 0, part |-> i, size |-> 0, zero |-> FALSE]
         /\ Stale[i] \in Byte
  BY CallAssumption DEF Stale, Byte, None
<1>2. SubSeq(Stale, n + 1, AnswerSize) \in Seq(Byte)
  <2>1. ASSUME NEW i \in n + 1 .. AnswerSize
        PROVE  Stale[i] \in Byte
    <3>1. i \in 1 .. AnswerSize
      BY CallAssumption
    <3>2. QED
      BY <1>1, <3>1
  <2>2. QED
    BY <2>1, CallAssumption, SubSeqProperties
<1>3. QED
  BY <1>2, EmptySeq DEF Tails

\* A string ends before its first zero byte, if it has one.
LEMMA TakenFacts ==
  ASSUME NEW s \in Seq(Byte)
  PROVE  /\ Taken(s) \in Seq(Byte)
         /\ \/ Taken(s) = s /\ \A i \in 1 .. Len(s) : ~s[i].zero
            \/ \E m \in 1 .. Len(s) : /\ s[m].zero /\ \A i \in 1 .. m - 1 : ~s[i].zero
                                      /\ Taken(s) = SubSeq(s, 1, m - 1)
                                      /\ Len(Taken(s)) = m - 1
                                      /\ \A i \in 1 .. m - 1 : Taken(s)[i] = s[i]
<1> DEFINE zeros == {i \in 1 .. Len(s) : s[i].zero}
<1>1. Len(s) \in Nat
  BY LenProperties
<1>2. CASE zeros = {}
  <2>1. Taken(s) = s
    BY <1>2 DEF Taken
  <2>2. QED
    BY <1>2, <2>1
<1>3. CASE zeros # {}
  <2>1. \E m \in zeros : \A i \in zeros : m <= i
    <3>1. zeros \subseteq Nat
      BY <1>1
    <3>2. QED
      BY <1>3, <3>1, LeastNat
  <2>2. PICK m \in zeros : m = Min(zeros) /\ \A i \in zeros : m <= i
    BY <2>1 DEF Min
  <2>3. Taken(s) = SubSeq(s, 1, m - 1)
    BY <1>3, <2>2 DEF Taken
  <2>4. m \in 1 .. Len(s) /\ s[m].zero /\ m \in Nat /\ m >= 1
    BY <1>1
  <2>5. ASSUME NEW i \in 1 .. m - 1
        PROVE  ~s[i].zero /\ i \in 1 .. Len(s)
    <3>1. i \in 1 .. Len(s) /\ ~ (m <= i)
      BY <1>1, <2>4
    <3>2. QED
      BY <2>2, <3>1
  <2>6. \A i \in 1 .. m - 1 : s[i] \in Byte
    BY <2>5, ElementOfSeq
  <2>7. /\ SubSeq(s, 1, m - 1) \in Seq(Byte)
        /\ Len(SubSeq(s, 1, m - 1)) = IF 1 <= m - 1 THEN m - 1 - 1 + 1 ELSE 0
        /\ \A i \in 1 .. m - 1 - 1 + 1 : SubSeq(s, 1, m - 1)[i] = s[1 + i - 1]
    <3>1. PICK l \in Int : l = m - 1
      BY <2>4
    <3>2. \A i \in 1 .. l : s[i] \in Byte
      BY <2>6, <3>1
    <3>3. /\ SubSeq(s, 1, l) \in Seq(Byte)
          /\ Len(SubSeq(s, 1, l)) = IF 1 <= l THEN l - 1 + 1 ELSE 0
          /\ \A i \in 1 .. l - 1 + 1 : SubSeq(s, 1, l)[i] = s[1 + i - 1]
      BY <3>2, SubSeqProperties
    <3>4. QED
      BY <3>1, <3>3
  <2>8. Len(SubSeq(s, 1, m - 1)) = m - 1
    BY <2>4, <2>7
  <2>9. \A i \in 1 .. m - 1 : SubSeq(s, 1, m - 1)[i] = s[i]
    <3>1. \A i \in 1 .. m - 1 : i \in 1 .. m - 1 - 1 + 1 /\ 1 + i - 1 = i
      BY <2>4
    <3>2. QED
      BY <2>7, <3>1
  <2>10. QED
    BY <2>3, <2>4, <2>5, <2>7, <2>8, <2>9
<1>4. QED
  BY <1>2, <1>3

\* What is behind an answer in the buffer changes nothing of what is taken of it.
LEMMA TakenOfConcat ==
  ASSUME NEW a \in Seq(Byte), NEW t \in Seq(Byte)
  PROVE  Own(a, Taken(a \o t))
<1>1. PICK k \in Nat : k = Len(a) /\ Len(t) \in Nat
  BY LenProperties
<1>2. PICK c \in Seq(Byte) :
         /\ c = a \o t /\ Len(c) >= k
         /\ \A i \in 1 .. k : i \in 1 .. Len(c) /\ c[i] = a[i]
  <2>1. /\ a \o t \in Seq(Byte) /\ Len(a \o t) = Len(a) + Len(t)
        /\ \A i \in 1 .. Len(a) + Len(t) : (a \o t)[i] = IF i <= Len(a) THEN a[i] ELSE t[i - Len(a)]
    BY ConcatProperties
  <2>2. \A i \in 1 .. k : i \in 1 .. Len(a) + Len(t) /\ i <= Len(a)
    BY <1>1
  <2>3. \A i \in 1 .. k : i \in 1 .. Len(a \o t) /\ (a \o t)[i] = a[i]
    BY <2>1, <2>2
  <2>4. Len(a \o t) >= k
    BY <1>1, <2>1
  <2>5. QED
    BY <2>1, <2>3, <2>4
<1>3. Len(c) \in Nat /\ Taken(a) \in Seq(Byte) /\ Taken(c) \in Seq(Byte)
  BY LenProperties, TakenFacts
<1>4. CASE Taken(a) = a
  <2>1. \A i \in 1 .. k : ~a[i].zero
    <3>1. ASSUME NEW m \in 1 .. Len(a), Len(Taken(a)) = m - 1
          PROVE  FALSE
      BY <1>1, <1>4, <3>1
    <3>2. QED
      BY <1>1, <3>1, TakenFacts
  <2>2. PICK n \in Nat :
           /\ n = Len(Taken(c)) /\ n >= k
           /\ \A i \in 1 .. k : Taken(c)[i] = a[i]
    <3>1. ASSUME NEW m \in 1 .. Len(c), c[m].zero, Len(Taken(c)) = m - 1,
                 \A i \in 1 .. m - 1 : Taken(c)[i] = c[i]
          PROVE  /\ Len(Taken(c)) \in Nat /\ Len(Taken(c)) >= k
                 /\ \A i \in 1 .. k : Taken(c)[i] = a[i]
      <4>1. m \notin 1 .. k
        BY <1>2, <2>1, <3>1
      <4>2. m \in Nat /\ m >= 1 /\ m > k
        BY <1>3, <4>1
      <4>3. \A i \in 1 .. k : i \in 1 .. m - 1
        BY <4>2
      <4>4. QED
        BY <1>2, <3>1, <4>2, <4>3
    <3>2. \/ Taken(c) = c
          \/ \E m \in 1 .. Len(c) : /\ c[m].zero /\ Len(Taken(c)) = m - 1
                                    /\ \A i \in 1 .. m - 1 : Taken(c)[i] = c[i]
      BY TakenFacts
    <3>3. /\ Len(Taken(c)) \in Nat /\ Len(Taken(c)) >= k
          /\ \A i \in 1 .. k : Taken(c)[i] = a[i]
      <4>1. CASE Taken(c) = c
        BY <1>2, <1>3, <4>1
      <4>2. CASE Taken(c) # c
        BY <3>1, <3>2, <4>2
      <4>3. QED
        BY <4>1, <4>2
    <3>4. QED
      BY <3>3
  <2>3. SubSeq(Taken(c), 1, k) = a
    <3>1. \A i \in 1 .. k : Taken(c)[i] \in Byte
      <4>1. \A i \in 1 .. k : i \in 1 .. Len(a)
        BY <1>1
      <4>2. QED
        BY <2>2, <4>1, ElementOfSeq
    <3>2. /\ SubSeq(Taken(c), 1, k) \in Seq(Byte)
          /\ Len(SubSeq(Taken(c), 1, k)) = IF 1 <= k THEN k - 1 + 1 ELSE 0
          /\ \A i \in 1 .. k - 1 + 1 : SubSeq(Taken(c), 1, k)[i] = Taken(c)[1 + i - 1]
      BY <3>1, SubSeqProperties
    <3>3. Len(SubSeq(Taken(c), 1, k)) = k
      BY <3>2
    <3>4. \A i \in 1 .. k : SubSeq(Taken(c), 1, k)[i] = a[i]
      <4>1. \A i \in 1 .. k : i \in 1 .. k - 1 + 1 /\ 1 + i - 1 = i
        OBVIOUS
      <4>2. QED
        BY <2>2, <3>2, <4>1
    <3>5. QED
      BY <1>1, <3>2, <3>3, <3>4, SeqEqual
  <2>4. Begins(a, Taken(c))
    BY <1>1, <2>2, <2>3 DEF Begins
  <2>5. QED
    BY <1>2, <1>4, <2>4 DEF Own
<1>5. CASE Taken(a) # a
  <2>1. PICK m \in 1 .. k : /\ a[m].zero /\ \A i \in 1 .. m - 1 : ~a[i].zero
                            /\ Len(Taken(a)) = m - 1
                            /\ \A i \in 1 .. m - 1 : Taken(a)[i] = a[i]
    BY <1>1, <1>5, TakenFacts
  <2>2. c[m].zero /\ m \in 1 .. Len(c)
    BY <1>2, <2>1
  <2>3. \A i \in 1 .. m - 1 : i \in 1 .. k /\ ~c[i].zero /\ c[i] = a[i]
    <3>1. \A i \in 1 .. m - 1 : i \in 1 .. k
      BY <1>1
    <3>2. QED
      BY <1>2, <2>1, <3>1
  <2>4. PICK n \in 1 .. Len(c) : /\ c[n].zero /\ \A i \in 1 .. n - 1 : ~c[i].zero
                                 /\ Len(Taken(c)) = n - 1
                                 /\ \A i \in 1 .. n - 1 : Taken(c)[i] = c[i]
    BY <2>2, TakenFacts
  <2>5. n = m
    <3>1. ~ (n \in 1 .. m - 1) /\ ~ (m \in 1 .. n - 1)
      BY <2>2, <2>3, <2>4
    <3>2. n \in Nat /\ m \in Nat /\ n >= 1 /\ m >= 1
      BY <1>1, <1>3
    <3>3. QED
      BY <3>1, <3>2
  <2>6. \A i \in 1 .. m - 1 : Taken(c)[i] = Taken(a)[i]
    BY <2>1, <2>3, <2>4, <2>5
  <2>7. Taken(c) = Taken(a)
    BY <1>3, <2>1, <2>4, <2>5, <2>6, SeqEqual
  <2>8. QED
    BY <1>2, <1>5, <2>7 DEF Own
<1>6. QED
  BY <1>4, <1>5

LEMMA RecvInv ==
  ASSUME Inv, NEW x \in Caller, NEW n \in 1 .. Len(down[x]), Recv(x, n)
  PROVE  Inv'
<1> DEFINE got == SubSeq(down[x], 1, n)
           left == SubSeq(down[x], n + 1, Len(down[x]))
<1>1. /\ pc[x] = "waiting" /\ pc' = [pc EXCEPT ![x] = "ready"]
      /\ down' = [down EXCEPT ![x] = left]
      /\ cut' = IF down[x][n].part < down[x][n].size THEN cut \cup {x} ELSE cut
      /\ UNCHANGED <<calls, up, broken, backlog, server>>
  BY DEF Recv, Take
<1>2. PICK tail \in Tails(Len(got)) : result' = [result EXCEPT ![x] = Append(result[x], Taken(got \o tail))]
  BY DEF Recv, Take
<1>3. down[x] \in Seq(Byte) /\ Len(down[x]) \in Nat /\ n \in Nat \ {0}
  BY LenProperties DEF Inv, Types
<1>4. got \in Seq(Byte) /\ Len(got) = n
  <2>1. \A i \in 1 .. n : down[x][i] \in Byte
    BY <1>3, ElementOfSeq
  <2>2. QED
    BY <1>3, <2>1, SubSeqProperties
<1>5. left \in Seq(Byte) /\ (n = Len(down[x]) => left = <<>>)
  <2>1. \A i \in n + 1 .. Len(down[x]) : down[x][i] \in Byte
    BY <1>3, ElementOfSeq
  <2>2. left \in Seq(Byte)
    BY <1>3, <2>1, SubSeqProperties
  <2>3. QED
    BY <2>2, <1>3, SubSeqEmpty
<1>6. n = Len(down[x]) => got = down[x]
  BY <1>3, SubSeqFull
<1> HIDE DEF got, left
<1>7. tail \in Seq(Byte) /\ Taken(got \o tail) \in Seq(Byte)
  <2>1. tail \in Seq(Byte)
    BY <1>2, <1>3, <1>4, TailsTyped
  <2>2. got \o tail \in Seq(Byte)
    BY <2>1, <1>4, ConcatProperties
  <2>3. QED
    BY <2>1, <2>2, TakenFacts
<1>8. /\ result[x] \in Seq(Seq(Byte)) /\ Len(result[x]) \in Nat
      /\ Append(result[x], Taken(got \o tail)) \in Seq(Seq(Byte))
      /\ Len(Append(result[x], Taken(got \o tail))) = Len(result[x]) + 1
      /\ \A i \in 1 .. Len(result[x]) + 1 :
            \/ i \in 1 .. Len(result[x]) /\ Append(result[x], Taken(got \o tail))[i] = result[x][i]
            \/ i = Len(result[x]) + 1 /\ Append(result[x], Taken(got \o tail))[i] = Taken(got \o tail)
  <2>1. result[x] \in Seq(Seq(Byte))
    BY DEF Inv, Types
  <2>2. QED
    BY <2>1, <1>7, AppendAt
<1>9. /\ result' \in [Caller -> Seq(Seq(Byte))]
      /\ result'[x] = Append(result[x], Taken(got \o tail))
      /\ \A y \in Caller \ {x} : result'[y] = result[y]
  BY <1>2, <1>8 DEF Inv, Types
<1>10. /\ down' \in [Caller -> Seq(Byte)] /\ down'[x] = left
       /\ pc' \in [Caller -> {"new", "ready", "waiting", "gone"}] /\ pc'[x] = "ready"
       /\ \A y \in Caller \ {x} : down'[y] = down[y] /\ pc'[y] = pc[y]
  BY <1>1, <1>5 DEF Inv, Types
<1>11. \A k \in Conn : Holder(k)' = Holder(k)
  BY <1>1 DEF server, Holder, Named, Waiting
<1>12. Types'
  BY <1>1, <1>9, <1>10 DEF Inv, Types, server
<1>13. Sockets'
  BY <1>1, <1>10 DEF Inv, Sockets, server, Waiting, Distinct
<1>14. Lent'
  BY <1>1 DEF Inv, Lent, server, Waiting, Distinct
<1>15. InFlight'
  <2>1. Reading' /\ Writing'
    BY <1>1, <1>11 DEF Inv, InFlight, Reading, Writing, server
  <2>2. Tasking'
    BY <1>1, <1>11, TaskingFrame DEF server
  <2>3. \A y \in Caller : pc[y] = "gone" => pc'[y] = "gone"
    BY <1>1, <1>10
  <2>4. Closing'
    BY <1>1, <2>3, <1>11 DEF Inv, InFlight, Closing, server
  <2>5. QED
    BY <2>1, <2>2, <2>4 DEF InFlight
<1>16. FromWhom'
  BY <1>1 DEF Inv, FromWhom
<1>17. Paid'
  <2>1. \A y \in Caller : Owes(y, up[y])' <=> Owes(y, up[y])
    BY <1>1 DEF Owes, server
  <2>2. QED
    BY <2>1, <1>1, <1>10 DEF Inv, Paid
\* The caller has read its answer to the end, or is in cut.
<1>18. ASSUME x \notin cut'
       PROVE  /\ OneCall(x) /\ n = Len(down[x])
              /\ \E size \in 1 .. AnswerSize, zeros \in Zeros : got = Answer(x, calls[x], size, zeros)
  <2>1. OneCall(x)
    BY <1>1, <1>18 DEF Inv, Calling
  <2>2. Received(x)
    BY <1>3 DEF Received
  <2>3. PICK size \in 1 .. AnswerSize, zeros \in Zeros : down[x] = Answer(x, calls[x], size, zeros)
    BY <2>1, <2>2 DEF OneCall, IsAnswer
  <2>4. calls[x] \in Nat
    BY DEF Inv, Types
  <2>5. Len(down[x]) = size /\ down[x][n].part = n /\ down[x][n].size = size /\ size \in Nat
    <3>1. size \in Nat
      BY CallAssumption
    <3>2. Len(down[x]) = size
      BY <2>3, <2>4, AnswerIsSeq
    <3>3. down[x][n] = [of |-> x, call |-> calls[x], part |-> n, size |-> size, zero |-> n \in zeros]
      BY <2>3, <2>4, <3>2, AnswerIsSeq
    <3>4. QED
      BY <3>1, <3>2, <3>3
  <2>6. ~ (down[x][n].part < down[x][n].size)
    BY <1>1, <1>18
  <2>7. n = size
    BY <2>5, <2>6, <1>3
  <2>8. QED
    BY <2>1, <2>3, <2>5, <2>7, <1>6
<1>19. Calling'
  <2>1. ASSUME NEW y \in Caller \ cut', pc'[y] # "gone"
        PROVE  OneCall(y)'
    <3>1. CASE y # x
      <4>1. OneCall(y)
        BY <3>1, <2>1, <1>1, <1>10 DEF Inv, Calling
      <4>2. QED
        BY <4>1, <3>1, <1>1, <1>9, <1>10, <1>11, OneCallFrame DEF server
    <3>2. CASE y = x
      <4>1. OneCall(x) /\ Received(x) /\ pc[x] = "waiting" /\ down'[x] = <<>>
        BY <2>1, <3>2, <1>1, <1>3, <1>5, <1>10, <1>18 DEF Received
      <4>2. ~Asked(x) /\ ~Queued(x) /\ ~Answered(x)
        BY <4>1 DEF OneCall
      <4>3. ~Asked(x)' /\ ~Queued(x)' /\ ~Answered(x)' /\ ~Received(x)'
        BY <4>1, <4>2, <1>1 DEF Asked, Queued, Answered, Received, server
      <4>4. calls'[x] = Len(result'[x])
        BY <4>1, <1>1, <1>8, <1>9 DEF OneCall
      <4>5. QueuedOnce(x)' /\ AnsweredOnce(x)'
        BY <4>1, <1>1, <1>11, QueuedFrame, AnsweredFrame DEF OneCall, server
      <4>6. Len(result'[x]) + 0 = Len(result'[x])
        BY <1>8, <1>9
      <4>7. QED
        BY <3>2, <4>3, <4>4, <4>5, <4>6, <1>10 DEF OneCall
    <3>3. QED
      BY <3>1, <3>2
  <2>2. QED
    BY <2>1 DEF Calling
<1>20. OwnResults'
  <2>1. ASSUME NEW y \in Caller \ cut', NEW i \in 1 .. Len(result'[y])
        PROVE  \E size \in 1 .. AnswerSize, zeros \in Zeros :
                  Own(Answer(y, i, size, zeros), result'[y][i])
    <3>1. CASE y # x
      BY <3>1, <2>1, <1>1, <1>9 DEF Inv, OwnResults
    <3>2. CASE y = x /\ i \in 1 .. Len(result[x])
      <4>1. result'[x][i] = result[x][i]
        BY <3>2, <1>8, <1>9
      <4>2. x \in Caller \ cut
        BY <3>2, <1>1
      <4>3. QED
        BY <3>2, <4>1, <4>2 DEF Inv, OwnResults
    <3>3. CASE y = x /\ i = Len(result[x]) + 1
      <4>1. PICK size \in 1 .. AnswerSize, zeros \in Zeros : got = Answer(x, calls[x], size, zeros)
        BY <3>3, <1>18
      <4>2. i = calls[x] /\ calls[x] \in Nat
        BY <3>3, <1>1, <1>18 DEF OneCall, Inv, Types
      <4>3. result'[x][i] = Taken(got \o tail)
        BY <3>3, <1>8, <1>9
      <4>4. Own(got, Taken(got \o tail))
        BY <1>4, <1>7, TakenOfConcat
      <4>5. QED
        BY <4>1, <4>2, <4>3, <4>4, <3>3
    <3>4. QED
      BY <3>1, <3>2, <3>3, <1>8, <1>9
  <2>2. QED
    BY <2>1 DEF OwnResults
<1>21. QED
  BY <1>12, <1>13, <1>14, <1>15, <1>16, <1>17, <1>19, <1>20 DEF Inv

\* One read less.
LEMMA DecReads ==
  ASSUME Types, NEW k \in Conn, NEW x \in Caller, reads[k][x] > 0
  PROVE  /\ Dec(reads, k, x) \in [Conn -> [Caller -> Nat]]
         /\ Dec(reads, k, x)[k][x] = reads[k][x] - 1
         /\ \A j \in Conn, y \in Caller : j # k \/ y # x => Dec(reads, k, x)[j][y] = reads[j][y]
<1>1. reads \in [Conn -> [Caller -> Nat]] /\ reads[k] \in [Caller -> Nat] /\ reads[k][x] - 1 \in Nat
  BY DEF Types
<1>2. QED
  BY <1>1 DEF Dec

\* The holder of a connection with a read, a write or a close in flight.
LEMMA ReadOfHolder ==
  ASSUME Inv, NEW k \in Conn, NEW x \in Caller, reads[k][x] > 0
  PROVE  /\ Holder(k) = x /\ Named(fdOf[k]) = x /\ reads[k][x] = 1 /\ closes[k] = <<>>
         /\ \A y \in Caller \ {x} : reads[k][y] = 0
<1>1. Holder(k) = x /\ reads[k][x] = 1 /\ closes[k] = <<>>
  BY DEF Inv, InFlight, Reading
<1>2. Named(fdOf[k]) = x
  BY <1>1, NoneIsNobody DEF Holder
<1>3. \A y \in Caller : reads[k][y] \in Nat /\ (reads[k][y] > 0 => y = x)
  BY <1>1 DEF Inv, InFlight, Reading, Types
<1>4. QED
  BY <1>1, <1>2, <1>3

\* A step of the provider that moves neither callers nor what is queued and written for them.
LEMMA CallersFrame ==
  ASSUME Inv, UNCHANGED <<callers, up, down, tasks, writes, cut>>,
         \A k \in Conn : \/ Holder(k)' = Holder(k)
                         \/ Holder(k)' = None
                         \/ Holder(k) = None
  PROVE  FromWhom' /\ Paid' /\ Calling' /\ OwnResults'
<1>1. FromWhom'
  BY DEF Inv, FromWhom
<1>2. Paid'
  <2>1. \A y \in Caller : Owes(y, up[y])' <=> Owes(y, up[y])
    BY DEF Owes
  <2>2. QED
    BY <2>1 DEF Inv, Paid, callers
<1>3. Calling'
  <2>1. ASSUME NEW y \in Caller \ cut', pc'[y] # "gone"
        PROVE  OneCall(y)'
    <3>1. OneCall(y)
      BY <2>1 DEF Inv, Calling, callers
    <3>2. \A k \in Conn : Holder(k)' = y => Holder(k) = y \/ writes[k] = <<>>
      BY HolderFacts, NoneIsNobody
    <3>3. QED
      BY <3>1, <3>2, OneCallFrame DEF callers
  <2>2. QED
    BY <2>1 DEF Calling
<1>4. OwnResults'
  BY DEF Inv, OwnResults, callers
<1>5. QED
  BY <1>1, <1>2, <1>3, <1>4

LEMMA ReadFailedInv ==
  ASSUME Inv, NEW k \in Conn, NEW x \in Caller, ReadFailed(k, x)
  PROVE  Inv'
<1>1. /\ reads[k][x] > 0 /\ reads' = Dec(reads, k, x)
      /\ UNCHANGED <<callers, sockets, idle, fdOf, file, writes, closes, tasks, history>>
  BY DEF ReadFailed
<1>2. /\ reads' \in [Conn -> [Caller -> Nat]]
      /\ \A j \in Conn, y \in Caller : reads'[j][y] > 0 => reads[j][y] > 0 /\ reads'[j][y] = reads[j][y]
  <2>1. reads[k][x] = 1
    BY <1>1, ReadOfHolder
  <2>2. reads'[k][x] = 0
    BY <2>1, <1>1, DecReads DEF Inv
  <2>3. QED
    BY <2>2, <1>1, DecReads DEF Inv
<1>3. \A j \in Conn : Holder(j)' = Holder(j)
  BY <1>1 DEF Holder, Named, Waiting
<1>4. Types' /\ Sockets' /\ Lent'
  <2>1. Types'
    BY <1>1, <1>2 DEF Inv, Types, callers, sockets
  <2>2. Sockets' /\ Lent'
    BY <1>1 DEF Inv, Sockets, Lent, callers, sockets, Waiting, Distinct
  <2>3. QED
    BY <2>1, <2>2
<1>5. InFlight'
  <2>1. Reading'
    BY <1>1, <1>2, <1>3 DEF Inv, InFlight, Reading
  <2>2. Writing'
    BY <1>1, <1>3 DEF Inv, InFlight, Writing
  <2>3. Tasking'
    BY <1>1, <1>3, TaskingFrame
  <2>4. Closing'
    BY <1>1, <1>3 DEF Inv, InFlight, Closing, callers
  <2>5. QED
    BY <2>1, <2>2, <2>3, <2>4 DEF InFlight
<1>6. FromWhom' /\ Paid' /\ Calling' /\ OwnResults'
  BY <1>1, <1>3, CallersFrame DEF sockets, history
<1>7. QED
  BY <1>4, <1>5, <1>6 DEF Inv

LEMMA ReadEofInv ==
  ASSUME Inv, NEW k \in Conn, NEW x \in Caller, ReadEof(k, x)
  PROVE  Inv'
<1>1. /\ reads[k][x] > 0 /\ pc[x] = "gone" /\ reads' = Dec(reads, k, x)
      /\ closes' = [closes EXCEPT ![k] = Append(closes[k], fdOf[k])]
      /\ UNCHANGED <<callers, sockets, idle, fdOf, file, writes, tasks, history>>
  BY DEF ReadEof, Disconnect
<1>2. /\ Holder(k) = x /\ closes[k] = <<>> /\ reads[k][x] = 1
      /\ \A y \in Caller \ {x} : reads[k][y] = 0
  BY <1>1, ReadOfHolder
<1>3. /\ reads' \in [Conn -> [Caller -> Nat]]
      /\ \A y \in Caller : reads'[k][y] = 0
      /\ \A j \in Conn \ {k} : \A y \in Caller : reads'[j][y] = reads[j][y]
  <2>1. reads'[k][x] = 0
    BY <1>2, <1>1, DecReads DEF Inv
  <2>2. /\ reads' \in [Conn -> [Caller -> Nat]]
        /\ \A j \in Conn, y \in Caller : j # k \/ y # x => reads'[j][y] = reads[j][y]
    BY <1>1, DecReads DEF Inv
  <2>3. QED
    BY <2>1, <2>2, <1>2
<1>4. /\ closes' \in [Conn -> Seq(0 .. Callers)]
      /\ closes'[k] = <<fdOf[k]>>
      /\ \A j \in Conn \ {k} : closes'[j] = closes[j]
  <2>1. fdOf[k] \in 0 .. Callers /\ <<fdOf[k]>> \in Seq(0 .. Callers)
    BY DEF Inv, Types
  <2>2. Append(closes[k], fdOf[k]) = <<fdOf[k]>>
    BY <1>2
  <2>3. QED
    BY <2>1, <2>2, <1>1 DEF Inv, Types
<1>5. \A j \in Conn : Holder(j)' = Holder(j)
  BY <1>1 DEF Holder, Named, Waiting
<1>6. Types' /\ Sockets' /\ Lent'
  <2>1. Types'
    BY <1>1, <1>3, <1>4 DEF Inv, Types, callers, sockets
  <2>2. Sockets' /\ Lent'
    BY <1>1 DEF Inv, Sockets, Lent, callers, sockets, Waiting, Distinct
  <2>3. QED
    BY <2>1, <2>2
<1>7. InFlight'
  <2>1. ASSUME NEW j \in Conn, NEW y \in Caller, reads'[j][y] > 0
        PROVE  reads'[j][y] = 1 /\ Holder(j)' = y /\ closes'[j] = <<>>
    <3>1. j # k /\ reads[j][y] > 0
      BY <2>1, <1>3
    <3>2. QED
      BY <3>1, <1>3, <1>4, <1>5 DEF Inv, InFlight, Reading
  <2>2. Writing'
    BY <1>1, <1>5 DEF Inv, InFlight, Writing
  <2>3. Tasking'
    BY <1>1, <1>5, TaskingFrame
  <2>4. Closing'
    BY <1>1, <1>2, <1>4, <1>5 DEF Inv, InFlight, Closing, callers
  <2>5. QED
    BY <2>1, <2>2, <2>3, <2>4 DEF InFlight, Reading
<1>8. FromWhom' /\ Paid' /\ Calling' /\ OwnResults'
  BY <1>1, <1>5, CallersFrame DEF sockets, history
<1>9. QED
  BY <1>6, <1>7, <1>8 DEF Inv

\* A close comes from the holder, who has gone and is owed nothing: so nothing is on its way
\* to the descriptor that is given back.
LEMMA ClosedInv ==
  ASSUME Inv, NEW k \in Conn, Closed(k)
  PROVE  Inv'
<1>1. /\ closes[k] # <<>>
      /\ file' = [d \in Fd |-> IF d = Head(closes[k]) THEN None ELSE file[d]]
      /\ closes' = [closes EXCEPT ![k] = Tail(closes[k])]
      /\ idle' = Append(idle, k)
      /\ UNCHANGED <<callers, sockets, fdOf, reads, writes, tasks, history>>
  BY DEF Closed
<1>2. PICK x \in Caller : Holder(k) = x /\ pc[x] = "gone"
  BY <1>1 DEF Inv, InFlight, Closing
<1>3. /\ closes[k] = <<fdOf[k]>> /\ Head(closes[k]) = fdOf[k] /\ Tail(closes[k]) = <<>>
      /\ fdOf[k] \in Fd /\ file[fdOf[k]] = x /\ ~Waiting(idle, k)
  <2>1. closes[k] = <<fdOf[k]>>
    BY <1>1 DEF Inv, InFlight, Closing
  <2>2. Holder(k) # None
    BY <1>2, NoneIsNobody
  <2>3. QED
    BY <2>1, <2>2, <1>2, HolderFacts
<1>4. ~Owes(x, up[x])
  BY <1>2 DEF Inv, Paid
<1>5. writes[k] = <<>>
  <2>1. \A i \in 1 .. Len(writes[k]) : FALSE
    BY <1>2, <1>4 DEF Inv, InFlight, Writing, Owes
  <2>2. writes[k] \in Seq([fd : 0 .. Callers, bytes : Seq(Byte)])
    BY DEF Inv, Types
  <2>3. QED
    BY <2>1, <2>2, EmptySeq
<1>6. \A y \in Caller : ~ (reads[k][y] > 0)
  BY <1>1 DEF Inv, InFlight, Reading
<1>7. \A i \in 1 .. Len(tasks) : tasks[i].known => tasks[i].conn # k
  BY <1>2, <1>4 DEF Inv, InFlight, Tasking, Owes
<1>8. /\ Append(idle, k) \in Seq(Conn)
      /\ \A j : Waiting(idle, j)' <=> Waiting(idle, j) \/ j = k
      /\ Distinct(idle')
  <2>1. idle \in Seq(Conn) /\ Distinct(idle)
    BY DEF Inv, Types, Lent
  <2>2. /\ \A j : Waiting(Append(idle, k), j) <=> Waiting(idle, j) \/ j = k
        /\ Distinct(Append(idle, k))
    BY <2>1, <1>3, AppendWaiting
  <2>3. Append(idle, k) \in Seq(Conn)
    BY <2>1, AppendAt
  <2>4. QED
    BY <2>2, <2>3, <1>1 DEF Waiting
<1>9. /\ file' \in [Fd -> 0 .. Callers] /\ file'[fdOf[k]] = None
      /\ \A d \in Fd : d # fdOf[k] => file'[d] = file[d]
  BY <1>1, <1>3, CallAssumption DEF Inv, Types, None
<1>10. /\ closes' \in [Conn -> Seq(0 .. Callers)] /\ closes'[k] = <<>>
       /\ \A j \in Conn \ {k} : closes'[j] = closes[j]
  <2>1. <<>> \in Seq(0 .. Callers)
    BY EmptySeq
  <2>2. QED
    BY <2>1, <1>1, <1>3 DEF Inv, Types
<1>11. Holder(k)' = None
  BY <1>8 DEF Holder
<1>12. \A j \in Conn \ {k} : ~Waiting(idle, j) => fdOf[j] \in Fd /\ fdOf[j] # fdOf[k]
  BY <1>3 DEF Inv, Lent
<1>13. ASSUME NEW j \in Conn \ {k}
       PROVE  Holder(j)' = Holder(j)
  <2>1. Waiting(idle, j)' <=> Waiting(idle, j)
    BY <1>8
  <2>2. CASE Waiting(idle, j)
    BY <2>1, <2>2 DEF Holder
  <2>3. CASE ~Waiting(idle, j)
    <3>1. fdOf[j] \in Fd /\ file'[fdOf[j]] = file[fdOf[j]]
      BY <2>3, <1>9, <1>12
    <3>2. QED
      BY <2>1, <2>3, <3>1, <1>1 DEF Holder, Named
  <2>4. QED
    BY <2>2, <2>3
<1>14. Types'
  BY <1>1, <1>8, <1>9, <1>10 DEF Inv, Types, callers, sockets
<1>15. Sockets'
  <2>1. \A d \in Fd : file'[d] = None \/ file'[d] = file[d]
    BY <1>9
  <2>2. \A y \in Caller, d \in Fd : file'[d] = y => file[d] = y
    BY <2>1, NoneIsNobody
  <2>3. \A y \in Caller \ {x}, d \in Fd : file[d] = y => file'[d] = y
    BY <1>3, <1>9
  <2>4. \A d, e \in Fd : file'[d] = file'[e] /\ file'[d] # None => d = e
    BY <2>1 DEF Inv, Sockets
  <2>5. Distinct(backlog') /\ (\A y \in Caller : pc[y] = "new" => ~Waiting(backlog, y))'
    BY <1>1 DEF Inv, Sockets, callers, sockets, Distinct, Waiting
  <2>6. (\A y \in Caller : pc[y] = "new" \/ Waiting(backlog, y) => \A d \in Fd : file[d] # y)'
    BY <2>2, <1>1 DEF Inv, Sockets, callers, sockets, Waiting
  <2>7. (\A y \in Caller : pc[y] \in {"ready", "waiting"} /\ ~Waiting(backlog, y) => \E d \in Fd : file[d] = y)'
    BY <2>3, <1>1, <1>2 DEF Inv, Sockets, callers, sockets, Waiting
  <2>8. QED
    BY <2>4, <2>5, <2>6, <2>7 DEF Sockets
<1>16. Lent'
  <2>1. \A j \in Conn : ~Waiting(idle, j)' => j # k /\ ~Waiting(idle, j)
    BY <1>8
  <2>2. \A j \in Conn : ~Waiting(idle, j)' => fdOf'[j] \in Fd /\ file'[fdOf'[j]] # None
    BY <2>1, <1>1, <1>9, <1>12 DEF Inv, Lent
  <2>3. \A i, j \in Conn : ~Waiting(idle, i)' /\ ~Waiting(idle, j)' /\ fdOf'[i] = fdOf'[j] => i = j
    BY <2>1, <1>1 DEF Inv, Lent
  <2>4. QED
    BY <2>2, <2>3, <1>8 DEF Lent
<1>17. InFlight'
  <2>1. Reading'
    BY <1>1, <1>6, <1>10, <1>13 DEF Inv, InFlight, Reading
  <2>2. Writing'
    BY <1>1, <1>5, <1>13 DEF Inv, InFlight, Writing
  <2>3. Tasking'
    <3>1. \A i \in 1 .. Len(tasks) : tasks[i].conn \in Conn
      BY ElementTypes DEF Inv
    <3>2. ASSUME NEW i \in 1 .. Len(tasks), tasks[i].known
          PROVE  Holder(tasks[i].conn)' = tasks[i].from
      <4>1. tasks[i].conn \in Conn \ {k}
        BY <3>1, <3>2, <1>7
      <4>2. Holder(tasks[i].conn) = tasks[i].from
        BY <3>2 DEF Inv, InFlight, Tasking
      <4>3. QED
        <5>1. PICK j \in Conn \ {k} : j = tasks[i].conn
          BY <4>1
        <5>2. Holder(j)' = Holder(j) /\ j = tasks'[i].conn
          BY <5>1, <1>1, <1>13
        <5>3. QED
          BY <5>1, <5>2, <4>2
    <3>3. QED
      BY <3>2, <1>1 DEF Tasking
  <2>4. Closing'
    BY <1>1, <1>10, <1>13 DEF Inv, InFlight, Closing, callers
  <2>5. QED
    BY <2>1, <2>2, <2>3, <2>4 DEF InFlight
<1>18. FromWhom' /\ Paid' /\ Calling' /\ OwnResults'
  BY <1>1, <1>11, <1>13, CallersFrame DEF sockets, history
<1>19. QED
  BY <1>14, <1>15, <1>16, <1>17, <1>18 DEF Inv

\* The descriptor of an accepted socket is free, and so is the connection that takes it.
LEMMA AcceptedInv ==
  ASSUME Inv, Accepted
  PROVE  Inv'
<1>0. /\ backlog # <<>> /\ idle # <<>>
      /\ backlog \in Seq(Caller) /\ Distinct(backlog) /\ Head(backlog) \in Caller
      /\ idle \in Seq(Conn) /\ Distinct(idle) /\ Head(idle) \in Conn
      /\ FreeFd \in Fd
  <2>1. /\ backlog # <<>> /\ idle # <<>>
        /\ backlog \in Seq(Caller) /\ Distinct(backlog) /\ idle \in Seq(Conn) /\ Distinct(idle)
    BY DEF Accepted, Inv, Types, Sockets, Lent
  <2>2. FreeFd \in Fd
    BY <2>1, FreeFdIsFree DEF Inv
  <2>3. QED
    BY <2>1, <2>2, TailAt
<1> PICK x \in Caller : x = Head(backlog)
  BY <1>0
<1> PICK k \in Conn : k = Head(idle)
  BY <1>0
<1> PICK d \in Fd : d = FreeFd
  BY <1>0
<1>1. /\ file' = [file EXCEPT ![d] = x] /\ fdOf' = [fdOf EXCEPT ![k] = d]
      /\ reads' = [reads EXCEPT ![k][x] = reads[k][x] + 1]
      /\ backlog' = Tail(backlog) /\ idle' = Tail(idle)
      /\ UNCHANGED <<callers, up, down, broken, writes, closes, tasks, history>>
  BY DEF Accepted, Inc
<1>2. d \in Fd /\ file[d] = None
  BY <1>0, FreeFdIsFree DEF Inv
<1>3. Tail(backlog) \in Seq(Caller) /\ Tail(idle) \in Seq(Conn)
  BY <1>0, TailAt
<1>4. /\ Distinct(Tail(backlog)) /\ ~Waiting(Tail(backlog), x) /\ Waiting(backlog, x)
      /\ \A y : y # x => (Waiting(Tail(backlog), y) <=> Waiting(backlog, y))
  BY <1>0, TailWaiting
<1>5. /\ Distinct(Tail(idle)) /\ ~Waiting(Tail(idle), k) /\ Waiting(idle, k)
      /\ \A j : j # k => (Waiting(Tail(idle), j) <=> Waiting(idle, j))
  BY <1>0, TailWaiting
<1>6. /\ ~Waiting(backlog, x)' /\ \A y : y # x => (Waiting(backlog, y)' <=> Waiting(backlog, y))
      /\ ~Waiting(idle, k)' /\ \A j : j # k => (Waiting(idle, j)' <=> Waiting(idle, j))
  BY <1>1, <1>4, <1>5 DEF Waiting
<1>7. /\ file' \in [Fd -> 0 .. Callers] /\ file'[d] = x
      /\ \A e \in Fd \ {d} : file'[e] = file[e]
  <2>1. x \in 0 .. Callers /\ file \in [Fd -> 0 .. Callers]
    BY DEF Inv, Types, Caller
  <2>2. QED
    BY <2>1, <1>1
<1>8. /\ fdOf' \in [Conn -> 0 .. Callers] /\ fdOf'[k] = d
      /\ \A j \in Conn \ {k} : fdOf'[j] = fdOf[j]
  <2>1. d \in 0 .. Callers /\ fdOf \in [Conn -> 0 .. Callers]
    BY DEF Inv, Types, Fd
  <2>2. QED
    BY <2>1, <1>1
<1>9. /\ Holder(k) = None /\ closes[k] = <<>> /\ writes[k] = <<>>
      /\ \A y \in Caller : reads[k][y] = 0
  BY <1>3, <1>5, HolderFacts
<1>10. /\ reads' \in [Conn -> [Caller -> Nat]] /\ reads'[k][x] = 1
       /\ \A y \in Caller \ {x} : reads'[k][y] = 0
       /\ \A j \in Conn \ {k} : reads'[j] = reads[j]
  <2>1. reads \in [Conn -> [Caller -> Nat]] /\ reads[k] \in [Caller -> Nat] /\ reads[k][x] = 0
    BY <1>3, <1>9 DEF Inv, Types
  <2>2. QED
    BY <2>1, <1>1, <1>3, <1>9
<1>11. Holder(k)' = x
  BY <1>2, <1>6, <1>7, <1>8 DEF Holder, Named
<1>12. \A j \in Conn \ {k} : ~Waiting(idle, j) => fdOf[j] \in Fd /\ fdOf[j] # d
  BY <1>2 DEF Inv, Lent
<1>13. ASSUME NEW j \in Conn \ {k}
       PROVE  Holder(j)' = Holder(j)
  <2>1. Waiting(idle, j)' <=> Waiting(idle, j)
    BY <1>6
  <2>2. CASE Waiting(idle, j)
    BY <2>1, <2>2 DEF Holder
  <2>3. CASE ~Waiting(idle, j)
    <3>1. fdOf'[j] = fdOf[j] /\ fdOf[j] \in Fd /\ file'[fdOf[j]] = file[fdOf[j]]
      BY <2>3, <1>7, <1>8, <1>12
    <3>2. QED
      BY <2>1, <2>3, <3>1 DEF Holder, Named
  <2>4. QED
    BY <2>2, <2>3
<1>14. Types'
  BY <1>1, <1>3, <1>7, <1>8, <1>10 DEF Inv, Types, callers
<1>15. Sockets'
  <2>1. \A e \in Fd : file[e] # x
    BY <1>3, <1>4 DEF Inv, Sockets
  <2>2. \A e, f \in Fd : file'[e] = file'[f] /\ file'[e] # None => e = f
    BY <1>7, <2>1 DEF Inv, Sockets
  <2>3. Distinct(backlog')
    BY <1>1, <1>4
  <2>4. (\A y \in Caller : pc[y] = "new" => ~Waiting(backlog, y))'
    BY <1>1, <1>4, <1>6 DEF Inv, Sockets, callers
  <2>5. (\A y \in Caller : pc[y] = "new" \/ Waiting(backlog, y) => \A e \in Fd : file[e] # y)'
    <3>1. ASSUME NEW y \in Caller, pc'[y] = "new" \/ Waiting(backlog, y)', NEW e \in Fd
          PROVE  file'[e] # y
      <4>1. y # x
        BY <3>1, <1>1, <1>3, <1>4, <1>6 DEF Inv, Sockets, callers
      <4>2. pc[y] = "new" \/ Waiting(backlog, y)
        BY <3>1, <4>1, <1>1, <1>6 DEF callers
      <4>3. file[e] # y
        BY <4>2, <3>1 DEF Inv, Sockets
      <4>4. QED
        BY <4>1, <4>3, <1>7
    <3>2. QED
      BY <3>1
  <2>6. (\A y \in Caller : pc[y] \in {"ready", "waiting"} /\ ~Waiting(backlog, y) => \E e \in Fd : file[e] = y)'
    <3>1. ASSUME NEW y \in Caller, pc'[y] \in {"ready", "waiting"}, ~Waiting(backlog, y)'
          PROVE  \E e \in Fd : file'[e] = y
      <4>1. CASE y = x
        BY <4>1, <1>2, <1>7
      <4>2. CASE y # x
        <5>1. PICK e \in Fd : file[e] = y
          BY <3>1, <4>2, <1>1, <1>6 DEF Inv, Sockets, callers
        <5>2. e # d
          BY <5>1, <1>2, <3>1, NoneIsNobody
        <5>3. QED
          BY <5>1, <5>2, <1>7
      <4>3. QED
        BY <4>1, <4>2
    <3>2. QED
      BY <3>1
  <2>7. QED
    BY <2>2, <2>3, <2>4, <2>5, <2>6 DEF Sockets
<1>16. Lent'
  <2>1. \A j \in Conn \ {k} : ~Waiting(idle, j)' =>
           /\ ~Waiting(idle, j) /\ fdOf'[j] = fdOf[j] /\ fdOf[j] \in Fd /\ fdOf[j] # d
           /\ file'[fdOf[j]] = file[fdOf[j]]
    BY <1>6, <1>7, <1>8, <1>12
  <2>2. \A j \in Conn : ~Waiting(idle, j)' => fdOf'[j] \in Fd /\ file'[fdOf'[j]] # None
    BY <2>1, <1>2, <1>3, <1>7, <1>8, NoneIsNobody DEF Inv, Lent
  <2>3. \A i, j \in Conn : ~Waiting(idle, i)' /\ ~Waiting(idle, j)' /\ fdOf'[i] = fdOf'[j] => i = j
    BY <2>1, <1>8 DEF Inv, Lent
  <2>4. Distinct(idle')
    BY <1>1, <1>5
  <2>5. QED
    BY <2>2, <2>3, <2>4 DEF Lent
<1>17. InFlight'
  <2>1. ASSUME NEW j \in Conn, NEW y \in Caller, reads'[j][y] > 0
        PROVE  reads'[j][y] = 1 /\ Holder(j)' = y /\ closes'[j] = <<>>
    <3>1. CASE j = k
      BY <2>1, <3>1, <1>1, <1>9, <1>10, <1>11
    <3>2. CASE j # k
      BY <2>1, <3>2, <1>1, <1>10, <1>13 DEF Inv, InFlight, Reading
    <3>3. QED
      BY <3>1, <3>2
  <2>2. Writing'
    BY <1>1, <1>8, <1>9, <1>13 DEF Inv, InFlight, Writing
  <2>3. ASSUME NEW i \in 1 .. Len(tasks'), tasks'[i].known
        PROVE  Holder(tasks[i].conn)' = tasks'[i].from
    <3>1. tasks' = tasks
      BY <1>1
    <3>2. PICK j \in Conn : j = tasks[i].conn
      BY <2>3, <3>1, ElementTypes DEF Inv
    <3>3. Holder(j) = tasks[i].from /\ tasks[i].from \in Caller
      BY <2>3, <3>1, <3>2, ElementTypes DEF Inv, InFlight, Tasking
    <3>4. j # k
      BY <3>3, <1>9, NoneIsNobody
    <3>5. Holder(j)' = Holder(j) /\ j = tasks'[i].conn
      BY <3>1, <3>2, <3>4, <1>13
    <3>6. QED
      BY <3>1, <3>3, <3>5
  <2>4. Closing'
    BY <1>1, <1>8, <1>9, <1>13 DEF Inv, InFlight, Closing, callers
  <2>5. QED
    BY <2>1, <2>2, <2>3, <2>4 DEF InFlight, Reading, Tasking
<1>18. FromWhom' /\ Paid' /\ Calling' /\ OwnResults'
  BY <1>1, <1>9, <1>13, CallersFrame DEF history
<1>19. QED
  BY <1>14, <1>15, <1>16, <1>17, <1>18 DEF Inv

\* callback_read() with a request: it is queued or dropped, and the next read goes to the
\* same socket, since the descriptor still names it.
LEMMA ReadRequestInv ==
  ASSUME Inv, NEW k \in Conn, NEW x \in Caller, ReadRequest(k, x)
  PROVE  Inv'
<1> DEFINE Req == [from : Caller, call : Nat, known : BOOLEAN]
           Task == [conn : Conn, from : Caller, call : Nat, known : BOOLEAN]
           t(r) == [conn |-> k, from |-> r.from, call |-> r.call, known |-> r.known]
<1>0. up[x] # <<>> /\ up[x] \in Seq(Req) /\ Head(up[x]) \in Req
  <2>1. up[x] # <<>> /\ up[x] \in Seq(Req)
    BY DEF ReadRequest, Inv, Types
  <2>2. QED
    BY <2>1, TailAt
<1> PICK r \in Req : r = Head(up[x])
  BY <1>0
<1>1. /\ reads[k][x] > 0 /\ up' = [up EXCEPT ![x] = Tail(up[x])]
      /\ tasks' = Append(tasks, t(r)) \/ tasks' = tasks
      /\ reads' = ReadOn(k, x)
      /\ UNCHANGED <<callers, down, broken, backlog, idle, fdOf, file, writes, closes, cut, owed>>
  BY DEF ReadRequest, AsyncHandle
<1>2. r = up[x][1] /\ r.from = x /\ Len(up[x]) \in Nat \ {0}
  BY <1>0, TailAt DEF Inv, FromWhom
<1>3. t(r) \in Task /\ t(r).conn = k /\ t(r).from = x /\ t(r).call = r.call /\ t(r).known = r.known
  BY <1>2
<1> HIDE DEF t
<1>4. Holder(k) = x /\ Named(fdOf[k]) = x /\ reads[k][x] = 1
  BY <1>1, ReadOfHolder
<1>5. /\ reads' \in [Conn -> [Caller -> Nat]]
      /\ \A j \in Conn, y \in Caller : reads'[j][y] = reads[j][y]
  <2>1. reads' = [Dec(reads, k, x) EXCEPT ![k][x] = Dec(reads, k, x)[k][x] + 1]
    BY <1>1, <1>4, NoneIsNobody DEF ReadOn, Inc
  <2>2. PICK f \in [Conn -> [Caller -> Nat]] : f = Dec(reads, k, x)
    BY <1>1, DecReads DEF Inv
  <2>3. f[k][x] = 0 /\ \A j \in Conn, y \in Caller : j # k \/ y # x => f[j][y] = reads[j][y]
    BY <1>1, <1>4, <2>2, DecReads DEF Inv
  <2>4. reads' = [f EXCEPT ![k][x] = f[k][x] + 1]
    BY <2>1, <2>2
  <2>5. f[k] \in [Caller -> Nat]
    BY <2>2
  <2>6. QED
    BY <2>3, <2>4, <2>5, <1>4
<1>6. /\ Tail(up[x]) \in Seq(Req) /\ Len(Tail(up[x])) = Len(up[x]) - 1
      /\ \A i \in 1 .. Len(Tail(up[x])) : i + 1 \in 1 .. Len(up[x]) /\ Tail(up[x])[i] = up[x][i + 1]
  BY <1>0, TailAt
<1>7. /\ up' \in [Caller -> Seq(Req)] /\ up'[x] = Tail(up[x])
      /\ \A y \in Caller \ {x} : up'[y] = up[y]
  BY <1>1, <1>6 DEF Inv, Types
<1>8. tasks \in Seq(Task) /\ Len(tasks) \in Nat
  BY LenProperties DEF Inv, Types
<1>9. /\ tasks' \in Seq(Task)
      /\ \A i \in 1 .. Len(tasks') :
            \/ i \in 1 .. Len(tasks) /\ tasks'[i] = tasks[i]
            \/ i = Len(tasks) + 1 /\ tasks'[i] = t(r)
  <2>1. CASE tasks' = Append(tasks, t(r))
    BY <2>1, <1>3, <1>8, AppendAt
  <2>2. CASE tasks' = tasks
    BY <2>2, <1>8
  <2>3. QED
    BY <2>1, <2>2, <1>1
<1>10. \A j \in Conn : Holder(j)' = Holder(j)
  BY <1>1 DEF Holder, Named, Waiting
<1>11. Types'
  BY <1>1, <1>5, <1>7, <1>9 DEF Inv, Types, callers
<1>12. Sockets' /\ Lent'
  BY <1>1 DEF Inv, Sockets, Lent, callers, Waiting, Distinct
<1>13. InFlight'
  <2>1. ASSUME NEW j \in Conn, NEW y \in Caller, reads'[j][y] > 0
        PROVE  reads'[j][y] = 1 /\ Holder(j)' = y /\ closes'[j] = <<>>
    <3>1. reads[j][y] > 0 /\ reads'[j][y] = reads[j][y] /\ closes'[j] = closes[j] /\ Holder(j)' = Holder(j)
      BY <2>1, <1>1, <1>5, <1>10
    <3>2. QED
      BY <3>1 DEF Inv, InFlight, Reading
  <2>2. Writing'
    BY <1>1, <1>10 DEF Inv, InFlight, Writing
  <2>3. ASSUME NEW i \in 1 .. Len(tasks'), tasks'[i].known
        PROVE  Holder(tasks[i].conn)' = tasks'[i].from
    <3>1. tasks'[i].conn \in Conn /\ Holder(tasks'[i].conn) = tasks'[i].from
      <4>1. CASE i \in 1 .. Len(tasks) /\ tasks'[i] = tasks[i]
        BY <4>1, <2>3, ElementTypes DEF Inv, InFlight, Tasking
      <4>2. CASE tasks'[i] = t(r)
        BY <4>2, <1>3, <1>4
      <4>3. QED
        BY <4>1, <4>2, <1>9
    <3>2. PICK j \in Conn : j = tasks'[i].conn
      BY <3>1
    <3>3. Holder(j)' = Holder(j)
      BY <1>10
    <3>4. QED
      BY <3>1, <3>2, <3>3
  <2>4. Closing'
    BY <1>1, <1>10 DEF Inv, InFlight, Closing, callers
  <2>5. QED
    BY <2>1, <2>2, <2>3, <2>4 DEF InFlight, Reading, Tasking
<1>14. FromWhom'
  <2>1. \A i \in 1 .. Len(up'[x]) : up'[x][i].from = x
    <3>1. \A i \in 1 .. Len(up[x]) : up[x][i].from = x
      BY DEF Inv, FromWhom
    <3>2. ASSUME NEW i \in 1 .. Len(up'[x])
          PROVE  up'[x][i].from = x
      <4>1. i + 1 \in 1 .. Len(up[x]) /\ up'[x][i] = up[x][i + 1]
        BY <3>2, <1>6, <1>7
      <4>2. QED
        BY <3>1, <4>1
    <3>3. QED
      BY <3>2
  <2>2. \A y \in Caller \ {x} : \A i \in 1 .. Len(up'[y]) : up'[y][i].from = y
    BY <1>7 DEF Inv, FromWhom
  <2>3. QED
    BY <2>1, <2>2 DEF FromWhom
<1>15. Paid'
  <2>1. ASSUME NEW y \in Caller, pc[y] = "gone"
        PROVE  ~Owes(y, up[y])'
    <3>1. ~Owes(y, up[y])
      BY <2>1 DEF Inv, Paid
    <3>2. \A i \in 1 .. Len(up'[y]) : ~up'[y][i].known
      <4>1. CASE y = x
        BY <3>1, <4>1, <1>6, <1>7 DEF Owes
      <4>2. CASE y # x
        BY <3>1, <4>2, <1>7 DEF Owes
      <4>3. QED
        BY <4>1, <4>2
    <3>3. y = x => ~r.known
      BY <3>1, <1>2 DEF Owes
    <3>4. \A i \in 1 .. Len(tasks') : tasks'[i].from = y => ~tasks'[i].known
      BY <3>1, <3>3, <1>3, <1>9 DEF Owes
    <3>5. \A j \in Conn : \A i \in 1 .. Len(writes'[j]) : writes'[j][i].bytes[1].of # y
      BY <3>1, <1>1 DEF Owes
    <3>6. QED
      BY <3>2, <3>4, <3>5 DEF Owes
  <2>2. QED
    BY <2>1, <1>1 DEF Paid, callers
<1>16. Calling'
  <2>1. ASSUME NEW y \in Caller \ cut', pc'[y] # "gone"
        PROVE  OneCall(y)'
    <3>1. OneCall(y) /\ UNCHANGED <<calls, result, pc, down, writes>>
      BY <2>1, <1>1 DEF Inv, Calling, callers
    <3>2. AnsweredOnce(y)' /\ (Answered(y)' => Answered(y))
      BY <3>1, <1>10, AnsweredFrame DEF OneCall
    <3>3. CASE y # x
      <4>1. \A i \in 1 .. Len(tasks') : tasks'[i].from = y => i \in 1 .. Len(tasks) /\ tasks'[i] = tasks[i]
        BY <3>3, <1>3, <1>9
      <4>2. QueuedOnce(y)' /\ (Queued(y)' => Queued(y))
        BY <3>1, <4>1 DEF OneCall, QueuedOnce, Queued
      <4>3. QED
        BY <3>1, <3>2, <3>3, <4>2, <1>7, OneCallStep
    <3>4. CASE y = x
      <4>1. Asked(x) /\ ~Queued(x) /\ ~Answered(x) /\ ~Received(x)
        BY <3>1, <3>4, <1>0 DEF OneCall, Asked
      <4>2. Len(up[x]) = 1 /\ r.call = calls[x] /\ pc[x] = "waiting"
        BY <3>1, <3>4, <4>1, <1>2 DEF OneCall
      <4>3. ~Asked(x)'
        <5>1. Len(up'[x]) = 0 /\ up'[x] \in Seq(Req)
          BY <4>2, <1>6, <1>7
        <5>2. QED
          BY <5>1, EmptySeq DEF Asked
      <4>4. \A i \in 1 .. Len(tasks') : tasks'[i].from = x => i = Len(tasks) + 1 /\ tasks'[i] = t(r)
        BY <4>1, <1>9 DEF Queued
      <4>5. QueuedOnce(x)'
        BY <4>2, <4>4, <1>3, <3>1 DEF QueuedOnce
      <4>6. ~Answered(x)' /\ ~Received(x)'
        BY <4>1, <3>1, <3>2, <3>4 DEF Received
      <4>7. QED
        BY <3>1, <3>2, <3>4, <4>2, <4>3, <4>5, <4>6 DEF OneCall
    <3>5. QED
      BY <3>3, <3>4
  <2>2. QED
    BY <2>1 DEF Calling
<1>17. OwnResults'
  BY <1>1 DEF Inv, OwnResults, callers
<1>18. QED
  BY <1>11, <1>12, <1>13, <1>14, <1>15, <1>16, <1>17 DEF Inv

\* Who has answers on the way has not gone.
LEMMA AnsweredIsThere ==
  ASSUME Inv, NEW k \in Conn, NEW i \in 1 .. Len(writes[k])
  PROVE  pc[writes[k][i].bytes[1].of] # "gone"
  BY DEF Inv, InFlight, Writing, Paid, Owes

\* The write at the head of a connection is for its holder, and its descriptor still names it.
LEMMA WriteForHolder ==
  ASSUME Inv, NEW k \in Conn, writes[k] # <<>>
  PROVE  \E x \in Caller :
            /\ Head(writes[k]) = writes[k][1] /\ 1 \in 1 .. Len(writes[k])
            /\ writes[k][1].bytes[1].of = x /\ Holder(k) = x /\ pc[x] # "gone"
            /\ Named(Head(writes[k]).fd) = x
<1>1. writes[k] \in Seq([fd : 0 .. Callers, bytes : Seq(Byte)])
  BY DEF Inv, Types
<1>2. Head(writes[k]) = writes[k][1] /\ 1 \in 1 .. Len(writes[k])
  BY <1>1, TailAt
<1>3. /\ writes[k][1].fd = fdOf[k] /\ writes[k][1].bytes[1].of \in Caller
      /\ Holder(k) = writes[k][1].bytes[1].of
  BY <1>2 DEF Inv, InFlight, Writing
<1>4. Named(fdOf[k]) = Holder(k)
  BY <1>3, NoneIsNobody DEF Holder
<1>5. pc[writes[k][1].bytes[1].of] # "gone"
  BY <1>2, AnsweredIsThere
<1>6. QED
  BY <1>2, <1>3, <1>4, <1>5

LEMMA WrittenInv ==
  ASSUME Inv, NEW k \in Conn, Written(k)
  PROVE  Inv'
<1> DEFINE Write == [fd : 0 .. Callers, bytes : Seq(Byte)]
<1>0. writes[k] # <<>> /\ writes[k] \in Seq(Write) /\ Head(writes[k]) \in Write
  <2>1. writes[k] # <<>> /\ writes[k] \in Seq(Write)
    BY DEF Written, Inv, Types
  <2>2. QED
    BY <2>1, TailAt
<1> PICK w \in Write : w = Head(writes[k])
  BY <1>0
<1> PICK x \in Caller :
       /\ w = writes[k][1] /\ 1 \in 1 .. Len(writes[k])
       /\ w.bytes[1].of = x /\ Holder(k) = x /\ pc[x] # "gone" /\ Named(w.fd) = x
  BY <1>0, WriteForHolder
<1>1. /\ down' = [down EXCEPT ![x] = down[x] \o w.bytes]
      /\ writes' = [writes EXCEPT ![k] = Tail(writes[k])]
      /\ UNCHANGED <<callers, up, broken, backlog, idle, fdOf, file, reads, closes, tasks, history>>
  BY DEF Written
<1>2. /\ Tail(writes[k]) \in Seq(Write) /\ Len(Tail(writes[k])) = Len(writes[k]) - 1
      /\ Len(writes[k]) \in Nat \ {0}
      /\ \A i \in 1 .. Len(Tail(writes[k])) : i + 1 \in 1 .. Len(writes[k]) /\ Tail(writes[k])[i] = writes[k][i + 1]
  BY <1>0, TailAt
<1>3. /\ writes' \in [Conn -> Seq(Write)] /\ writes'[k] = Tail(writes[k])
      /\ \A j \in Conn \ {k} : writes'[j] = writes[j]
  BY <1>1, <1>2 DEF Inv, Types
<1>4. down[x] \in Seq(Byte) /\ down[x] \o w.bytes \in Seq(Byte)
  <2>1. down[x] \in Seq(Byte) /\ w.bytes \in Seq(Byte)
    BY DEF Inv, Types
  <2>2. QED
    BY <2>1, ConcatProperties
<1>5. /\ down' \in [Caller -> Seq(Byte)] /\ down'[x] = down[x] \o w.bytes
      /\ \A y \in Caller \ {x} : down'[y] = down[y]
  BY <1>1, <1>4 DEF Inv, Types
<1>6. \A j \in Conn : Holder(j)' = Holder(j)
  BY <1>1 DEF Holder, Named, Waiting
<1>7. \A j \in Conn : \A i \in 1 .. Len(writes'[j]) :
         \E l \in 1 .. Len(writes[j]) : writes'[j][i] = writes[j][l] /\ (j = k => l # 1)
  <2>1. ASSUME NEW j \in Conn, NEW i \in 1 .. Len(writes'[j])
        PROVE  \E l \in 1 .. Len(writes[j]) : writes'[j][i] = writes[j][l] /\ (j = k => l # 1)
    <3>1. CASE j # k
      BY <3>1, <1>3
    <3>2. CASE j = k
      <4>1. i + 1 \in 1 .. Len(writes[k]) /\ writes'[k][i] = writes[k][i + 1] /\ i + 1 # 1
        <5>1. i \in 1 .. Len(Tail(writes[k])) /\ writes'[k][i] = Tail(writes[k])[i]
          BY <2>1, <3>2, <1>3
        <5>2. i + 1 \in 1 .. Len(writes[k]) /\ Tail(writes[k])[i] = writes[k][i + 1]
          BY <5>1, <1>2
        <5>3. i + 1 # 1
          BY <5>1
        <5>4. QED
          BY <5>1, <5>2, <5>3
      <4>2. QED
        BY <3>2, <4>1
    <3>3. QED
      BY <3>1, <3>2
  <2>2. QED
    BY <2>1
<1>8. Types'
  BY <1>1, <1>3, <1>5 DEF Inv, Types, callers
<1>9. Sockets' /\ Lent'
  <2>1. Sockets'
    BY <1>1 DEF Inv, Sockets, callers, Waiting, Distinct
  <2>2. Lent'
    BY <1>1 DEF Inv, Lent, Waiting, Distinct
  <2>3. QED
    BY <2>1, <2>2
<1>10. InFlight'
  <2>1. Reading'
    BY <1>1, <1>6 DEF Inv, InFlight, Reading
  <2>2. ASSUME NEW j \in Conn, NEW i \in 1 .. Len(writes'[j])
        PROVE  /\ writes'[j][i].fd = fdOf'[j]
               /\ writes'[j][i].bytes[1].of \in Caller
               /\ Holder(j)' = writes'[j][i].bytes[1].of
    <3>1. PICK l \in 1 .. Len(writes[j]) : writes'[j][i] = writes[j][l]
      BY <2>2, <1>7
    <3>2. QED
      BY <3>1, <1>1, <1>6 DEF Inv, InFlight, Writing
  <2>3. Tasking'
    BY <1>1, <1>6, TaskingFrame
  <2>4. Closing'
    BY <1>1, <1>6 DEF Inv, InFlight, Closing, callers
  <2>5. QED
    BY <2>1, <2>2, <2>3, <2>4 DEF InFlight, Writing
<1>11. FromWhom' /\ OwnResults'
  BY <1>1 DEF Inv, FromWhom, OwnResults, callers, history
<1>12. \A y \in Caller : Answered(y)' => Answered(y)
  BY <1>7 DEF Answered
<1>13. Paid'
  <2>1. ASSUME NEW y \in Caller, pc[y] = "gone"
        PROVE  ~Owes(y, up[y])'
    <3>1. ~Owes(y, up[y])
      BY <2>1 DEF Inv, Paid
    <3>2. ~Answered(y)'
      BY <3>1, <1>12 DEF Owes, Answered
    <3>3. QED
      BY <3>1, <3>2, <1>1 DEF Owes, Answered
  <2>2. QED
    BY <2>1, <1>1 DEF Paid, callers
<1>14. Calling'
  <2>1. ASSUME NEW y \in Caller \ cut', pc'[y] # "gone"
        PROVE  OneCall(y)'
    <3>1. OneCall(y) /\ UNCHANGED <<calls, result, pc, up, tasks>>
      BY <2>1, <1>1 DEF Inv, Calling, callers, history
    <3>2. QueuedOnce(y)' /\ (Queued(y)' => Queued(y))
      BY <3>1, QueuedFrame DEF OneCall
    <3>3. AnsweredOnce(y)'
      <4>1. AnsweredOnce(y)
        BY <3>1 DEF OneCall
      <4>2. \A j \in Conn : Len(writes'[j]) <= Len(writes[j])
        <5>1. Len(writes'[k]) <= Len(writes[k])
          BY <1>2, <1>3
        <5>2. \A j \in Conn \ {k} : Len(writes'[j]) <= Len(writes[j])
          BY <1>3, ElementTypes DEF Inv
        <5>3. QED
          BY <5>1, <5>2
      <4>3. \A j \in Conn : Len(writes'[j]) \in Nat /\ Len(writes[j]) \in Nat
        BY <1>3, LenProperties, ElementTypes DEF Inv
      <4>4. ASSUME NEW j \in Conn, Holder(j)' = y
            PROVE  Len(writes'[j]) <= 1
        <5>1. Len(writes[j]) <= 1
          BY <4>1, <4>4, <1>6 DEF AnsweredOnce
        <5>2. QED
          BY <5>1, <4>2, <4>3
      <4>5. ASSUME NEW j \in Conn, NEW i \in 1 .. Len(writes'[j]), writes'[j][i].bytes[1].of = y
            PROVE  IsAnswer(writes[j][i].bytes, y)'
        <5>1. PICK l \in 1 .. Len(writes[j]) : writes'[j][i] = writes[j][l]
          BY <4>5, <1>7
        <5>2. IsAnswer(writes[j][l].bytes, y)
          BY <4>1, <4>5, <5>1 DEF AnsweredOnce
        <5>3. QED
          BY <5>1, <5>2, <3>1 DEF IsAnswer
      <4>6. QED
        BY <4>4, <4>5 DEF AnsweredOnce
    <3>4. CASE y # x
      BY <3>1, <3>2, <3>3, <3>4, <1>5, <1>12, OneCallStep
    <3>5. CASE y = x
      <4>1. Answered(x)
        BY DEF Answered
      <4>2. ~Asked(x) /\ ~Queued(x) /\ ~Received(x) /\ pc[x] = "waiting"
        BY <3>1, <3>5, <4>1 DEF OneCall
      <4>3. Len(writes[k]) = 1
        <5>1. Len(writes[k]) <= 1
          BY <3>1, <3>5 DEF OneCall, AnsweredOnce
        <5>2. PICK n \in Nat \ {0} : n = Len(writes[k])
          BY <1>2
        <5>3. n <= 1
          BY <5>1, <5>2
        <5>4. n = 1
          BY <5>3
        <5>5. QED
          BY <5>2, <5>4
      <4>4. ~Answered(x)'
        <5>1. SUFFICES ASSUME NEW j \in Conn, NEW i \in 1 .. Len(writes'[j]), writes'[j][i].bytes[1].of = x
                       PROVE  FALSE
          BY DEF Answered
        <5>2. PICK l \in 1 .. Len(writes[j]) : writes'[j][i] = writes[j][l] /\ (j = k => l # 1)
          BY <1>7
        <5>3. Holder(j) = x
          BY <5>1, <5>2 DEF Inv, InFlight, Writing
        <5>4. j = k
          BY <5>3, HolderFacts, NoneIsNobody
        <5>5. QED
          BY <5>2, <5>4, <4>3
      <4>5. IsAnswer(down[x], x)'
        <5>1. IsAnswer(w.bytes, x)
          BY <3>1, <3>5 DEF OneCall, AnsweredOnce
        <5>2. down'[x] = w.bytes
          <6>1. down[x] = <<>>
            BY <4>2 DEF Received
          <6>2. w.bytes \in Seq(Byte)
            OBVIOUS
          <6>3. QED
            BY <6>1, <6>2, <1>5, ConcatEmptySeq
        <5>3. QED
          BY <5>1, <5>2, <3>1 DEF IsAnswer
      <4>6. ~Asked(x)' /\ ~Queued(x)'
        BY <4>2, <3>1, <3>2, <3>5 DEF Asked
      <4>7. QED
        BY <3>1, <3>2, <3>3, <3>5, <4>2, <4>4, <4>5, <4>6 DEF OneCall
    <3>6. QED
      BY <3>4, <3>5
  <2>2. QED
    BY <2>1 DEF Calling
<1>15. QED
  BY <1>8, <1>9, <1>10, <1>11, <1>13, <1>14 DEF Inv

\* onMessage() on a connection that its caller still holds: the descriptor that the worker
\* asks for only now is the caller's.
LEMMA ServeInv ==
  ASSUME Inv, Serve
  PROVE  Inv'
<1> DEFINE Write == [fd : 0 .. Callers, bytes : Seq(Byte)]
           Task == [conn : Conn, from : Caller, call : Nat, known : BOOLEAN]
<1>0. tasks # <<>> /\ tasks \in Seq(Task) /\ Head(tasks) \in Task
  <2>1. tasks # <<>> /\ tasks \in Seq(Task)
    BY DEF Serve, Inv, Types
  <2>2. QED
    BY <2>1, TailAt
<1> PICK t \in Task : t = Head(tasks)
  BY <1>0
<1> PICK k \in Conn, x \in Caller : k = t.conn /\ x = t.from
  OBVIOUS
<1>1. /\ tasks' = Tail(tasks)
      /\ UNCHANGED <<callers, sockets, idle, fdOf, file, reads, closes, cut, owed>>
      /\ \/ /\ t.known
            /\ \E size \in 1 .. AnswerSize, zeros \in Zeros :
                  writes' = [writes EXCEPT ![k] = Append(writes[k],
                               [fd |-> fdOf[k], bytes |-> Answer(x, t.call, size, zeros)])]
         \/ ~t.known /\ writes' = writes
  BY DEF Serve
<1>2. /\ Tail(tasks) \in Seq(Task) /\ Len(Tail(tasks)) = Len(tasks) - 1 /\ Len(tasks) \in Nat \ {0}
      /\ \A i \in 1 .. Len(Tail(tasks)) : i + 1 \in 1 .. Len(tasks) /\ Tail(tasks)[i] = tasks[i + 1]
      /\ t = tasks[1] /\ 1 \in 1 .. Len(tasks)
  BY <1>0, TailAt
<1>3. \A i \in 1 .. Len(tasks') : i + 1 \in 1 .. Len(tasks) /\ tasks'[i] = tasks[i + 1]
  BY <1>1, <1>2
<1>4. \A j \in Conn : Holder(j)' = Holder(j)
  BY <1>1 DEF Holder, Named, Waiting
<1>5. t.known => Holder(k) = x /\ pc[x] # "gone"
  BY <1>2 DEF Inv, InFlight, Tasking, Paid, Owes
<1>6. ASSUME t.known
      PROVE  \E size \in 1 .. AnswerSize, zeros \in Zeros : \E w \in Write :
                /\ w = [fd |-> fdOf[k], bytes |-> Answer(x, t.call, size, zeros)]
                /\ w.bytes[1].of = x
                /\ writes' \in [Conn -> Seq(Write)]
                /\ Len(writes'[k]) = Len(writes[k]) + 1
                /\ \A i \in 1 .. Len(writes'[k]) :
                      \/ i \in 1 .. Len(writes[k]) /\ writes'[k][i] = writes[k][i]
                      \/ i = Len(writes[k]) + 1 /\ writes'[k][i] = w
                /\ \A j \in Conn \ {k} : writes'[j] = writes[j]
  <2>1. PICK size \in 1 .. AnswerSize, zeros \in Zeros :
           writes' = [writes EXCEPT ![k] = Append(writes[k],
                        [fd |-> fdOf[k], bytes |-> Answer(x, t.call, size, zeros)])]
    BY <1>1, <1>6
  <2>2. /\ Answer(x, t.call, size, zeros) \in Seq(Byte)
        /\ Answer(x, t.call, size, zeros)[1] = [of |-> x, call |-> t.call, part |-> 1, size |-> size, zero |-> 1 \in zeros]
    <3>1. 1 \in 1 .. size /\ t.call \in Nat
      BY CallAssumption
    <3>2. /\ Answer(x, t.call, size, zeros) \in Seq(Byte)
          /\ \A i \in 1 .. size : Answer(x, t.call, size, zeros)[i]
                = [of |-> x, call |-> t.call, part |-> i, size |-> size, zero |-> i \in zeros]
      BY <3>1, AnswerIsSeq
    <3>3. QED
      BY <3>1, <3>2
  <2>3. PICK bytes \in Seq(Byte) : bytes = Answer(x, t.call, size, zeros)
    BY <2>2
  <2>4. bytes[1].of = x
    BY <2>2, <2>3
  <2>5. fdOf[k] \in 0 .. Callers
    BY DEF Inv, Types
  <2>6. PICK w \in Write : w = [fd |-> fdOf[k], bytes |-> bytes]
    BY <2>5
  <2>7. w.bytes = bytes /\ w.fd = fdOf[k]
    BY <2>6
  <2>8. writes' = [writes EXCEPT ![k] = Append(writes[k], w)]
    BY <2>1, <2>3, <2>6
  <2>9. writes \in [Conn -> Seq(Write)] /\ writes[k] \in Seq(Write)
    BY DEF Inv, Types
  <2> HIDE DEF Write
  <2>10. /\ Append(writes[k], w) \in Seq(Write) /\ Len(Append(writes[k], w)) = Len(writes[k]) + 1
         /\ \A i \in 1 .. Len(Append(writes[k], w)) :
               \/ i \in 1 .. Len(writes[k]) /\ Append(writes[k], w)[i] = writes[k][i]
               \/ i = Len(writes[k]) + 1 /\ Append(writes[k], w)[i] = w
    BY <2>9, AppendAt
  <2>11. /\ writes' \in [Conn -> Seq(Write)] /\ writes'[k] = Append(writes[k], w)
         /\ \A j \in Conn \ {k} : writes'[j] = writes[j]
    BY <2>8, <2>9, <2>10
  <2>12. w = [fd |-> fdOf[k], bytes |-> Answer(x, t.call, size, zeros)] /\ w.bytes[1].of = x
    BY <2>3, <2>4, <2>6, <2>7
  <2>13. QED
    BY <2>10, <2>11, <2>12
<1>7. writes' \in [Conn -> Seq(Write)]
  <2>1. writes \in [Conn -> Seq(Write)]
    BY DEF Inv, Types
  <2>2. QED
    BY <2>1, <1>1, <1>6
\* What is in the writes now was there, or is the answer to x.
<1>8. ASSUME NEW j \in Conn, NEW i \in 1 .. Len(writes'[j])
      PROVE  \/ i \in 1 .. Len(writes[j]) /\ writes'[j][i] = writes[j][i]
             \/ /\ j = k /\ t.known /\ i = Len(writes[k]) + 1 /\ Len(writes'[k]) = Len(writes[k]) + 1
                /\ writes'[j][i].fd = fdOf[k] /\ writes'[j][i].bytes[1].of = x
                /\ \E size \in 1 .. AnswerSize, zeros \in Zeros : writes'[j][i].bytes = Answer(x, t.call, size, zeros)
  <2>1. CASE ~t.known
    BY <2>1, <1>1
  <2>2. CASE t.known
    <3>1. PICK size \in 1 .. AnswerSize, zeros \in Zeros, w \in Write :
             /\ w = [fd |-> fdOf[k], bytes |-> Answer(x, t.call, size, zeros)]
             /\ w.bytes[1].of = x
             /\ Len(writes'[k]) = Len(writes[k]) + 1
             /\ \A l \in 1 .. Len(writes'[k]) :
                   \/ l \in 1 .. Len(writes[k]) /\ writes'[k][l] = writes[k][l]
                   \/ l = Len(writes[k]) + 1 /\ writes'[k][l] = w
             /\ \A l \in Conn \ {k} : writes'[l] = writes[l]
      <4> HIDE DEF Write
      <4>1. QED
        BY <2>2, <1>6
    <3>2. w.fd = fdOf[k] /\ w.bytes = Answer(x, t.call, size, zeros)
      BY <3>1
    <3>3. QED
      BY <3>1, <3>2, <1>8, <2>2
  <2>3. QED
    BY <2>1, <2>2
<1>9. Types'
  BY <1>1, <1>2, <1>7 DEF Inv, Types, callers, sockets
<1>10. Sockets' /\ Lent'
  <2>1. Sockets'
    BY <1>1 DEF Inv, Sockets, callers, sockets, Waiting, Distinct
  <2>2. Lent'
    BY <1>1 DEF Inv, Lent, Waiting, Distinct
  <2>3. QED
    BY <2>1, <2>2
<1>11. InFlight'
  <2>1. Reading'
    BY <1>1, <1>4 DEF Inv, InFlight, Reading
  <2>2. ASSUME NEW j \in Conn, NEW i \in 1 .. Len(writes'[j])
        PROVE  /\ writes'[j][i].fd = fdOf'[j]
               /\ writes'[j][i].bytes[1].of \in Caller
               /\ Holder(j)' = writes'[j][i].bytes[1].of
    <3>1. CASE i \in 1 .. Len(writes[j]) /\ writes'[j][i] = writes[j][i]
      BY <3>1, <1>1, <1>4 DEF Inv, InFlight, Writing
    <3>2. CASE j = k /\ t.known /\ writes'[j][i].fd = fdOf[k] /\ writes'[j][i].bytes[1].of = x
      BY <3>2, <1>1, <1>4, <1>5
    <3>3. QED
      BY <2>2, <3>1, <3>2, <1>8
  <2>3. ASSUME NEW i \in 1 .. Len(tasks'), tasks'[i].known
        PROVE  Holder(tasks[i].conn)' = tasks'[i].from
    <3>1. i + 1 \in 1 .. Len(tasks) /\ tasks'[i] = tasks[i + 1]
      BY <2>3, <1>3
    <3>2. Holder(tasks[i + 1].conn) = tasks[i + 1].from /\ tasks[i + 1].conn \in Conn
      BY <2>3, <3>1, ElementTypes DEF Inv, InFlight, Tasking
    <3>3. PICK j \in Conn : j = tasks'[i].conn
      BY <3>1, <3>2
    <3>4. Holder(j)' = Holder(j)
      BY <1>4
    <3>5. QED
      BY <3>1, <3>2, <3>3, <3>4
  <2>4. Closing'
    BY <1>1, <1>4 DEF Inv, InFlight, Closing, callers
  <2>5. QED
    BY <2>1, <2>2, <2>3, <2>4 DEF InFlight, Writing, Tasking
<1>12. FromWhom' /\ OwnResults'
  BY <1>1 DEF Inv, FromWhom, OwnResults, callers, sockets
<1>13. Paid'
  <2>1. ASSUME NEW y \in Caller, pc[y] = "gone"
        PROVE  ~Owes(y, up[y])'
    <3>1. ~Owes(y, up[y])
      BY <2>1 DEF Inv, Paid
    <3>2. \A i \in 1 .. Len(up'[y]) : ~up'[y][i].known
      BY <3>1, <1>1 DEF Owes, sockets
    <3>3. \A i \in 1 .. Len(tasks') : tasks'[i].from = y => ~tasks'[i].known
      BY <3>1, <1>3 DEF Owes
    <3>4. \A j \in Conn : \A i \in 1 .. Len(writes'[j]) : writes'[j][i].bytes[1].of # y
      BY <2>1, <3>1, <1>5, <1>8 DEF Owes
    <3>5. QED
      BY <3>2, <3>3, <3>4 DEF Owes
  <2>2. QED
    BY <2>1, <1>1 DEF Paid, callers
<1>14. Calling'
  <2>1. ASSUME NEW y \in Caller \ cut', pc'[y] # "gone"
        PROVE  OneCall(y)'
    <3>1. OneCall(y) /\ QueuedOnce(y) /\ AnsweredOnce(y) /\ UNCHANGED <<calls, result, pc, up, down>>
      BY <2>1, <1>1 DEF Inv, Calling, callers, sockets, OneCall
    <3>2. QueuedOnce(y)' /\ (Queued(y)' => Queued(y))
      <4>1. ASSUME NEW i \in 1 .. Len(tasks'), NEW j \in 1 .. Len(tasks'),
                   tasks'[i].from = y, tasks'[j].from = y
            PROVE  i = j
        <5>1. /\ i + 1 \in 1 .. Len(tasks) /\ tasks[i + 1].from = y
              /\ j + 1 \in 1 .. Len(tasks) /\ tasks[j + 1].from = y
          BY <4>1, <1>3
        <5>2. i + 1 = j + 1
          BY <5>1, <3>1 DEF QueuedOnce
        <5>3. QED
          BY <5>2
      <4>2. \A i \in 1 .. Len(tasks') : tasks'[i].from = y => tasks'[i].call = calls'[y]
        BY <3>1, <1>3 DEF QueuedOnce
      <4>3. QED
        BY <4>1, <4>2, <1>3 DEF QueuedOnce, Queued
    <3>3. CASE y # x \/ ~t.known
      <4>1. \A j \in Conn : \A i \in 1 .. Len(writes'[j]) :
               writes'[j][i].bytes[1].of = y => i \in 1 .. Len(writes[j]) /\ writes'[j][i] = writes[j][i]
        BY <1>8, <3>3
      <4>2. \A j \in Conn : Holder(j) = y => writes'[j] = writes[j]
        <5>1. CASE ~t.known
          BY <5>1, <1>1
        <5>2. CASE t.known
          BY <5>2, <3>3, <1>5, <1>6
        <5>3. QED
          BY <5>1, <5>2
      <4>3. Answered(y)' => Answered(y)
        BY <4>1 DEF Answered
      <4>4. ASSUME NEW j \in Conn, NEW i \in 1 .. Len(writes'[j]), writes'[j][i].bytes[1].of = y
            PROVE  IsAnswer(writes[j][i].bytes, y)'
        <5>1. i \in 1 .. Len(writes[j]) /\ writes'[j][i] = writes[j][i]
          BY <4>1, <4>4
        <5>2. IsAnswer(writes[j][i].bytes, y)
          BY <5>1, <4>4, <3>1 DEF AnsweredOnce
        <5>3. QED
          BY <5>1, <5>2, <3>1 DEF IsAnswer
      <4>5. AnsweredOnce(y)'
        BY <3>1, <4>2, <4>4, <1>4 DEF AnsweredOnce
      <4>6. QED
        BY <3>1, <3>2, <4>3, <4>5, OneCallStep
    <3>4. CASE y = x /\ t.known
      <4>1. Queued(x)
        BY <1>2 DEF Queued
      <4>2. ~Asked(x) /\ ~Answered(x) /\ ~Received(x) /\ pc[x] = "waiting"
        BY <3>1, <3>4, <4>1 DEF OneCall
      <4>3. ~Queued(x)'
        <5>1. SUFFICES ASSUME NEW i \in 1 .. Len(tasks'), tasks'[i].from = x
                       PROVE  FALSE
          BY DEF Queued
        <5>2. i + 1 \in 1 .. Len(tasks) /\ tasks[i + 1].from = x /\ i + 1 # 1 /\ tasks[1].from = x
          BY <5>1, <1>2, <1>3
        <5>3. QED
          BY <5>2, <3>1, <3>4, <1>2 DEF QueuedOnce
      <4>4. t.call = calls[x]
        BY <3>1, <3>4, <1>2 DEF QueuedOnce
      <4>5. \A j \in Conn : \A i \in 1 .. Len(writes[j]) : writes[j][i].bytes[1].of # x
        BY <4>2 DEF Answered
      <4>6. Len(writes[k]) = 0
        <5>1. \A i \in 1 .. Len(writes[k]) : FALSE
          BY <3>4, <4>5, <1>5 DEF Inv, InFlight, Writing
        <5>2. PICK n \in Nat : n = Len(writes[k])
          BY ElementTypes DEF Inv
        <5>3. \A i \in 1 .. n : FALSE
          BY <5>1, <5>2
        <5>4. n = 0
          BY <5>3
        <5>5. QED
          BY <5>2, <5>4
      <4>7. ASSUME NEW j \in Conn, Holder(j)' = x
            PROVE  Len(writes'[j]) <= 1
        <5>1. j = k
          BY <3>4, <4>7, <1>4, <1>5, HolderFacts, NoneIsNobody
        <5>2. Len(writes'[k]) = Len(writes[k]) + 1
          BY <3>4, <1>6
        <5>3. Len(writes'[k]) = 1
          BY <5>2, <4>6
        <5>4. QED
          BY <5>1, <5>3
      <4>8. ASSUME NEW j \in Conn, NEW i \in 1 .. Len(writes'[j]), writes'[j][i].bytes[1].of = x
            PROVE  IsAnswer(writes[j][i].bytes, x)'
        <5>1. PICK size \in 1 .. AnswerSize, zeros \in Zeros : writes'[j][i].bytes = Answer(x, t.call, size, zeros)
          BY <4>5, <4>8, <1>8
        <5>2. QED
          BY <5>1, <4>4, <3>1 DEF IsAnswer
      <4>9. AnsweredOnce(x)'
        BY <4>7, <4>8 DEF AnsweredOnce
      <4>10. ~Asked(x)' /\ ~Received(x)'
        BY <4>2, <3>1 DEF Asked, Received
      <4>11. QED
        BY <3>1, <3>2, <3>4, <4>2, <4>3, <4>9, <4>10 DEF OneCall
    <3>5. QED
      BY <3>3, <3>4
  <2>2. QED
    BY <2>1 DEF Calling
<1>15. QED
  BY <1>9, <1>10, <1>11, <1>12, <1>13, <1>14 DEF Inv

\* While nobody leaves that is owed, no write fails: its caller is there.
LEMMA NoWriteFails ==
  ASSUME Inv, NEW k \in Conn
  PROVE  ~WriteFailed(k)
<1>1. SUFFICES ASSUME WriteFailed(k)
               PROVE  FALSE
  OBVIOUS
<1>2. writes[k] # <<>> /\ (Named(Head(writes[k]).fd) # None => pc[Named(Head(writes[k]).fd)] = "gone")
  BY <1>1 DEF WriteFailed
<1>3. PICK x \in Caller : pc[x] # "gone" /\ Named(Head(writes[k]).fd) = x
  BY <1>2, WriteForHolder
<1>4. QED
  BY <1>2, <1>3, NoneIsNobody

\* A caller that has left owed stays among those that did.
LEMMA OwedForever ==
  ASSUME Next, owed' = {}
  PROVE  owed = {}
<1>1. ASSUME NEW x \in Caller, CloseSocket(x)
      PROVE  owed = {}
  BY <1>1 DEF CloseSocket
<1>2. ASSUME NEW x \in Caller, Connect(x) \/ Call(x) \/ Receive(x)
      PROVE  owed' = owed
  BY <1>2 DEF Connect, Call, SendFails, CallMethod, Receive, RecvEnd, Recv, history
<1>3. Accepted \/ Serve => owed' = owed
  BY DEF Accepted, Serve, history
<1>4. ASSUME NEW k \in Conn, Completion(k)
      PROVE  owed' = owed
  BY <1>4 DEF Completion, ReadRequest, ReadEof, ReadFailed, Written, WriteFailed, Closed, history
<1>5. QED
  BY <1>1, <1>2, <1>3, <1>4 DEF Next, Leave, Kill

LEMMA NextInv == IInv /\ [Next]_vars => IInv'
<1> SUFFICES ASSUME IInv, [Next]_vars, owed' = {}
             PROVE  Inv'
  BY DEF IInv
<1>1. CASE UNCHANGED vars
  <2>1. Inv
    BY <1>1 DEF IInv, vars, history
  <2>2. UNCHANGED <<pc, calls, result, up, down, broken, backlog, idle, fdOf, file, reads,
                    writes, closes, tasks, cut, dropped, owed>>
    BY <1>1 DEF vars, callers, sockets, server, history
  <2>3. (Types /\ Sockets /\ Lent /\ FromWhom)'
    <3>1. Types'
      BY <2>1, <2>2 DEF Inv, Types
    <3>2. Sockets'
      BY <2>1, <2>2 DEF Inv, Sockets, Distinct, Waiting
    <3>3. Lent'
      BY <2>1, <2>2 DEF Inv, Lent, Distinct, Waiting
    <3>4. FromWhom'
      BY <2>1, <2>2 DEF Inv, FromWhom
    <3>5. QED
      BY <3>1, <3>2, <3>3, <3>4
  <2>4. InFlight'
    BY <2>1, <2>2 DEF Inv, InFlight, Reading, Closing, Writing, Tasking, Holder, Waiting, Named
  <2>5. Paid' /\ OwnResults'
    BY <2>1, <2>2 DEF Inv, Paid, Owes, OwnResults
  <2>6. Calling'
    <3>1. ASSUME NEW y \in Caller \ cut, pc[y] # "gone"
          PROVE  OneCall(y)'
      <4>1. OneCall(y)
        BY <2>1, <3>1 DEF Inv, Calling
      <4>2. \A k \in Conn : Holder(k)' = Holder(k)
        BY <2>2 DEF Holder, Waiting, Named
      <4>3. QED
        BY <4>1, <4>2, <2>2, OneCallFrame
    <3>2. QED
      BY <2>2, <3>1 DEF Calling
  <2>7. QED
    BY <2>3, <2>4, <2>5, <2>6 DEF Inv
<1>2. CASE Next
  <2>0. Inv
    BY <1>2, OwedForever DEF IInv
  <2>1. ASSUME NEW x \in Caller, Connect(x)
        PROVE  Inv'
    BY <2>0, <2>1, ConnectInv
  <2>2. ASSUME NEW x \in Caller, Call(x)
        PROVE  Inv'
    <3>1. ~SendFails(x)
      BY <2>0, NotShut DEF SendFails
    <3>2. QED
      BY <2>0, <2>2, <3>1, CallMethodInv DEF Call
  <2>3. ASSUME NEW x \in Caller, Receive(x)
        PROVE  Inv'
    <3>1. ~RecvEnd(x)
      BY <2>0, NotShut DEF RecvEnd, Take
    <3>2. QED
      BY <2>0, <2>3, <3>1, RecvInv DEF Receive
  <2>4. ASSUME NEW x \in Caller, Leave(x) \/ Kill(x)
        PROVE  Inv'
    <3>1. pc[x] \in {"ready", "waiting"} /\ CloseSocket(x)
      BY <2>4 DEF Leave, Kill
    <3>2. QED
      BY <2>0, <3>1, CloseSocketInv
  <2>5. CASE Accepted
    BY <2>0, <2>5, AcceptedInv
  <2>6. CASE Serve
    BY <2>0, <2>6, ServeInv
  <2>7. ASSUME NEW k \in Conn, Completion(k)
        PROVE  Inv'
    <3>1. ASSUME NEW x \in Caller, ReadRequest(k, x)
          PROVE  Inv'
      BY <2>0, <3>1, ReadRequestInv
    <3>2. ASSUME NEW x \in Caller, ReadEof(k, x)
          PROVE  Inv'
      BY <2>0, <3>2, ReadEofInv
    <3>3. ASSUME NEW x \in Caller, ReadFailed(k, x)
          PROVE  Inv'
      BY <2>0, <3>3, ReadFailedInv
    <3>4. CASE Written(k)
      BY <2>0, <3>4, WrittenInv
    <3>5. CASE WriteFailed(k)
      BY <2>0, <3>5, NoWriteFails
    <3>6. CASE Closed(k)
      BY <2>0, <3>6, ClosedInv
    <3>7. QED
      BY <2>7, <3>1, <3>2, <3>3, <3>4, <3>5, <3>6 DEF Completion
  <2>8. QED
    BY <1>2, <2>1, <2>2, <2>3, <2>4, <2>5, <2>6, <2>7 DEF Next
<1>3. QED
  BY <1>1, <1>2

LEMMA InvSpec == Spec => []IInv
<1>1. Init => IInv
  BY InitInv DEF IInv
<1>2. QED
  BY <1>1, NextInv, PTL DEF Spec

-----------------------------------------------------------------------------
\* What a close or an answer in flight reaches (IocpSocket::close and the write of
\* onMessage(), which look the descriptor of the connection up late) is the socket of the
\* caller it is meant for, however the connections and the descriptors are given on from one
\* caller to the next.
THEOREM CallOwnDescriptor == Spec => []OwnDescriptor
<1>1. Inv => OwnDescriptor
  <2> SUFFICES ASSUME Inv, NEW k \in Conn
               PROVE  /\ \A i \in 1 .. Len(writes[k]) :
                            Named(writes[k][i].fd) = writes[k][i].bytes[1].of
                      /\ \A i \in 1 .. Len(closes[k]) :
                            \E x \in Caller : Named(closes[k][i]) = x /\ pc[x] = "gone"
    BY DEF OwnDescriptor
  <2>1. ASSUME NEW x \in Caller, Holder(k) = x
        PROVE  Named(fdOf[k]) = x
    BY <2>1, NoneIsNobody DEF Holder
  <2>2. \A i \in 1 .. Len(writes[k]) : Named(writes[k][i].fd) = writes[k][i].bytes[1].of
    BY <2>1 DEF Inv, InFlight, Writing
  <2>3. CASE closes[k] = <<>>
    BY <2>2, <2>3
  <2>4. CASE closes[k] # <<>>
    <3>1. PICK x \in Caller : Holder(k) = x /\ pc[x] = "gone"
      BY <2>4 DEF Inv, InFlight, Closing
    <3>2. closes[k] = <<fdOf[k]>>
      BY <2>4 DEF Inv, InFlight, Closing
    <3>3. \A i \in 1 .. Len(closes[k]) : closes[k][i] = fdOf[k]
      BY <3>2
    <3>4. Named(fdOf[k]) = x
      BY <2>1, <3>1
    <3>5. QED
      BY <2>2, <3>1, <3>3, <3>4
  <2>5. QED
    BY <2>3, <2>4
<1>2. IInv => OwnDescriptor
  BY <1>1 DEF IInv, OwnDescriptor
<1>3. QED
  BY <1>2, InvSpec, PTL

\* CallMethod() takes what recv() returns for the answer to the request it has just sent:
\* it is, from its first byte on and up to its first zero byte, for a caller that never
\* took a part for the whole.
THEOREM CallOwnAnswer == Spec => []OwnAnswer
<1>1. IInv => OwnAnswer
  BY DEF IInv, Inv, OwnResults, Own, OwnAnswer
<1>2. QED
  BY <1>1, InvSpec, PTL

-----------------------------------------------------------------------------
(* No call is forgotten.                                                   *)

\* A caller that is there waits to be accepted, or a read on its socket is in flight.
Heard ==
    \A x \in Caller : pc[x] \in {"ready", "waiting"} =>
        Waiting(backlog, x) \/ \E k \in Conn : reads[k][x] > 0

\* The call of a caller that waits is somewhere, unless nobody will answer it.
Afoot ==
    \A x \in Caller : pc[x] = "waiting" =>
        x \in dropped \/ Asked(x) \/ Queued(x) \/ Answered(x) \/ Received(x)

\* Who left bytes unread has gone, and no answer is empty.
Resets == \A x \in Caller : x \in broken => pc[x] = "gone"
Filled == \A k \in Conn : \A i \in 1 .. Len(writes[k]) : writes[k][i].bytes # <<>>

Attended == Heard /\ Afoot /\ Resets /\ Filled

\* A step that ends reads of callers that have gone and moves nothing else of a call.
LEMMA AttendedFrame ==
  ASSUME Attended, UNCHANGED <<pc, up, down, broken, backlog, tasks, writes, dropped>>,
         \A x \in Caller, k \in Conn :
            pc[x] \in {"ready", "waiting"} /\ reads[k][x] > 0 => reads'[k][x] > 0
  PROVE  Attended'
<1>1. Heard'
  BY DEF Attended, Heard, Waiting
<1>2. Afoot'
  BY DEF Attended, Afoot, Asked, Queued, Answered, Received
<1>3. Resets' /\ Filled'
  BY DEF Attended, Resets, Filled
<1>4. QED
  BY <1>1, <1>2, <1>3 DEF Attended

LEMMA InitAttended == Init => Attended
<1> SUFFICES ASSUME Init PROVE Attended
  OBVIOUS
<1>1. \A x \in Caller : pc[x] = "new"
  BY DEF Init
<1>2. \A k \in Conn : writes[k] = <<>> /\ Len(writes[k]) = 0
  BY DEF Init
<1>3. Heard /\ Afoot
  BY <1>1 DEF Heard, Afoot
<1>4. Resets
  BY DEF Init, Resets
<1>5. Filled
  BY <1>2 DEF Filled
<1>6. QED
  BY <1>3, <1>4, <1>5 DEF Attended

LEMMA ConnectAttended ==
  ASSUME Inv, Attended, NEW x \in Caller, Connect(x)
  PROVE  Attended'
<1>1. /\ pc[x] = "new" /\ pc' = [pc EXCEPT ![x] = "ready"] /\ backlog' = Append(backlog, x)
      /\ UNCHANGED <<up, down, broken, reads, tasks, writes, dropped>>
  BY DEF Connect, server, history
<1>2. pc'[x] = "ready" /\ \A y \in Caller \ {x} : pc'[y] = pc[y]
  BY <1>1 DEF Inv, Types
<1>3. backlog \in Seq(Caller)
  BY DEF Inv, Types
<1>4. \A y : Waiting(backlog', y) <=> Waiting(backlog, y) \/ y = x
  BY <1>1, <1>3, AppendWaiting
<1>5. Heard'
  BY <1>1, <1>2, <1>4 DEF Attended, Heard
<1>6. Afoot'
  BY <1>1, <1>2 DEF Attended, Afoot, Asked, Queued, Answered, Received
<1>7. Resets'
  BY <1>1, <1>2 DEF Attended, Resets
<1>8. Filled'
  BY <1>1 DEF Attended, Filled
<1>9. QED
  BY <1>5, <1>6, <1>7, <1>8 DEF Attended

LEMMA CallMethodAttended ==
  ASSUME Inv, Attended, NEW x \in Caller, NEW known \in BOOLEAN, CallMethod(x, known)
  PROVE  Attended'
<1> DEFINE r == [from |-> x, call |-> calls'[x], known |-> known]
<1>1. /\ pc[x] = "ready" /\ pc' = [pc EXCEPT ![x] = "waiting"]
      /\ UNCHANGED <<down, broken, backlog, reads, tasks, writes, dropped>>
  BY DEF CallMethod, server, history
<1>2. up' = [up EXCEPT ![x] = Append(up[x], r)]
  BY <1>1, NotShut DEF CallMethod
<1>3. pc'[x] = "waiting" /\ \A y \in Caller \ {x} : pc'[y] = pc[y]
  BY <1>1 DEF Inv, Types
<1>4. up'[x] # <<>> /\ \A y \in Caller \ {x} : up'[y] = up[y]
  <2>1. calls'[x] \in Nat
    BY DEF CallMethod, Inv, Types
  <2>2. r \in [from : Caller, call : Nat, known : BOOLEAN]
    BY <2>1
  <2>3. up[x] \in Seq([from : Caller, call : Nat, known : BOOLEAN])
    BY DEF Inv, Types
  <2>4. Append(up[x], r) # <<>>
    BY <2>2, <2>3, AppendAt
  <2>5. QED
    BY <1>2, <2>4 DEF Inv, Types
<1>5. Heard'
  BY <1>1, <1>3 DEF Attended, Heard, Waiting
<1>6. Afoot'
  BY <1>1, <1>3, <1>4 DEF Attended, Afoot, Asked, Queued, Answered, Received
<1>7. Resets'
  BY <1>1, <1>3 DEF Attended, Resets
<1>8. Filled'
  BY <1>1 DEF Attended, Filled
<1>9. QED
  BY <1>5, <1>6, <1>7, <1>8 DEF Attended

LEMMA CloseSocketAttended ==
  ASSUME Inv, Attended, NEW x \in Caller, CloseSocket(x)
  PROVE  Attended'
<1>1. /\ pc' = [pc EXCEPT ![x] = "gone"] /\ down' = [down EXCEPT ![x] = <<>>]
      /\ up' = [up EXCEPT ![x] = <<>>] \/ up' = up
      /\ broken' = broken \cup {x} \/ broken' = broken
      /\ UNCHANGED <<backlog, reads, tasks, writes, dropped>>
  BY DEF CloseSocket, server
<1>2. /\ pc'[x] = "gone"
      /\ \A y \in Caller \ {x} : pc'[y] = pc[y] /\ down'[y] = down[y] /\ up'[y] = up[y]
  BY <1>1 DEF Inv, Types
<1>3. Heard'
  BY <1>1, <1>2 DEF Attended, Heard, Waiting
<1>4. Afoot'
  BY <1>1, <1>2 DEF Attended, Afoot, Asked, Queued, Answered, Received
<1>5. Resets'
  BY <1>1, <1>2 DEF Attended, Resets
<1>6. Filled'
  BY <1>1 DEF Attended, Filled
<1>7. QED
  BY <1>3, <1>4, <1>5, <1>6 DEF Attended

LEMMA RecvAttended ==
  ASSUME Inv, Attended, NEW x \in Caller, NEW n \in 1 .. Len(down[x]), Recv(x, n)
  PROVE  Attended'
<1>1. /\ pc[x] = "waiting" /\ pc' = [pc EXCEPT ![x] = "ready"]
      /\ down' = [down EXCEPT ![x] = SubSeq(down[x], n + 1, Len(down[x]))]
      /\ UNCHANGED <<up, broken, backlog, reads, tasks, writes, dropped>>
  BY DEF Recv, Take, server
<1>2. pc'[x] = "ready" /\ \A y \in Caller \ {x} : pc'[y] = pc[y] /\ down'[y] = down[y]
  BY <1>1 DEF Inv, Types
<1>3. Heard'
  BY <1>1, <1>2 DEF Attended, Heard, Waiting
<1>4. Afoot'
  BY <1>1, <1>2 DEF Attended, Afoot, Asked, Queued, Answered, Received
<1>5. Resets'
  BY <1>1, <1>2 DEF Attended, Resets
<1>6. Filled'
  BY <1>1 DEF Attended, Filled
<1>7. QED
  BY <1>3, <1>4, <1>5, <1>6 DEF Attended

\* The caller at the head of the backlog leaves it, and its socket is read from now on.
LEMMA AcceptedAttended ==
  ASSUME Inv, Attended, Accepted
  PROVE  Attended'
<1> DEFINE x == Head(backlog)
           k == Head(idle)
<1>1. /\ backlog # <<>> /\ idle # <<>> /\ backlog' = Tail(backlog) /\ reads' = Inc(reads, k, x)
      /\ UNCHANGED <<pc, up, down, broken, tasks, writes, dropped>>
  BY DEF Accepted, callers, history
<1>2. /\ backlog \in Seq(Caller) /\ Distinct(backlog) /\ idle \in Seq(Conn)
      /\ reads \in [Conn -> [Caller -> Nat]]
  BY DEF Inv, Types, Sockets
<1>3. x \in Caller /\ k \in Conn
  BY <1>1, <1>2, TailAt
<1>4. \A y : y # x => (Waiting(backlog', y) <=> Waiting(backlog, y))
  BY <1>1, <1>2, TailWaiting
<1>5. /\ reads'[k][x] > 0
      /\ \A j \in Conn, y \in Caller : reads[j][y] > 0 => reads'[j][y] > 0
  BY <1>1, <1>2, <1>3 DEF Inc
<1>6. Heard'
  BY <1>1, <1>3, <1>4, <1>5 DEF Attended, Heard
<1>7. Afoot'
  BY <1>1 DEF Attended, Afoot, Asked, Queued, Answered, Received
<1>8. Resets' /\ Filled'
  BY <1>1 DEF Attended, Resets, Filled
<1>9. QED
  BY <1>6, <1>7, <1>8 DEF Attended

\* The request goes into the queue, or its caller is dropped; the socket is read on.
LEMMA ReadRequestAttended ==
  ASSUME Inv, Attended, NEW k \in Conn, NEW x \in Caller, ReadRequest(k, x)
  PROVE  Attended'
<1> DEFINE Req == [from : Caller, call : Nat, known : BOOLEAN]
           Task == [conn : Conn, from : Caller, call : Nat, known : BOOLEAN]
           r == Head(up[x])
           t == [conn |-> k, from |-> r.from, call |-> r.call, known |-> r.known]
<1>1. /\ reads[k][x] > 0 /\ up[x] # <<>> /\ up' = [up EXCEPT ![x] = Tail(up[x])]
      /\ reads' = ReadOn(k, x) /\ AsyncHandle(k, r)
      /\ UNCHANGED <<pc, down, broken, backlog, writes>>
  BY DEF ReadRequest, callers
<1>2. up[x] \in Seq(Req) /\ tasks \in Seq(Task) /\ reads \in [Conn -> [Caller -> Nat]]
  BY DEF Inv, Types
<1>3. r \in Req /\ r.from = x
  <2>1. r = up[x][1] /\ r \in Req /\ 1 \in 1 .. Len(up[x])
    BY <1>1, <1>2, TailAt
  <2>2. QED
    BY <2>1 DEF Inv, FromWhom
<1>4. t \in Task /\ t.from = x
  BY <1>3
<1> HIDE DEF t
<1>5. \/ tasks' = Append(tasks, t) /\ dropped' = dropped
      \/ tasks' = tasks /\ dropped' = dropped \cup {x}
  BY <1>1, <1>3 DEF AsyncHandle, t
<1>6. \A y \in Caller : Queued(y) => Queued(y)'
  <2>1. CASE tasks' = Append(tasks, t)
    <3>1. Len(tasks') = Len(tasks) + 1 /\ Len(tasks) \in Nat /\ \A i \in 1 .. Len(tasks) : tasks'[i] = tasks[i]
      BY <2>1, <1>2
    <3>2. QED
      BY <3>1 DEF Queued
  <2>2. CASE tasks' = tasks
    BY <2>2 DEF Queued
  <2>3. QED
    BY <1>5, <2>1, <2>2
<1>7. x \in dropped' \/ Queued(x)'
  <2>1. CASE tasks' = Append(tasks, t)
    <3>1. Len(tasks') = Len(tasks) + 1 /\ Len(tasks) \in Nat /\ tasks'[Len(tasks) + 1] = t
      BY <2>1, <1>2
    <3>2. QED
      BY <3>1, <1>4 DEF Queued
  <2>2. QED
    BY <1>5, <2>1
<1>8. \A y \in Caller \ {x} : up'[y] = up[y]
  BY <1>1 DEF Inv, Types
<1>9. \A j \in Conn, y \in Caller : reads'[j][y] = reads[j][y]
  <2>1. Named(fdOf[k]) = x /\ x # None
    BY <1>1, ReadOfHolder, NoneIsNobody
  <2>2. Dec(reads, k, x) \in [Conn -> [Caller -> Nat]]
    BY <1>1, DecReads DEF Inv
  <2>3. reads' = Inc(Dec(reads, k, x), k, x)
    BY <1>1, <2>1 DEF ReadOn
  <2>4. /\ Dec(reads, k, x)[k][x] = reads[k][x] - 1 /\ reads[k][x] \in Nat
        /\ \A j \in Conn, y \in Caller : j # k \/ y # x => Dec(reads, k, x)[j][y] = reads[j][y]
    BY <1>1, <1>2, DecReads DEF Inv
  <2> DEFINE f == Dec(reads, k, x)
  <2> HIDE DEF f
  <2>5. /\ Inc(f, k, x)[k][x] = f[k][x] + 1
        /\ \A j \in Conn, y \in Caller : j # k \/ y # x => Inc(f, k, x)[j][y] = f[j][y]
    BY <2>2 DEF Inc, f
  <2>6. QED
    BY <2>3, <2>4, <2>5 DEF f
<1>10. Heard'
  BY <1>1, <1>9 DEF Attended, Heard, Waiting
<1>11. Afoot'
  <2>1. \A y \in Caller \ {x} : Asked(y) => Asked(y)'
    BY <1>8 DEF Asked
  <2>2. \A y \in Caller : (Answered(y) => Answered(y)') /\ (Received(y) => Received(y)')
    BY <1>1 DEF Answered, Received
  <2>3. \A y \in dropped : y \in dropped'
    BY <1>5
  <2>4. QED
    BY <1>1, <1>6, <1>7, <2>1, <2>2, <2>3 DEF Attended, Afoot
<1>12. Resets' /\ Filled'
  BY <1>1 DEF Attended, Resets, Filled
<1>13. QED
  BY <1>10, <1>11, <1>12 DEF Attended

\* The write at the head reaches the caller that it is for.
LEMMA WrittenAttended ==
  ASSUME Inv, Attended, NEW k \in Conn, Written(k)
  PROVE  Attended'
<1> DEFINE Write == [fd : 0 .. Callers, bytes : Seq(Byte)]
           w == Head(writes[k])
<1>1. /\ writes[k] # <<>> /\ writes' = [writes EXCEPT ![k] = Tail(writes[k])]
      /\ down' = IF pc[Named(w.fd)] = "gone" THEN down
                 ELSE [down EXCEPT ![Named(w.fd)] = down[Named(w.fd)] \o w.bytes]
      /\ UNCHANGED <<pc, up, broken, backlog, reads, tasks, dropped>>
  BY DEF Written, callers, history
<1>2. writes[k] \in Seq(Write) /\ writes \in [Conn -> Seq(Write)] /\ down \in [Caller -> Seq(Byte)]
  BY DEF Inv, Types
<1>3. PICK x \in Caller :
        /\ w = writes[k][1] /\ 1 \in 1 .. Len(writes[k])
        /\ writes[k][1].bytes[1].of = x /\ pc[x] # "gone" /\ Named(w.fd) = x
  BY <1>1, WriteForHolder
<1>4. w.bytes # <<>> /\ w.bytes \in Seq(Byte)
  <2>1. w \in Write
    BY <1>1, <1>2, TailAt
  <2>2. QED
    BY <1>3, <2>1 DEF Attended, Filled
<1>5. down' = [down EXCEPT ![x] = down[x] \o w.bytes]
  BY <1>1, <1>3
<1> HIDE DEF w
<1>6. down'[x] # <<>> /\ \A y \in Caller \ {x} : down'[y] = down[y]
  <2>1. down[x] \o w.bytes # <<>>
    BY <1>2, <1>4
  <2>2. QED
    BY <2>1, <1>2, <1>5
<1>7. /\ Len(Tail(writes[k])) = Len(writes[k]) - 1 /\ Len(writes[k]) \in Nat \ {0}
      /\ \A i \in 1 .. Len(Tail(writes[k])) : i + 1 \in 1 .. Len(writes[k]) /\ Tail(writes[k])[i] = writes[k][i + 1]
  BY <1>1, <1>2, TailAt
<1>8. writes'[k] = Tail(writes[k]) /\ \A j \in Conn \ {k} : writes'[j] = writes[j]
  BY <1>1, <1>2
<1>9. \A y \in Caller \ {x} : Answered(y) => Answered(y)'
  <2> SUFFICES ASSUME NEW y \in Caller \ {x}, NEW j \in Conn, NEW i \in 1 .. Len(writes[j]),
                      writes[j][i].bytes[1].of = y
               PROVE  Answered(y)'
    BY DEF Answered
  <2>1. CASE j # k
    BY <2>1, <1>8 DEF Answered
  <2>2. CASE j = k
    <3>1. i # 1
      BY <2>2, <1>3
    <3>2. i - 1 \in 1 .. Len(Tail(writes[k])) /\ (i - 1) + 1 = i
      BY <3>1, <2>2, <1>7
    <3>3. Tail(writes[k])[i - 1] = writes[k][i]
      BY <3>2, <1>7
    <3>4. QED
      BY <3>2, <3>3, <2>2, <1>8 DEF Answered
  <2>3. QED
    BY <2>1, <2>2
<1>10. Heard'
  BY <1>1 DEF Attended, Heard, Waiting
<1>11. Afoot'
  <2>1. Received(x)' /\ \A y \in Caller : Received(y) => Received(y)'
    BY <1>6 DEF Received
  <2>2. \A y \in Caller : (Asked(y) => Asked(y)') /\ (Queued(y) => Queued(y)')
    BY <1>1 DEF Asked, Queued
  <2>3. QED
    BY <1>1, <1>9, <2>1, <2>2 DEF Attended, Afoot
<1>12. Resets'
  BY <1>1 DEF Attended, Resets
<1>13. Filled'
  <2>1. \A i \in 1 .. Len(writes'[k]) : writes'[k][i].bytes # <<>>
    BY <1>7, <1>8 DEF Attended, Filled
  <2>2. \A j \in Conn \ {k} : \A i \in 1 .. Len(writes'[j]) : writes'[j][i].bytes # <<>>
    BY <1>8 DEF Attended, Filled
  <2>3. QED
    BY <2>1, <2>2 DEF Filled
<1>14. QED
  BY <1>10, <1>11, <1>12, <1>13 DEF Attended

\* The task at the head becomes an answer, or its caller is dropped.
LEMMA ServeAttended ==
  ASSUME Inv, Attended, Serve
  PROVE  Attended'
<1> DEFINE Write == [fd : 0 .. Callers, bytes : Seq(Byte)]
           Task == [conn : Conn, from : Caller, call : Nat, known : BOOLEAN]
<1>1. /\ tasks # <<>> /\ tasks' = Tail(tasks)
      /\ UNCHANGED <<pc, up, down, broken, backlog, reads>>
  BY DEF Serve, callers, sockets
<1>2. /\ tasks \in Seq(Task) /\ writes \in [Conn -> Seq(Write)] /\ fdOf \in [Conn -> 0 .. Callers]
  BY DEF Inv, Types
<1>3. PICK t \in Task : t = Head(tasks) /\ t = tasks[1]
  BY <1>1, <1>2, TailAt
<1>4. t.conn \in Conn /\ t.from \in Caller /\ t.call \in Nat
  BY <1>3
<1>5. \/ /\ dropped' = dropped
         /\ \E size \in 1 .. AnswerSize, zeros \in Zeros :
               writes' = [writes EXCEPT ![t.conn] = Append(writes[t.conn],
                   [fd |-> fdOf[t.conn], bytes |-> Answer(t.from, t.call, size, zeros)])]
      \/ dropped' = dropped \cup {t.from} /\ writes' = writes
  BY <1>3 DEF Serve
<1>6. /\ \A y \in Caller : Answered(y) => Answered(y)'
      /\ t.from \in dropped' \/ Answered(t.from)'
      /\ \A y \in dropped : y \in dropped'
      /\ Filled'
  <2>1. CASE dropped' = dropped \cup {t.from} /\ writes' = writes
    BY <2>1 DEF Answered, Attended, Filled
  <2>2. ASSUME dropped' = dropped, NEW size \in 1 .. AnswerSize, NEW zeros \in Zeros,
               writes' = [writes EXCEPT ![t.conn] = Append(writes[t.conn],
                   [fd |-> fdOf[t.conn], bytes |-> Answer(t.from, t.call, size, zeros)])]
        PROVE  /\ \A y \in Caller : Answered(y) => Answered(y)'
               /\ t.from \in dropped' \/ Answered(t.from)'
               /\ \A y \in dropped : y \in dropped'
               /\ Filled'
    <3> DEFINE k == t.conn
               a == [fd |-> fdOf[k], bytes |-> Answer(t.from, t.call, size, zeros)]
    <3>1. Answer(t.from, t.call, size, zeros) \in Seq(Byte) /\ Answer(t.from, t.call, size, zeros) # <<>>
          /\ Answer(t.from, t.call, size, zeros)[1].of = t.from
      <4>1. 1 \in 1 .. size
        BY CallAssumption
      <4>2. /\ Answer(t.from, t.call, size, zeros) \in Seq(Byte) /\ Answer(t.from, t.call, size, zeros) # <<>>
            /\ \A i \in 1 .. size : Answer(t.from, t.call, size, zeros)[i]
                  = [of |-> t.from, call |-> t.call, part |-> i, size |-> size, zero |-> i \in zeros]
        BY <1>4, AnswerIsSeq
      <4>3. Answer(t.from, t.call, size, zeros)[1] = [of |-> t.from, call |-> t.call, part |-> 1, size |-> size, zero |-> 1 \in zeros]
        BY <4>1, <4>2
      <4>4. QED
        BY <4>2, <4>3
    <3>2. a \in Write /\ a.bytes # <<>> /\ a.bytes[1].of = t.from
      BY <3>1, <1>2, <1>4
    <3> HIDE DEF a
    <3>3. writes' = [writes EXCEPT ![k] = Append(writes[k], a)]
      BY <2>2 DEF a
    <3>4. writes[k] \in Seq(Write) /\ k \in Conn
      BY <1>2, <1>4
    <3>5. writes'[k] = Append(writes[k], a) /\ \A j \in Conn \ {k} : writes'[j] = writes[j]
      BY <3>3, <3>4, <1>2
    <3>6. /\ Len(writes'[k]) = Len(writes[k]) + 1 /\ Len(writes[k]) \in Nat
          /\ \A i \in 1 .. Len(writes[k]) : writes'[k][i] = writes[k][i]
          /\ writes'[k][Len(writes[k]) + 1] = a
      BY <3>2, <3>4, <3>5
    <3>7. \A y \in Caller : Answered(y) => Answered(y)'
      <4> SUFFICES ASSUME NEW y \in Caller, NEW j \in Conn, NEW i \in 1 .. Len(writes[j]),
                          writes[j][i].bytes[1].of = y
                   PROVE  Answered(y)'
        BY DEF Answered
      <4>1. i \in 1 .. Len(writes'[j]) /\ writes'[j][i] = writes[j][i]
        BY <3>5, <3>6
      <4>2. QED
        BY <4>1 DEF Answered
    <3>8. Answered(t.from)'
      <4>1. Len(writes[k]) + 1 \in 1 .. Len(writes'[k])
        BY <3>6
      <4>2. writes'[k][Len(writes[k]) + 1].bytes[1].of = t.from
        BY <3>2, <3>6
      <4>3. \E i \in 1 .. Len(writes'[k]) : writes'[k][i].bytes[1].of = t.from
        BY <4>1, <4>2
      <4>4. QED
        BY <4>3, <3>4 DEF Answered
    <3>9. Filled'
      <4> SUFFICES ASSUME NEW j \in Conn, NEW i \in 1 .. Len(writes'[j])
                   PROVE  writes'[j][i].bytes # <<>>
        BY DEF Filled
      <4>1. CASE j # k
        BY <4>1, <3>5 DEF Attended, Filled
      <4>2. CASE j = k /\ i = Len(writes[k]) + 1
        BY <4>2, <3>2, <3>6
      <4>3. CASE j = k /\ i # Len(writes[k]) + 1
        <5>1. i \in 1 .. Len(writes[k])
          BY <4>3, <3>6
        <5>2. QED
          BY <5>1, <4>3, <3>6 DEF Attended, Filled
      <4>4. QED
        BY <4>1, <4>2, <4>3
    <3>10. QED
      BY <2>2, <3>7, <3>8, <3>9
  <2>3. QED
    BY <1>5, <2>1, <2>2
<1>7. \A y \in Caller \ {t.from} : Queued(y) => Queued(y)'
  <2> SUFFICES ASSUME NEW y \in Caller \ {t.from}, NEW i \in 1 .. Len(tasks), tasks[i].from = y
               PROVE  Queued(y)'
    BY DEF Queued
  <2>1. /\ Len(Tail(tasks)) = Len(tasks) - 1 /\ Len(tasks) \in Nat \ {0}
        /\ \A j \in 1 .. Len(Tail(tasks)) : Tail(tasks)[j] = tasks[j + 1]
    BY <1>1, <1>2, TailAt
  <2>2. i # 1
    BY <1>3
  <2>3. i - 1 \in 1 .. Len(Tail(tasks)) /\ (i - 1) + 1 = i
    BY <2>1, <2>2
  <2>4. Tail(tasks)[i - 1] = tasks[i]
    BY <2>1, <2>3
  <2>5. QED
    BY <2>3, <2>4, <1>1 DEF Queued
<1>8. Heard'
  BY <1>1 DEF Attended, Heard, Waiting
<1>9. Afoot'
  <2>1. \A y \in Caller : (Asked(y) => Asked(y)') /\ (Received(y) => Received(y)')
    BY <1>1 DEF Asked, Received
  <2>2. \A y \in dropped : y \in dropped'
    BY <1>6
  <2>3. \A y \in Caller \ {t.from} :
           pc'[y] = "waiting" => (y \in dropped \/ Asked(y) \/ Queued(y) \/ Answered(y) \/ Received(y))'
    BY <1>1, <1>6, <1>7, <2>1, <2>2 DEF Attended, Afoot
  <2>4. t.from \in dropped' \/ Answered(t.from)'
    BY <1>6
  <2>5. QED
    BY <2>3, <2>4 DEF Afoot
<1>10. Resets'
  BY <1>1 DEF Attended, Resets
<1>11. QED
  BY <1>6, <1>8, <1>9, <1>10 DEF Attended

LEMMA NextAttended ==
  ASSUME Inv, Attended, [Next]_vars
  PROVE  Attended'
<1>1. CASE UNCHANGED vars
  BY <1>1, AttendedFrame DEF vars, callers, sockets, server, history
<1>2. ASSUME NEW x \in Caller, Connect(x)
      PROVE  Attended'
  BY <1>2, ConnectAttended
<1>3. ASSUME NEW x \in Caller, Call(x)
      PROVE  Attended'
  <2>1. ~SendFails(x)
    BY NotShut DEF SendFails
  <2>2. QED
    BY <1>3, <2>1, CallMethodAttended DEF Call
<1>4. ASSUME NEW x \in Caller, Receive(x)
      PROVE  Attended'
  <2>1. ~RecvEnd(x)
    BY NotShut DEF RecvEnd, Take
  <2>2. QED
    BY <1>4, <2>1, RecvAttended DEF Receive
<1>5. ASSUME NEW x \in Caller, Leave(x) \/ Kill(x)
      PROVE  Attended'
  BY <1>5, CloseSocketAttended DEF Leave, Kill
<1>6. CASE Accepted
  BY <1>6, AcceptedAttended
<1>7. CASE Serve
  BY <1>7, ServeAttended
<1>8. ASSUME NEW k \in Conn, Completion(k)
      PROVE  Attended'
  <2>1. ASSUME NEW x \in Caller, ReadRequest(k, x)
        PROVE  Attended'
    BY <2>1, ReadRequestAttended
  <2>2. ASSUME NEW x \in Caller, ReadEof(k, x) \/ ReadFailed(k, x)
        PROVE  Attended'
    <3>1. /\ reads[k][x] > 0 /\ pc[x] = "gone" /\ reads' = Dec(reads, k, x)
          /\ UNCHANGED <<pc, up, down, broken, backlog, tasks, writes, dropped>>
      BY <2>2 DEF ReadEof, ReadFailed, Attended, Resets, callers, sockets, history
    <3>2. \A j \in Conn, y \in Caller : j # k \/ y # x => reads'[j][y] = reads[j][y]
      BY <3>1, DecReads DEF Inv
    <3>3. QED
      BY <3>1, <3>2, AttendedFrame
  <2>3. CASE Written(k)
    BY <2>3, WrittenAttended
  <2>4. CASE WriteFailed(k)
    BY <2>4, NoWriteFails
  <2>5. CASE Closed(k)
    BY <2>5, AttendedFrame DEF Closed, callers, sockets, history
  <2>6. QED
    BY <1>8, <2>1, <2>2, <2>3, <2>4, <2>5 DEF Completion
<1>9. QED
  BY <1>1, <1>2, <1>3, <1>4, <1>5, <1>6, <1>7, <1>8 DEF Next

\* No call is forgotten, the safety half of Returns: unless a caller left that was owed an
\* answer, a caller that is there waits to be accepted or is being read from, and the call
\* of one that waits is a request, a task, a write or bytes to be received, if it was not
\* dropped (for an unknown method, or by the full queue).
THEOREM CallNotForgotten == Spec => [](owed = {} => Heard /\ Afoot)
<1> DEFINE J == owed = {} => Inv /\ Attended
<1>1. Init => J
  BY InitInv, InitAttended
<1>2. J /\ [Next]_vars => J'
  <2> SUFFICES ASSUME J, [Next]_vars, owed' = {}
               PROVE  Inv' /\ Attended'
    OBVIOUS
  <2>1. owed = {}
    BY OwedForever DEF vars, history
  <2>2. Inv /\ Attended
    BY <2>1
  <2>3. QED
    BY <2>2, NextInv, NextAttended DEF IInv
<1>3. J => (owed = {} => Heard /\ Afoot)
  BY DEF Attended
<1>4. QED
  BY <1>1, <1>2, <1>3, PTL DEF Spec
=============================================================================
