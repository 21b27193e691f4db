------------------------ MODULE ServiceRegisterProofs ------------------------
(***************************************************************************)
(* Proofs about ServiceRegister for any pool, any services and any etcd,   *)
(* and however often leases, requests, timers or tasks are lost.           *)
(*                                                                         *)
(* OneBeat is an invariant because the heartbeat is handed on: a timer     *)
(* becomes a task, a task becomes a busy worker and a worker arms the next *)
(* timer, and each is gone when its successor is there (Beat).  OwnRequest *)
(* follows from it: before the registration stops, only the event loop     *)
(* before its first timer and the one busy worker make requests (Request-  *)
(* ing, Stopping), so that no two threads are in the CURL handle.          *)
(*                                                                         *)
(* What the requests put is base64, of byte strings of every length: the   *)
(* functions of Base64 are given place by place, so no induction is needed.*)
(* A place is in the group that division finds, and a group is arithmetic  *)
(* on three bytes.                                                         *)
(***************************************************************************)
EXTENDS ServiceRegister, Base64, FiniteSetTheorems, SequenceTheorems, TLAPS

-----------------------------------------------------------------------------
(* The inductive invariant.                                                *)

MainPlace   == {"start", "arm", "store", "loop", "cancel", "revoke", "returned"}
WorkerPlace == {"idle", "keep", "again", "grant", "each", "put", "cancel"}

Types == /\ stoping \in BOOLEAN
         /\ timers \in Nat /\ tasks \in Nat
         /\ at \in [Thread -> MainPlace \cup WorkerPlace]
         /\ at[Main] \in MainPlace
         /\ \A w \in Worker : at[w] \in WorkerPlace
         /\ ready \subseteq Thread

\* A worker in updateNodeInfo(), before it gives the registration up.
IsBusy(w) == at[w] \notin {"idle", "cancel"}

\* The heartbeat is in one place at most, and nowhere before the first timer.
Beat == /\ timers + tasks <= 1
        /\ timers + tasks = 1 => \A w \in Worker : ~IsBusy(w)
        /\ \A v, w \in Worker : IsBusy(v) /\ IsBusy(w) => v = w
        /\ at[Main] \in {"start", "arm"} =>
              timers + tasks = 0 /\ \A w \in Worker : ~IsBusy(w)

\* Where a thread performs a request.
Requests == {"start", "keep", "again", "grant", "put", "cancel", "revoke"}

Requesting == \A t \in ready : at[t] \in Requests

\* Leases are revoked only when the registration stops.
Stopping == \A t \in Thread : at[t] \in {"cancel", "revoke"} => stoping

Inv == Types /\ Beat /\ Requesting /\ Stopping /\ OwnRequest

-----------------------------------------------------------------------------
(* Lemmas about the operators of the module.                               *)

LEMMA OperationDomain == DOMAIN Operation = Requests
  BY DEF Operation, Requests

\* What a thread may do with an answer: it moves on, and only the event loop leaves "start".
LEMMA AfterMoves ==
  ASSUME NEW t \in Thread, NEW answer, at[t] \in Requests, After(t, answer)
  PROVE  \E p \in MainPlace \cup WorkerPlace :
            /\ at' = [at EXCEPT ![t] = p]
            /\ at[t] = "start"  => p = "arm"
            /\ at[t] \in {"keep", "again", "grant", "put"} => p \in {"again", "grant", "each"}
            /\ at[t] = "cancel" => p = IF t = Main THEN "loop" ELSE "idle"
            /\ at[t] = "revoke" => p = "returned"
<1>1. CASE at[t] = "start"
  BY <1>1 DEF After, Goto, MainPlace
<1>2. CASE at[t] = "keep"
  BY <1>2 DEF After, Goto, WorkerPlace
<1>3. CASE at[t] = "again"
  BY <1>3 DEF After, Goto, WorkerPlace, Renewal
<1>4. CASE at[t] = "grant"
  BY <1>4 DEF After, Goto, WorkerPlace
<1>5. CASE at[t] = "put"
  BY <1>5 DEF After, Goto, WorkerPlace
<1>6. CASE at[t] = "cancel"
  BY <1>6 DEF After, Goto, WorkerPlace, MainPlace
<1>7. CASE at[t] = "revoke"
  BY <1>7 DEF After, Goto, MainPlace
<1>8. QED
  BY <1>1, <1>2, <1>3, <1>4, <1>5, <1>6, <1>7 DEF Requests

\* Until the registration stops, at most one thread makes requests.
LEMMA OneRequester ==
  ASSUME Inv, ~stoping, NEW t \in Thread, NEW u \in Thread,
         at[t] \in Requests, at[u] \in Requests
  PROVE  t = u
<1>1. \A x \in Thread : at[x] \in {"start", "keep", "again", "grant", "put"} \/ at[x] \notin Requests
  BY DEF Inv, Stopping, Requests
<1>2. \A x \in Thread : at[x] \in Requests => (x = Main /\ at[Main] = "start") \/ (x \in Worker /\ IsBusy(x))
  BY <1>1, Zenon DEF Inv, Types, Thread, MainPlace, WorkerPlace, IsBusy, Requests
<1>3. QED
  BY <1>2 DEF Inv, Beat

-----------------------------------------------------------------------------
(* The invariant is inductive: one lemma per action.                       *)

LEMMA InitInv == Init => Inv
<1> SUFFICES ASSUME Init PROVE Inv
  OBVIOUS
<1>1. /\ at \in [Thread -> MainPlace \cup WorkerPlace]
      /\ at[Main] = "start" /\ \A w \in Worker : at[w] = "idle"
  BY RegisterAssumption DEF Init, Thread, MainPlace, WorkerPlace
<1>2. Types /\ Beat
  <2>1. Types
    BY <1>1 DEF Init, Types, MainPlace, WorkerPlace
  <2>2. Beat
    BY <1>1 DEF Init, Beat, IsBusy
  <2>3. QED
    BY <2>1, <2>2
<1>3. Requesting /\ Stopping /\ OwnRequest
  BY <1>1 DEF Init, Requesting, Stopping, OwnRequest, Thread
<1>4. QED
  BY <1>2, <1>3 DEF Inv

LEMMA SetOptionsInv ==
  ASSUME Inv, NEW t \in Thread, SetOptions(t)
  PROVE  Inv'
<1>1. /\ at[t] \in Requests /\ t \notin ready /\ ready' = ready \cup {t} /\ handle'.by = t
      /\ UNCHANGED <<stoping, timers, tasks, at>>
  BY OperationDomain DEF SetOptions, Request, provider, beat
<1>2. Types' /\ Beat' /\ Requesting' /\ Stopping'
  BY <1>1 DEF Inv, Types, Beat, Requesting, Stopping, IsBusy
<1>3. ~stoping => ready = {}
  BY <1>1, OneRequester DEF Inv, Types, Requesting
<1>4. OwnRequest'
  BY <1>1, <1>3 DEF OwnRequest
<1>5. QED
  BY <1>2, <1>4 DEF Inv

LEMMA PerformInv ==
  ASSUME Inv, NEW t \in Thread, Perform(t)
  PROVE  Inv'
<1>1. t \in ready /\ ready' = ready \ {t} /\ UNCHANGED <<stoping, timers, tasks, handle>>
  BY DEF Perform, provider, beat
<1>2. at[t] \in Requests
  BY <1>1 DEF Inv, Requesting
<1>3. PICK p \in MainPlace \cup WorkerPlace :
         /\ at' = [at EXCEPT ![t] = p]
         /\ at[t] = "start"  => p = "arm"
         /\ at[t] \in {"keep", "again", "grant", "put"} => p \in {"again", "grant", "each"}
         /\ at[t] = "cancel" => p = IF t = Main THEN "loop" ELSE "idle"
         /\ at[t] = "revoke" => p = "returned"
  BY <1>2, AfterMoves DEF Perform
<1>4. /\ at'[t] = p
      /\ \A u \in Thread \ {t} : at'[u] = at[u]
      /\ at' \in [Thread -> MainPlace \cup WorkerPlace]
  BY <1>3 DEF Inv, Types
<1>5. /\ t = Main => p \in {"arm", "loop", "returned"}
      /\ t \in Worker => p \in {"again", "grant", "each", "idle"}
      /\ t \in Worker => (p # "idle" => IsBusy(t))
      /\ p = "arm" => at[t] = "start"
  BY <1>2, <1>3, RegisterAssumption DEF Inv, Types, MainPlace, WorkerPlace, IsBusy, Requests
<1>6. Types'
  BY <1>1, <1>4, <1>5 DEF Inv, Types, Thread, MainPlace, WorkerPlace
<1>7. \A w \in Worker : IsBusy(w)' => IsBusy(w)
  BY <1>4, <1>5 DEF IsBusy, Thread
<1>8. at'[Main] \in {"start", "arm"} => at[Main] \in {"start", "arm"}
  BY <1>4, <1>5, RegisterAssumption DEF Thread
<1>9. Beat'
  BY <1>1, <1>7, <1>8 DEF Inv, Beat
<1>10. Requesting' /\ OwnRequest'
  BY <1>1, <1>4 DEF Inv, Types, Requesting, OwnRequest
<1>11. Stopping'
  BY <1>1, <1>4, <1>5 DEF Inv, Stopping, Thread
<1>12. QED
  BY <1>6, <1>9, <1>10, <1>11 DEF Inv

\* A thread that goes elsewhere while it has no request set disturbs none.
LEMMA QuietStep ==
  ASSUME Inv, NEW t \in Thread, at[t] \notin Requests, UNCHANGED <<ready, handle>>,
         stoping' \in BOOLEAN, stoping => stoping',
         at' \in [Thread -> MainPlace \cup WorkerPlace],
         \A u \in Thread \ {t} : at'[u] = at[u]
  PROVE  Requesting' /\ OwnRequest'
<1>1. t \notin ready
  BY DEF Inv, Requesting
<1>2. QED
  BY <1>1 DEF Inv, Types, Requesting, OwnRequest

LEMMA EventLoopInv ==
  ASSUME Inv, EventLoop
  PROVE  Inv'
<1>1. Main \in Thread /\ Main \notin Worker /\ \A w \in Worker : w \in Thread \ {Main}
  BY RegisterAssumption DEF Thread
<1>2. CASE StartTimer
  <2>1. /\ at[Main] = "arm" /\ at' = [at EXCEPT ![Main] = "store"]
        /\ timers' = timers + 1 \/ timers' = timers
        /\ UNCHANGED <<stoping, tasks, ready, handle>>
    BY <1>2 DEF StartTimer, ArmTimer, Goto, provider, curl
  <2>2. /\ at'[Main] = "store" /\ \A u \in Thread \ {Main} : at'[u] = at[u]
        /\ at' \in [Thread -> MainPlace \cup WorkerPlace]
    BY <2>1, <1>1 DEF Inv, Types, MainPlace
  <2>3. Types'
    BY <2>1, <2>2, <1>1 DEF Inv, Types, MainPlace
  <2>4. Beat'
    BY <2>1, <2>2, <1>1 DEF Inv, Types, Beat, IsBusy
  <2>5. Stopping'
    BY <2>1, <2>2, <1>1 DEF Inv, Stopping
  <2>6. Requesting' /\ OwnRequest'
    BY <1>1, <2>1, <2>2, QuietStep DEF Inv, Types, Requests
  <2>7. QED
    BY <2>3, <2>4, <2>5, <2>6 DEF Inv
<1>3. CASE StartLoop
  <2>1. /\ at[Main] = "store" /\ at' = [at EXCEPT ![Main] = "loop"]
        /\ UNCHANGED <<stoping, timers, tasks, ready, handle>>
    BY <1>3 DEF StartLoop, Goto, beat, curl
  <2>2. /\ at'[Main] = "loop" /\ \A u \in Thread \ {Main} : at'[u] = at[u]
        /\ at' \in [Thread -> MainPlace \cup WorkerPlace]
    BY <2>1, <1>1 DEF Inv, Types, MainPlace
  <2>3. Types' /\ Beat' /\ Stopping'
    BY <2>1, <2>2, <1>1 DEF Inv, Types, Beat, IsBusy, Stopping, MainPlace
  <2>4. Requesting' /\ OwnRequest'
    BY <1>1, <2>1, <2>2, QuietStep DEF Inv, Types, Requests
  <2>5. QED
    BY <2>3, <2>4 DEF Inv
<1>4. CASE Timeout
  <2>1. /\ at[Main] = "loop" /\ timers > 0 /\ timers' = timers - 1 /\ UNCHANGED <<ready, handle>>
        /\ \/ tasks' = tasks + 1 /\ UNCHANGED <<stoping, at>>
           \/ UNCHANGED <<tasks, stoping, at>>
           \/ UNCHANGED tasks /\ stoping' = TRUE /\ at' = [at EXCEPT ![Main] = "cancel"]
    BY <1>4 DEF Timeout, Fired, StopRegister, Goto, curl
  <2>2. /\ at'[Main] \in {"loop", "cancel"} /\ \A u \in Thread \ {Main} : at'[u] = at[u]
        /\ at' \in [Thread -> MainPlace \cup WorkerPlace]
        /\ at'[Main] = "cancel" => stoping'
        /\ stoping' \in BOOLEAN /\ (stoping => stoping')
    <3>1. CASE UNCHANGED <<stoping, at>>
      BY <2>1, <3>1, <1>1 DEF Inv, Types
    <3>2. CASE stoping' = TRUE /\ at' = [at EXCEPT ![Main] = "cancel"]
      BY <3>2, <1>1 DEF Inv, Types, MainPlace
    <3>3. QED
      BY <2>1, <3>1, <3>2
  <2>3. timers' \in Nat /\ tasks' \in Nat
    BY <2>1 DEF Inv, Types
  <2>4. Types'
    BY <2>1, <2>2, <2>3, <1>1 DEF Inv, Types, MainPlace
  <2>5. timers + tasks = 1 /\ timers' + tasks' <= 1
    BY <2>1 DEF Inv, Types, Beat
  <2>6. Beat'
    BY <2>2, <2>5, <1>1 DEF Inv, Beat, IsBusy
  <2>7. Stopping'
    BY <2>2, <1>1 DEF Inv, Types, Stopping
  <2>8. Requesting' /\ OwnRequest'
    BY <1>1, <2>1, <2>2, QuietStep DEF Requests
  <2>9. QED
    BY <2>4, <2>6, <2>7, <2>8 DEF Inv
<1>5. CASE LeaveLoop
  <2>1. /\ at[Main] = "loop" /\ at' = [at EXCEPT ![Main] = "revoke"] /\ stoping' = TRUE
        /\ UNCHANGED <<timers, tasks, ready, handle>>
    BY <1>5 DEF LeaveLoop, StopRegister, Goto, beat, curl
  <2>2. /\ at'[Main] = "revoke" /\ \A u \in Thread \ {Main} : at'[u] = at[u]
        /\ at' \in [Thread -> MainPlace \cup WorkerPlace]
    BY <2>1, <1>1 DEF Inv, Types, MainPlace
  <2>3. Types' /\ Beat' /\ Stopping'
    BY <2>1, <2>2, <1>1 DEF Inv, Types, Beat, IsBusy, Stopping, MainPlace
  <2>4. Requesting' /\ OwnRequest'
    BY <1>1, <2>1, <2>2, QuietStep DEF Requests
  <2>5. QED
    BY <2>3, <2>4 DEF Inv
<1>6. QED
  BY <1>2, <1>3, <1>4, <1>5 DEF EventLoop

LEMMA TaskInv ==
  ASSUME Inv, NEW w \in Worker, Task(w)
  PROVE  Inv'
<1>1. w \in Thread /\ w # Main /\ Main \in Thread
  BY RegisterAssumption DEF Thread
<1>2. CASE Take(w)
  <2>1. /\ at[w] = "idle" /\ tasks > 0 /\ tasks' = tasks - 1
        /\ at' = [at EXCEPT ![w] = IF stoping THEN "idle" ELSE "keep"]
        /\ UNCHANGED <<stoping, timers, ready, handle>>
    BY <1>2 DEF Take, Goto, provider, curl
  <2>2. /\ at'[w] \in {"idle", "keep"} /\ \A u \in Thread \ {w} : at'[u] = at[u]
        /\ at' \in [Thread -> MainPlace \cup WorkerPlace]
    BY <2>1, <1>1 DEF Inv, Types, WorkerPlace
  <2>3. Types'
    BY <2>1, <2>2, <1>1 DEF Inv, Types, WorkerPlace, Thread
  <2>4. timers' + tasks' = 0 /\ \A v \in Worker : ~IsBusy(v)
    BY <2>1 DEF Inv, Types, Beat
  <2>5. \A v \in Worker : IsBusy(v)' => v = w
    BY <2>2, <2>4 DEF IsBusy, Thread
  <2>6. at'[Main] \notin {"start", "arm"}
    BY <2>1, <2>2, <1>1 DEF Inv, Types, Beat
  <2>7. Beat'
    BY <2>4, <2>5, <2>6 DEF Beat
  <2>8. Stopping'
    BY <2>1, <2>2, <1>1 DEF Inv, Stopping
  <2>9. Requesting' /\ OwnRequest'
    BY <1>1, <2>1, <2>2, QuietStep DEF Inv, Types, Requests
  <2>10. QED
    BY <2>3, <2>7, <2>8, <2>9 DEF Inv
<1>3. CASE NextService(w)
  <2>1. /\ at[w] = "each" /\ at' = [at EXCEPT ![w] = IF stoping THEN "idle" ELSE "put"]
        /\ UNCHANGED <<stoping, timers, tasks, ready, handle>>
    BY <1>3 DEF NextService, Goto, provider, beat, curl
  <2>2. /\ at'[w] \in {"idle", "put"} /\ \A u \in Thread \ {w} : at'[u] = at[u]
        /\ at' \in [Thread -> MainPlace \cup WorkerPlace]
    BY <2>1, <1>1 DEF Inv, Types, WorkerPlace
  <2>3. Types'
    BY <2>1, <2>2, <1>1 DEF Inv, Types, WorkerPlace, Thread
  <2>4. \A v \in Worker : IsBusy(v)' => IsBusy(v)
    BY <2>1, <2>2 DEF IsBusy, Thread
  <2>5. Beat'
    BY <2>1, <2>2, <2>4, <1>1 DEF Inv, Beat
  <2>6. Stopping'
    BY <2>1, <2>2, <1>1 DEF Inv, Stopping
  <2>7. Requesting' /\ OwnRequest'
    BY <1>1, <2>1, <2>2, QuietStep DEF Inv, Types, Requests
  <2>8. QED
    BY <2>3, <2>5, <2>6, <2>7 DEF Inv
<1>4. CASE CallbackHealthCheck(w)
  <2>1. /\ at[w] = "each" /\ UNCHANGED <<tasks, ready, handle>>
        /\ \/ /\ timers' = timers + 1 \/ timers' = timers
              /\ UNCHANGED stoping /\ at' = [at EXCEPT ![w] = "idle"]
           \/ UNCHANGED timers /\ stoping' = TRUE /\ at' = [at EXCEPT ![w] = "cancel"]
    BY <1>4 DEF CallbackHealthCheck, ArmTimer, StopRegister, Goto, curl
  <2>2. /\ at'[w] \in {"idle", "cancel"} /\ \A u \in Thread \ {w} : at'[u] = at[u]
        /\ at' \in [Thread -> MainPlace \cup WorkerPlace]
        /\ at'[w] = "cancel" => stoping'
        /\ stoping' \in BOOLEAN /\ (stoping => stoping')
    BY <2>1, <1>1 DEF Inv, Types, WorkerPlace
  <2>3. timers' \in Nat /\ tasks' \in Nat
    BY <2>1 DEF Inv, Types
  <2>4. Types'
    BY <2>1, <2>2, <2>3, <1>1 DEF Inv, Types, WorkerPlace, Thread
  <2>5. IsBusy(w)
    BY <2>1 DEF IsBusy
  <2>6. timers + tasks = 0 /\ timers' + tasks' <= 1
    BY <2>1, <2>5 DEF Inv, Types, Beat
  <2>7. \A v \in Worker : ~IsBusy(v)'
    BY <2>2, <2>5 DEF Inv, Beat, IsBusy, Thread
  <2>8. at'[Main] \notin {"start", "arm"}
    BY <2>2, <2>5, <1>1 DEF Inv, Beat
  <2>9. Beat'
    BY <2>6, <2>7, <2>8 DEF Beat
  <2>10. Stopping'
    BY <2>2, <1>1 DEF Inv, Types, Stopping
  <2>11. Requesting' /\ OwnRequest'
    BY <1>1, <2>1, <2>2, QuietStep DEF Requests
  <2>12. QED
    BY <2>4, <2>9, <2>10, <2>11 DEF Inv
<1>5. QED
  BY <1>2, <1>3, <1>4 DEF Task

\* Signals, expiring leases and stuttering change nothing that the invariant speaks of.
LEMMA OtherInv ==
  ASSUME Inv, Sigint \/ (\E l \in Lease : Expire(l)) \/ UNCHANGED vars
  PROVE  Inv'
<1>1. UNCHANGED <<stoping, timers, tasks, at, ready, handle>>
  BY DEF Sigint, Expire, vars, provider, beat, curl
<1>2. QED
  BY <1>1 DEF Inv, Types, Beat, IsBusy, Requesting, Stopping, OwnRequest

LEMMA NextInv == Inv /\ [Next]_vars => Inv'
  BY SetOptionsInv, PerformInv, EventLoopInv, TaskInv, OtherInv DEF Next, Client

LEMMA InvSpec == Spec => []Inv
  BY InitInv, NextInv, PTL DEF Spec

-----------------------------------------------------------------------------
(* The theorems.                                                           *)

\* Until the registration stops, the EtcdClient, which is not made for two threads, sends
\* what the thread that performs has set (curlRequest()).
THEOREM RegisterOwnRequest == Spec => []OwnRequest
<1>1. Inv => OwnRequest
  BY DEF Inv
<1>2. QED
  BY <1>1, InvSpec, PTL

\* There is one heartbeat: a timer, a task or a worker that updates the node, never two of
\* them (callback_timeout(), updateNodeInfo(), callback_healthCheck()).
THEOREM RegisterOneBeat == Spec => []OneBeat
<1>1. ASSUME Inv
      PROVE  OneBeat
  <2>1. CASE Busy = {}
    <3>1. Cardinality(Busy) = 0
      BY <2>1, FS_EmptySet
    <3>2. QED
      BY <1>1, <3>1 DEF Inv, Types, Beat, OneBeat
  <2>2. CASE Busy # {}
    <3>1. PICK w : w \in Busy
      BY <2>2
    <3>2. Busy = {w} /\ timers + tasks = 0
      BY <1>1, <3>1 DEF Inv, Types, Beat, IsBusy, Busy
    <3>3. Cardinality(Busy) = 1
      BY <3>2, FS_Singleton
    <3>4. QED
      BY <1>1, <3>2, <3>3 DEF Inv, Types, OneBeat
  <2>3. QED
    BY <2>1, <2>2
<1>2. QED
  BY <1>1, InvSpec, PTL

-----------------------------------------------------------------------------
(***************************************************************************)
(* Keys and leases.  GivenUp relies on it that a key never outlives its    *)
(* lease and that none is put without one.                                 *)
(***************************************************************************)

\* Every key of the provider is under a lease that lives.
Leased == keys \in [Service -> alive \cup {None}]

\* What is asked of etcd: never a lease of its own making, and services only.
Asked(q) == q.lease \in Lease \cup {NoLease} /\ (q.op = "put" => q.key \in Service)

Etcd == /\ alive \subseteq Lease /\ leaseId \in Lease \cup {NoLease}
        /\ todo \in [Thread -> SUBSET Service]
        /\ Asked(handle) /\ DOMAIN handle = {"by", "op", "lease", "key"}

LEMMA Unkeyed ==
  ASSUME Leased, NEW l
  PROVE  Without(l) \in [Service -> (alive \ {l}) \cup {None}]
BY DEF Leased, Without

LEMMA Served ==
  ASSUME Etcd, Leased, NEW q, Asked(q), q.op = "grant" => Lease \ Named # {}
  PROVE  /\ Serve(q).alive \subseteq Lease
         /\ Serve(q).keys \in [Service -> Serve(q).alive \cup {None}]
<1>1. CASE q.op = "grant"
  <2>1. PICK l \in Lease : l = CHOOSE x \in Lease : x \notin Named
    BY <1>1
  <2>2. Serve(q).alive = alive \cup {l} /\ Serve(q).keys = keys
    BY <1>1, <2>1 DEF Serve
  <2>3. QED
    BY <2>1, <2>2 DEF Etcd, Leased
<1>2. CASE q.op = "put" /\ q.lease \in alive \cup {Unleased}
  <2>1. q.lease \in alive
    BY <1>2, RegisterAssumption DEF Asked
  <2>2. Serve(q).alive = alive /\ Serve(q).keys = [keys EXCEPT ![q.key] = q.lease]
    BY <1>2 DEF Serve
  <2>3. QED
    BY <2>1, <2>2 DEF Etcd, Leased
<1>3. CASE q.op = "revoke" /\ q.lease \in alive
  <2>1. Serve(q).alive = alive \ {q.lease} /\ Serve(q).keys = Without(q.lease)
    BY <1>3 DEF Serve
  <2>2. QED
    BY <2>1, Unkeyed DEF Etcd
<1>4. CASE /\ q.op # "grant"
           /\ ~ (q.op = "put" /\ q.lease \in alive \cup {Unleased})
           /\ ~ (q.op = "revoke" /\ q.lease \in alive)
  <2>1. Serve(q).alive = alive /\ Serve(q).keys = keys
    <3>1. CASE q.op = "keepalive" /\ q.lease \in Lease
      BY <3>1 DEF Serve
    <3>2. CASE ~ (q.op = "keepalive" /\ q.lease \in Lease)
      BY <1>4, <3>2 DEF Serve
    <3>3. QED
      BY <3>1, <3>2
  <2>2. QED
    BY <2>1 DEF Etcd, Leased
<1>5. QED
  BY <1>1, <1>2, <1>3, <1>4

LEMMA NextLeased ==
  ASSUME Inv, Etcd, Leased, [Next]_vars
  PROVE  (Etcd /\ Leased)'
<1>1. ASSUME NEW t \in Thread, SetOptions(t)
      PROVE  (Etcd /\ Leased)'
  <2>1. PICK s \in IF at[t] = "put" THEN todo[t] ELSE {None} :
           /\ handle' = Request(t, s)
           /\ todo' = [todo EXCEPT ![t] = @ \ {s}]
    BY <1>1 DEF SetOptions
  <2>2. UNCHANGED <<alive, keys, leaseId>> /\ at[t] \in Requests
    BY <1>1, OperationDomain DEF SetOptions, etcd
  <2>3. Operation[at[t]] = "put" => at[t] = "put"
    BY <2>2 DEF Operation, Requests
  <2>4. Asked(handle)' /\ (DOMAIN handle)' = {"by", "op", "lease", "key"}
    BY <2>1, <2>2, <2>3 DEF Request, Asked, Etcd
  <2>5. todo' \in [Thread -> SUBSET Service]
    BY <2>1 DEF Etcd
  <2>6. QED
    BY <2>2, <2>4, <2>5 DEF Etcd, Leased
<1>2. ASSUME NEW t \in Thread, Perform(t)
      PROVE  (Etcd /\ Leased)'
  <2>1. PICK q \in Sent(t), answer \in [id : Lease \cup {NoLease}, ttl : BOOLEAN] :
           /\ Answered(q, answer) \/ Lost(q, answer)
           /\ After(t, answer)
    BY <1>2 DEF Perform
  <2>2. Asked(q)
    BY <2>1 DEF Sent, Etcd, Asked
  <2>3. q.op = "grant" => Lease \ Named # {}
    BY <2>1 DEF Answered, Lost
  <2>4. \/ UNCHANGED <<alive, keys>>
        \/ alive' = Serve(q).alive /\ keys' = Serve(q).keys
    BY <2>1 DEF Answered, Lost, etcd
  <2>5. alive' \subseteq Lease /\ Leased'
    BY <2>2, <2>3, <2>4, Served DEF Etcd, Leased
  <2>6. at[t] \in Requests
    BY <1>2 DEF Perform, Inv, Requesting
  <2>7. /\ leaseId' \in Lease \cup {NoLease}
        /\ todo' = todo \/ todo' = [todo EXCEPT ![t] = Service]
    BY <2>1, <2>6 DEF After, Requests, leaseGrant, Etcd
  <2>8. UNCHANGED handle
    BY <1>2 DEF Perform
  <2>9. todo' \in [Thread -> SUBSET Service]
    BY <2>7 DEF Etcd
  <2>10. QED
    BY <2>5, <2>7, <2>8, <2>9 DEF Etcd, Asked
<1>3. ASSUME NEW l \in Lease, Expire(l)
      PROVE  (Etcd /\ Leased)'
  <2>1. alive' = alive \ {l} /\ keys' = Without(l) /\ UNCHANGED <<handle, leaseId, todo>>
    BY <1>3 DEF Expire, curl
  <2>2. QED
    BY <2>1, Unkeyed DEF Etcd, Asked, Leased
<1>4. ASSUME UNCHANGED <<alive, keys, handle, leaseId, todo>>
      PROVE  (Etcd /\ Leased)'
  BY <1>4 DEF Etcd, Asked, Leased
<1>5. CASE EventLoop \/ Sigint
  BY <1>4, <1>5 DEF EventLoop, StartTimer, StartLoop, Timeout, LeaveLoop, Sigint, curl, etcd
<1>6. ASSUME NEW w \in Worker, Task(w)
      PROVE  (Etcd /\ Leased)'
  BY <1>4, <1>6 DEF Task, Take, NextService, CallbackHealthCheck, curl, etcd
<1>7. CASE UNCHANGED vars
  BY <1>4, <1>7 DEF vars, curl, etcd
<1>8. QED
  BY <1>1, <1>2, <1>3, <1>5, <1>6, <1>7 DEF Next, Client

\* Whatever requests are lost, doubled or overtaken by an expiry, no key of the provider is
\* left in etcd without a lease that lives, so none stays of a provider that is gone (put()
\* names the lease, leaseGrant() may have failed).
THEOREM KeysAreLeased == Spec => []Leased
<1>1. Init => Etcd /\ Leased
  <2> SUFFICES ASSUME Init PROVE Etcd /\ Leased
    OBVIOUS
  <2>1. Asked(handle) /\ DOMAIN handle = {"by", "op", "lease", "key"}
    BY DEF Init, Asked
  <2>2. QED
    BY <2>1 DEF Init, Etcd, Leased
<1>2. Inv /\ Etcd /\ Leased /\ [Next]_vars => (Etcd /\ Leased)'
  BY NextLeased
<1>3. QED
  BY <1>1, <1>2, InvSpec, PTL DEF Spec

-----------------------------------------------------------------------------
(* The base64 of what is put.                                              *)

\* A group survives: base64Decoding's shifts undo those of base64Encoding.
LEMMA Group ==
    ASSUME NEW a \in Byte, NEW b \in Byte, NEW c \in Byte
    PROVE  /\ Sextets(a, b, c)[1] \in 0 .. 63 /\ Sextets(a, b, c)[2] \in 0 .. 63
           /\ Sextets(a, b, c)[3] \in 0 .. 63 /\ Sextets(a, b, c)[4] \in 0 .. 63
           /\ Bytes(Sextets(a, b, c)[1], Sextets(a, b, c)[2],
                    Sextets(a, b, c)[3], Sextets(a, b, c)[4]) = <<a, b, c>>
<1>1. PICK x \in 0 .. 63, y \in 0 .. 3 : a \div 4 = x /\ a % 4 = y /\ a = 4 * x + y
  BY DEF Byte
<1>2. PICK z \in 0 .. 15, u \in 0 .. 15 : b \div 16 = z /\ b % 16 = u /\ b = 16 * z + u
  BY DEF Byte
<1>3. PICK v \in 0 .. 3, w \in 0 .. 63 : c \div 64 = v /\ c % 64 = w /\ c = 64 * v + w
  BY DEF Byte
<1>4. Sextets(a, b, c) = << x, y * 16 + z, u * 4 + v, w >>
  BY <1>1, <1>2, <1>3 DEF Sextets
<1>5. /\ (x * 4 + ((y * 16 + z) \div 16)) % 256 = a
      /\ ((y * 16 + z) * 16 + ((u * 4 + v) \div 4)) % 256 = b
      /\ ((u * 4 + v) * 64 + w) % 256 = c
  <2>1. (y * 16 + z) \div 16 = y /\ (x * 4 + y) % 256 = a
    BY <1>1
  <2>2. (u * 4 + v) \div 4 = u /\ ((y * 16 + z) * 16 + u) % 256 = b
    BY <1>2
  <2>3. ((u * 4 + v) * 64 + w) % 256 = c
    BY <1>3
  <2> QED
    BY <2>1, <2>2, <2>3
<1>6. PICK p \in 0 .. 63, q \in 0 .. 63 : p = y * 16 + z /\ q = u * 4 + v
  OBVIOUS
<1>7. Bytes(x, p, q, w) = <<a, b, c>>
  BY <1>5, <1>6 DEF Bytes
<1>8. Sextets(a, b, c) = << x, p, q, w >>
  BY <1>4, <1>6
<1>9. /\ Sextets(a, b, c)[1] = x /\ Sextets(a, b, c)[2] = p
      /\ Sextets(a, b, c)[3] = q /\ Sextets(a, b, c)[4] = w
  BY <1>8
<1>10. Bytes(Sextets(a, b, c)[1], Sextets(a, b, c)[2],
             Sextets(a, b, c)[3], Sextets(a, b, c)[4]) = <<a, b, c>>
  BY <1>7, <1>9, Zenon
<1> QED
  BY <1>9, <1>10

\* base64_reverse finds the place in base64_charset_table, which has no '='.
LEMMA Table ==
    ASSUME NEW v \in 0 .. 63
    PROVE  /\ base64_reverse(base64_charset_table[v]) = v
           /\ base64_charset_table[v] # Equals
<1> DEFINE c == base64_charset_table[v]
<1>1. CASE v \in 0 .. 25
  <2>1. c = 65 + v
    BY <1>1 DEF base64_charset_table
  <2> QED
    BY <1>1, <2>1 DEF base64_reverse, Equals
<1>2. CASE v \in 26 .. 51
  <2>1. c = 97 + (v - 26)
    BY <1>2 DEF base64_charset_table
  <2> QED
    BY <1>2, <2>1 DEF base64_reverse, Equals
<1>3. CASE v \in 52 .. 61
  <2>1. c = 48 + (v - 52)
    BY <1>3 DEF base64_charset_table
  <2> QED
    BY <1>3, <2>1 DEF base64_reverse, Equals
<1>4. CASE v \in 62 .. 63
  <2>1. c = IF v = 62 THEN 43 ELSE 47
    BY <1>4 DEF base64_charset_table
  <2> QED
    BY <1>4, <2>1 DEF base64_reverse, Equals
<1> QED
  BY <1>1, <1>2, <1>3, <1>4

-----------------------------------------------------------------------------
\* A place and its group.
LEMMA Places ==
    ASSUME NEW g \in Nat
    PROVE  /\ \A e \in 1 .. 4 : ((4 * g + e) - 1) \div 4 = g /\ ((4 * g + e) - 1) % 4 = e - 1
           /\ \A e \in 1 .. 3 : ((3 * g + e) - 1) \div 3 = g /\ ((3 * g + e) - 1) % 3 = e - 1
  OBVIOUS

\* How long a text is and where its '=' begin, by what remains of the last group.
LEMMA Lengths ==
    ASSUME NEW q \in Nat, NEW r \in 0 .. 2
    PROVE  /\ (3 * q + r + 2) \div 3 = IF r = 0 THEN q ELSE q + 1
           /\ Significant(3 * q + r) = IF r = 0 THEN 4 * q ELSE 4 * q + r + 1
<1>1. CASE r = 0
  BY <1>1 DEF Significant
<1>2. CASE r = 1
  BY <1>2 DEF Significant
<1>3. CASE r = 2
  BY <1>3 DEF Significant
<1> QED
  BY <1>1, <1>2, <1>3

LEMMA InGroup ==
    ASSUME NEW s \in Seq(Byte), NEW g \in Nat
    PROVE  LET a == ByteAt(s, 3 * g + 1)
               b == ByteAt(s, 3 * g + 2)
               c == ByteAt(s, 3 * g + 3)
           IN  /\ a \in Byte /\ b \in Byte /\ c \in Byte
               /\ \A e \in 1 .. 4 : /\ SextetAt(s, 4 * g + e) = Sextets(a, b, c)[e]
                                    /\ Sextets(a, b, c)[e] \in 0 .. 63
<1> DEFINE a == ByteAt(s, 3 * g + 1)
           b == ByteAt(s, 3 * g + 2)
           c == ByteAt(s, 3 * g + 3)
<1>1. ASSUME NEW i \in Nat \ {0}
      PROVE  ByteAt(s, i) \in Byte
  <2>1. CASE i <= Len(s)
    BY <2>1, ElementOfSeq DEF ByteAt
  <2>2. CASE ~(i <= Len(s))
    BY <2>2 DEF ByteAt, Byte
  <2> QED
    BY <2>1, <2>2
<1>2. a \in Byte /\ b \in Byte /\ c \in Byte
  BY <1>1
<1>3. ASSUME NEW e \in 1 .. 4
      PROVE  SextetAt(s, 4 * g + e) = Sextets(a, b, c)[e] /\ Sextets(a, b, c)[e] \in 0 .. 63
  <2>1. ((4 * g + e) - 1) \div 4 = g /\ ((4 * g + e) - 1) % 4 = e - 1 /\ (e - 1) + 1 = e
    BY Places
  <2>2. SextetAt(s, 4 * g + e) = Sextets(a, b, c)[e]
    BY <2>1 DEF SextetAt
  <2>3. Sextets(a, b, c)[e] \in 0 .. 63
    <3> HIDE DEF a, b, c
    <3>1. /\ Sextets(a, b, c)[1] \in 0 .. 63 /\ Sextets(a, b, c)[2] \in 0 .. 63
          /\ Sextets(a, b, c)[3] \in 0 .. 63 /\ Sextets(a, b, c)[4] \in 0 .. 63
      BY <1>2, Group
    <3>2. e = 1 \/ e = 2 \/ e = 3 \/ e = 4
      OBVIOUS
    <3> QED
      BY <3>1, <3>2
  <2> QED
    BY <2>2, <2>3
<1> QED
  BY <1>2, <1>3

\* The text of a byte string: a character for each sextet that has a bit of it, then '='.
LEMMA Text ==
  ASSUME NEW s \in Seq(Byte)
  PROVE  \E q \in Nat, r \in 0 .. 2, h \in Nat, m \in Nat :
            /\ Len(s) = 3 * q + r
            /\ m = Significant(Len(s)) /\ m = IF r = 0 THEN 4 * q ELSE 4 * q + r + 1
            /\ h = IF r = 0 THEN q ELSE q + 1
            /\ Len(base64Encoding(s)) = 4 * h
            /\ \A k \in 1 .. 4 * h :
                  /\ SextetAt(s, k) \in 0 .. 63
                  /\ base64Encoding(s)[k] = IF k <= m THEN base64_charset_table[SextetAt(s, k)] ELSE Equals
<1> DEFINE n == Len(s)
           t == base64Encoding(s)
           byte(i) == ByteAt(s, i)
<1>1. n \in Nat
  BY LenProperties
<1>2. PICK q \in Nat, r \in 0 .. 2 : n = 3 * q + r
  <2>1. n \div 3 \in Nat /\ n % 3 \in 0 .. 2 /\ n = 3 * (n \div 3) + (n % 3)
    BY <1>1
  <2> QED
    BY <2>1
<1>3. PICK m \in Nat : m = Significant(n) /\ m = IF r = 0 THEN 4 * q ELSE 4 * q + r + 1
  <2>1. Significant(3 * q + r) = IF r = 0 THEN 4 * q ELSE 4 * q + r + 1
    BY Lengths
  <2>2. Significant(n) = Significant(3 * q + r)
    BY <1>2
  <2> QED
    BY <2>1, <2>2
<1>4. PICK h \in Nat : h = (n + 2) \div 3 /\ h = IF r = 0 THEN q ELSE q + 1
  <2>1. (3 * q + r + 2) \div 3 = IF r = 0 THEN q ELSE q + 1
    BY Lengths
  <2>2. n + 2 = 3 * q + r + 2
    BY <1>2
  <2> QED
    BY <2>1, <2>2
<1>5. /\ t = [k \in 1 .. 4 * h |-> IF k <= m THEN base64_charset_table[SextetAt(s, k)] ELSE Equals]
      /\ Len(t) = 4 * h
  BY <1>3, <1>4 DEF base64Encoding
<1>6. ASSUME NEW k \in 1 .. 4 * h
      PROVE  SextetAt(s, k) \in 0 .. 63
  <2>1. PICK g \in Nat, e \in 1 .. 4 : k = 4 * g + e
    <3>1. /\ (k - 1) \div 4 \in Nat /\ ((k - 1) % 4) + 1 \in 1 .. 4
          /\ k = 4 * ((k - 1) \div 4) + (((k - 1) % 4) + 1)
      OBVIOUS
    <3> QED
      BY <3>1
  <2>2. \A f \in 1 .. 4 :
          /\ SextetAt(s, 4 * g + f) = Sextets(byte(3 * g + 1), byte(3 * g + 2), byte(3 * g + 3))[f]
          /\ Sextets(byte(3 * g + 1), byte(3 * g + 2), byte(3 * g + 3))[f] \in 0 .. 63
    BY InGroup
  <2>3. SextetAt(s, 4 * g + e) \in 0 .. 63
    BY <2>2, Zenon
  <2> QED
    BY <2>1, <2>3
<1>7. \A k \in 1 .. 4 * h : t[k] = IF k <= m THEN base64_charset_table[SextetAt(s, k)] ELSE Equals
  BY <1>5
<1> HIDE DEF t
<1>8. h = IF r = 0 THEN q ELSE q + 1
  BY <1>4
<1>9. Len(t) = 4 * h
  BY <1>5
<1>10. /\ n = 3 * q + r
       /\ m = Significant(n) /\ m = IF r = 0 THEN 4 * q ELSE 4 * q + r + 1
       /\ h = IF r = 0 THEN q ELSE q + 1
       /\ Len(t) = 4 * h
       /\ \A k \in 1 .. 4 * h :
             /\ SextetAt(s, k) \in 0 .. 63
             /\ t[k] = IF k <= m THEN base64_charset_table[SextetAt(s, k)] ELSE Equals
  BY <1>2, <1>3, <1>6, <1>7, <1>8, <1>9, Zenon
<1> HIDE DEF n
<1> WITNESS q \in Nat, r \in 0 .. 2, h \in Nat, m \in Nat
<1> USE DEF n, t
<1> QED
  BY <1>10, Zenon

\* Whatever is put can be read again, except that a string of a multiple of three
\* bytes loses a last byte 0 (base64Encoding(), base64Decoding() and its pop_back()).
THEOREM RoundTrips == \A s \in Seq(Byte) : s # <<>> => RoundTrip(s)
<1> SUFFICES ASSUME NEW s \in Seq(Byte), s # <<>>
             PROVE  RoundTrip(s)
  OBVIOUS
<1> DEFINE n == Len(s)
           t == base64Encoding(s)
           byte(i) == ByteAt(s, i)
<1>1. n \in Nat \ {0} /\ \A i \in 1 .. n : s[i] \in Byte
  BY EmptySeq, ElementOfSeq
<1>2. PICK q \in Nat, r \in 0 .. 2, h \in Nat, m \in Nat :
         /\ n = 3 * q + r
         /\ m = Significant(n) /\ m = IF r = 0 THEN 4 * q ELSE 4 * q + r + 1
         /\ h = IF r = 0 THEN q ELSE q + 1
         /\ Len(t) = 4 * h
         /\ \A k \in 1 .. 4 * h :
               /\ SextetAt(s, k) \in 0 .. 63
               /\ t[k] = IF k <= m THEN base64_charset_table[SextetAt(s, k)] ELSE Equals
  BY Text
<1>3. n = 3 * q + r /\ m = IF r = 0 THEN 4 * q ELSE 4 * q + r + 1
  BY <1>2
<1>4. h = IF r = 0 THEN q ELSE q + 1
  BY <1>2
<1>5. Len(t) = 4 * h
  BY <1>2
<1>6. ASSUME NEW k \in 1 .. 4 * h
      PROVE  /\ k <= m => t[k] # Equals /\ base64_reverse(t[k]) = SextetAt(s, k)
             /\ k > m => t[k] = Equals
  <2> HIDE DEF t
  <2>1. PICK v \in 0 .. 63 :
           v = SextetAt(s, k) /\ t[k] = IF k <= m THEN base64_charset_table[v] ELSE Equals
    BY <1>2
  <2>2. /\ base64_reverse(base64_charset_table[v]) = v
        /\ base64_charset_table[v] # Equals
    BY Table
  <2>3. CASE k <= m
    BY <2>1, <2>2, <2>3
  <2>4. CASE k > m
    BY <2>1, <2>4
  <2> QED
    BY <2>3, <2>4
<1>7. Before(t) = m
  <2> HIDE DEF t
  <2> DEFINE ends == {k \in 1 .. Len(t) : t[k] = Equals}
  <2>1. m <= 4 * h
    BY <1>3, <1>4
  <2>2. ends = {k \in 1 .. 4 * h : k > m}
    BY <1>5, <1>6
  <2>3. CASE m = 4 * h
    <3>1. ends = {}
      BY <2>2, <2>3
    <3> QED
      BY <1>5, <2>3, <3>1 DEF Before
  <2>4. CASE m < 4 * h
    <3>1. m + 1 \in ends /\ \A l \in ends : m + 1 <= l
      BY <2>2, <2>4
    <3>2. ends \subseteq Nat
      BY <2>2
    <3>3. (CHOOSE k \in ends : \A l \in ends : k <= l) = m + 1
      <4> HIDE DEF ends
      <4>1. \A k \in ends : (\A l \in ends : k <= l) => k = m + 1
        BY <3>1, <3>2
      <4> QED
        BY <3>1, <4>1
    <3> QED
      BY <3>1, <3>3 DEF Before
  <2> QED
    BY <2>1, <2>3, <2>4
<1>8. ASSUME NEW g \in 0 .. h - 1
      PROVE  \A e \in 1 .. 3 : PushedAt(t, 3 * g + e) = byte(3 * g + e)
  <2> DEFINE a == byte(3 * g + 1)
             b == byte(3 * g + 2)
             c == byte(3 * g + 3)
  <2>1. /\ a \in Byte /\ b \in Byte /\ c \in Byte
        /\ \A e \in 1 .. 4 : SextetAt(s, 4 * g + e) = Sextets(a, b, c)[e]
    BY InGroup
  <2>2. ASSUME NEW e \in 1 .. 4
        PROVE  ValueAt(t, 4 * g + e) = Sextets(a, b, c)[e]
    <3>1. 4 * g + e \in 1 .. 4 * h
      BY <1>4
    <3>2. CASE 4 * g + e <= m
      <4>1. ValueAt(t, 4 * g + e) = SextetAt(s, 4 * g + e)
        BY <1>6, <1>7, <3>1, <3>2 DEF ValueAt
      <4> QED
        BY <2>1, <4>1
    <3>3. CASE 4 * g + e > m
      <4>1. ValueAt(t, 4 * g + e) = 0
        BY <1>7, <3>1, <3>3 DEF ValueAt
      <4>2. g = q /\ r # 0 /\ e > r + 1
        BY <1>3, <1>4, <3>1, <3>3
      <4>3. c = 0 /\ (r = 1 => b = 0)
        BY <1>3, <4>2 DEF ByteAt
      <4>4. Sextets(a, b, c)[e] = 0
        BY <4>2, <4>3 DEF Sextets
      <4> QED
        BY <4>1, <4>4
    <3> QED
      BY <1>3, <3>1, <3>2, <3>3
  <2>3. Bytes(ValueAt(t, 4 * g + 1), ValueAt(t, 4 * g + 2),
              ValueAt(t, 4 * g + 3), ValueAt(t, 4 * g + 4)) = <<a, b, c>>
    <3> HIDE DEF a, b, c, t
    <3>1. /\ ValueAt(t, 4 * g + 1) = Sextets(a, b, c)[1]
          /\ ValueAt(t, 4 * g + 2) = Sextets(a, b, c)[2]
          /\ ValueAt(t, 4 * g + 3) = Sextets(a, b, c)[3]
          /\ ValueAt(t, 4 * g + 4) = Sextets(a, b, c)[4]
      BY <2>2
    <3> QED
      BY <2>1, <3>1, Group
  <2>4. ASSUME NEW e \in 1 .. 3
        PROVE  PushedAt(t, 3 * g + e) = <<a, b, c>>[e]
    <3> HIDE DEF a, b, c, t
    <3>1. ((3 * g + e) - 1) \div 3 = g /\ (((3 * g + e) - 1) % 3) + 1 = e
      BY Places
    <3> QED
      BY <2>3, <3>1 DEF PushedAt
  <2> QED
    BY <2>4
<1>9. \A j \in 1 .. 3 * h : PushedAt(t, j) = byte(j)
  <2> SUFFICES ASSUME NEW j \in 1 .. 3 * h
               PROVE  PushedAt(t, j) = byte(j)
    OBVIOUS
  <2>1. PICK g \in 0 .. h - 1, e \in 1 .. 3 : j = 3 * g + e
    <3>1. /\ (j - 1) \div 3 \in 0 .. h - 1 /\ ((j - 1) % 3) + 1 \in 1 .. 3
          /\ j = 3 * ((j - 1) \div 3) + (((j - 1) % 3) + 1)
      OBVIOUS
    <3> QED
      BY <3>1
  <2> QED
    BY <1>8, <2>1
<1>10. PICK p \in Nat : /\ p = 3 * (m \div 4) + (m % 4)
                        /\ p = IF r = 0 THEN n ELSE n + 1
                        /\ p <= 3 * h
  <2>1. CASE r = 0
    BY <1>3, <1>4, <2>1
  <2>2. CASE r = 1
    BY <1>3, <1>4, <2>2
  <2>3. CASE r = 2
    BY <1>3, <1>4, <2>3
  <2> QED
    BY <2>1, <2>2, <2>3
<1>11. Pushed(t) = [j \in 1 .. p |-> byte(j)]
  <2> HIDE DEF t
  <2> QED
    BY <1>7, <1>9, <1>10 DEF Pushed
<1>12. Len(Pushed(t)) = p /\ \A j \in 1 .. p : Pushed(t)[j] = byte(j)
  BY <1>11
<1>13. CASE r = 0
  <2>1. p = n /\ n % 3 = 0
    BY <1>3, <1>10, <1>13
  <2>2. Pushed(t) = s
    <3>1. \A j \in 1 .. n : byte(j) = s[j]
      BY DEF ByteAt
    <3> QED
      BY <1>11, <2>1, <3>1
  <2>3. base64Decoding(t) = IF s[n] = 0 THEN SubSeq(s, 1, n - 1) ELSE s
    BY <2>2 DEF base64Decoding
  <2> QED
    BY <2>1, <2>3 DEF RoundTrip, Loses
<1>14. CASE r # 0
  <2>1. p = n + 1 /\ n % 3 # 0
    BY <1>3, <1>10, <1>14
  <2>2. Pushed(t)[p] = 0
    BY <1>1, <1>12, <2>1 DEF ByteAt
  <2>3. SubSeq(Pushed(t), 1, p - 1) = s
    <3>1. \A j \in 1 .. n : Pushed(t)[j] = s[j] /\ s[j] \in Byte
      BY <1>1, <1>12, <2>1 DEF ByteAt
    <3> HIDE DEF t
    <3>2. /\ SubSeq(Pushed(t), 1, n) \in Seq(Byte) /\ Len(SubSeq(Pushed(t), 1, n)) = n
          /\ \A j \in 1 .. n : SubSeq(Pushed(t), 1, n)[j] = Pushed(t)[j]
      BY <1>1, <3>1, SubSeqProperties
    <3>3. SubSeq(Pushed(t), 1, n) = s
      BY <3>1, <3>2, SeqEqual
    <3> QED
      BY <1>1, <2>1, <3>3
  <2>4. base64Decoding(t) = s
    BY <1>12, <2>2, <2>3 DEF base64Decoding
  <2> QED
    BY <2>1, <2>4 DEF RoundTrip, Loses
<1> QED
  BY <1>13, <1>14

-----------------------------------------------------------------------------
\* The four sextets are the bits of the three bytes, in their order.
LEMMA SextetBits ==
  ASSUME NEW a \in Byte, NEW b \in Byte, NEW c \in Byte
  PROVE  /\ (Sextets(a, b, c)[1] \div 32) % 2 = (a \div 128) % 2
         /\ (Sextets(a, b, c)[1] \div 16) % 2 = (a \div 64) % 2
         /\ (Sextets(a, b, c)[1] \div 8) % 2 = (a \div 32) % 2
         /\ (Sextets(a, b, c)[1] \div 4) % 2 = (a \div 16) % 2
         /\ (Sextets(a, b, c)[1] \div 2) % 2 = (a \div 8) % 2
         /\ (Sextets(a, b, c)[1] \div 1) % 2 = (a \div 4) % 2
         /\ (Sextets(a, b, c)[2] \div 32) % 2 = (a \div 2) % 2
         /\ (Sextets(a, b, c)[2] \div 16) % 2 = (a \div 1) % 2
         /\ (Sextets(a, b, c)[2] \div 8) % 2 = (b \div 128) % 2
         /\ (Sextets(a, b, c)[2] \div 4) % 2 = (b \div 64) % 2
         /\ (Sextets(a, b, c)[2] \div 2) % 2 = (b \div 32) % 2
         /\ (Sextets(a, b, c)[2] \div 1) % 2 = (b \div 16) % 2
         /\ (Sextets(a, b, c)[3] \div 32) % 2 = (b \div 8) % 2
         /\ (Sextets(a, b, c)[3] \div 16) % 2 = (b \div 4) % 2
         /\ (Sextets(a, b, c)[3] \div 8) % 2 = (b \div 2) % 2
         /\ (Sextets(a, b, c)[3] \div 4) % 2 = (b \div 1) % 2
         /\ (Sextets(a, b, c)[3] \div 2) % 2 = (c \div 128) % 2
         /\ (Sextets(a, b, c)[3] \div 1) % 2 = (c \div 64) % 2
         /\ (Sextets(a, b, c)[4] \div 32) % 2 = (c \div 32) % 2
         /\ (Sextets(a, b, c)[4] \div 16) % 2 = (c \div 16) % 2
         /\ (Sextets(a, b, c)[4] \div 8) % 2 = (c \div 8) % 2
         /\ (Sextets(a, b, c)[4] \div 4) % 2 = (c \div 4) % 2
         /\ (Sextets(a, b, c)[4] \div 2) % 2 = (c \div 2) % 2
         /\ (Sextets(a, b, c)[4] \div 1) % 2 = (c \div 1) % 2
<1>1. /\ ((a \div 4) \div 32) % 2 = (a \div 128) % 2
      /\ ((a \div 4) \div 16) % 2 = (a \div 64) % 2
      /\ ((a \div 4) \div 8) % 2 = (a \div 32) % 2
      /\ ((a \div 4) \div 4) % 2 = (a \div 16) % 2
      /\ ((a \div 4) \div 2) % 2 = (a \div 8) % 2
      /\ ((a \div 4) \div 1) % 2 = (a \div 4) % 2
  BY DEF Byte
<1>2. /\ (((a % 4) * 16 + (b \div 16)) \div 32) % 2 = (a \div 2) % 2
      /\ (((a % 4) * 16 + (b \div 16)) \div 16) % 2 = (a \div 1) % 2
      /\ (((a % 4) * 16 + (b \div 16)) \div 8) % 2 = (b \div 128) % 2
      /\ (((a % 4) * 16 + (b \div 16)) \div 4) % 2 = (b \div 64) % 2
      /\ (((a % 4) * 16 + (b \div 16)) \div 2) % 2 = (b \div 32) % 2
      /\ (((a % 4) * 16 + (b \div 16)) \div 1) % 2 = (b \div 16) % 2
  <2>1. (((a % 4) * 16 + (b \div 16)) \div 32) % 2 = (a \div 2) % 2
    BY DEF Byte
  <2>2. (((a % 4) * 16 + (b \div 16)) \div 16) % 2 = (a \div 1) % 2
    BY DEF Byte
  <2>3. (((a % 4) * 16 + (b \div 16)) \div 8) % 2 = (b \div 128) % 2
    BY DEF Byte
  <2>4. (((a % 4) * 16 + (b \div 16)) \div 4) % 2 = (b \div 64) % 2
    BY DEF Byte
  <2>5. (((a % 4) * 16 + (b \div 16)) \div 2) % 2 = (b \div 32) % 2
    BY DEF Byte
  <2>6. (((a % 4) * 16 + (b \div 16)) \div 1) % 2 = (b \div 16) % 2
    BY DEF Byte
  <2> QED
    BY <2>1, <2>2, <2>3, <2>4, <2>5, <2>6
<1>3. /\ (((b % 16) * 4 + (c \div 64)) \div 32) % 2 = (b \div 8) % 2
      /\ (((b % 16) * 4 + (c \div 64)) \div 16) % 2 = (b \div 4) % 2
      /\ (((b % 16) * 4 + (c \div 64)) \div 8) % 2 = (b \div 2) % 2
      /\ (((b % 16) * 4 + (c \div 64)) \div 4) % 2 = (b \div 1) % 2
      /\ (((b % 16) * 4 + (c \div 64)) \div 2) % 2 = (c \div 128) % 2
      /\ (((b % 16) * 4 + (c \div 64)) \div 1) % 2 = (c \div 64) % 2
  <2>1. (((b % 16) * 4 + (c \div 64)) \div 32) % 2 = (b \div 8) % 2
    BY DEF Byte
  <2>2. (((b % 16) * 4 + (c \div 64)) \div 16) % 2 = (b \div 4) % 2
    BY DEF Byte
  <2>3. (((b % 16) * 4 + (c \div 64)) \div 8) % 2 = (b \div 2) % 2
    BY DEF Byte
  <2>4. (((b % 16) * 4 + (c \div 64)) \div 4) % 2 = (b \div 1) % 2
    BY DEF Byte
  <2>5. (((b % 16) * 4 + (c \div 64)) \div 2) % 2 = (c \div 128) % 2
    BY DEF Byte
  <2>6. (((b % 16) * 4 + (c \div 64)) \div 1) % 2 = (c \div 64) % 2
    BY DEF Byte
  <2> QED
    BY <2>1, <2>2, <2>3, <2>4, <2>5, <2>6
<1>4. /\ ((c % 64) \div 32) % 2 = (c \div 32) % 2
      /\ ((c % 64) \div 16) % 2 = (c \div 16) % 2
      /\ ((c % 64) \div 8) % 2 = (c \div 8) % 2
      /\ ((c % 64) \div 4) % 2 = (c \div 4) % 2
      /\ ((c % 64) \div 2) % 2 = (c \div 2) % 2
      /\ ((c % 64) \div 1) % 2 = (c \div 1) % 2
  BY DEF Byte
<1> QED
  BY <1>1, <1>2, <1>3, <1>4 DEF Sextets

LEMMA Powers ==
  ASSUME NEW y \in 0 .. 7
  PROVE  \E p \in 1 .. 128 : p = 2 ^ y /\ p = <<1, 2, 4, 8, 16, 32, 64, 128>>[y + 1]
<1>1. CASE y = 0
  BY <1>1
<1>2. CASE y = 1
  BY <1>2
<1>3. CASE y = 2
  BY <1>3
<1>4. CASE y = 3
  BY <1>4
<1>5. CASE y = 4
  BY <1>5
<1>6. CASE y = 5
  BY <1>6
<1>7. CASE y = 6
  BY <1>7
<1>8. CASE y = 7
  BY <1>8
<1> QED
  BY <1>1, <1>2, <1>3, <1>4, <1>5, <1>6, <1>7, <1>8

\* RFC 4648 asks for these characters: whoever decodes a key or a value that was put
\* reads the bytes of it, whatever bytes they are (base64Encoding(), EtcdClient's puts).
THEOREM EncodesBase64 == \A s \in Seq(Byte) : IsBase64Of(base64Encoding(s), s)
<1> SUFFICES ASSUME NEW s \in Seq(Byte)
             PROVE  IsBase64Of(base64Encoding(s), s)
  OBVIOUS
<1> DEFINE n == Len(s)
           t == base64Encoding(s)
<1>2. PICK q \in Nat, r \in 0 .. 2, h \in Nat, m \in Nat :
         /\ n = 3 * q + r
         /\ m = Significant(n) /\ m = IF r = 0 THEN 4 * q ELSE 4 * q + r + 1
         /\ h = IF r = 0 THEN q ELSE q + 1
         /\ Len(t) = 4 * h
         /\ \A k \in 1 .. 4 * h :
               /\ SextetAt(s, k) \in 0 .. 63
               /\ t[k] = IF k <= m THEN base64_charset_table[SextetAt(s, k)] ELSE Equals
  BY Text
<1> HIDE DEF t
<1>3. n = 3 * q + r /\ m = (IF r = 0 THEN 4 * q ELSE 4 * q + r + 1) /\ h = (IF r = 0 THEN q ELSE q + 1)
  BY <1>2
<1>4. (8 * n + 5) \div 6 = m /\ (4 * h) % 4 = 0 /\ 4 * h - m \in 0 .. 2
  <2>1. CASE r = 0
    BY <1>3, <2>1
  <2>2. CASE r = 1
    BY <1>3, <2>2
  <2>3. CASE r = 2
    BY <1>3, <2>3
  <2> QED
    BY <2>1, <2>2, <2>3
<1>5. ASSUME NEW k \in 1 .. 4 * h, NEW z \in 1 .. 6
      PROVE  Bit(<<SextetAt(s, k)>>, 6, z) = Bit(s, 8, 6 * (k - 1) + z)
  <2>1. PICK g \in Nat, e \in 1 .. 4 : k = 4 * g + e
    <3>1. /\ (k - 1) \div 4 \in Nat /\ ((k - 1) % 4) + 1 \in 1 .. 4
          /\ k = 4 * ((k - 1) \div 4) + (((k - 1) % 4) + 1)
      OBVIOUS
    <3> QED
      BY <3>1
  <2>2. PICK a \in Byte, b \in Byte, c \in Byte :
           /\ a = ByteAt(s, 3 * g + 1) /\ b = ByteAt(s, 3 * g + 2) /\ c = ByteAt(s, 3 * g + 3)
           /\ SextetAt(s, k) = Sextets(a, b, c)[e]
    BY <2>1, InGroup
  <2>3. PICK i \in 0 .. 23 : i = 6 * (e - 1) + (z - 1)
    OBVIOUS
  <2>4. PICK o \in 0 .. 2, w \in 0 .. 7 : o = i \div 8 /\ w = i % 8
    OBVIOUS
  <2>5. PICK j \in Nat : j = 6 * (k - 1) + z /\ j - 1 = 24 * g + i /\ j - 1 \in Nat
    BY <2>1, <2>3
  <2>6. (j - 1) \div 8 = 3 * g + o /\ (j - 1) % 8 = w
    BY <2>4, <2>5
  <2>7. PICK x \in Byte : x = <<a, b, c>>[o + 1] /\ x = ByteAt(s, 3 * g + o + 1)
    <3>1. o = 0 \/ o = 1 \/ o = 2
      OBVIOUS
    <3> QED
      BY <2>2, <3>1
  <2>8. PICK p \in 1 .. 128 :
           p = 2 ^ (7 - w) /\ p = <<1, 2, 4, 8, 16, 32, 64, 128>>[(7 - w) + 1]
    <3>1. 7 - w \in 0 .. 7
      OBVIOUS
    <3> QED
      BY <3>1, Powers
  <2>9. /\ w = 0 => p = 128
        /\ w = 1 => p = 64
        /\ w = 2 => p = 32
        /\ w = 3 => p = 16
        /\ w = 4 => p = 8
        /\ w = 5 => p = 4
        /\ w = 6 => p = 2
        /\ w = 7 => p = 1
    BY <2>8
  <2>10. Bit(s, 8, j) = (x \div p) % 2
    <3>1. 3 * g + o < Len(s) <=> 3 * g + o + 1 <= Len(s)
      BY LenProperties
    <3>2. 8 - 1 - w = 7 - w
      OBVIOUS
    <3>3. Bit(s, 8, j) = IF 3 * g + o < Len(s) THEN (s[3 * g + o + 1] \div p) % 2 ELSE 0
      BY <2>6, <2>8, <3>2 DEF Bit
    <3>4. CASE 3 * g + o < Len(s)
      BY <2>7, <3>1, <3>3, <3>4 DEF ByteAt
    <3>5. CASE ~ (3 * g + o < Len(s))
      <4>1. x = 0 /\ Bit(s, 8, j) = 0
        BY <2>7, <3>1, <3>3, <3>5 DEF ByteAt
      <4>2. (0 \div p) % 2 = 0
        <5>1. w = 0 \/ w = 1 \/ w = 2 \/ w = 3 \/ w = 4 \/ w = 5 \/ w = 6 \/ w = 7
          OBVIOUS
        <5> QED
          BY <2>9, <5>1
      <4> QED
        BY <4>1, <4>2
    <3> QED
      BY <3>4, <3>5
  <2>11. PICK v : v = SextetAt(s, k) /\ v = Sextets(a, b, c)[e]
    BY <2>2
  <2>12. Bit(<<v>>, 6, z) = (v \div 2 ^ (6 - z)) % 2
    <3>1. (z - 1) \div 6 = 0 /\ (z - 1) % 6 = z - 1 /\ 6 - 1 - (z - 1) = 6 - z
      OBVIOUS
    <3>2. Len(<<v>>) = 1 /\ <<v>>[0 + 1] = v
      OBVIOUS
    <3> QED
      BY <3>1, <3>2 DEF Bit
  <2>13. PICK u \in 1 .. 128 :
            u = 2 ^ (6 - z) /\ u = <<1, 2, 4, 8, 16, 32, 64, 128>>[(6 - z) + 1]
    <3>1. 6 - z \in 0 .. 7
      OBVIOUS
    <3> QED
      BY <3>1, Powers
  <2>14. /\ z = 1 => u = 32
         /\ z = 2 => u = 16
         /\ z = 3 => u = 8
         /\ z = 4 => u = 4
         /\ z = 5 => u = 2
         /\ z = 6 => u = 1
    BY <2>13
  <2>15. (v \div u) % 2 = (x \div p) % 2
    <3>0. z = 1 \/ z = 2 \/ z = 3 \/ z = 4 \/ z = 5 \/ z = 6
      OBVIOUS
    <3>1. CASE e = 1
      <4>1. /\ z = 1 => o = 0 /\ w = 0
            /\ z = 2 => o = 0 /\ w = 1
            /\ z = 3 => o = 0 /\ w = 2
            /\ z = 4 => o = 0 /\ w = 3
            /\ z = 5 => o = 0 /\ w = 4
            /\ z = 6 => o = 0 /\ w = 5
        BY <2>3, <2>4, <3>1
      <4>2. /\ (v \div 32) % 2 = (a \div 128) % 2
            /\ (v \div 16) % 2 = (a \div 64) % 2
            /\ (v \div 8) % 2 = (a \div 32) % 2
            /\ (v \div 4) % 2 = (a \div 16) % 2
            /\ (v \div 2) % 2 = (a \div 8) % 2
            /\ (v \div 1) % 2 = (a \div 4) % 2
        BY <2>11, <3>1, SextetBits
      <4>3. o = 0 => x = a
        BY <2>7
      <4> QED
        BY <2>9, <2>14, <3>0, <4>1, <4>2, <4>3
    <3>2. CASE e = 2
      <4>1. /\ z = 1 => o = 0 /\ w = 6
            /\ z = 2 => o = 0 /\ w = 7
            /\ z = 3 => o = 1 /\ w = 0
            /\ z = 4 => o = 1 /\ w = 1
            /\ z = 5 => o = 1 /\ w = 2
            /\ z = 6 => o = 1 /\ w = 3
        BY <2>3, <2>4, <3>2
      <4>2. /\ (v \div 32) % 2 = (a \div 2) % 2
            /\ (v \div 16) % 2 = (a \div 1) % 2
            /\ (v \div 8) % 2 = (b \div 128) % 2
            /\ (v \div 4) % 2 = (b \div 64) % 2
            /\ (v \div 2) % 2 = (b \div 32) % 2
            /\ (v \div 1) % 2 = (b \div 16) % 2
        BY <2>11, <3>2, SextetBits
      <4>3. (o = 0 => x = a) /\ (o = 1 => x = b)
        BY <2>7
      <4> QED
        BY <2>9, <2>14, <3>0, <4>1, <4>2, <4>3
    <3>3. CASE e = 3
      <4>1. /\ z = 1 => o = 1 /\ w = 4
            /\ z = 2 => o = 1 /\ w = 5
            /\ z = 3 => o = 1 /\ w = 6
            /\ z = 4 => o = 1 /\ w = 7
            /\ z = 5 => o = 2 /\ w = 0
            /\ z = 6 => o = 2 /\ w = 1
        BY <2>3, <2>4, <3>3
      <4>2. /\ (v \div 32) % 2 = (b \div 8) % 2
            /\ (v \div 16) % 2 = (b \div 4) % 2
            /\ (v \div 8) % 2 = (b \div 2) % 2
            /\ (v \div 4) % 2 = (b \div 1) % 2
            /\ (v \div 2) % 2 = (c \div 128) % 2
            /\ (v \div 1) % 2 = (c \div 64) % 2
        BY <2>11, <3>3, SextetBits
      <4>3. (o = 1 => x = b) /\ (o = 2 => x = c)
        BY <2>7
      <4> QED
        BY <2>9, <2>14, <3>0, <4>1, <4>2, <4>3
    <3>4. CASE e = 4
      <4>1. /\ z = 1 => o = 2 /\ w = 2
            /\ z = 2 => o = 2 /\ w = 3
            /\ z = 3 => o = 2 /\ w = 4
            /\ z = 4 => o = 2 /\ w = 5
            /\ z = 5 => o = 2 /\ w = 6
            /\ z = 6 => o = 2 /\ w = 7
        BY <2>3, <2>4, <3>4
      <4>2. /\ (v \div 32) % 2 = (c \div 32) % 2
            /\ (v \div 16) % 2 = (c \div 16) % 2
            /\ (v \div 8) % 2 = (c \div 8) % 2
            /\ (v \div 4) % 2 = (c \div 4) % 2
            /\ (v \div 2) % 2 = (c \div 2) % 2
            /\ (v \div 1) % 2 = (c \div 1) % 2
        BY <2>11, <3>4, SextetBits
      <4>3. o = 2 => x = c
        BY <2>7
      <4> QED
        BY <2>9, <2>14, <3>0, <4>1, <4>2, <4>3
    <3> QED
      BY <3>1, <3>2, <3>3, <3>4
  <2> QED
    BY <2>5, <2>10, <2>11, <2>12, <2>15, <2>13
<1>6. ASSUME NEW k \in 1 .. 4 * h
      PROVE  IF k > m THEN t[k] = Equals
             ELSE \E v \in 0 .. 63 :
                    /\ t[k] = Alphabet(v)
                    /\ \A b \in 1 .. 6 : Bit(<<v>>, 6, b) = Bit(s, 8, 6 * (k - 1) + b)
  <2>1. PICK v \in 0 .. 63 :
           v = SextetAt(s, k) /\ t[k] = IF k <= m THEN base64_charset_table[v] ELSE Equals
    BY <1>2
  <2>2. \A b \in 1 .. 6 : Bit(<<v>>, 6, b) = Bit(s, 8, 6 * (k - 1) + b)
    BY <1>5, <2>1
  <2>3. k <= m => t[k] = Alphabet(v)
    BY <2>1 DEF Alphabet
  <2>4. k > m => t[k] = Equals
    BY <2>1
  <2>5. CASE k > m
    BY <2>4, <2>5
  <2>6. CASE ~ (k > m)
    <3>1. k <= m
      BY <1>3, <2>6
    <3> QED
      BY <2>2, <2>3, <2>6, <3>1
  <2> QED
    BY <2>5, <2>6
<1>7. Len(t) = 4 * h
  BY <1>2
<1>8. IsBase64Of(t, s)
  BY <1>4, <1>6, <1>7 DEF IsBase64Of
<1> QED
  BY <1>8 DEF t
=============================================================================
