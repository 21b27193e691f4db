--------------------------- MODULE ServiceRegister ---------------------------
(***************************************************************************)
(* How a provider keeps its services in etcd, and the life of its event    *)
(* loop.  loop() takes a lease; a timer of the ring adds a task to the     *)
(* thread pool; the task keeps the lease alive or takes another one, puts  *)
(* every service under it and arms the timer again.  The event loop and    *)
(* the workers share one EtcdClient: one CURL handle, whose options a      *)
(* request sets before it performs, and one buffer for the answers.        *)
(*                                                                         *)
(* etcd is outside: it answers 200 or, with a body too, something else.    *)
(* Leases are numbered again once they are dead and nobody names them.     *)
(***************************************************************************)
EXTENDS Naturals, FiniteSets

CONSTANTS
    Worker,         \* threads of the pool
    Main,           \* the thread of the event loop
    Service,        \* the services of serviceTable
    Lease,          \* what etcd may call a lease
    NoLease,        \* the empty string of a grant that failed
    Unleased,       \* the lease "0", which put() leaves out of its request
    None,           \* no key; no service
    Fault,          \* what may go wrong
    MaxFaults,      \* bound: how often it does
    MaxSigint       \* bound: how often ctrl+c is pressed

ASSUME RegisterAssumption ==
    /\ Main \notin Worker
    /\ {NoLease, Unleased, None} \cap Lease = {} /\ NoLease # Unleased
    /\ Fault \subseteq {"grant", "keepalive", "put", "revoke", "timer", "broken", "entry", "task", "expire"}
    /\ MaxFaults \in Nat /\ MaxSigint \in Nat

VARIABLES
    status,         \* RpcProvider::_status
    stoping,        \* _stoping
    leaseId,        \* _lease_manager->_lease_id
    timers,         \* timeouts that the ring has
    tasks,          \* updateNodeInfo() tasks in the pool
    at,             \* where each thread is
    ready,          \* threads that have set their request and not performed it
    todo,           \* services that a thread has still to put
    handle,         \* the request set last in the CURL handle
    residue,        \* _response_data holds the body of an answer that was not 200
    alive,          \* etcd: its leases
    keys,           \* etcd: the lease of the key of each service
    faults, sigints \* how often each has happened

provider == <<status, stoping, sigints>>
beat     == <<timers, tasks>>
curl     == <<handle, residue, ready>>
etcd     == <<alive, keys>>
vars     == <<provider, beat, curl, etcd, leaseId, at, todo, faults>>

Thread == Worker \cup {Main}

Operation == [start |-> "grant", grant |-> "grant", keep |-> "keepalive", again |-> "keepalive",
              put |-> "put", cancel |-> "revoke", revoke |-> "revoke"]

\* Mutant: put() is called without the lease, whose default is "0".
Request_Default(t, s) ==
    [by |-> t, op |-> Operation[at[t]], lease |-> IF at[t] = "put" THEN Unleased ELSE leaseId, key |-> s]

Request(t, s) == [by |-> t, op |-> Operation[at[t]], lease |-> leaseId, key |-> s]

Init == /\ status = "unstart" /\ stoping = FALSE /\ leaseId = NoLease
        /\ timers = 0 /\ tasks = 0
        /\ at = [t \in Thread |-> IF t = Main THEN "start" ELSE "idle"]
        /\ ready = {} /\ todo = [t \in Thread |-> {}]
        /\ handle = [by |-> Main, op |-> "none", lease |-> NoLease, key |-> None]
        /\ residue = FALSE
        /\ alive = {} /\ keys = [s \in Service |-> None]
        /\ faults = 0 /\ sigints = 0

Goto(t, place) == at' = [at EXCEPT ![t] = place]

Fail(kind) == kind \in Fault /\ faults < MaxFaults /\ faults' = faults + 1

-----------------------------------------------------------------------------
(* etcd and the client. *)

Nothing == [id |-> NoLease, ttl |-> FALSE]

Without(l) == [s \in Service |-> IF keys[s] = l THEN None ELSE keys[s]]

Named == {leaseId, handle.lease} \cup {keys[s] : s \in Service} \cup alive

\* What etcd makes of a request.
Serve(q) ==
    LET ok(a, k, answer) == [alive |-> a, keys |-> k, code |-> 200, answer |-> answer]
        refused          == [alive |-> alive, keys |-> keys, code |-> 400, answer |-> Nothing]
    IN  CASE q.op = "grant"     -> LET l == CHOOSE l \in Lease : l \notin Named
                                   IN  ok(alive \cup {l}, keys, [id |-> l, ttl |-> TRUE])
          [] q.op = "keepalive" /\ q.lease \in Lease
                                -> ok(alive, keys, [id |-> q.lease, ttl |-> q.lease \in alive])
          [] q.op = "put" /\ q.lease \in alive \cup {Unleased}
                                -> ok(alive, [keys EXCEPT ![q.key] = q.lease], Nothing)
          [] q.op = "revoke" /\ q.lease \in alive
                                -> ok(alive \ {q.lease}, Without(q.lease), Nothing)
          [] OTHER              -> refused

\* curl_easy_setopt() of the URL and of the fields, which are not copied.
SetOptions(t) ==
    /\ at[t] \in DOMAIN Operation /\ t \notin ready
    /\ \E s \in IF at[t] = "put" THEN todo[t] ELSE {None} :
          /\ handle' = Request(t, s)
          /\ todo' = [todo EXCEPT ![t] = @ \ {s}]
    /\ ready' = ready \cup {t}
    /\ UNCHANGED <<provider, beat, etcd, leaseId, at, residue, faults>>

\* The request that curl_easy_perform() sends: the one set last.  Its fields are gone when
\* the thread that set them is done with them.
Sent(t) == IF handle.by \in ready THEN {handle} ELSE {handle, [handle EXCEPT !.op = "garbage"]}

\* The request is sent and its answer read, behind what is left of an earlier one.
Answered(q, answer) ==
    LET r == Serve(q)
    IN  /\ q.op = "grant" => Lease \ Named # {}
        /\ alive' = r.alive /\ keys' = r.keys
        /\ residue' = (r.code # 200)
        /\ answer = IF r.code = 200 /\ ~residue THEN r.answer ELSE Nothing
        /\ UNCHANGED faults

\* The request does not arrive, or its answer does not, or it breaks off.
Lost(q, answer) ==
    /\ q.op \in Fault /\ Fail(q.op)
    /\ q.op = "grant" => Lease \ Named # {}
    /\ answer = Nothing
    /\ \/ UNCHANGED <<etcd, residue>>
       \/ /\ alive' = Serve(q).alive /\ keys' = Serve(q).keys
          /\ residue' \in {residue, residue \/ "broken" \in Fault}

-----------------------------------------------------------------------------
(* What each thread does with the answer, and between its requests. *)

leaseGrant(answer)      == answer.id
leastTimeToLive(answer) == answer.ttl

\* Mutant: a lease that has expired is kept.
Renewal_Never(answer) == "each"

\* healthCheck() takes another lease if the second answer has no time to live.
Renewal(answer) == IF leastTimeToLive(answer) THEN "each" ELSE "grant"

After(t, answer) ==
    CASE at[t] = "start"  -> Goto(t, "arm")   /\ leaseId' = leaseGrant(answer) /\ UNCHANGED todo
      [] at[t] = "keep"   -> Goto(t, "again") /\ UNCHANGED <<leaseId, todo>>
      [] at[t] = "again"  -> /\ Goto(t, Renewal(answer))
                             /\ todo' = [todo EXCEPT ![t] = Service]
                             /\ UNCHANGED leaseId
      [] at[t] = "grant"  -> Goto(t, "each")  /\ leaseId' = leaseGrant(answer) /\ UNCHANGED todo
      [] at[t] = "put"    -> Goto(t, "each")  /\ UNCHANGED <<leaseId, todo>>
      [] at[t] = "cancel" -> /\ Goto(t, IF t = Main THEN "loop" ELSE "idle")
                             /\ UNCHANGED <<leaseId, todo>>
      [] at[t] = "revoke" -> Goto(t, "returned") /\ UNCHANGED <<leaseId, todo>>

Perform(t) ==
    /\ t \in ready
    /\ \E q \in Sent(t), answer \in [id : Lease \cup {NoLease}, ttl : BOOLEAN] :
          /\ Answered(q, answer) \/ Lost(q, answer)
          /\ After(t, answer)
    /\ ready' = ready \ {t}
    /\ UNCHANGED <<provider, beat, handle>>

\* set_io_uring_timer(); the event loop may take the same entry of the ring.
ArmTimer == \/ timers' = timers + 1 /\ UNCHANGED faults
            \/ Fail("entry") /\ UNCHANGED timers

\* Mutant: the timeout is periodic, and armed again nevertheless.
Fired_Periodic == UNCHANGED timers

\* A timeout of the ring fires once.
Fired == timers' = timers - 1

\* stopRegister(), up to the request.
StopRegister(t, place) == stoping' = TRUE /\ Goto(t, place)

StartTimer ==
    /\ at[Main] = "arm" /\ ArmTimer /\ Goto(Main, "store")
    /\ UNCHANGED <<provider, tasks, curl, etcd, leaseId, todo>>

StartLoop ==
    /\ at[Main] = "store" /\ status' = "looping" /\ Goto(Main, "loop")
    /\ UNCHANGED <<stoping, sigints, beat, curl, etcd, leaseId, todo, faults>>

\* callback_timeout(): the task may find no place in the queue of the pool.
Timeout ==
    /\ at[Main] = "loop" /\ status = "looping" /\ timers > 0
    /\ Fired
    /\ \/ tasks' = tasks + 1 /\ UNCHANGED <<stoping, at, faults>>
       \/ Fail("task") /\ UNCHANGED <<tasks, stoping, at>>
       \/ Fail("timer") /\ StopRegister(Main, "cancel") /\ UNCHANGED tasks
    /\ UNCHANGED <<status, sigints, curl, etcd, leaseId, todo>>

LeaveLoop ==
    /\ at[Main] = "loop" /\ status # "looping" /\ StopRegister(Main, "revoke")
    /\ UNCHANGED <<status, sigints, beat, curl, etcd, leaseId, todo, faults>>

\* updateNodeInfo() begins.
Take(w) ==
    /\ at[w] = "idle" /\ tasks > 0
    /\ tasks' = tasks - 1
    /\ Goto(w, IF stoping THEN "idle" ELSE "keep")
    /\ UNCHANGED <<provider, timers, curl, etcd, leaseId, todo, faults>>

\* The loop over _services_name.
NextService(w) ==
    /\ at[w] = "each" /\ todo[w] # {}
    /\ Goto(w, IF stoping THEN "idle" ELSE "put")
    /\ UNCHANGED <<provider, beat, curl, etcd, leaseId, todo, faults>>

\* callback_healthCheck(0), when all are put.
CallbackHealthCheck(w) ==
    /\ at[w] = "each" /\ todo[w] = {}
    /\ \/ ~stoping /\ ArmTimer /\ Goto(w, "idle") /\ UNCHANGED stoping
       \/ stoping /\ StopRegister(w, "cancel") /\ UNCHANGED <<timers, faults>>
    /\ UNCHANGED <<status, sigints, tasks, curl, etcd, leaseId, todo>>

\* sigint_handler()
Sigint ==
    /\ sigints < MaxSigint /\ at[Main] # "returned"
    /\ sigints' = sigints + 1 /\ status' = "wait"
    /\ UNCHANGED <<stoping, beat, curl, etcd, leaseId, at, todo, faults>>

\* A lease that nobody keeps alive expires; so does one whose heartbeat is late.
Abandoned(l) == stoping \/ l # leaseId

Expire(l) ==
    /\ l \in alive
    /\ alive' = alive \ {l} /\ keys' = Without(l)
    /\ IF Abandoned(l) THEN UNCHANGED faults ELSE Fail("expire")
    /\ UNCHANGED <<provider, beat, curl, leaseId, at, todo>>

EventLoop == StartTimer \/ StartLoop \/ Timeout \/ LeaveLoop
Task(w)   == Take(w) \/ NextService(w) \/ CallbackHealthCheck(w)
Client(t) == SetOptions(t) \/ Perform(t)

Next == \/ EventLoop \/ Sigint
        \/ \E w \in Worker : Task(w)
        \/ \E t \in Thread : Client(t)
        \/ \E l \in Lease : Expire(l)

Spec == Init /\ [][Next]_vars

\* Threads run, a request takes at most CURLOPT_TIMEOUT, timers expire, and so do leases.
FairSpec == /\ Spec
            /\ WF_vars(EventLoop)
            /\ \A w \in Worker : WF_vars(Task(w))
            /\ \A t \in Thread : WF_vars(Client(t))
            /\ \A l \in Lease  : WF_vars(Abandoned(l) /\ Expire(l))

-----------------------------------------------------------------------------
(* Properties. *)

Busy == {w \in Worker : at[w] \notin {"idle", "cancel"}}

\* There is one heartbeat: a timer, a task or a worker that updates the node, never two of
\* them (callback_timeout(), updateNodeInfo(), callback_healthCheck()).
OneBeat == timers + tasks + Cardinality(Busy) <= 1

\* Until the registration stops, the EtcdClient, which is not made for two threads, sends what
\* the thread that performs has set (curlRequest()).
OwnRequest == \A t \in ready : stoping \/ handle.by = t

\* Whatever leases expire and whatever requests are lost: while the heartbeat goes on with a
\* lease, every service is registered in the end (healthCheck(), updateNodeInfo()).
Registered ==
    <>[](timers + tasks + Cardinality(Busy) > 0 /\ leaseId # NoLease /\ ~stoping
            => \A s \in Service : keys[s] \in alive)

\* "If the lease has expired, take another" (service_register.cc:19): an outage passes, and
\* then there is a lease again (healthCheck()).
Renewed == <>[](stoping \/ leaseId # NoLease)

\* A provider that is told to stop while its loop runs, or stops its registration, is gone
\* from etcd in the end and does not come back (loop(), stopRegister(), the lease).
GivenUp == (stoping \/ (status = "wait" /\ at[Main] = "loop")) ~> [](\A s \in Service : keys[s] = None)
=============================================================================
