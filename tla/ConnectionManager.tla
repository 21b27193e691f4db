-------------------------- MODULE ConnectionManager --------------------------
(***************************************************************************)
(* The connection pool and the life of a pooled TcpConnection.             *)
(*                                                                         *)
(* The event loop calls acceptForCount() in every iteration and then runs  *)
(* the callback of each io_uring completion; both happen on one thread, so *)
(* each is one step here.  A worker thread reaches a connection only in    *)
(* TcpConnection::send(), at any moment after the request was handed over. *)
(* What the kernel still owes a connection is counted per connection and   *)
(* per kind of operation, because nothing in the code limits the number;   *)
(* accepts are kept in the order of their submission, and the kernel may   *)
(* complete any of them first.                                             *)
(*                                                                         *)
(* Left out: the bytes (Buffer and the framing have modules of their own), *)
(* the reuse of descriptor numbers by the kernel, and _total_count, which  *)
(* only counts.                                                            *)
(***************************************************************************)
EXTENDS Integers, Sequences, FiniteSets

CONSTANTS
    InitConn,       \* init_conn: connections allocated by the constructor
    UpperLimit,     \* _upper_limit_count, from max_conn in the configuration
    AcceptTarget,   \* the argument of acceptForCount(), sq_entries / 4
    MaxPipelined,   \* requests of one connection that may be unanswered
    Faults,         \* what the environment does wrong
    MaxFaults       \* bound: how many faults and failed writes there are

ASSUME ConnAssumption ==
    /\ InitConn \in Nat
    /\ UpperLimit \in Nat
    /\ AcceptTarget \in Nat \ {0}
    /\ MaxPipelined \in Nat
    /\ MaxFaults \in Nat
    /\ Faults \subseteq {"accept", "read", "write", "hangup"}

\* Connections in the order of their allocation (AllocBound: there are no more).
MaxAllocated == UpperLimit + AcceptTarget - 1
Conn == 1 .. MaxAllocated

VARIABLES
    idle,           \* _idle_pool, oldest first
    accepting,      \* _accepting_count
    outer,          \* _outer_count
    allocated,      \* _allocated_count
    accepts,        \* connections with an accept in flight, oldest first
    reads,          \* reads in flight, per connection
    writes,         \* writes in flight
    closes,         \* closes in flight
    inHand,         \* requests that a worker has and has not answered
    open,           \* _clientfd names an open socket
    faults,         \* how often the environment has failed so far
    hit,            \* history: the connections that it has failed
    refused         \* history: how many accepts have failed

counts == <<accepting, outer, allocated>>
flight == <<reads, writes, closes>>
env    == <<faults, hit, refused>>
vars   == <<idle, counts, accepts, flight, inHand, open, env>>

Min(a, b) == IF a < b THEN a ELSE b
One(f, c)  == [f EXCEPT ![c] = @ + 1]
Less(f, c) == [f EXCEPT ![c] = @ - 1]
Without(s, i) == SubSeq(s, 1, i - 1) \o SubSeq(s, i + 1, Len(s))
Places(s, c)  == {i \in 1 .. Len(s) : s[i] = c}

\* What the limit leaves: connections that wait in idle do not count.
Room == UpperLimit - outer - accepting

NewConns_OffByOne(first, n) == [i \in 1 .. n |-> first + i - 1]
NewConns(first, n) == [i \in 1 .. n |-> first + i]

Init == /\ idle = NewConns(0, Min(InitConn, UpperLimit))
        /\ accepting = 0
        /\ outer = 0
        /\ allocated = Min(InitConn, UpperLimit)
        /\ accepts = <<>>
        /\ reads = [c \in Conn |-> 0]
        /\ writes = [c \in Conn |-> 0]
        /\ closes = [c \in Conn |-> 0]
        /\ inHand = [c \in Conn |-> 0]
        /\ open = [c \in Conn |-> FALSE]
        /\ faults = 0
        /\ hit = {}
        /\ refused = 0

Spend(c) == faults < MaxFaults /\ faults' = faults + 1 /\ hit' = hit \cup {c}
Fault(kind, c) == kind \in Faults /\ Spend(c) /\ UNCHANGED refused

-----------------------------------------------------------------------------
(* The event loop tops up the accepts in flight.                           *)

Wanted_NoLimit == AcceptTarget - accepting
Wanted == Min(AcceptTarget - accepting, Room)

Expansion_NoLimit == IF Len(idle) < Wanted THEN 2 * Wanted ELSE 0
Expansion == IF Len(idle) < Wanted THEN Min(2 * Wanted, Room) ELSE 0

AcceptForCount ==
    LET pool  == idle \o NewConns(allocated, Expansion)
        taken == Min(Wanted, Len(pool))
    IN  /\ Wanted > 0
        /\ allocated' = allocated + Expansion
        /\ idle' = SubSeq(pool, taken + 1, Len(pool))
        /\ accepting' = accepting + taken
        /\ accepts' = accepts \o SubSeq(pool, 1, taken)
        /\ UNCHANGED <<outer, reads, writes, closes, inHand, open, env>>

-----------------------------------------------------------------------------
(* Completions, as do_io_uring() dispatches them.                          *)

Accepted_NoDecrement(i) ==
    LET c == accepts[i] IN
    /\ accepts' = Without(accepts, i)
    /\ open' = [open EXCEPT ![c] = TRUE]
    /\ outer' = outer + 1
    /\ reads' = One(reads, c)
    /\ UNCHANGED <<idle, accepting, allocated, writes, closes, inHand, env>>

\* callback_accepted: the new socket, acceptDone(), and the first read().
Accepted(i) ==
    LET c == accepts[i] IN
    /\ accepts' = Without(accepts, i)
    /\ open' = [open EXCEPT ![c] = TRUE]
    /\ accepting' = accepting - 1
    /\ outer' = outer + 1
    /\ reads' = One(reads, c)
    /\ UNCHANGED <<idle, allocated, writes, closes, inHand, env>>

\* callback_accepted with an error returns before acceptDone(): the connection
\* is in no queue and stays in the count.
AcceptFailed(i) ==
    /\ "accept" \in Faults /\ Spend(accepts[i])
    /\ refused' = refused + 1
    /\ accepts' = Without(accepts, i)
    /\ UNCHANGED <<idle, counts, flight, inHand, open>>

\* callback_read with a complete request: it goes to a worker and the
\* connection reads on.  (Bytes that complete no request change nothing here.)
\* A read in flight keeps the socket alive, so it may succeed after a close.
ReadRequest(c) ==
    /\ reads[c] > 0
    /\ inHand[c] + writes[c] < MaxPipelined
    /\ inHand' = One(inHand, c)
    /\ UNCHANGED <<idle, counts, accepts, flight, open, env>>

\* The client has every answer; one that hangs up earlier counts as a fault.
Answered(c) == inHand[c] = 0 /\ writes[c] = 0

ReadEof_ReadsOn(c) ==
    /\ reads[c] > 0
    /\ IF Answered(c) THEN UNCHANGED env ELSE Fault("hangup", c)
    /\ closes' = One(closes, c)
    /\ UNCHANGED <<idle, counts, accepts, reads, writes, inHand, open>>

ReadEof_NoClose(c) ==
    /\ reads[c] > 0
    /\ IF Answered(c) THEN UNCHANGED env ELSE Fault("hangup", c)
    /\ reads' = Less(reads, c)
    /\ UNCHANGED <<idle, counts, accepts, writes, closes, inHand, open>>

\* callback_read with 0: the peer has closed, so close, and read no more.
ReadEof(c) ==
    /\ reads[c] > 0
    /\ IF Answered(c) THEN UNCHANGED env ELSE Fault("hangup", c)
    /\ reads' = Less(reads, c)
    /\ closes' = One(closes, c)
    /\ UNCHANGED <<idle, counts, accepts, writes, inHand, open>>

\* callback_read with an error returns: no close and no further read.
ReadFailed(c) ==
    /\ reads[c] > 0
    /\ Fault("read", c)
    /\ reads' = Less(reads, c)
    /\ UNCHANGED <<idle, counts, accepts, writes, closes, inHand, open>>

\* callback_written; while bytes are left it submits a write for the one that
\* completed, which changes nothing here.  A write on a closed descriptor
\* succeeds, too, when its number names the socket of another client by then.
Written(c) ==
    /\ writes[c] > 0
    /\ writes' = Less(writes, c)
    /\ UNCHANGED <<idle, counts, accepts, reads, closes, inHand, open, env>>

\* callback_written with an error closes.  A write on a socket that is closed,
\* or being closed, fails without the environment's doing; MaxFaults bounds it too.
WriteFailed(c) ==
    /\ writes[c] > 0
    /\ ~open[c] \/ closes[c] > 0 \/ "write" \in Faults
    /\ Spend(c) /\ UNCHANGED refused
    /\ writes' = Less(writes, c)
    /\ closes' = One(closes, c)
    /\ UNCHANGED <<idle, counts, accepts, reads, inHand, open>>

Closed_KeepsCount(c) ==
    /\ closes[c] > 0
    /\ closes' = Less(closes, c)
    /\ open' = [open EXCEPT ![c] = FALSE]
    /\ idle' = Append(idle, c)
    /\ UNCHANGED <<counts, accepts, reads, writes, inHand, env>>

\* callback_closed, whatever the result of the close: sendBack().
Closed(c) ==
    /\ closes[c] > 0
    /\ closes' = Less(closes, c)
    /\ open' = [open EXCEPT ![c] = FALSE]
    /\ idle' = Append(idle, c)
    /\ outer' = outer - 1
    /\ UNCHANGED <<accepting, allocated, accepts, reads, writes, inHand, env>>

-----------------------------------------------------------------------------
(* The worker threads.                                                     *)

\* onMessage() answers with conn->send(), whatever became of the connection.
Send(c) ==
    /\ inHand[c] > 0
    /\ inHand' = Less(inHand, c)
    /\ writes' = One(writes, c)
    /\ UNCHANGED <<idle, counts, accepts, reads, closes, open, env>>

\* onMessage() returns without an answer: unknown service or method.
Drop(c) ==
    /\ inHand[c] > 0
    /\ inHand' = Less(inHand, c)
    /\ UNCHANGED <<idle, counts, accepts, flight, open, env>>

Completion(c) == \/ ReadRequest(c) \/ ReadEof(c) \/ ReadFailed(c)
                 \/ Written(c) \/ WriteFailed(c) \/ Closed(c)

Next == \/ AcceptForCount
        \/ \E i \in 1 .. Len(accepts) : Accepted(i) \/ AcceptFailed(i)
        \/ \E c \in Conn : Completion(c) \/ Send(c) \/ Drop(c)

Spec == Init /\ [][Next]_vars

(***************************************************************************)
(* The event loop goes round and round and the kernel completes a close;   *)
(* clients are free to come, to ask and to leave when they like.           *)
(***************************************************************************)
FairSpec == /\ Spec
            /\ WF_vars(AcceptForCount)
            /\ \A c \in Conn : WF_vars(Closed(c))

-----------------------------------------------------------------------------
(* Properties.                                                             *)

TypeOK ==
    /\ idle \in Seq(Conn)
    /\ accepting \in Int /\ outer \in Int
    /\ allocated \in 0 .. MaxAllocated
    /\ accepts \in Seq(Conn)
    /\ reads \in [Conn -> Nat]
    /\ writes \in [Conn -> Nat] /\ closes \in [Conn -> Nat]
    /\ inHand \in [Conn -> Nat]
    /\ open \in [Conn -> BOOLEAN]
    /\ faults \in 0 .. MaxFaults
    /\ hit \subseteq Conn
    /\ refused \in Nat

\* connection_pool.h:124 says of the limit "在外面的连接+在空闲队列里的连接", the connections
\* outside and those in the idle queue.  expandConnections() overlooks the idle ones, but only
\* when they are too few: the pool goes at most AcceptTarget - 1 connections beyond its limit.
AllocBound == allocated <= MaxAllocated

\* acceptForCount() keeps both of its limits, with whatever errors and hang-ups, and so
\* the pool its own.
Budget == /\ accepting <= AcceptTarget
          /\ accepting + outer <= UpperLimit
          /\ AllocBound

\* No error path separates the three counters from the length of the idle pool.
Balance == allocated = Len(idle) + accepting + outer

\* How many things hold a connection: places in the idle pool, and operations
\* in flight that will hand it on.
Holders(c) == Cardinality(Places(idle, c)) + Cardinality(Places(accepts, c))
                  + reads[c] + closes[c]

\* A pooled connection is lent to one client at a time, and it changes hands
\* only when the workers and the kernel are done with its last client: for every
\* connection that no error and no early hang-up has hit, whatever befell others.
Exclusive ==
    \A c \in Conn \ hit :
        /\ Holders(c) <= 1
        /\ Holders(c) - reads[c] > 0 => Answered(c)

\* A connection is lost to the pool only by an error of its own.
NoneLost == \A c \in (1 .. allocated) \ hit : Holders(c) = 1

\* The server goes on accepting unless it has as many clients as it may have:
\* README.md, on the pool, "为了保证主线程一直都能调用`accept`接受新的连接".
Connected == {c \in Conn : open[c]}
ServerAccepts ==
    []<>(accepts # <<>> \/ Cardinality(Connected) >= UpperLimit)

\* An accept that is counted and not in flight is one that has failed, one for one: no
\* other error, of a read, a write or a client, costs the server an accept.
Leaked == accepting - Len(accepts)
LeaksCounted == Leaked = refused

\* What is true of ServerAccepts with errors: each accept that fails costs one of the accepts
\* that are topped up, and one of the clients that the server may have; so does each
\* connection whose read has failed, which stays open and is neither read nor closed.  All
\* other places are those of clients that the server hears.
Heard == {c \in Conn : reads[c] > 0}
Deaf  == {c \in Connected \cap hit : reads[c] = 0 /\ closes[c] = 0}
AcceptsOn ==
    []<>(\/ accepts # <<>>
         \/ Leaked >= AcceptTarget
         \/ Cardinality(Heard) + Cardinality(Deaf) + Leaked >= UpperLimit)
=============================================================================
