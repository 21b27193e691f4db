----------------------------- MODULE WritePath ------------------------------
(***************************************************************************)
(* How a TcpConnection sends the answers of the workers.  A worker calls   *)
(* send(): it appends to the write buffer, adds to _to_send_bytes and      *)
(* prepares a write; the event loop submits what is prepared and, in       *)
(* callback_written(), goes on writing until _to_send_bytes is 0.  The two *)
(* threads share the buffer, the counter and the one pair of regions that  *)
(* readvBegin() fills.  At most one worker is in send(), because the pool  *)
(* keeps its lock while it runs a task (ThreadPool, SerialInOrder).        *)
(*                                                                         *)
(* The kernel reads the regions when the write is submitted and the bytes  *)
(* when it transfers them; a write may be short.                           *)
(***************************************************************************)
EXTENDS Buffer, FiniteSets, SequencesExt

CONSTANTS
    Length,         \* how long answers are
    MaxAnswers,     \* bound: answers of one behaviour
    Pipelined,      \* clients ask again when they have a part of the answer
    MaxErrors,      \* bound: writes that fail; then another client takes the connection
    Asserting       \* compiled as CMakeLists.txt says, with assertions

ASSUME WriteAssumption ==
    /\ Length \subseteq Nat \ {0}
    /\ MaxAnswers \in Nat
    /\ MaxErrors \in Nat
    /\ Pipelined \in BOOLEAN /\ Asserting \in BOOLEAN
    /\ NoByte \notin Nat \X Nat

VARIABLES
    wb,             \* _channel->write_buffer
    iov,            \* its two regions, as the last readvBegin() left them
    toSend,         \* _to_send_bytes
    worker,         \* where the worker is in send()
    loop,           \* where the event loop is in callback_written()
    prepared,       \* writes in the submission queue
    flight,         \* the writes that the kernel has: their regions and their client
    results,        \* completions not handled yet; -1 is an error
    closing,        \* what became of the close after an error
    clients,        \* how many clients the connection has had; the last is the present one
    answers,        \* how many answers there were
    aborted,        \* an assertion has failed or an exception was not caught
    said,           \* the bytes of all answers, for each client
    received        \* the bytes that each client has received

memory == <<wb, iov, toSend>>
kernel == <<flight, results, received>>
socket == <<closing, clients>>
vars   == <<memory, kernel, socket, worker, loop, prepared, answers, aborted, said>>

Client == 1 .. MaxErrors + 1

NoRegions == <<Region(0, 0), Region(0, 0)>>

Init == /\ wb = Empty /\ iov = NoRegions /\ toSend = 0
        /\ worker = "idle" /\ loop = "idle"
        /\ prepared = 0 /\ flight = <<>> /\ results = <<>>
        /\ closing = "no" /\ clients = 1
        /\ answers = 0 /\ aborted = FALSE
        /\ said = [c \in Client |-> <<>>] /\ received = [c \in Client |-> <<>>]

AtWorker(place) == worker = place /\ ~aborted
AtLoop(place)   == loop = place /\ ~aborted

-----------------------------------------------------------------------------
(* send(), on a worker thread.                                             *)

Answer(n) == [i \in 1 .. n |-> <<answers + 1, i>>]

\* The calls of the present client that have been answered.
Asked == Cardinality({byte[1] : byte \in ToSet(said[clients])})

\* An RpcCaller takes what one recv() returns for its answer, a byte at least, and
\* asks again (Pipelined).  One whose recv() has the whole answer each time asks
\* when that has arrived.  The event loop sees that the write of those bytes is
\* complete before it sees the next request.
Asks == /\ closing = "no"
        /\ IF Pipelined
           THEN Len(received[clients]) - SumFunction(results) >= Asked
           ELSE received[clients] = said[clients] /\ results = <<>> /\ loop = "idle"

\* append() throws if the answer does not fit, and nothing catches that.
Add(n) == /\ AtWorker("idle")
          /\ answers < MaxAnswers
          /\ Asks
          /\ wb' = append(wb, Answer(n))
          /\ said' = [said EXCEPT ![clients] = @ \o Answer(n)]
          /\ answers' = answers + 1
          /\ worker' = "count"
          /\ aborted' = (Stored(wb, n) < n)
          /\ UNCHANGED <<iov, toSend, kernel, socket, loop, prepared>>

\* The length of the answer that send() is at.
Current == Cardinality({i \in DOMAIN said[clients] : said[clients][i][1] = answers})

Count == /\ AtWorker("count")
         /\ toSend' = toSend + Current
         /\ worker' = "prepare"
         /\ UNCHANGED <<wb, iov, kernel, socket, loop, prepared, answers, aborted, said>>

\* What both threads do to have the buffer written: readvBegin() and one SQE.
PrepareWrite ==
    /\ iov' = readvBegin(wb)
    /\ aborted' = (Asserting /\ ~readvAsserts(wb))
    /\ prepared' = prepared + 1

Prepare == /\ AtWorker("prepare")
           /\ PrepareWrite
           /\ worker' = "idle"
           /\ UNCHANGED <<wb, toSend, kernel, socket, loop, answers, said>>

-----------------------------------------------------------------------------
(* The kernel, and io_uring_submit() of the event loop.                    *)

\* A close in the queue is behind the writes that were prepared before it.
Submit == /\ AtLoop("idle")
          /\ prepared > 0 \/ closing = "prepared"
          /\ flight' = flight \o [i \in 1 .. prepared |-> [iov |-> iov, client |-> clients]]
          /\ prepared' = 0
          /\ closing' = IF closing = "prepared" THEN "submitted" ELSE closing
          /\ UNCHANGED <<memory, results, received, clients, worker, loop, answers, aborted, said>>

Completes(i, result) ==
    /\ flight' = RemoveAt(flight, i)
    /\ results' = Append(results, result)
    /\ UNCHANGED <<memory, socket, worker, loop, prepared, answers, aborted, said>>

\* A write of n bytes; of none only if there is none to write.
Transfer(i, n) ==
    LET op == flight[i] IN
    /\ n <= Size(op.iov)
    /\ n = 0 => Size(op.iov) = 0
    /\ received' = [received EXCEPT ![op.client] = @ \o Gather(wb, op.iov, n)]
    /\ Completes(i, n)

\* One error per client: ConnectionManager has what a second one does.
Fail(i) == /\ clients <= MaxErrors
           /\ closing = "no" /\ -1 \notin ToSet(results)
           /\ UNCHANGED received
           /\ Completes(i, -1)

-----------------------------------------------------------------------------
(* callback_written() and callback_closed(), on the event loop.            *)

HasRead == /\ AtLoop("idle")
           /\ results # <<>> /\ Head(results) >= 0
           /\ wb' = hasRead(wb, Head(results))
           /\ loop' = "subtract"
           /\ UNCHANGED <<iov, toSend, kernel, socket, worker, prepared, answers, aborted, said>>

Subtract == /\ AtLoop("subtract")
            /\ toSend' = toSend - Head(results)
            /\ loop' = "test"
            /\ UNCHANGED <<wb, iov, kernel, socket, worker, prepared, answers, aborted, said>>

TestLeft_Once ==
    /\ AtLoop("test")
    /\ results' = Tail(results)
    /\ loop' = "idle"
    /\ UNCHANGED <<memory, flight, received, socket, worker, prepared, answers, aborted, said>>

TestLeft == /\ AtLoop("test")
            /\ IF toSend > 0 THEN PrepareWrite ELSE UNCHANGED <<iov, prepared, aborted>>
            /\ results' = Tail(results)
            /\ loop' = "idle"
            /\ UNCHANGED <<wb, toSend, flight, received, socket, worker, answers, said>>

\* A failed write: disconnect_async().
Disconnect == /\ AtLoop("idle")
              /\ results # <<>> /\ Head(results) < 0
              /\ results' = Tail(results)
              /\ closing' = "prepared"
              /\ UNCHANGED <<memory, flight, received, clients, worker, loop, prepared, answers, aborted, said>>

\* The connection is cleared and given to the next client.
Closed == /\ AtLoop("idle")
          /\ closing = "submitted"
          /\ closing' = "no" /\ clients' = clients + 1
          /\ wb' = clear(wb)
          /\ UNCHANGED <<iov, toSend, kernel, worker, loop, prepared, answers, aborted, said>>

Callback == HasRead \/ Subtract \/ TestLeft \/ Disconnect
Worker   == Count \/ Prepare
Kernel   == \E i \in 1 .. Len(flight) : \E n \in 0 .. MAX_BUFFER_SIZE : Transfer(i, n)

Next == \/ \E n \in Length : Add(n)
        \/ Worker \/ Submit \/ Kernel \/ Callback \/ Closed
        \/ \E i \in 1 .. Len(flight) : Fail(i)

Spec == Init /\ [][Next]_vars

\* Both threads run, and the kernel completes what was submitted.
FairSpec == Spec /\ WF_vars(Worker) /\ WF_vars(Submit) /\ WF_vars(Callback) /\ WF_vars(Kernel)

-----------------------------------------------------------------------------
(* Properties.                                                             *)

Byte  == {NoByte} \cup Nat \X Nat
Bytes == Seq(Byte)

TypeOK ==
    /\ wb \in [buf : [Cell -> Byte], readIndex : Cell, writeIndex : Cell]
    /\ \A k \in 1 .. 2 : iov[k].first \in Cell /\ iov[k].len \in 0 .. MAX_BUFFER_SIZE
    /\ toSend \in Int
    /\ worker \in {"idle", "count", "prepare"}
    /\ loop \in {"idle", "subtract", "test"}
    /\ prepared \in Nat /\ answers \in 0 .. MaxAnswers
    /\ \A i \in 1 .. Len(flight) :
          flight[i].client \in 1 .. clients /\ Size(flight[i].iov) < MAX_BUFFER_SIZE
    /\ closing \in {"no", "prepared", "submitted"} /\ clients \in Nat
    /\ results \in Seq({-1} \cup 0 .. MAX_BUFFER_SIZE)
    /\ aborted \in BOOLEAN
    /\ said \in [Client -> Bytes] /\ received \in [Client -> Bytes]

\* A client receives the bytes of its answers in order, each once, however the
\* writes are cut short and wherever the ring wraps, until a write to it fails.
\* connection_pool.h:21 says of the event loop and the worker that a CAS resolves
\* the conflicts of the two.
Promise == INSTANCE Stream WITH sent <- said[1], received <- received[1]
InOrder == Promise!Spec

\* When both threads and the kernel are done with it, an answer has been sent, and
\* the buffer, the counter and the client agree about that.
Quiet == /\ worker = "idle" /\ loop = "idle"
         /\ prepared = 0 /\ flight = <<>> /\ results = <<>>
Settled == clients = 1 /\ closing = "no" /\ Quiet =>
    received[1] = said[1] /\ toSend = 0 /\ readableBytes(wb) = 0

\* A client gets all of its answers, unless a write to it fails.
AllReceived == []<>(received[1] = said[1] \/ closing # "no" \/ clients > 1)
=============================================================================
