------------------------------- MODULE RpcCall -------------------------------
(***************************************************************************)
(* A call from end to end: the callers, their sockets, the connections of  *)
(* the provider and the answers that its workers send.                     *)
(*                                                                         *)
(* A connection is lent to one client after another and names its socket   *)
(* by a descriptor, a number that the kernel gives away again as soon as   *)
(* it is closed; a worker looks the descriptor up when it answers.  So the *)
(* question is whose socket an answer, a read or a close reaches.          *)
(*                                                                         *)
(* A caller that takes a part of an answer for the whole (cut) asks again  *)
(* while the rest is sent.  Answers stay apart here; what sends two at a   *)
(* time on one connection makes of their bytes is WritePath (Pipelined).   *)
(*                                                                         *)
(* Left to other modules: how many accepts are in flight, and that they    *)
(* fail (ConnectionManager), requests in pieces (ReadPath), short writes   *)
(* and the ring (WritePath), threads and the order of tasks (ThreadPool).  *)
(***************************************************************************)
EXTENDS Integers, Sequences, FiniteSets, FiniteSetsExt

CONSTANTS
    Callers,        \* how many RpcCaller objects there are, each with a socket
    MaxConn,        \* max_conn: how many TcpConnection objects there are
    MaxTaskNum,     \* max_task_num of the thread pool
    AnswerSize,     \* bound: the longest answer, in pieces that one recv may get
    Zeros,          \* which pieces of an answer may begin with a zero byte: sets of them
    MaxCalls,       \* bound: calls of one caller
    MaxAll,         \* bound: calls of all of them
    MaxKills        \* bound: callers that are killed while they wait

ASSUME CallAssumption ==
    /\ Callers \in Nat
    /\ MaxConn \in Nat
    /\ MaxTaskNum \in Nat
    /\ AnswerSize \in Nat \ {0}
    /\ Zeros \subseteq SUBSET (Nat \ {0, 1})  \* not the first: no message begins with one
    /\ MaxCalls \in Nat
    /\ MaxAll \in Nat
    /\ MaxKills \in Nat

Caller == 1 .. Callers  \* in the order in which they connect
None == 0
Conn == 1 .. MaxConn
Fd == 1 .. Callers

\* An answer, of which the pieces zeros begin with a zero byte.  What is in an array
\* that was never written is nobody's.
Answer(x, n, size, zeros) ==
    [i \in 1 .. size |->
        [of |-> x, call |-> n, part |-> i, size |-> size, zero |-> i \in zeros]]
Stale ==
    [i \in 1 .. AnswerSize |->
        [of |-> None, call |-> 0, part |-> i, size |-> 0, zero |-> FALSE]]

VARIABLES
    pc,         \* of a caller: new, ready, waiting in recv(), gone
    calls,      \* the calls that it has made
    result,     \* what each of them took for the answer
    up,         \* its requests that the provider has not read
    down,       \* the bytes that it has not received
    broken,     \* callers that left bytes unread: the kernel resets the socket
    backlog,    \* callers connected and not yet accepted
    idle,       \* connections that are lent to nobody, oldest first
    fdOf,       \* _clientfd of a connection
    file,       \* whose socket a descriptor of the provider names
    reads,      \* reads in flight of a connection on a socket, which they keep open
    writes,     \* writes in flight of a connection: descriptor and bytes
    closes,     \* closes in flight of a connection: descriptors
    tasks,      \* requests queued for the workers
    cut,        \* history: callers that took a part of an answer for the whole
    dropped,    \* history: callers with a request that nobody will answer
    owed        \* history: callers that left before their answer was written

callers  == <<pc, calls, result>>
sockets  == <<up, down, broken, backlog>>
server   == <<idle, fdOf, file, reads, writes, closes, tasks>>
history  == <<cut, dropped, owed>>
vars     == <<callers, sockets, server, history>>

Init ==
    /\ pc = [x \in Caller |-> "new"]
    /\ calls = [x \in Caller |-> 0]
    /\ result = [x \in Caller |-> <<>>]
    /\ up = [x \in Caller |-> <<>>]
    /\ down = [x \in Caller |-> <<>>]
    /\ broken = {}
    /\ backlog = <<>>
    /\ idle = [k \in Conn |-> k]
    /\ fdOf = [k \in Conn |-> 0]
    /\ file = [d \in Fd |-> None]
    /\ reads = [k \in Conn |-> [x \in Caller |-> 0]]
    /\ writes = [k \in Conn |-> <<>>]
    /\ closes = [k \in Conn |-> <<>>]
    /\ tasks = <<>>
    /\ cut = {}
    /\ dropped = {}
    /\ owed = {}

Named(d) == IF d \in Fd THEN file[d] ELSE None
Waiting(s, x) == \E i \in 1 .. Len(s) : s[i] = x

\* The provider has closed the socket of x, and no read keeps it open.
Shut(x) == /\ pc[x] # "new" /\ ~Waiting(backlog, x)
           /\ \A d \in Fd : file[d] # x
           /\ \A k \in Conn : reads[k][x] = 0

\* The provider will answer a request of x among rs, or one that it has read.
Owes(x, rs) ==
    \/ \E i \in 1 .. Len(rs) : rs[i].known
    \/ \E i \in 1 .. Len(tasks) : tasks[i].from = x /\ tasks[i].known
    \/ \E k \in Conn : \E i \in 1 .. Len(writes[k]) : writes[k][i].bytes[1].of = x

-----------------------------------------------------------------------------
(* The callers: one thread and one socket each.                            *)

Connect(x) ==
    /\ pc[x] = "new"
    /\ \A y \in 1 .. x - 1 : pc[y] # "new"
    /\ pc' = [pc EXCEPT ![x] = "ready"]
    /\ backlog' = Append(backlog, x)
    /\ UNCHANGED <<calls, result, up, down, broken, server, history>>

Budget(x) == calls[x] < MaxCalls /\ FoldSet(LAMBDA y, n : n + calls[y], 0, Caller) < MaxAll

\* CallMethod up to the blocking recv(), for a service that the provider has or
\* has not.  The request_id is a constant, so the answer names no call.
CallMethod(x, known) ==
    /\ pc[x] = "ready"
    /\ Budget(x)
    /\ calls' = [calls EXCEPT ![x] = @ + 1]
    /\ pc' = [pc EXCEPT ![x] = "waiting"]
    /\ up' = IF Shut(x) THEN up
             ELSE [up EXCEPT ![x] = Append(@, [from |-> x, call |-> calls'[x], known |-> known])]
    /\ UNCHANGED <<result, down, broken, backlog, server, history>>

\* send() fails: CallMethod returns, and its caller is not told.
SendFails(x) ==
    /\ pc[x] = "ready"
    /\ Budget(x)
    /\ Shut(x)
    /\ calls' = [calls EXCEPT ![x] = @ + 1]
    /\ result' = [result EXCEPT ![x] = Append(@, <<>>)]
    /\ UNCHANGED <<pc, sockets, server, history>>

\* recv() stores into buf, an array on the stack that is not cleared: behind what was
\* received comes a zero byte, or what an earlier call or any other has left there.
Tails(n) == {<<>>, SubSeq(Stale, n + 1, AnswerSize)}

\* std::string recv_ed = buf: everything up to the first zero byte.
Taken(s) == LET zeros == {i \in 1 .. Len(s) : s[i].zero}
            IN  IF zeros = {} THEN s ELSE SubSeq(s, 1, Min(zeros) - 1)

Take(x, got) ==
    /\ pc[x] = "waiting"
    /\ pc' = [pc EXCEPT ![x] = "ready"]
    /\ \E tail \in Tails(Len(got)) :
          result' = [result EXCEPT ![x] = Append(@, Taken(got \o tail))]

\* One recv(), which returns any part of what has arrived.
Recv(x, n) ==
    /\ Take(x, SubSeq(down[x], 1, n))
    /\ down' = [down EXCEPT ![x] = SubSeq(@, n + 1, Len(@))]
    /\ cut' = IF down[x][n].part < down[x][n].size THEN cut \cup {x} ELSE cut
    /\ UNCHANGED <<calls, up, broken, backlog, server, dropped, owed>>

\* recv() returns 0, which is not distinguished, or an error.
RecvEnd(x) ==
    /\ down[x] = <<>>
    /\ Shut(x)
    /\ Take(x, <<>>)
    /\ UNCHANGED <<calls, sockets, server, history>>

\* A socket that is closed with bytes unread is reset, and what the provider has
\* not read of it is gone.
CloseSocket(x) ==
    /\ pc' = [pc EXCEPT ![x] = "gone"]
    /\ down' = [down EXCEPT ![x] = <<>>]
    /\ IF down[x] # <<>>
       THEN up' = [up EXCEPT ![x] = <<>>] /\ broken' = broken \cup {x}
       ELSE UNCHANGED <<up, broken>>
    /\ owed' = IF Owes(x, up'[x]) THEN owed \cup {x} ELSE owed
    /\ UNCHANGED <<calls, result, backlog, server, cut, dropped>>

\* ~RpcCaller
Leave(x) == pc[x] = "ready" /\ CloseSocket(x)

\* The process dies while it waits for an answer.
Killed == {x \in Caller : pc[x] = "gone" /\ calls[x] > Len(result[x])}
Kill(x) == pc[x] = "waiting" /\ Cardinality(Killed) < MaxKills /\ CloseSocket(x)

-----------------------------------------------------------------------------
(* The event loop of the provider.                                         *)

FreeFd == CHOOSE d \in Fd : file[d] = None /\ \A e \in Fd : file[e] = None => d <= e
Inc(f, k, x) == [f EXCEPT ![k][x] = @ + 1]
Dec(f, k, x) == [f EXCEPT ![k][x] = @ - 1]

Accepted_KeepsFd ==
    /\ backlog # <<>> /\ idle # <<>>
    /\ LET x == Head(backlog)  k == Head(idle) IN
       /\ file' = [file EXCEPT ![FreeFd] = x]
       /\ fdOf' = IF fdOf[k] = 0 THEN [fdOf EXCEPT ![k] = FreeFd] ELSE fdOf
       /\ reads' = Inc(reads, k, x)
    /\ backlog' = Tail(backlog)
    /\ idle' = Tail(idle)
    /\ UNCHANGED <<callers, up, down, broken, writes, closes, tasks, history>>

\* acceptForCount() keeps accepts in flight while there are connections; then
\* callback_accepted, with the first read on the new descriptor.
Accepted ==
    /\ backlog # <<>> /\ idle # <<>>
    /\ LET x == Head(backlog)  k == Head(idle) IN
       /\ file' = [file EXCEPT ![FreeFd] = x]
       /\ fdOf' = [fdOf EXCEPT ![k] = FreeFd]
       /\ reads' = Inc(reads, k, x)
    /\ backlog' = Tail(backlog)
    /\ idle' = Tail(idle)
    /\ UNCHANGED <<callers, up, down, broken, writes, closes, tasks, history>>

\* asyncHandleRequest(): execute() drops what a full queue has no room for.
AsyncHandle(k, r) ==
    IF Len(tasks) < MaxTaskNum
    THEN tasks' = Append(tasks, [conn |-> k, from |-> r.from, call |-> r.call, known |-> r.known])
         /\ UNCHANGED dropped
    ELSE UNCHANGED tasks /\ dropped' = dropped \cup {r.from}

\* The next read goes to what the descriptor names by now; if that is nothing it
\* fails, and callback_read returns.
ReadOn_Never(k, x) == Dec(reads, k, x)
ReadOn(k, x) ==
    LET y == Named(fdOf[k])
    IN  IF y = None THEN Dec(reads, k, x) ELSE Inc(Dec(reads, k, x), k, y)

\* callback_read with a request.
ReadRequest(k, x) ==
    /\ reads[k][x] > 0
    /\ up[x] # <<>>
    /\ up' = [up EXCEPT ![x] = Tail(@)]
    /\ AsyncHandle(k, Head(up[x]))
    /\ reads' = ReadOn(k, x)
    /\ UNCHANGED <<callers, down, broken, backlog, idle, fdOf, file, writes, closes, cut, owed>>

\* disconnect_async()
Disconnect(k) == closes' = [closes EXCEPT ![k] = Append(@, fdOf[k])]

ReadEof_ReadsOn(k, x) ==
    /\ reads[k][x] > 0
    /\ pc[x] = "gone" /\ up[x] = <<>> /\ x \notin broken
    /\ reads' = ReadOn(k, x)
    /\ Disconnect(k)
    /\ UNCHANGED <<callers, sockets, idle, fdOf, file, writes, tasks, history>>

\* callback_read with 0.
ReadEof(k, x) ==
    /\ reads[k][x] > 0
    /\ pc[x] = "gone" /\ up[x] = <<>> /\ x \notin broken
    /\ reads' = Dec(reads, k, x)
    /\ Disconnect(k)
    /\ UNCHANGED <<callers, sockets, idle, fdOf, file, writes, tasks, history>>

\* callback_read with an error returns: the connection is not lent on.
ReadFailed(k, x) ==
    /\ reads[k][x] > 0
    /\ x \in broken
    /\ reads' = Dec(reads, k, x)
    /\ UNCHANGED <<callers, sockets, idle, fdOf, file, writes, closes, tasks, history>>

\* A write reaches the socket that its descriptor names at that moment.  What is
\* sent to a caller that has gone is thrown away.
Written(k) ==
    /\ writes[k] # <<>>
    /\ LET w == Head(writes[k])  y == Named(w.fd) IN
       /\ y # None /\ y \notin broken
       /\ down' = IF pc[y] = "gone" THEN down ELSE [down EXCEPT ![y] = @ \o w.bytes]
    /\ writes' = [writes EXCEPT ![k] = Tail(@)]
    /\ UNCHANGED <<callers, up, broken, backlog, idle, fdOf, file, reads, closes, tasks, history>>

\* callback_written with an error.
WriteFailed(k) ==
    /\ writes[k] # <<>>
    /\ LET y == Named(Head(writes[k]).fd) IN y # None => pc[y] = "gone"
    /\ writes' = [writes EXCEPT ![k] = Tail(@)]
    /\ Disconnect(k)
    /\ UNCHANGED <<callers, sockets, idle, fdOf, file, reads, tasks, history>>

\* The close, of whatever the descriptor names by now, and callback_closed.
Closed(k) ==
    /\ closes[k] # <<>>
    /\ file' = [d \in Fd |-> IF d = Head(closes[k]) THEN None ELSE file[d]]
    /\ closes' = [closes EXCEPT ![k] = Tail(@)]
    /\ idle' = Append(idle, k)
    /\ UNCHANGED <<callers, sockets, fdOf, reads, writes, tasks, history>>

-----------------------------------------------------------------------------
(* A worker: one task at a time, under the lock that execute() takes too.  *)

\* onMessage(): an answer on the connection that the request came from, which is
\* asked for its descriptor only now; none for an unknown service or method.
Serve ==
    /\ tasks # <<>>
    /\ LET t == Head(tasks)  k == t.conn IN
       IF t.known
       THEN /\ \E size \in 1 .. AnswerSize : \E zeros \in Zeros :
                  writes' = [writes EXCEPT ![k] = Append(@,
                      [fd |-> fdOf[k], bytes |-> Answer(t.from, t.call, size, zeros)])]
            /\ UNCHANGED dropped
       ELSE dropped' = dropped \cup {t.from} /\ UNCHANGED writes
    /\ tasks' = Tail(tasks)
    /\ UNCHANGED <<callers, sockets, idle, fdOf, file, reads, closes, cut, owed>>

-----------------------------------------------------------------------------
Receive(x) == RecvEnd(x) \/ \E n \in 1 .. Len(down[x]) : Recv(x, n)
Call(x)    == SendFails(x) \/ \E known \in BOOLEAN : CallMethod(x, known)

Completion(k) == \/ \E x \in Caller : ReadRequest(k, x) \/ ReadEof(k, x) \/ ReadFailed(k, x)
                 \/ Written(k) \/ WriteFailed(k) \/ Closed(k)

Next == \/ \E x \in Caller : Connect(x) \/ Call(x) \/ Receive(x) \/ Leave(x) \/ Kill(x)
        \/ Accepted \/ Serve
        \/ \E k \in Conn : Completion(k)

Spec == Init /\ [][Next]_vars

\* The kernel and the threads of the provider run, recv() returns what has arrived,
\* and a program comes to its end: an RpcCaller is destroyed.
FairSpec == /\ Spec
            /\ WF_vars(Accepted) /\ WF_vars(Serve)
            /\ \A k \in Conn : WF_vars(Completion(k))
            /\ \A x \in Caller : WF_vars(Receive(x)) /\ WF_vars(Leave(x))

-----------------------------------------------------------------------------
(* Properties.                                                             *)

\* What a call takes begins with the whole of its own answer, or is that up to its
\* first zero byte, although neither the request nor the answer carries an identity:
\* for every caller that never took a part of an answer for the whole, and unless one
\* left that was owed an answer.
Begins(s, t) == Len(s) <= Len(t) /\ SubSeq(t, 1, Len(s)) = s
OwnAnswer ==
    owed = {} => \A x \in Caller \ cut : \A n \in 1 .. Len(result[x]) :
        \E size \in 1 .. AnswerSize : \E zeros \in Zeros :
            LET answer == Answer(x, n, size, zeros)
            IN  IF Taken(answer) = answer THEN Begins(answer, result[x][n])
                                          ELSE result[x][n] = Taken(answer)

\* README.md:18, "每个fd对应一个TcpConnection": an answer is on its way to the
\* descriptor of the caller that asked, and what is closed is the socket of a
\* caller that has gone; again unless one left that was owed an answer.
OwnDescriptor ==
    owed = {} => \A k \in Conn :
        /\ \A i \in 1 .. Len(writes[k]) :
              Named(writes[k][i].fd) = writes[k][i].bytes[1].of
        /\ \A i \in 1 .. Len(closes[k]) :
              \E x \in Caller : Named(closes[k][i]) = x /\ pc[x] = "gone"

\* A call returns, unless its request was dropped (unknown, or refused by the full
\* queue), or every connection is held by a caller in that situation or by one
\* that left bytes unread.
Holding == {x \in Caller : /\ Waiting([d \in Fd |-> file[d]], x)
                           /\ x \in broken \/ (x \in dropped /\ pc[x] = "waiting")}
Returns ==
    \A x \in Caller :
        pc[x] = "waiting" ~> \/ pc[x] # "waiting"
                             \/ x \in dropped
                             \/ owed # {}
                             \/ Cardinality(Holding) >= MaxConn
=============================================================================
