------------------------------ MODULE ReadPath ------------------------------
(***************************************************************************)
(* How a TcpConnection turns the bytes of its clients into requests: the   *)
(* kernel fills the read buffer (readv), callback_read() cuts requests out *)
(* of it, header, RPC header and body in turn, and hands each one to the   *)
(* thread pool.  One connection, which serves one client after the other.  *)
(*                                                                         *)
(* A byte is the number of its request and its place there, so that a      *)
(* string is well formed exactly if it is the segment it is taken for.     *)
(***************************************************************************)
EXTENDS Buffer, FiniteSets

CONSTANTS
    HeaderLen,      \* PROTOCAL_HEADER_LEN
    Shape,          \* the requests that clients may make: the lengths of their parts
    MaxRequests,    \* bound: requests made by all clients together
    Window,         \* bytes that a client sends ahead of the parser
    BreakAt         \* how many bytes of a request a client may send and hang up

ASSUME ReadAssumption ==
    /\ HeaderLen \in Nat \ {0} /\ MaxRequests \in Nat /\ Window \in Nat
    /\ Shape \subseteq [rpc : Nat \ {0}, body : Nat]
    /\ BreakAt \subseteq Nat
    /\ NoByte \notin Nat \X Nat

VARIABLES
    rb,             \* _channel->read_buffer
    process,        \* _header_process: 0, 1 or 2
    target,         \* _target_bytes
    ri,             \* _ri: the request whose headers it holds, 0 if none or not one
    pc,             \* what the connection waits for
    wire,           \* bytes of the present client that the kernel has not handed over
    connected,      \* the present client has not closed its end
    asked,          \* the requests of all clients, by their numbers
    before,         \* how many of them came from earlier clients
    sent,           \* the numbers of those that were sent to the end
    delivered       \* what was handed to the thread pool; 0 is not a request

parser == <<process, target, ri>>
client == <<wire, connected, asked, before, sent>>
vars   == <<rb, parser, pc, client, delivered>>

Init == /\ rb = Empty
        /\ process = 0 /\ target = HeaderLen /\ ri = 0
        /\ pc = "accept"
        /\ wire = <<>> /\ connected = FALSE
        /\ asked = <<>> /\ before = 0 /\ sent = <<>>
        /\ delivered = <<>>

-----------------------------------------------------------------------------
(* The clients.                                                            *)

Total(q) == HeaderLen + q.rpc + q.body
Bytes(id, first, last) == [i \in 1 .. last - first |-> <<id, first + i>>]

Outstanding == Len(wire) + readableBytes(rb)

Request(q) == /\ connected
              /\ Len(asked) < MaxRequests
              /\ Outstanding + Total(q) <= Window
              /\ asked' = Append(asked, q)

Ask(q) == /\ Request(q)
          /\ wire' = wire \o Bytes(Len(asked'), 0, Total(q))
          /\ sent' = Append(sent, Len(asked'))
          /\ UNCHANGED <<rb, parser, pc, connected, before, delivered>>

HangUp == /\ connected
          /\ connected' = FALSE
          /\ UNCHANGED <<rb, parser, pc, wire, asked, before, sent, delivered>>

\* A client that stops after n bytes of a request.
BreakOff(q, n) == /\ Request(q)
                  /\ n < Total(q)
                  /\ wire' = wire \o Bytes(Len(asked'), 0, n)
                  /\ connected' = FALSE
                  /\ UNCHANGED <<rb, parser, pc, before, sent, delivered>>

-----------------------------------------------------------------------------
(* The event loop.  read() computes the regions; nothing else touches the  *)
(* buffer until the read completes, so they are those of its state then.   *)

\* callback_accepted: a new descriptor, and the first read().
Accept == /\ pc = "accept"
          /\ pc' = "read"
          /\ connected' = TRUE
          /\ wire' = <<>>
          /\ before' = Len(asked)
          /\ UNCHANGED <<rb, parser, asked, sent, delivered>>

\* callback_read with n bytes, up to the parsing.
ReadDone(n) ==
    LET iov == writevBegin(rb) IN
    /\ pc = "read"
    /\ n \in 1 .. Len(wire) /\ n <= Size(iov)
    /\ rb' = hasWritten(Scatter(rb, iov, SubSeq(wire, 1, n)), n)
    /\ wire' = SubSeq(wire, n + 1, Len(wire))
    /\ pc' = "parse"
    /\ UNCHANGED <<parser, connected, asked, before, sent, delivered>>

ReadEof_NoData == /\ pc = "read"
                  /\ wire = <<>>
                  /\ pc' = "close"
                  /\ UNCHANGED <<rb, parser, client, delivered>>

\* callback_read with 0: the client has closed, or the regions were empty.
ReadEof == /\ pc = "read"
           /\ Size(writevBegin(rb)) = 0 \/ (wire = <<>> /\ ~connected)
           /\ pc' = "close"
           /\ UNCHANGED <<rb, parser, client, delivered>>

\* callback_read with an error returns: nothing reads on, and nothing closes.
ReadFailed == /\ pc = "read"
              /\ pc' = "failed"
              /\ UNCHANGED <<rb, parser, client, delivered>>

Parsing(stage) == /\ pc = "parse"
                  /\ readableBytes(rb) >= target
                  /\ process = stage
                  /\ rb' = hasRead(rb, target)
                  /\ UNCHANGED <<pc, client>>

Header(id)    == Bytes(id, 0, HeaderLen)
RpcHeader(id) == Bytes(id, HeaderLen, HeaderLen + asked[id].rpc)
Body(id)      == Bytes(id, HeaderLen + asked[id].rpc, Total(asked[id]))

\* Strings that are no header are taken for one of any length.
Lengths == {0} \cup {q.rpc : q \in Shape} \cup {q.body : q \in Shape}

ParseHeader ==
    /\ Parsing(0)
    /\ process' = 1
    /\ \/ \E id \in 1 .. Len(asked) :
            Peek(rb, target) = Header(id) /\ ri' = id /\ target' = asked[id].rpc
       \/ /\ \A id \in 1 .. Len(asked) : Peek(rb, target) # Header(id)
          /\ ri' = 0 /\ target' \in Lengths
    /\ UNCHANGED delivered

ParseRpcHeader ==
    /\ Parsing(1)
    /\ process' = 2
    /\ IF ri # 0 /\ Peek(rb, target) = RpcHeader(ri)
         THEN ri' = ri /\ target' = asked[ri].body
         ELSE ri' = 0 /\ target' \in Lengths
    /\ UNCHANGED delivered

ParseBody_KeepsTarget ==
    /\ Parsing(2)
    /\ process' = 0
    /\ ri' = 0
    /\ delivered' = Append(delivered, IF ri # 0 /\ Peek(rb, target) = Body(ri) THEN ri ELSE 0)
    /\ UNCHANGED target

ParseBody_KeepsProcess ==
    /\ Parsing(2)
    /\ target' = HeaderLen
    /\ ri' = 0
    /\ delivered' = Append(delivered, IF ri # 0 /\ Peek(rb, target) = Body(ri) THEN ri ELSE 0)
    /\ UNCHANGED process

\* The request goes to the thread pool, and a new one begins.
ParseBody ==
    /\ Parsing(2)
    /\ process' = 0
    /\ target' = HeaderLen
    /\ ri' = 0
    /\ delivered' = Append(delivered, IF ri # 0 /\ Peek(rb, target) = Body(ri) THEN ri ELSE 0)

ReadOn_OneAtATime ==
    /\ pc = "parse"
    /\ readableBytes(rb) < target \/ process = 0
    /\ pc' = "read"
    /\ UNCHANGED <<rb, parser, client, delivered>>

\* Not enough for the next part: callback_read ends with another read().
ReadOn == /\ pc = "parse"
          /\ readableBytes(rb) < target
          /\ pc' = "read"
          /\ UNCHANGED <<rb, parser, client, delivered>>

\* callback_closed: the buffer is cleared and the connection sent back.
Closed == /\ pc = "close"
          /\ pc' = "accept"
          /\ rb' = clear(rb)
          /\ UNCHANGED <<parser, client, delivered>>

Parse == ParseHeader \/ ParseRpcHeader \/ ParseBody \/ ReadOn

Next == \/ HangUp \/ Accept \/ ReadEof \/ ReadFailed \/ Parse \/ Closed
        \/ \E q \in Shape : Ask(q) \/ \E n \in BreakAt : BreakOff(q, n)
        \/ \E n \in 1 .. MAX_BUFFER_SIZE : ReadDone(n)

Spec == Init /\ [][Next]_vars

\* The kernel completes reads and the loop handles what it completes.
FairSpec == /\ Spec
            /\ WF_vars(Parse)
            /\ WF_vars(\E n \in 1 .. MAX_BUFFER_SIZE : ReadDone(n))

-----------------------------------------------------------------------------
(* Properties.                                                             *)

TypeOK ==
    /\ rb \in [buf : [Cell -> {NoByte} \cup Nat \X Nat], readIndex : Cell, writeIndex : Cell]
    /\ process \in 0 .. 2 /\ target \in Nat /\ ri \in 0 .. Len(asked)
    /\ pc \in {"accept", "read", "parse", "close", "failed"}
    /\ wire \in Seq(Nat \X Nat) /\ connected \in BOOLEAN
    /\ asked \in Seq(Shape) /\ before \in 0 .. Len(asked) /\ sent \in Seq(Nat) /\ delivered \in Seq(Nat)

\* Requests reach the thread pool whole, once and in order, however TCP cuts the
\* bytes and wherever the ring wraps.
Promise == INSTANCE Stream WITH sent <- sent, received <- delivered
InOrder == Promise!Spec

\* Every request sent to the end is handed over, unless a read fails: no byte of it is
\* forgotten.
Served == \A id \in 1 .. MaxRequests :
    [](Len(sent) >= id => <>(Len(delivered) >= id \/ pc = "failed"))

\* connection_pool.cc:164 takes a read of 0 bytes to mean that the peer has closed.
ClosedByPeer == pc = "close" => ~connected

\* connection_pool.h:35 says that _header_process tells how much of the headers is
\* parsed: past a header, it is the header of a request of the present client.
HonestProgress == pc = "read" /\ process > 0 => ri > before
=============================================================================
