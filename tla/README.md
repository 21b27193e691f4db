# A verification development for GcRpc

GcRpc is an RPC framework in C++17 on io_uring: a server (`RpcProvider`) whose
event loop accepts connections, cuts requests out of their bytes and hands them
to a thread pool, whose workers call protobuf services and send the answers; a
blocking client (`RpcCaller`); and a registration of the server's services with
etcd, to be found by clients.  This directory holds TLA+ modules translated
from that code, TLC configurations that check them on small instances, and
proofs for TLAPS.  `PROJECT.json` lists the components, the runs, the lines that
each definition models, and the hazards that the properties are for.

File names below are relative to the root of the repository; `pool.cc` stands
for `src/Rpc/connection_pool.cc`, `threads.cc` for
`src/hipe/dynamic_threadpool.cc`, `threads.h` for
`include/hipe/dynamic_threadpool.h`.

## 1. The system

| part | state | operations | talks to |
|---|---|---|---|
| `DynamicThreadPool` | queue, mutex, two condition variables, `stop`, `waiting`, `max_task_num` | `execute`, `submit`, `worker`, `waitforAllTasks`, `setMaxTaskNum`, `close` | runs the tasks of the event loop and of the registration |
| `ConnectionManager` | `_idle_pool`, `_accepting_count`, `_outer_count`, `_allocated_count` | `acceptForCount`, `expandConnections`, `acceptDone`, `sendBack` | owns the connections; called by the event loop |
| `TcpConnection` | descriptor, parser state (`_header_process`, `_target_bytes`, `_ri`), `_to_send_bytes`, two ring buffers | `accept`, `read`, `send`, `disconnect_async`, one callback for each completion | io_uring, the pool of workers, the connection manager |
| `Buffer` | `buf`, `readIndex`, `writeIndex`, one pair of `iovec` | `append`, `read`, `readvBegin`, `writevBegin`, `hasRead`, `hasWritten`, `clear` | the kernel reads and writes its cells |
| `RpcProvider` | io_uring, `serviceTable`, `_status` | `loop`, `onMessage`, `getOneSqe`, `asyncHandleRequest`, `sigint_handler` | everything on the server |
| `ServiceRegister`, `LeaseManager`, `EtcdClient` | lease, names, `_stoping`, one CURL handle and a response buffer | `startRegister`, `updateNodeInfo`, `stopRegister`, timer callback | a timer of io_uring, a task of the pool, etcd over HTTP |
| `ServiceSeeker`, `HashHeap`, load balancers | `_endpoint_map`, lists of nodes, scores | watch callback, `watch`, `getServiceNode`, `select` | etcd's watcher thread |
| `RpcCaller`, `rpc_protocal` | a socket | `CallMethod`, header generation and parsing | the server |
| `net_base` | | `base64Encoding`, `base64Decoding` | etcd's gateway decodes each key and value that is put |
| `LockFreeQueue` | a linked list, `head`, `tail` | `enqueue` by many threads, `dequeue` by one | not used by the RPC code yet |
| logger, configuration, LRU cache, skip list, red-black tree | | | not used by the RPC code, or read once at the start |

How a request travels.  One thread, the event loop, does in turn: top up the
accepts (`acceptForCount`), submit what is in the submission queue, run the
callback of each completion.  `callback_accepted` starts the first read;
`callback_read` records the bytes, parses protocol header, RPC header and body
in turn, gives each complete request to `DynamicThreadPool::execute` and reads
again; a read of 0 closes the connection, and `callback_closed` clears its
buffers and puts it back into the pool.  A worker calls the service and then
`TcpConnection::send` *on its own thread*: it appends to the write buffer, adds
to `_to_send_bytes` and prepares a write; `callback_written` on the event loop
goes on until nothing is left.

What is hard: the event loop and the workers share a connection without a lock
and the connection may be closed, recycled and lent to another client while a
worker still has a request of the last one; neither request nor answer carries
an identity, so whose answer it is depends on a descriptor, a number that the
kernel gives away again; completions come in any order, cut anywhere, and may be
errors; the ring buffers wrap; the pool's condition variables can miss
notifications; counters must survive every error path; the list of
`LockFreeQueue` is cut between the two steps of an `enqueue()`, and its nodes are
freed while other threads hold pointers to them.

What makes each part correct:

* the pool runs each accepted task once, in order; never pops an empty queue;
  does not exceed its limit; loses no wake-up; `waitforAllTasks` and `close` return;
* the connection manager keeps its limits, its counters agree with its queue,
  no connection is lost or lent twice, and the server goes on accepting;
* the read path hands over each request whole, once and in order; the write
  path gives the client the bytes of each answer once and in order, all of them;
  a recycled connection behaves like a new one;
* a caller gets the answer to its own request, and gets it in the end;
* what goes into the lock-free queue comes out once and in order, and no freed
  node is used; what is encoded is base64 and can be decoded;
* the registration keeps its lease while the server runs and gives it up when it
  stops; the seeker's node table follows etcd.

## 2. Modules

| module | models | how state and actions correspond |
|---|---|---|
| `SerialExecutor` | what the pool promises | queue, running task, finished tasks; no threads |
| `ThreadPool` | `threads.cc`, `threads.h` | one action per step between two points where another thread may act: the test of an atomic, taking or releasing the mutex, blocking, a notification; `pc` is the place of each thread |
| `ThreadPoolProofs` | | theorems about `ThreadPool` |
| `ConnectionManager` | `ConnectionManager` and the life of a `TcpConnection` | one action per callback of the event loop (it is one thread); operations that the kernel has are counted per connection; workers answer at any time |
| `ConnectionManagerProofs` | | theorems about `ConnectionManager` |
| `Stream` | what a direction of a connection promises | what is received is a prefix of what was sent, and grows |
| `Buffer` | `src/Rpc/buffer.cc` | operators on a record of the cells and the two indices |
| `ReadPath` | reading and parsing on one connection | bytes are pairs of a request and a place in it; `ReadDone` is `callback_read` up to the parsing, one `Parse...` action per turn of its loop |
| `ReadPathProofs` | | theorems about `ReadPath` |
| `WritePath` | `send`, `callback_written`, the kernel | worker and event loop as two threads, one action per statement on shared state; the `iovec` pair is shared, as in the code |
| `WritePathProofs` | | theorems about `WritePath` |
| `ServiceRegister` | `ServiceRegister`, `LeaseManager`, `EtcdClient`, the life of `RpcProvider::loop` | the event loop and the workers as threads; a request is two steps, `SetOptions` (`curl_easy_setopt`) and `Perform`, because the CURL handle is shared; `After` is what the caller does with the answer; etcd is `Serve` and `Expire` |
| `ServiceRegisterProofs` | | theorems about `ServiceRegister` and `Base64` |
| `HashHeap` | `include/data_structure/hashheap.hpp` | operators on a record of its four containers; an entry is named by its place, as an iterator does |
| `ServiceSeeker` | `ServiceSeeker`, `BestScoreBalancer` | `watch` is its read of etcd (`Watch`) and the turns of its loop (`WatchNode`), during which `unwatch` and the callback wait for `_watch_mtx`; they are one step each; etcd changes at any time and its events wait in a queue |
| `ServiceSeekerProofs` | | theorems about `ServiceSeeker` and `HashHeap` |
| `RpcCall` | `RpcCaller`, its socket, a pooled connection with its descriptor, `onMessage`, `asyncHandleRequest` | callers are threads; a callback of the event loop is one action; `file` is what the kernel's descriptors name, `fdOf` the `_clientfd` that a worker looks up when it answers |
| `RpcCallProofs` | | theorems about `RpcCall` |
| `MpscQueue` | what `LockFreeQueue` promises | the items, those whose `enqueue()` has not returned, and the last answer |
| `LockFreeQueue` | `include/data_structure/lockfreequeue.h` | one action per access to an atomic or to a node that another thread can reach; addresses are freed and allocated again |
| `LockFreeQueueProofs` | | theorems about `LockFreeQueue` |
| `Base64` | `src/Rpc/net_base.cc` | a string is a sequence of numbers; the loops over groups are functions of the place in the result |
| `...MC` | | the values of the constants in the runs; `ServiceRegisterMC` also evaluates `Base64` |

`ThreadPool` implements `SerialExecutor`, `LockFreeQueue` implements `MpscQueue`,
`ReadPath` and the first client of `WritePath` implement `Stream` (`Promise`, an
`INSTANCE ... WITH` in each).  `ReadPath` and `WritePath` are built on `Buffer`,
`ServiceSeeker` on `HashHeap`.  `RpcCall` composes caller, connection, dispatch
and workers, each as far as the descriptor and the answer depend on it, and
leaves the rest to the modules of each part.  The one fact that
`WritePath` takes from another module is that at most one worker is in
`send()`: the pool holds its mutex while it runs a task (`threads.cc:51-60`,
`SerialInOrder`).

Decisions a reader should know:

* *Bytes.*  A byte is the number of its request or answer and its place there.
  A segment is a well-formed header exactly if it is the bytes of one; anything
  else parses to some length, which is what `parserProtocalHeader` and protobuf do
  with it (a bad magic number gives the length 0, `rpc_protocal.cc:60`).
* *Regions.*  The kernel reads the two regions of a write when it is
  submitted and the bytes when it transfers them.  The regions of a read are
  those of `read()`; between it and the completion nothing touches the buffer.
* *Descriptors* are a flag in `ConnectionManager`, where a late answer fails.  In
  `RpcCall` they are numbers: `accept` takes the lowest that is free, a read in
  flight keeps its socket open, and a write or close reaches whatever its number
  names by then, a stranger's socket too.
* *What a call takes.*  `CallMethod` makes a string of the array that `recv()`
  filled, which ends at the first zero byte (`rpc_caller.cc:71`).  An answer may have
  one inside, as fields of bytes and empty nested messages do; `Taken` cuts there, and
  `Zeros` says which pieces of an answer may begin with one.  The array is on the
  stack and not cleared, so behind an answer without a zero byte the string may go
  on with what an earlier call left (`Tails`).
* *etcd* is modelled as `etcd_client.cc` reads it: an answer is 200 with the
  fields that the code asks for at the top level of the JSON, or an error with a
  body.  (The gateway of etcd nests the answer of a keepalive under `result`;
  with that, every heartbeat would take a new lease.)  An empty `ID` is refused,
  a keepalive of a dead lease has no `TTL`.  Early expiry costs a fault; a lease
  that nobody keeps alive expires for free.
* *Undefined behaviour.*  `CURLOPT_POSTFIELDS` keeps a pointer: when the thread
  that set it is done, `Perform` sends that request or garbage.  `HashHeap` keeps
  pointers to the strings of its caller, which are locals in `ServiceSeeker`
  (`Borrowed`): any key may be read through them, and `remove()` does so even for a key
  that is not there (`Undefined`, `hashheap.hpp:110`).  A `ServiceEndpoint` in the
  table has an address that is deleted already (`net_base.h:66`, a destructor
  and a default copy).  Destroying it, reading its address in `getServiceNode()`
  (`service_seeker.cc:138`) and reading such a key end the program or do not
  (`MayCrash`); what address a caller gets is whatever the memory holds, and no
  property is about it.  `BestFirst` is about the node that the balancer selects.
* *The consumer* of `LockFreeQueue` is one thread, as its comment asks (MPSC); what
  it does to nodes that are its own is one step.  `compare_exchange_weak` may fail
  for no reason (`Spurious`).
* *Bounds.*  `MaxPipelined`, `MaxFaults`, `MaxRequests`, `Window`, `MaxAnswers`,
  `MaxSigint`, `MaxChanges`, `MaxErrors`, `AnswerSize`, `Zeros`, `MaxCalls`, `MaxAll`, `MaxKills`
  and the set `Item` bound the environment, never the code.  `MAX_BUFFER_SIZE` is
  1024 in the code and 5 to 8 here: no operation knows the size but through the
  modulus.

## 3. Runs

Passing runs:

| run | instance | shows |
|---|---|---|
| `pool` | 2 workers, 2 submitters, 1 waiting and 1 closing thread, 3 tasks, limits 1 and 2, spurious wake-ups; 302112 states | `SerialInOrder` (refinement of `SerialExecutor`), `PopsATask`, `QueueBounded`, `WaitMeansDone`, and under fairness `EveryTaskRuns` and `WaitReturns` unless the pool is closed, and `CloseReturns` |
| `conn_faults` | limit 3, 2 accepts wanted, at most 2 of: failed accept, read or write, a client that leaves with requests outstanding; 674845 states | `Budget` (of which the bound of the allocated connections, `AllocBound`, is a part) and `Balance`; for a connection that no fault has hit, `Exclusive` (one holder, and it changes hands only when workers and kernel are done with it) and `NoneLost`; `LeaksCounted` (what `_accepting_count` counts too much are the failed accepts, one for one); under fairness `AcceptsOn` (the server goes on accepting until its places are taken by clients that it hears, failed accepts and connections whose read has failed) |
| `read_window` | ring of 8, header of 2, four requests of three shapes, at most 7 bytes ahead of the parser, clients that leave inside the first header; 175727 states | `InOrder` (refinement of `Stream`), `ClosedByPeer`, `HonestProgress`; under fairness `Served`, unless a read fails |
| `write_answers` | ring of 5, answers of 1, 3 and 4 bytes, at most 3, one failed write, clients that have each answer whole before they ask again; 514360 states | for the first client, until a write to it fails, `InOrder` (refinement of `Stream`) and `Settled`, and under fairness `AllReceived` |
| `register` | 2 workers, 2 services, 4 leases, any 2 faults of all kinds, ctrl+c twice; 112552 states | `OneBeat`, `OwnRequest`; under fairness `Registered` (while the heartbeat goes on with a lease) and `GivenUp`; the run also evaluates the assumptions of `ServiceRegisterMC`: for every string of 1 to 4 of six bytes, what is put is its base64 by RFC 4648 (`IsBase64Of`) and decodes to it (`RoundTrip`) |
| `seeker` | 3 nodes, 2 scores, any initial nodes, 2 changes, heartbeats without end, a `ls()` that may fail; 235482 states | `Agree`, `BestFirst` (what `BestScoreBalancer` selects), `Departing` (a node that etcd no longer has is about to be removed); under fairness `Follows` |
| `rpc_call` | 3 callers with 3 calls between them, 2 connections, a task queue of 1, answers of two pieces of which the second begins with a zero byte, or of one that has none, one caller killed while it waits; 608454 states | unless a caller left that was owed an answer: `OwnDescriptor` (answers and closes reach the socket that they are for) and `OwnAnswer` (a call takes its own answer first, or that up to its first zero byte, if its caller never took a part for the whole); under fairness `Returns` |
| `queue` | 2 producers, 4 items, 3 nodes that are freed and allocated again; 312774 states | `NoDangling`, `Fifo` (refinement of `MpscQueue`); under fairness `Delivered` |

Why the bounds are enough.  Two workers and two submitters are what a lost or
stolen wake-up needs, three tasks fill a queue of two while one runs.  The connection
pool starts with one connection and grows in steps of at most two up to and
beyond its limit of three, so it is expanded, drained and refilled; two faults
are what a close that happens twice needs, and what stops a server that wants
two accepts.  A ring of 8 wraps within a header, an RPC header and
a body of the requests of 3 to 7 bytes, which arrive in pieces of every size; a
ring of 5 wraps within answers of 3 and of 4, the largest that fits.  Reads that fill the
ring and answers as long as it break what these runs show; what happens then is in the
list of open defects below.  Two faults
are a lease that expires while the put that would have shown it is lost; four
leases are the present one, its predecessor that some key still names, one in a
request that is under way and a free one.  Three nodes of two scores are the
least with ties and a node that is neither first nor last in the heap.  Three
callers on two connections lend each connection and each descriptor again, one
of them to a caller that waited in the backlog; a queue of one task is full when
two ask at once.  Three nodes are the dummy, one that is linked and one on its
way, or two gaps at once; the five nodes that four items need are allocated in
them, so an address is used again while a producer may hold it.

Runs that find the code and its own documentation in disagreement:

| run | what happens | against |
|---|---|---|
| `conn_accept_leak` | `callback_accepted` returns on an error before `acceptDone()`; after `sq_entries / 4` errors the server accepts no more | `README.md:22`, the pool is there so that the main thread can always accept |
| `read_recycled` | a client leaves behind a header; the next client of that connection starts with the parser in the middle of a request | `connection_pool.h:35`, what `_header_process` means |
| `write_pipelined` | a client that took a part of its answer for the whole asks again: worker and event loop have two writes of the same bytes in flight, and it receives them twice | `connection_pool.h:21-23`, a CAS resolves conflicts of the two threads |
| `register_outage` | one grant is lost: the lease is the empty string, whose keepalives are refused; the bodies of the refusals stay in the response buffer, in front of the answer of the next grant, which cannot be parsed: no lease is ever had again | `service_register.cc:19`, renew a lease that has expired |

The models show more defects of the code, which the properties except and the runs leave out by
their bounds.  `close()` of the thread pool notifies between
a worker's predicate and its blocking; the worker sleeps for ever, and `close()`
waits for it (`Test`, `NotifyAll`, `Block`; against the comment at
`threads.cc:52`; `CloseReturns` says what is left).  Of two threads in
`waitforAllTasks()` one may sleep for ever (`WaitReturns` is about one).  A worker that answers on a
closed connection reaches, by the descriptor, whatever client has it by then, and so does the
second close of a write that fails: `OwnAnswer` and `OwnDescriptor` fail without
`owed = {}`, and `Exclusive` without `hit`.  That connection is put back twice and lent to two clients,
where `README.md:18` has one connection for each descriptor.  A caller that takes a part of an answer
for the whole takes the rest for the answer of the next call (`cut` in `OwnAnswer`).
An answer with a zero byte is cut there, and protobuf may take what is left for a
whole message (`Taken`).  A caller that leaves bytes unread is reset, and
the connection that reads the error is never lent again (`ReadFailed`); a
request that nobody answers, because its method is unknown or the queue of
tasks is full, leaves its caller in `recv()` for ever (`Holding`, in `Returns`).
`expandConnections()` does not count idle connections (`pool.cc:292`), so idle
and used ones together exceed `max_conn`, against the comment at `connection_pool.h:124`,
"连接总数的上限，在外面的连接+在空闲队列里的连接" (the limit of all connections: those outside and
those in the idle queue); `AllocBound` says by how much.  `writevBegin()` offers
the cell that must stay empty, and a read that fills the ring makes it look empty
(with `Window = MAX_BUFFER_SIZE`; against `buffer.h:17`).  A
request that is larger than the ring leaves two empty regions, so its read
returns 0 and the connection is closed (`ReadEof`, guard `Size(writevBegin(rb)) = 0`;
against `pool.cc:164`, where a read of 0 means that the peer has closed).  An answer that
does not fit while `readIndex` is 0 overwrites the ring (`Stored`; against
`buffer.h:17`).  The assertions in `readvBegin()` hold for an answer of 15 bytes that is
sent whole and for nothing else, so in a Debug build, which `CMakeLists.txt:24` sets, most
answers end the server (`Asserting`; against the comment at `buffer.cc:69`);
`write_answers` is about a build without assertions.  `_to_send_bytes` is not reset when a
connection is recycled after a failed write (`Closed` leaves `toSend` alone), so
`callback_written` goes on when nothing is left, against the comment at `pool.cc:219`: the next
client gets writes of no bytes, and from its second answer on each byte twice.  A PUT for a
node that is known is parsed into a copy, so its score in the table is for ever the
first one (`Parsed`; against the comment at `service_seeker.cc:34`).  A broken
answer of a keepalive has the effect of `register_outage` too.  A SIGINT
during the registration is overwritten (`StartLoop`, `rpcprovider.cc:94`).
`getServiceNode()` copies a deleted address.
`remove()` of a key that is not there takes another out of the list for
random choice (`remove_random_key`).  `execute()` tests `waiting` before it
takes the mutex (`threads.h:58`), so a task may enter the queue behind
`waitforAllTasks()` (`Offer` and `Enqueue` are two steps of `ThreadPool`).
`base64Decoding` drops a last byte 0 that was encoded (`Loses`), and of the empty
text asks for the last byte of nothing; no key or value of the registration ends so.

### Fairness

* `ThreadPool`: each thread that can take a step takes one (the scheduler);
  callers need not call.  Spurious wake-ups do not go on for ever.
* `LockFreeQueue`: producers that are in `enqueue()` run, the consumer polls, and a
  `compare_exchange_weak` does not fail for no reason for ever.
* `RpcCall`: the kernel accepts and completes operations, the event loop and the
  worker run, `recv()` returns what has arrived, and an `RpcCaller` is destroyed
  in the end.  Nobody is obliged to call or to be killed.
* `ConnectionManager`: the event loop goes round (weak fairness of
  `AcceptForCount`) and the kernel completes each close.  Clients are not
  obliged to do anything.
* `ReadPath`: the parser's loop has no way to stop, and the kernel completes a read when there are bytes.
* `ServiceRegister`: threads run, and a request ends within the 5 s of
  `CURLOPT_TIMEOUT`; timers expire; a lease that is not kept alive expires.
  Nobody is obliged to press ctrl+c.
* `ServiceSeeker`: `watch()` goes on, the watcher calls back for what etcd has sent (that
  `Callback` is weakly fair is enough while one service stays watched; services that
  come and go without end would ask for a fair mutex), and each
  provider puts its node again and again (`updateNodeInfo`), strongly fair
  because a heartbeat is modelled only when no event waits.
* `WritePath`: the worker and the event loop run, the kernel completes each
  write.  A client whose `recv()` has the whole answer (`~Pipelined`) asks again only after
  the event loop has seen that the write is complete: the completion of the write is
  posted before the read of the next request can be completed, and the event
  loop takes completions in that order.

## 4. Proofs

All proofs are about every value of the constants.

`ThreadPoolProofs`, with no assumption but `ThreadAssumption` and `TaskAssumption`:

* `TypeCorrect`: `TypeOK`, strengthened by `HasJob` (a running worker has a task).
* `PopSafe`: `PopsATask`.  It is not inductive alone: that the queue is still not
  empty at `pop` needs `LockInv`, that the workers at labels after `lock` are
  the holder of the mutex, so no other worker can pop in between.
* `Implements`: `SerialInOrder`.  Init maps to Init, `Pop` to `Start`, `Finish` to
  `Finish`, `Enqueue` to `Accept`, all others to stuttering; one task at a time
  is `LockInv` again.
* `WaitSound`: `WaitMeansDone`, from `Accounted` (accepted tasks are finished,
  queued or running) and the mutex.
* `Bounded`: `QueueBounded`.
* `NoTaskForgotten` and `NoWaiterForgotten`, the safety halves of `EveryTaskRuns` and
  `WaitReturns`.  While the pool is open, a queued task has a worker that will look at
  the queue before it blocks, or a submitter about to notify; it needs that a worker
  about to block has seen an empty queue (`Blocking`), which the mutex protects, and that
  there is a worker.  A thread that sleeps in `waitforAllTasks()` has `waiting` set and
  a task still to end.  This is for one such thread: of two, the end of the last task
  wakes one.

`ConnectionManagerProofs`, with `ConnAssumption`:

* `TypeCorrect`, `BudgetKept`, `Balanced`: `TypeOK`, `Budget` with `AllocBound`, and `Balance`
  in every environment, with all faults.  The inductive invariant is
  `Ledger`: they depend on one another (the counters bound the growth of the
  pool, the growth keeps connections in their set) and on `Covered`, that
  accepts in flight are counted in `_accepting_count`.
* `FailedAcceptsCounted`: `LeaksCounted`, that `_accepting_count` exceeds the accepts in
  flight by the number of accepts that have failed, exactly.  So no failed read or write and
  no hang-up costs the server an accept, which is what `AcceptsOn` relies on.
* `ExclusiveUse` and `NothingLost`: `Exclusive` and `NoneLost`, in the same
  environments, for each connection that no fault has hit, whatever befell others.
  The invariant `Lent` says where each connection is: places in the idle pool
  and accepts in flight name distinct connections that nothing else holds, a
  connection that is read from or answered is open, and one not yet allocated
  is free (`OnePlace` and `Placed` count the holders from it).  A connection that
  was hit may be closed twice (section 3), so the places are distinct only for
  the others.

`LockFreeQueueProofs`, with `QueueAssumption`, for any number of producers, items
and nodes:

* `Safe`: `NoDangling`.
* `Implements`: `Fifo`.  `CasTail` is `Put`, `Link` is `Return`, `CasHead` is `Take`,
  `LoadNext` is `TakeNothing` when it finds no next node; the rest stutters.

Both rest on one invariant, `Inv`.  `Chain`: the history `chain` leads from `head` to
`tail` through allocated nodes, each once.  `Links`: a node of the chain is linked to
the next one, or it is not linked and some producer stands between its two
steps there (`Gap`).  `OnTheirWay`: a node before its exchange is allocated and not
in the chain; a producer behind it has a gap, so the old tail that it writes to
is still in the chain, which is why it cannot have been freed.  `Consumer`: what
`dequeue()` has read is still so, and what it deletes nobody else names.
`Contents`: no item is in two nodes, so a gap's item is never the one taken.
No one of them is inductive without the others.

`ReadPathProofs`, for a buffer of any size and requests of any shape and number:

* `ReadTypeOK`: `TypeOK`, with no hypothesis.
* `ReadClosedByPeer` and `ReadInOrder`: `ClosedByPeer` and the refinement `InOrder`, if
  what clients have outstanding fits into the ring beside the empty cell
  (`Window < MAX_BUFFER_SIZE`) and a client that breaks a request off does so inside
  its header (`BreakAt`).  The code ensures neither (section 3; an `RpcCaller`, which waits for each answer, keeps the first
  if its requests are small); `read_recycled` shows what happens without the second.

The last two rest on `RInv`.  `Room` bounds what can be read by what is outstanding.  `Layout` says of each byte that the parser has not
taken which one it is: `Stage` where the parser stands in the present request,
`Placed` that each byte of this and the later requests is as far behind the
read index as their sizes add up to, in the ring or still on the wire, `Waits`
that what `callback_read` waits for is not there yet, `Numbers` which request is
the next.  The sums of the sizes are a function that the invariant asserts to exist
(`off`), so no step needs induction over the requests.

`WritePathProofs`, for a buffer of any size, any number of answers and of failed writes:

* `WriteTypeOK`: `TypeOK`, with no hypothesis: however writes are doubled or
  fail, the regions of a write are less than the ring.
* `WriteSettled` and `WriteInOrder`: `Settled` and the refinement `InOrder`, both about the
  first client, if its `recv()` has each answer whole (`~Pipelined`) and each answer leaves
  one cell of the ring empty.  `write_pipelined` shows what happens
  without the first, section 3 says what happens without the second.

They rest on `WInv`, whose heart is `Lock`: though there is no lock, as long as the first client
has the connection at most one write
is prepared, in flight or completed, and none while a worker is in `send()`
(`Single`).  So the buffer has the bytes that are not received behind those that are and were not
taken (`InRing`), a write is of all of them (`Regions`) and `toSend` counts them
(`Counted`).  For a later client `toSend` begins with what the last one left, and the
lock is gone, so nothing is proved of it (section 3).

`RpcCallProofs`, for any number of callers, connections and calls (`MaxCalls` is any
number), any queue, any length of the answers and zero bytes anywhere but at their
beginning, where no protobuf message has one:

* `CallOwnDescriptor` and `CallOwnAnswer`: `OwnDescriptor` and `OwnAnswer`.

Both say that they are about behaviours in which no caller left that was owed an answer,
and the invariant `IInv` has the same condition.  It says who holds a connection
(`Lent`, `Sockets`), that what is in flight or queued for it is for its holder
(`InFlight`, `FromWhom`), that who has left is owed nothing (`Paid`), and that what a
caller's call has on its way is one request, one task, one write or the rest of
one answer (`Calling`): so the next bytes it receives are of that answer, and `TakenOfConcat`
says what of them is left when the string is cut.

* `CallNotForgotten`, the safety half of `Returns`, under the same condition: a caller that
  is there waits in the backlog or has a read in flight on its socket (`Heard`), and the call that it
  waits for is a request, a task, a write or bytes received, unless it was dropped
  (`Afoot`).  It needs `Inv`, that a write reaches its own caller, and that only those who
  have gone are reset (`Resets`).

`ServiceRegisterProofs`, for any pool, any services and any faults:

* `RegisterOneBeat` and `RegisterOwnRequest`: `OneBeat` and `OwnRequest`.  The first is
  the invariant `Beat`, that timer, task and busy worker are at most one; the
  second needs it, because it makes the busy worker the only thread that makes
  requests until the registration stops (`Requesting`, `Stopping`).
* `KeysAreLeased`: every key of the provider that etcd has is under a lease that lives
  (`Leased`), whatever requests are lost, garbled or overtaken by an expiry.  `etcd` refuses
  a lease that is not alive, so what is left to prove is that no request names lease 0,
  which would be a key for ever (`Asked`): `""`, what the code sends without a lease, is not
  that (`NoLease # Unleased` in `RegisterAssumption`).
* `RoundTrips`, with no assumption: decoding undoes encoding for strings of every length,
  but for the last byte of `Loses`.  A place of the text is in the group that division
  finds (`Places`, `Lengths`), a group is arithmetic on three bytes (`Group`), and
  `base64_reverse` inverts the table (`Table`).
* `EncodesBase64`, with no assumption: `base64Encoding` gives, for strings of every length, the
  text that RFC 4648 asks for (`IsBase64Of`, which the run evaluates for short strings): as
  long as it has to be, padded, and of sextets that have the bits of the bytes in their
  order.  `Text` says which character is where, `SextetBits` that its six bits are those.

`ServiceSeekerProofs`, for any nodes, services, scores and changes, with `HeapAssumption`
and `SeekerAssumption`:

* `TablesAgree` and `SelectsTheBest`: `Agree` and `BestFirst`, the second about the node that
  `BestScoreBalancer` selects by the scores that the table keeps.  The invariant `Tables` says of each
  table, that which `watch()` is filling included, that its heap is sorted: the sequence has
  each node of the table once, with its score, the best first (`Sorts`), and the index leads
  to it.  An insertion or a removal is at a place that an iterator names, so no step needs
  induction over the nodes.
* `NoneStays`: `Departing`.  The invariant is `Sync`: the last event that waits for a node
  agrees with etcd (`Latest`), and a node in a table, or one that `watch()` has yet to put
  there, is in etcd or has an event waiting (`Pending`).  Neither is inductive alone: when
  the event is taken that a node waited for, `Latest` says what etcd has.

Only model-checked: the liveness properties (`EveryTaskRuns`, `WaitReturns`, `CloseReturns`,
`AcceptsOn`, `Served`, `AllReceived`, `Registered`, `GivenUp`, `Follows`, `Returns`, `Delivered`).
The prover has no ENABLED and no rules for fairness, so it cannot do them.
`NoTaskForgotten`, `NoWaiterForgotten`, `FailedAcceptsCounted`, `CallNotForgotten` and `NoneStays` prove what
they need besides fairness: that what must still happen is not lost.  `HonestProgress`
is checked for clients that break off inside a header only.  All other
properties of the passing runs are proved, under the hypotheses that this section
names.

## 5. Not modelled

* The submission queue: when it is full, `io_uring_get_sqe` returns NULL, which no
  caller tests; and workers and the event loop use it without a lock.  Both are
  undefined behaviour of a library whose code is not here, so there is no set of
  outcomes to choose from.
* `acceptConnection`, `sendThenClose`, `callback_written_then_close`: no callers.
  `_total_count` only counts.
* The `compare_exchange` in `TcpConnection::read`: it stores what it loaded, and
  `pool.cc:119` compares before it masks (`==` binds tighter than `&`), so it never returns early.
* Headers that make the parser throw; answers of no bytes, for which the caller
  waits for ever; lengths beyond 16 bits.
* `getInstance()` of the pool, a task that calls the pool, several threads in
  `waitforAllTasks()`.
* Of the registration: `unregisterService`, `get()`, `async_...` (no callers), the
  destructors (`_etcd` is destroyed before `_lease_manager`, whose destructor
  uses it: `service_register.h:36-37`).  Of the discovery: a watcher that loses
  its connection, the watcher thread, the destructor, the balancers that read
  the list of pointers, the factory.
* Of `net_base.cc`: the local address.  Byte order and the fields of the header
  that nothing reads; `encoding.h` and `pb_encoding.h`, which nothing includes.
* Of `lockfreequeue.h`: the destructor, and `SimpleQueue` and `LockedQueue`, the
  queues for one thread and under one mutex with which it is compared.  More
  than one consumer, which its comment excludes.
* LRU cache, skip list and red-black tree: nothing includes them, and parts of
  them do not compile once they are instantiated.
* The packing of a pointer and an event type into one word (`channel.h`): the
  models take the event itself.
* Logger, configuration, generated and vendored code.

## 6. Plan

Done, in this order: `ThreadPool`, which everything else relies on for the order of
answers; `ConnectionManager`; `Buffer`, `ReadPath`, `WritePath`;
`ServiceRegister`; `HashHeap` and `ServiceSeeker`; `RpcCall`, which composes
them from the caller's side; `LockFreeQueue` with its proofs; `Base64`.

Proved since: the safety of every module, as section 4 says, and of the liveness
properties of `ThreadPool`, `ConnectionManager` and `RpcCall` the part that is safety.

What could still be done:

1. The list that `HashHeap` keeps for random choice, which `remove_random_key`
   breaks, against a map with scores; an abstract lease that `ServiceRegister` implements.
2. The liveness properties by hand, as lattices of `ENABLED` and `WF`, when the prover
   can check them.
