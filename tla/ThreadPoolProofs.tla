-------------------------- MODULE ThreadPoolProofs --------------------------
(***************************************************************************)
(* The safety properties of ThreadPool, for every number of threads and    *)
(* tasks and every limit on the queue.                                     *)
(***************************************************************************)
EXTENDS ThreadPool, SequenceTheorems, TLAPS

-----------------------------------------------------------------------------
(* Types, and that a thread that is about to use its task has one.         *)

HasJob == /\ \A w \in Workers : pc[w] = "run" => job[w] \in Task
          /\ \A s \in Submitters : pc[s] = "enqueue" => job[s] \in Task

Typed == TypeOK /\ HasJob

LEMMA InitTyped == Init => Typed
BY ThreadAssumption, TaskAssumption, EmptySeq
   DEF Init, Typed, TypeOK, HasJob, Thread, PC, WorkerPC

LEMMA WorkerTyped ==
  ASSUME Typed, NEW w \in Workers, Worker(w)
  PROVE  Typed'
<1> USE ThreadAssumption, TaskAssumption
        DEF Typed, TypeOK, HasJob, Thread, PC, WorkerPC, flags, history, Goto
<1>1. CASE Loop(w)
  BY <1>1 DEF Loop
<1>2. CASE Lock(w)
  BY <1>2 DEF Lock
<1>3. CASE Test(w)
  BY <1>3 DEF Test
<1>4. CASE Block(w)
  BY <1>4 DEF Block
<1>5. CASE Break(w)
  BY <1>5 DEF Break
<1>6. CASE Pop(w)
  <2>1. Head(tasks) \in Task /\ Tail(tasks) \in Seq(Task)
    BY <1>6, HeadTailProperties DEF Pop
  <2>. QED
    BY <1>6, <2>1 DEF Pop
<1>7. CASE Finish(w)
  <2>1. CASE NotifyWaiter
    BY <1>7, <2>1 DEF Finish, AsleepOn, Awoken
  <2>2. CASE ~NotifyWaiter
    BY <1>7, <2>2 DEF Finish
  <2>. QED
    BY <2>1, <2>2
<1>. QED
  BY <1>1, <1>2, <1>3, <1>4, <1>5, <1>6, <1>7 DEF Worker

LEMMA SubmitTyped ==
  ASSUME Typed, NEW s \in Submitters, Submit(s)
  PROVE  Typed'
<1> USE ThreadAssumption, TaskAssumption
        DEF Typed, TypeOK, HasJob, Thread, PC, WorkerPC, flags, history, Goto
<1>1. ASSUME NEW t \in Task, Offer(s, t)
      PROVE  Typed'
  BY <1>1 DEF Offer
<1>2. CASE Enqueue(s)
  <2>1. Append(tasks, job[s]) \in Seq(Task)
    BY <1>2, AppendProperties DEF Enqueue
  <2>2. CASE Overflow
    BY <1>2, <2>2 DEF Enqueue
  <2>3. CASE ~Overflow
    <3>1. /\ tasks' = Append(tasks, job[s])
          /\ accepted' = accepted \cup {job[s]}
          /\ pc' = [pc EXCEPT ![s] = "notify"]
          /\ job' = [job EXCEPT ![s] = NoTask]
          /\ UNCHANGED <<shared_lock, stop, waiting, max_task_num, offered, finished>>
      BY <1>2, <2>3 DEF Enqueue
    <3>2. accepted' \subseteq Task
      BY <1>2, <3>1 DEF Enqueue
    <3>. QED
      BY <1>2, <2>1, <3>1, <3>2
  <2>. QED
    BY <2>2, <2>3
<1>3. CASE NotifyOne(s)
  BY <1>3 DEF NotifyOne, AsleepOn, Awoken
<1>. QED
  BY <1>1, <1>2, <1>3 DEF Submit

LEMMA NextTyped == Typed /\ [Next]_vars => Typed'
<1> SUFFICES ASSUME Typed, [Next]_vars
             PROVE  Typed'
  OBVIOUS
<1> USE ThreadAssumption, TaskAssumption
        DEF Typed, TypeOK, HasJob, Thread, PC, WorkerPC, flags, history, Goto
<1>1. ASSUME NEW w \in Workers, Worker(w)
      PROVE  Typed'
  BY <1>1, WorkerTyped
<1>2. ASSUME NEW s \in Submitters, Submit(s)
      PROVE  Typed'
  BY <1>2, SubmitTyped
<1>3. ASSUME NEW a \in Waiters, WaitforAllTasks(a)
      PROVE  Typed'
  <2>1. CASE StartWaiting(a)
    BY <2>1 DEF StartWaiting
  <2>2. CASE WaitTest(a)
    BY <2>2 DEF WaitTest
  <2>3. CASE StopWaiting(a)
    BY <2>3 DEF StopWaiting
  <2>. QED
    BY <1>3, <2>1, <2>2, <2>3 DEF WaitforAllTasks
<1>4. ASSUME NEW c \in Closers, Close(c)
      PROVE  Typed'
  <2>1. CASE NotifyAll(c)
    BY <2>1 DEF NotifyAll, AsleepOn, Awoken
  <2>2. CASE Stop(c)
    BY <2>2 DEF Stop
  <2>3. CASE Join(c)
    BY <2>3 DEF Join
  <2>. QED
    BY <1>4, <2>1, <2>2, <2>3 DEF Close
<1>5. ASSUME NEW t \in Spurious, SpuriousWake(t)
      PROVE  Typed'
  BY <1>5 DEF SpuriousWake, Awoken
<1>6. ASSUME NEW n \in Limits, SetMaxTaskNum(n)
      PROVE  Typed'
  BY <1>6 DEF SetMaxTaskNum
<1>7. CASE UNCHANGED vars
  BY <1>7 DEF vars
<1>. QED
  BY <1>1, <1>2, <1>3, <1>4, <1>5, <1>6, <1>7 DEF Next

\* Every variable keeps its type in every reachable state.
THEOREM TypeCorrect == Spec => []TypeOK
<1>1. Typed => TypeOK
  BY DEF Typed
<1>. QED
  BY InitTyped, NextTyped, <1>1, PTL DEF Spec

-----------------------------------------------------------------------------
(***************************************************************************)
(* The mutex.  Who holds it is read off the program counters; this is what *)
(* makes a task that is being invoked exclude every other, and what keeps  *)
(* the queue still between the predicate of a wait and the pop.            *)
(***************************************************************************)
LockInv == \A w \in Workers : pc[w] \in Holding <=> shared_lock = w

LEMMA NextLock == Typed /\ LockInv /\ [Next]_vars => LockInv'
<1> SUFFICES ASSUME Typed, LockInv, [Next]_vars
             PROVE  LockInv'
  OBVIOUS
<1> USE ThreadAssumption
        DEF Typed, TypeOK, LockInv, Holding, Thread, flags, history, Goto
<1>1. ASSUME NEW w \in Workers, Worker(w)
      PROVE  LockInv'
  <2>1. CASE Loop(w)
    BY <2>1 DEF Loop
  <2>2. CASE Lock(w)
    BY <2>2 DEF Lock
  <2>3. CASE Test(w)
    BY <2>3 DEF Test
  <2>4. CASE Block(w)
    BY <2>4 DEF Block
  <2>5. CASE Break(w)
    BY <2>5 DEF Break
  <2>6. CASE Pop(w)
    BY <2>6 DEF Pop
  <2>7. CASE Finish(w)
    <3>1. CASE NotifyWaiter
      BY <2>7, <3>1 DEF Finish, AsleepOn, Awoken
    <3>2. CASE ~NotifyWaiter
      BY <2>7, <3>2 DEF Finish
    <3>. QED
      BY <3>1, <3>2
  <2>. QED
    BY <1>1, <2>1, <2>2, <2>3, <2>4, <2>5, <2>6, <2>7 DEF Worker
<1>2. ASSUME NEW s \in Submitters, Submit(s)
      PROVE  LockInv'
  <2>1. ASSUME NEW t \in Task, Offer(s, t)
        PROVE  LockInv'
    BY <2>1 DEF Offer
  <2>2. CASE Enqueue(s)
    BY <2>2 DEF Enqueue
  <2>3. CASE NotifyOne(s)
    BY <2>3 DEF NotifyOne, AsleepOn, Awoken
  <2>. QED
    BY <1>2, <2>1, <2>2, <2>3 DEF Submit
<1>3. ASSUME NEW a \in Waiters, WaitforAllTasks(a)
      PROVE  LockInv'
  BY <1>3 DEF WaitforAllTasks, StartWaiting, WaitTest, StopWaiting
<1>4. ASSUME NEW c \in Closers, Close(c)
      PROVE  LockInv'
  <2>1. CASE NotifyAll(c)
    BY <2>1 DEF NotifyAll, AsleepOn, Awoken
  <2>. QED
    BY <1>4, <2>1 DEF Close, Stop, Join
<1>5. ASSUME NEW t \in Spurious, SpuriousWake(t)
      PROVE  LockInv'
  BY <1>5 DEF SpuriousWake, Awoken
<1>6. ASSUME NEW n \in Limits, SetMaxTaskNum(n)
      PROVE  LockInv'
  BY <1>6 DEF SetMaxTaskNum
<1>7. CASE UNCHANGED vars
  BY <1>7 DEF vars
<1>. QED
  BY <1>1, <1>2, <1>3, <1>4, <1>5, <1>6, <1>7 DEF Next

LEMMA Locked == Spec => [](Typed /\ LockInv)
<1>1. Init => LockInv
  BY ThreadAssumption DEF Init, LockInv, Holding, Thread
<1>. QED
  BY <1>1, InitTyped, NextTyped, NextLock, PTL DEF Spec

-----------------------------------------------------------------------------
(* No worker takes the front of an empty queue.                            *)

LEMMA NextPops == Typed /\ LockInv /\ PopsATask /\ [Next]_vars => PopsATask'
<1> SUFFICES ASSUME Typed, LockInv, PopsATask, [Next]_vars
             PROVE  PopsATask'
  OBVIOUS
<1> USE ThreadAssumption
        DEF Typed, TypeOK, LockInv, PopsATask, Holding, Thread, flags, history, Goto
<1>1. ASSUME NEW w \in Workers, Worker(w)
      PROVE  PopsATask'
  <2>1. CASE Loop(w)
    BY <2>1 DEF Loop
  <2>2. CASE Lock(w)
    BY <2>2 DEF Lock
  <2>3. CASE Test(w)
    BY <2>3 DEF Test
  <2>4. CASE Block(w)
    BY <2>4 DEF Block
  <2>5. CASE Break(w)
    BY <2>5 DEF Break
  <2>6. CASE Pop(w)
    \* the worker that pops is the only one that holds the mutex
    BY <2>6 DEF Pop
  <2>7. CASE Finish(w)
    <3>1. CASE NotifyWaiter
      BY <2>7, <3>1 DEF Finish, AsleepOn, Awoken
    <3>2. CASE ~NotifyWaiter
      BY <2>7, <3>2 DEF Finish
    <3>. QED
      BY <3>1, <3>2
  <2>. QED
    BY <1>1, <2>1, <2>2, <2>3, <2>4, <2>5, <2>6, <2>7 DEF Worker
<1>2. ASSUME NEW s \in Submitters, Submit(s)
      PROVE  PopsATask'
  <2>1. ASSUME NEW t \in Task, Offer(s, t)
        PROVE  PopsATask'
    BY <2>1 DEF Offer
  <2>2. CASE Enqueue(s)
    \* the mutex is free: no worker is between its predicate and its pop
    <3>1. \A w \in Workers : pc[w] # "pop"
      BY <2>2 DEF Enqueue
    <3>2. \A w \in Workers : pc'[w] = pc[w]
      BY <2>2 DEF Enqueue
    <3>. QED
      BY <3>1, <3>2
  <2>3. CASE NotifyOne(s)
    BY <2>3 DEF NotifyOne, AsleepOn, Awoken
  <2>. QED
    BY <1>2, <2>1, <2>2, <2>3 DEF Submit
<1>3. ASSUME NEW a \in Waiters, WaitforAllTasks(a)
      PROVE  PopsATask'
  BY <1>3 DEF WaitforAllTasks, StartWaiting, WaitTest, StopWaiting
<1>4. ASSUME NEW c \in Closers, Close(c)
      PROVE  PopsATask'
  <2>1. CASE NotifyAll(c)
    BY <2>1 DEF NotifyAll, AsleepOn, Awoken
  <2>2. CASE Join(c)
    \* every worker has left its loop when stop is cleared
    BY <2>2 DEF Join
  <2>3. CASE Stop(c)
    BY <2>3 DEF Stop
  <2>. QED
    BY <1>4, <2>1, <2>2, <2>3 DEF Close
<1>5. ASSUME NEW t \in Spurious, SpuriousWake(t)
      PROVE  PopsATask'
  BY <1>5 DEF SpuriousWake, Awoken
<1>6. ASSUME NEW n \in Limits, SetMaxTaskNum(n)
      PROVE  PopsATask'
  BY <1>6 DEF SetMaxTaskNum
<1>7. CASE UNCHANGED vars
  BY <1>7 DEF vars
<1>. QED
  BY <1>1, <1>2, <1>3, <1>4, <1>5, <1>6, <1>7 DEF Next

\* A worker that has seen its predicate and is not stopped finds a task, however
\* many workers share the queue and whenever close() is called.
THEOREM PopSafe == Spec => []PopsATask
<1>1. Init => PopsATask
  BY ThreadAssumption DEF Init, PopsATask, Thread
<1>. QED
  BY <1>1, Locked, NextPops, PTL DEF Spec

-----------------------------------------------------------------------------
(***************************************************************************)
(* The pool implements SerialExecutor: a step of the pool accepts, starts  *)
(* or finishes one task, or changes nothing that the executor knows of.    *)
(***************************************************************************)
LEMMA RunningOne ==
  ASSUME Typed, LockInv, NEW w \in Workers, pc[w] = "run"
  PROVE  Running = {job[w]}
BY DEF Typed, TypeOK, LockInv, Holding, Running

LEMMA RunningNone ==
  ASSUME Typed, LockInv, \A w \in Workers : pc[w] # "run"
  PROVE  Running = {}
BY DEF Running

LEMMA RunningSame ==
  ASSUME \A w \in Workers : pc'[w] = "run" <=> pc[w] = "run",
         \A w \in Workers : pc[w] = "run" => job'[w] = job[w]
  PROVE  Running' = Running
BY DEF Running

LEMMA StepImplements ==
  Typed /\ LockInv /\ PopsATask /\ [Next]_vars => [Promise!Next]_Promise!vars
<1> SUFFICES ASSUME Typed, LockInv, PopsATask, [Next]_vars
             PROVE  [Promise!Next]_Promise!vars
  OBVIOUS
<1> DEFINE Same == UNCHANGED <<tasks, accepted, finished>>
           Quiet == /\ \A w \in Workers : pc'[w] = "run" <=> pc[w] = "run"
                    /\ \A w \in Workers : pc[w] = "run" => job'[w] = job[w]
<1>0. ASSUME Same, Quiet
      PROVE  UNCHANGED Promise!vars
  BY <1>0, RunningSame DEF Promise!vars
<1> USE ThreadAssumption
        DEF Typed, TypeOK, LockInv, Holding, Thread, flags, history, Goto
<1>1. ASSUME NEW w \in Workers, Worker(w)
      PROVE  [Promise!Next]_Promise!vars
  <2>1. CASE Loop(w)
    BY <2>1, <1>0 DEF Loop
  <2>2. CASE Lock(w)
    BY <2>2, <1>0 DEF Lock
  <2>3. CASE Test(w)
    BY <2>3, <1>0 DEF Test
  <2>4. CASE Block(w)
    BY <2>4, <1>0 DEF Block
  <2>5. CASE Break(w)
    BY <2>5, <1>0 DEF Break
  <2>6. CASE Pop(w)
    <3>1. Running = {}
      BY <2>6, RunningNone DEF Pop
    <3>2. \A v \in Workers : pc'[v] = "run" <=> v = w
      BY <2>6 DEF Pop
    <3>3. job'[w] = Head(tasks)
      BY <2>6 DEF Pop
    <3>4. Running' = {Head(tasks)}
      BY <3>2, <3>3 DEF Running
    <3>5. Promise!Start
      BY <2>6, <3>1, <3>4 DEF Pop, Promise!Start
    <3>. QED
      BY <3>5 DEF Promise!Next
  <2>7. CASE Finish(w)
    <3>1. Running = {job[w]}
      BY <2>7, RunningOne DEF Finish
    <3>2. \A v \in Workers : pc'[v] # "run"
      <4>1. CASE NotifyWaiter
        BY <2>7, <4>1 DEF Finish, AsleepOn, Awoken
      <4>2. CASE ~NotifyWaiter
        BY <2>7, <4>2 DEF Finish
      <4>. QED
        BY <4>1, <4>2
    <3>3. Running' = {}
      BY <3>2 DEF Running
    <3>4. job[w] \in Task
      BY <2>7 DEF Finish, HasJob
    <3>5. Promise!Finish(job[w])
      BY <2>7, <3>1, <3>3 DEF Finish, Promise!Finish
    <3>. QED
      BY <3>4, <3>5 DEF Promise!Next
  <2>. QED
    BY <1>1, <2>1, <2>2, <2>3, <2>4, <2>5, <2>6, <2>7 DEF Worker
<1>2. ASSUME NEW s \in Submitters, Submit(s)
      PROVE  [Promise!Next]_Promise!vars
  <2>1. ASSUME NEW t \in Task, Offer(s, t)
        PROVE  [Promise!Next]_Promise!vars
    BY <2>1, <1>0 DEF Offer
  <2>2. CASE Enqueue(s)
    <3>1. Quiet
      BY <2>2 DEF Enqueue
    <3>2. CASE Overflow
      BY <2>2, <3>1, <3>2, <1>0 DEF Enqueue
    <3>3. CASE ~Overflow
      <4>1. job[s] \in Task
        BY <2>2 DEF Enqueue, HasJob
      <4>2. Running' = Running
        BY <3>1, RunningSame
      <4>3. Promise!Accept(job[s])
        BY <2>2, <3>3, <4>2 DEF Enqueue, Promise!Accept
      <4>. QED
        BY <4>1, <4>3 DEF Promise!Next
    <3>. QED
      BY <3>2, <3>3
  <2>3. CASE NotifyOne(s)
    BY <2>3, <1>0 DEF NotifyOne, AsleepOn, Awoken
  <2>. QED
    BY <1>2, <2>1, <2>2, <2>3 DEF Submit
<1>3. ASSUME NEW a \in Waiters, WaitforAllTasks(a)
      PROVE  [Promise!Next]_Promise!vars
  BY <1>3, <1>0 DEF WaitforAllTasks, StartWaiting, WaitTest, StopWaiting
<1>4. ASSUME NEW c \in Closers, Close(c)
      PROVE  [Promise!Next]_Promise!vars
  <2>1. CASE NotifyAll(c)
    BY <2>1, <1>0 DEF NotifyAll, AsleepOn, Awoken
  <2>. QED
    BY <1>4, <2>1, <1>0 DEF Close, Stop, Join
<1>5. ASSUME NEW t \in Spurious, SpuriousWake(t)
      PROVE  [Promise!Next]_Promise!vars
  BY <1>5, <1>0 DEF SpuriousWake, Awoken
<1>6. ASSUME NEW n \in Limits, SetMaxTaskNum(n)
      PROVE  [Promise!Next]_Promise!vars
  BY <1>6, <1>0 DEF SetMaxTaskNum
<1>7. CASE UNCHANGED vars
  BY <1>7, <1>0 DEF vars
<1>. QED
  BY <1>1, <1>2, <1>3, <1>4, <1>5, <1>6, <1>7 DEF Next

\* Whatever the threads do, tasks are run in the order in which they were
\* accepted, one at a time, none lost and none twice.
THEOREM Implements == Spec => SerialInOrder
<1>1. Init => Promise!Init
  <2>1. Init => Running = {}
    BY ThreadAssumption DEF Init, Running, Thread
  <2>. QED
    BY <2>1 DEF Init, Promise!Init
<1>. QED
  BY <1>1, Locked, PopSafe, StepImplements, PTL
     DEF Spec, SerialInOrder, Promise!Spec

-----------------------------------------------------------------------------
(***************************************************************************)
(* What waitforAllTasks() waits for.  A task that was accepted is in the   *)
(* queue, running or finished; that is kept by every step of the abstract  *)
(* executor, so by every step of the pool.                                 *)
(***************************************************************************)
Queued == {tasks[i] : i \in 1 .. Len(tasks)}
Accounted == accepted = finished \cup Queued \cup Running

LEMMA NextAccounted ==
  ASSUME Typed, Accounted, [Promise!Next]_Promise!vars
  PROVE  Accounted'
<1> USE DEF Accounted, Typed, TypeOK
<1>1. ASSUME NEW t \in Task, Promise!Accept(t)
      PROVE  Accounted'
  <2>1. /\ Len(tasks') = Len(tasks) + 1
        /\ \A i \in 1 .. Len(tasks) : tasks'[i] = tasks[i]
        /\ tasks'[Len(tasks) + 1] = t
    BY <1>1, AppendProperties DEF Promise!Accept
  <2>2. Len(tasks) \in Nat
    BY LenProperties
  <2>3. Queued' = Queued \cup {t}
    BY <2>1, <2>2 DEF Queued
  <2>. QED
    BY <1>1, <2>3 DEF Promise!Accept
<1>2. CASE Promise!Start
  <2>1. /\ tasks # <<>>
        /\ tasks' = Tail(tasks)
        /\ Running = {} /\ Running' = {Head(tasks)}
        /\ UNCHANGED <<accepted, finished>>
    BY <1>2 DEF Promise!Start
  <2>2. /\ Len(tasks) \in Nat \ {0}
        /\ Len(tasks') = Len(tasks) - 1
        /\ \A i \in 1 .. Len(tasks') : tasks'[i] = tasks[i + 1]
        /\ Head(tasks) = tasks[1]
    BY <2>1, EmptySeq, HeadTailProperties
  <2>3. Queued \subseteq {Head(tasks)} \cup Queued'
    <3>1. ASSUME NEW i \in 1 .. Len(tasks), i # 1
          PROVE  i - 1 \in 1 .. Len(tasks') /\ tasks[i] = tasks'[i - 1]
      BY <2>2, <3>1
    <3>. QED
      BY <2>2, <3>1 DEF Queued
  <2>4. Queued' \subseteq Queued /\ Head(tasks) \in Queued
    BY <2>2 DEF Queued
  <2>. QED
    BY <2>1, <2>3, <2>4
<1>3. ASSUME NEW t \in Task, Promise!Finish(t)
      PROVE  Accounted'
  BY <1>3 DEF Promise!Finish, Queued
<1>4. CASE UNCHANGED Promise!vars
  BY <1>4 DEF Promise!vars, Queued
<1>. QED
  BY <1>1, <1>2, <1>3, <1>4 DEF Promise!Next

LEMMA StepWaits ==
  ASSUME Typed, LockInv, Accounted, [Next]_vars,
         NEW a \in Waiters, pc[a] = "wait", pc'[a] = "clear"
  PROVE  accepted = finished
<1> USE ThreadAssumption DEF Typed, TypeOK, Thread, Goto
<1>1. WaitTest(a)
  <2>1. ASSUME NEW w \in Workers, Worker(w)
        PROVE  FALSE
    <3>1. CASE Finish(w) /\ NotifyWaiter
      BY <3>1 DEF Finish, AsleepOn, Awoken
    <3>. QED
      BY <2>1, <3>1 DEF Worker, Loop, Lock, Test, Block, Break, Pop, Finish
  <2>2. ASSUME NEW s \in Submitters, Submit(s)
        PROVE  FALSE
    BY <2>2 DEF Submit, Offer, Enqueue, NotifyOne, AsleepOn, Awoken
  <2>3. ASSUME NEW b \in Waiters, WaitforAllTasks(b)
        PROVE  WaitTest(a)
    BY <2>3 DEF WaitforAllTasks, StartWaiting, WaitTest, StopWaiting
  <2>4. ASSUME NEW c \in Closers, Close(c)
        PROVE  FALSE
    BY <2>4 DEF Close, Stop, NotifyAll, Join, AsleepOn, Awoken
  <2>5. ASSUME NEW t \in Spurious, SpuriousWake(t)
        PROVE  FALSE
    BY <2>5 DEF SpuriousWake, Awoken
  <2>6. ASSUME NEW n \in Limits, SetMaxTaskNum(n)
        PROVE  FALSE
    BY <2>6 DEF SetMaxTaskNum
  <2>7. CASE UNCHANGED vars
    BY <2>7 DEF vars
  <2>. QED
    BY <2>1, <2>2, <2>3, <2>4, <2>5, <2>6, <2>7 DEF Next
<1>2. tasks = <<>> /\ shared_lock = NoThread
  BY <1>1 DEF WaitTest
<1>3. Running = {}
  BY <1>2, RunningNone DEF LockInv, Holding
<1>4. Queued = {}
  BY <1>2 DEF Queued
<1>. QED
  BY <1>3, <1>4 DEF Accounted

\* When waitforAllTasks() leaves its wait, every task accepted so far has
\* returned, because no worker gives up the mutex in the middle of a task.
THEOREM WaitSound == Spec => WaitMeansDone
<1>1. Init => Accounted
  <2>1. Init => Running = {}
    BY ThreadAssumption DEF Init, Running, Thread
  <2>. QED
    BY <2>1 DEF Init, Accounted, Queued
<1>2. Typed /\ LockInv /\ PopsATask /\ Accounted /\ [Next]_vars => Accounted'
  BY StepImplements, NextAccounted
<1>3. Typed /\ LockInv /\ Accounted /\ [Next]_vars
        => [\A a \in Waiters : pc[a] = "wait" /\ pc'[a] = "clear"
                                  => accepted = finished]_vars
  BY StepWaits
<1>. QED
  BY <1>1, <1>2, <1>3, Locked, PopSafe, PTL DEF Spec, WaitMeansDone

-----------------------------------------------------------------------------
(* The queue and its limit.                                                *)

LEMMA NextBounded == Typed /\ QueueBounded /\ [Next]_vars => QueueBounded'
<1> SUFFICES ASSUME Typed, QueueBounded, [Next]_vars
             PROVE  QueueBounded'
  OBVIOUS
<1> USE TaskAssumption DEF Typed, TypeOK, QueueBounded, flags
<1>1. ASSUME NEW w \in Workers, Pop(w)
      PROVE  QueueBounded'
  BY <1>1, HeadTailProperties DEF Pop
<1>2. ASSUME NEW s \in Submitters, Enqueue(s)
      PROVE  QueueBounded'
  <2>1. CASE Overflow
    BY <1>2, <2>1 DEF Enqueue
  <2>2. CASE ~Overflow
    <3>1. tasks' = Append(tasks, job[s]) /\ job[s] \in Task
      BY <1>2, <2>2 DEF Enqueue, HasJob
    <3>2. Len(tasks') = Len(tasks) + 1 /\ Len(tasks) \in Nat
      BY <3>1, AppendProperties, LenProperties
    <3>. QED
      BY <2>2, <3>2 DEF Overflow
  <2>. QED
    BY <2>1, <2>2
<1>3. ASSUME UNCHANGED tasks
      PROVE  QueueBounded'
  BY <1>3
<1>. QED
  BY <1>1, <1>2, <1>3
     DEF Next, vars, Worker, Loop, Lock, Test, Block, Break, Finish, Submit, Offer,
         NotifyOne, WaitforAllTasks, StartWaiting, WaitTest, StopWaiting, Close,
         Stop, NotifyAll, Join, SpuriousWake, SetMaxTaskNum

\* Two submitters never overfill the queue together, whatever setMaxTaskNum() sets.
THEOREM Bounded == Spec => []QueueBounded
<1>1. Init => QueueBounded
  BY TaskAssumption, EmptySeq DEF Init, QueueBounded
<1>. QED
  BY <1>1, InitTyped, NextTyped, NextBounded, PTL DEF Spec
-----------------------------------------------------------------------------
(***************************************************************************)
(* No wake-up is lost: what EveryTaskRuns and WaitReturns need besides     *)
(* fairness.  A worker that is about to block has seen an empty queue      *)
(* under the mutex, so a task that comes later is notified of later.       *)
(***************************************************************************)
\* The labels of a worker that will look at the queue before it blocks.
Up == {"loop", "lock", "test", "pop", "run"}

\* A queued task has a worker that will come to it, or a submitter that will wake one.
Minded == tasks # <<>> /\ ~ Closed => \/ \E w \in Workers : pc[w] \in Up
                                      \/ \E s \in Submitters : pc[s] = "notify"

\* A thread that sleeps in waitforAllTasks() will be notified, after a task that is still to end.
Remembered == \A a \in Waiters : pc[a] = "asleep" => waiting /\ (tasks # <<>> \/ Running # {})

\* No worker blocks with a task in the queue.
Blocking == \A w \in Workers : pc[w] = "block" => tasks = <<>>

\* No worker exits before close().
Working == ~ Closed => ~ stop /\ \A w \in Workers : pc[w] # "exited"

LEMMA NextBlocking == Typed /\ LockInv /\ Blocking /\ [Next]_vars => Blocking'
<1> SUFFICES ASSUME Typed, LockInv, Blocking, [Next]_vars, NEW v \in Workers, pc'[v] = "block"
             PROVE  tasks' = <<>>
  BY DEF Blocking
<1> USE ThreadAssumption DEF Typed, TypeOK, Thread, flags, history, Goto
<1>1. ASSUME NEW w \in Workers, Worker(w)
      PROVE  tasks' = <<>>
  <2>1. CASE Test(w)
    BY <2>1 DEF Test, Blocking
  <2>2. CASE Pop(w)
    <3>1. v = w
      BY <2>2 DEF Pop, LockInv, Holding
    <3>2. QED
      BY <2>2, <3>1 DEF Pop
  <2>3. CASE Finish(w)
    <3>1. tasks' = tasks /\ pc[v] = "block"
      BY <2>3 DEF Finish, NotifyWaiter, AsleepOn, Awoken
    <3>2. QED
      BY <3>1 DEF Blocking
  <2>4. CASE Loop(w) \/ Lock(w) \/ Block(w) \/ Break(w)
    BY <2>4 DEF Loop, Lock, Block, Break, Blocking
  <2>5. QED
    BY <1>1, <2>1, <2>2, <2>3, <2>4 DEF Worker
<1>2. ASSUME NEW s \in Submitters, Submit(s)
      PROVE  tasks' = <<>>
  <2>1. pc[v] = "block"
    BY <1>2 DEF Submit, Offer, Enqueue, NotifyOne, AsleepOn, Awoken
  <2>2. ~ Enqueue(s)
    BY <2>1 DEF Enqueue, LockInv, Holding
  <2>3. QED
    BY <1>2, <2>1, <2>2 DEF Submit, Offer, NotifyOne, Blocking
<1>3. ASSUME NEW a \in Waiters, WaitforAllTasks(a)
      PROVE  tasks' = <<>>
  BY <1>3 DEF WaitforAllTasks, StartWaiting, WaitTest, StopWaiting, Blocking
<1>4. ASSUME NEW c \in Closers, Close(c)
      PROVE  tasks' = <<>>
  BY <1>4 DEF Close, Stop, NotifyAll, Join, AsleepOn, Awoken, Blocking
<1>5. ASSUME NEW t \in Spurious, SpuriousWake(t)
      PROVE  tasks' = <<>>
  BY <1>5 DEF SpuriousWake, Awoken, Blocking
<1>6. ASSUME NEW n \in Limits, SetMaxTaskNum(n)
      PROVE  tasks' = <<>>
  BY <1>6 DEF SetMaxTaskNum, Blocking
<1>7. CASE UNCHANGED vars
  BY <1>7 DEF vars, Blocking
<1>8. QED
  BY <1>1, <1>2, <1>3, <1>4, <1>5, <1>6, <1>7 DEF Next

\* Who closes the pool never opens it again.
LEMMA StaysClosed ==
  ASSUME Typed, [Next]_vars, Closed
  PROVE  Closed'
<1> USE ThreadAssumption DEF Typed, TypeOK, Thread, flags, history, Goto
<1>1. PICK c \in Closers : pc[c] # "idle"
  BY DEF Closed
<1>2. ASSUME NEW w \in Workers, Worker(w)
      PROVE  pc'[c] = pc[c]
  <2>1. CASE Finish(w)
    BY <2>1 DEF Finish, NotifyWaiter, AsleepOn, Awoken
  <2>2. QED
    BY <1>2, <2>1 DEF Worker, Loop, Lock, Test, Block, Break, Pop
<1>3. ASSUME NEW s \in Submitters, Submit(s)
      PROVE  pc'[c] = pc[c]
  BY <1>3 DEF Submit, Offer, Enqueue, NotifyOne, AsleepOn, Awoken
<1>4. ASSUME NEW a \in Waiters, WaitforAllTasks(a)
      PROVE  pc'[c] = pc[c]
  BY <1>4 DEF WaitforAllTasks, StartWaiting, WaitTest, StopWaiting
<1>5. ASSUME NEW d \in Closers, Close(d)
      PROVE  pc'[c] # "idle"
  BY <1>1, <1>5 DEF Close, Stop, NotifyAll, Join, AsleepOn, Awoken
<1>6. ASSUME NEW t \in Spurious, SpuriousWake(t)
      PROVE  pc'[c] = pc[c]
  BY <1>6 DEF SpuriousWake, Awoken
<1>7. ASSUME NEW n \in Limits, SetMaxTaskNum(n)
      PROVE  pc'[c] = pc[c]
  BY <1>7 DEF SetMaxTaskNum
<1>8. CASE UNCHANGED vars
  BY <1>1, <1>8 DEF vars, Closed
<1>9. pc'[c] # "idle"
  BY <1>1, <1>2, <1>3, <1>4, <1>5, <1>6, <1>7, <1>8 DEF Next, vars
<1>10. QED
  BY <1>9 DEF Closed

LEMMA NextWorking == Typed /\ Working /\ [Next]_vars => Working'
<1> SUFFICES ASSUME Typed, Working, [Next]_vars, ~ Closed'
             PROVE  ~ stop' /\ \A w \in Workers : pc'[w] # "exited"
  BY DEF Working
<1>1. ~ Closed /\ ~ stop /\ \A w \in Workers : pc[w] # "exited"
  BY StaysClosed DEF Working
<1> USE ThreadAssumption DEF Typed, TypeOK, Thread, flags, history, Goto
<1>2. ASSUME NEW w \in Workers, Worker(w)
      PROVE  ~ stop' /\ \A v \in Workers : pc'[v] # "exited"
  <2>1. CASE Finish(w)
    BY <1>1, <2>1 DEF Finish, NotifyWaiter, AsleepOn, Awoken
  <2>2. QED
    BY <1>1, <1>2, <2>1 DEF Worker, Loop, Lock, Test, Block, Break, Pop
<1>3. ASSUME NEW s \in Submitters, Submit(s)
      PROVE  ~ stop' /\ \A v \in Workers : pc'[v] # "exited"
  BY <1>1, <1>3 DEF Submit, Offer, Enqueue, NotifyOne, AsleepOn, Awoken
<1>4. ASSUME NEW a \in Waiters, WaitforAllTasks(a)
      PROVE  ~ stop' /\ \A v \in Workers : pc'[v] # "exited"
  BY <1>1, <1>4 DEF WaitforAllTasks, StartWaiting, WaitTest, StopWaiting
<1>5. ASSUME NEW c \in Closers, Close(c)
      PROVE  FALSE
  <2>1. pc'[c] # "idle"
    BY <1>5 DEF Close, Stop, NotifyAll, Join
  <2>2. QED
    BY <2>1 DEF Closed
<1>6. ASSUME NEW t \in Spurious, SpuriousWake(t)
      PROVE  ~ stop' /\ \A v \in Workers : pc'[v] # "exited"
  BY <1>1, <1>6 DEF SpuriousWake, Awoken
<1>7. ASSUME NEW n \in Limits, SetMaxTaskNum(n)
      PROVE  ~ stop' /\ \A v \in Workers : pc'[v] # "exited"
  BY <1>1, <1>7 DEF SetMaxTaskNum
<1>8. CASE UNCHANGED vars
  BY <1>1, <1>8 DEF vars
<1>9. QED
  BY <1>2, <1>3, <1>4, <1>5, <1>6, <1>7, <1>8 DEF Next

LEMMA NextMinded ==
  ASSUME Typed, Blocking, Working, Minded, [Next]_vars, Workers # {}
  PROVE  Minded'
<1> DEFINE Goal == \/ \E w \in Workers : pc'[w] \in Up
                   \/ \E s \in Submitters : pc'[s] = "notify"
<1> SUFFICES ASSUME tasks' # <<>>, ~ Closed'
             PROVE  Goal
  BY DEF Minded
<1>1. ~ Closed /\ ~ stop /\ \A w \in Workers : pc[w] # "exited"
  BY StaysClosed DEF Working
<1> USE ThreadAssumption DEF Typed, TypeOK, Thread, flags, history, Goto
<1>2. ASSUME NEW w \in Workers, Worker(w)
      PROVE  pc'[w] \in Up
  <2>1. CASE Loop(w) \/ Lock(w)
    BY <1>1, <2>1 DEF Loop, Lock, Up
  <2>2. CASE Test(w)
    BY <2>2 DEF Test, Up
  <2>3. CASE Block(w) \/ Break(w)
    BY <1>1, <2>3 DEF Block, Break, Blocking
  <2>4. CASE Pop(w)
    BY <2>4 DEF Pop, Up
  <2>5. CASE Finish(w)
    BY <2>5 DEF Finish, NotifyWaiter, AsleepOn, Awoken, Up
  <2>6. QED
    BY <1>2, <2>1, <2>2, <2>3, <2>4, <2>5 DEF Worker
<1>3. ASSUME tasks' = tasks,
             \A w \in Workers : pc'[w] = pc[w] \/ pc'[w] \in Up,
             \A s \in Submitters : pc[s] = "notify" => pc'[s] = "notify"
      PROVE  Goal
  BY <1>1, <1>3 DEF Minded
<1>4. ASSUME NEW s \in Submitters, Submit(s)
      PROVE  Goal
  <2>1. ASSUME NEW t \in Task, Offer(s, t)
        PROVE  Goal
    BY <1>3, <2>1 DEF Offer
  <2>2. CASE Enqueue(s) /\ Overflow
    BY <1>3, <2>2 DEF Enqueue
  <2>3. CASE Enqueue(s) /\ ~ Overflow
    BY <2>3 DEF Enqueue
  <2>4. CASE NotifyOne(s) /\ AsleepOn(Workers) # {}
    BY <2>4 DEF NotifyOne, AsleepOn, Awoken, Up
  <2>5. CASE NotifyOne(s) /\ AsleepOn(Workers) = {}
    <3>1. PICK w \in Workers : TRUE
      OBVIOUS
    <3>2. tasks # <<>> /\ pc'[w] = pc[w]
      BY <2>5 DEF NotifyOne
    <3>3. pc[w] # "asleep" /\ pc[w] # "block" /\ pc[w] # "exited"
      BY <1>1, <2>5, <3>2 DEF AsleepOn, Blocking
    <3>4. pc[w] \in Up
      BY <3>3 DEF WorkerPC, Up
    <3>5. QED
      BY <3>2, <3>4
  <2>6. QED
    BY <1>4, <2>1, <2>2, <2>3, <2>4, <2>5 DEF Submit
<1>5. ASSUME NEW a \in Waiters, WaitforAllTasks(a)
      PROVE  Goal
  BY <1>3, <1>5 DEF WaitforAllTasks, StartWaiting, WaitTest, StopWaiting
<1>6. ASSUME NEW c \in Closers, Close(c)
      PROVE  FALSE
  <2>1. pc'[c] # "idle"
    BY <1>6 DEF Close, Stop, NotifyAll, Join
  <2>2. QED
    BY <2>1 DEF Closed
<1>7. ASSUME NEW t \in Spurious, SpuriousWake(t)
      PROVE  Goal
  <2>1. /\ tasks' = tasks
        /\ \A w \in Workers : pc'[w] = pc[w] \/ pc'[w] \in Up
        /\ \A s \in Submitters : pc[s] = "notify" => pc'[s] = "notify"
    BY <1>7 DEF SpuriousWake, Awoken, Up
  <2>2. QED
    BY <1>3, <2>1
<1>8. ASSUME NEW n \in Limits, SetMaxTaskNum(n)
      PROVE  Goal
  BY <1>3, <1>8 DEF SetMaxTaskNum
<1>9. CASE UNCHANGED vars
  BY <1>3, <1>9 DEF vars
<1>10. QED
  BY <1>2, <1>4, <1>5, <1>6, <1>7, <1>8, <1>9 DEF Next

\* While the pool is open and a task is queued, a worker is awake or a submitter is about to
\* wake one: execute() notifies after it has released the mutex, and no worker blocks between
\* its look at the queue and that.
THEOREM NoTaskForgotten ==
  ASSUME Workers # {}
  PROVE  Spec => []Minded
<1>1. Init => Blocking /\ Working /\ Minded
  BY ThreadAssumption DEF Init, Blocking, Working, Minded, Closed, Thread
<1>2. Typed /\ LockInv /\ Blocking /\ Working /\ Minded /\ [Next]_vars
         => (Blocking /\ Working /\ Minded)'
  BY NextBlocking, NextWorking, NextMinded
<1>3. QED
  BY <1>1, <1>2, Locked, PTL DEF Spec

\* At most one thread is in waitforAllTasks(), and it has set the flag.
Waited == \A a \in Waiters : pc[a] \in {"wait", "asleep", "clear"} => waiting

LEMMA NextRemembered ==
  ASSUME Typed, Waited, Remembered, [Next]_vars, \A a, b \in Waiters : a = b
  PROVE  Waited' /\ Remembered'
<1> USE ThreadAssumption DEF Typed, TypeOK, Thread, flags, history, Goto
<1> DEFINE Busy == \E w \in Workers : pc[w] = "run"
           Sound(a) == /\ pc'[a] \in {"wait", "asleep", "clear"} => waiting'
                       /\ pc'[a] = "asleep" => tasks' # <<>> \/ Busy'
<1>1. Running # {} <=> Busy
  BY DEF Running
<1>2. (Running # {})' <=> Busy'
  BY DEF Running
<1> SUFFICES ASSUME NEW a \in Waiters
             PROVE  Sound(a)
  BY <1>2 DEF Waited, Remembered
<1>3. /\ pc[a] \in {"wait", "asleep", "clear"} => waiting
      /\ pc[a] = "asleep" => tasks # <<>> \/ Busy
  BY <1>1 DEF Waited, Remembered
<1>4. ASSUME pc'[a] = pc[a], waiting' = waiting, tasks # <<>> => tasks' # <<>>,
             \A w \in Workers : pc[w] = "run" => pc'[w] = "run"
      PROVE  Sound(a)
  BY <1>3, <1>4
<1>5. ASSUME NEW w \in Workers, Worker(w)
      PROVE  Sound(a)
  <2>1. CASE Pop(w)
    BY <1>3, <2>1 DEF Pop
  <2>2. CASE Finish(w)
    <3>1. pc'[a] # "asleep"
      BY <1>3, <2>2 DEF Finish, NotifyWaiter, AsleepOn, Awoken
    <3>2. waiting' = waiting /\ (pc'[a] = pc[a] \/ pc[a] = "asleep")
      BY <2>2 DEF Finish, NotifyWaiter, AsleepOn, Awoken
    <3>3. QED
      BY <1>3, <3>1, <3>2
  <2>3. CASE Loop(w) \/ Lock(w) \/ Test(w) \/ Block(w) \/ Break(w)
    BY <1>4, <2>3 DEF Loop, Lock, Test, Block, Break
  <2>4. QED
    BY <1>5, <2>1, <2>2, <2>3 DEF Worker
<1>6. ASSUME NEW s \in Submitters, Submit(s)
      PROVE  Sound(a)
  <2>1. ASSUME NEW t \in Task, Offer(s, t)
        PROVE  Sound(a)
    BY <1>4, <2>1 DEF Offer
  <2>2. CASE Enqueue(s)
    <3>1. tasks # <<>> => tasks' # <<>>
      <4>1. CASE Overflow
        BY <2>2, <4>1 DEF Enqueue
      <4>2. CASE ~ Overflow
        <5>1. tasks' = Append(tasks, job[s]) /\ job[s] \in Task
          BY <2>2, <4>2 DEF Enqueue, HasJob
        <5>2. QED
          BY <5>1, AppendProperties
      <4>3. QED
        BY <4>1, <4>2
    <3>2. /\ pc'[a] = pc[a] /\ waiting' = waiting
          /\ \A w \in Workers : pc[w] = "run" => pc'[w] = "run"
      BY <2>2 DEF Enqueue
    <3>3. QED
      BY <1>4, <3>1, <3>2
  <2>3. CASE NotifyOne(s)
    BY <1>4, <2>3 DEF NotifyOne, AsleepOn, Awoken
  <2>4. QED
    BY <1>6, <2>1, <2>2, <2>3 DEF Submit
<1>7. ASSUME NEW b \in Waiters, WaitforAllTasks(b)
      PROVE  Sound(a)
  <2>1. a = b
    OBVIOUS
  <2>2. QED
    BY <1>3, <1>7, <2>1 DEF WaitforAllTasks, StartWaiting, WaitTest, StopWaiting
<1>8. ASSUME NEW c \in Closers, Close(c)
      PROVE  Sound(a)
  BY <1>4, <1>8 DEF Close, Stop, NotifyAll, Join, AsleepOn, Awoken
<1>9. ASSUME NEW t \in Spurious, SpuriousWake(t)
      PROVE  Sound(a)
  <2>1. CASE t = a
    BY <1>3, <1>9, <2>1 DEF SpuriousWake, Awoken
  <2>2. CASE t # a
    BY <1>4, <1>9, <2>2 DEF SpuriousWake
  <2>3. QED
    BY <2>1, <2>2
<1>10. ASSUME NEW n \in Limits, SetMaxTaskNum(n)
       PROVE  Sound(a)
  BY <1>4, <1>10 DEF SetMaxTaskNum
<1>11. CASE UNCHANGED vars
  BY <1>4, <1>11 DEF vars
<1>12. QED
  BY <1>5, <1>6, <1>7, <1>8, <1>9, <1>10, <1>11 DEF Next

\* A thread that sleeps in waitforAllTasks() is one for whom a task is queued or running and
\* the flag is set, so the end of that task wakes it; two such threads would take the one
\* notification from one another.
THEOREM NoWaiterForgotten ==
  ASSUME \A a, b \in Waiters : a = b
  PROVE  Spec => []Remembered
<1>1. Init => Waited /\ Remembered
  BY ThreadAssumption DEF Init, Waited, Remembered, Thread
<1>2. Typed /\ Waited /\ Remembered /\ [Next]_vars => (Waited /\ Remembered)'
  BY NextRemembered
<1>3. QED
  BY <1>1, <1>2, InitTyped, NextTyped, PTL DEF Spec
=============================================================================
