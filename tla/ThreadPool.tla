----------------------------- MODULE ThreadPool -----------------------------
(***************************************************************************)
(* gchipe::DynamicThreadPool: one mutex (shared_lock), a queue of tasks,   *)
(* two condition variables and two atomic flags, stop and waiting, that    *)
(* are read and written without the mutex.                                 *)
(*                                                                         *)
(* Every step is what a thread does between two points where another       *)
(* thread can be seen.  Code that only touches what shared_lock protects   *)
(* is one step with the acquisition; the predicate of wait_cv.wait and the *)
(* blocking that follows it are two steps, because close() sets stop and   *)
(* notifies without the lock and may run in between.                       *)
(***************************************************************************)
EXTENDS Naturals, Sequences

CONSTANTS
    Workers,        \* the threads the constructor starts
    Submitters,     \* threads that call execute() or submit()
    Waiters,        \* threads that call waitforAllTasks()
    Closers,        \* the thread, if any, that calls close()
    Task,           \* the tasks submitted, each at most once
    MaxTaskNum,     \* max_task_num as initialised
    Limits,         \* the values setMaxTaskNum may be called with
    Spurious,       \* threads whose wait may return without a notification
    NoThread,       \* shared_lock is free
    NoTask          \* the thread has no task in hand

ASSUME ThreadAssumption ==
    /\ Workers \cap Submitters = {} /\ Workers \cap Waiters = {}
    /\ Workers \cap Closers = {}    /\ Submitters \cap Waiters = {}
    /\ Submitters \cap Closers = {} /\ Waiters \cap Closers = {}
    /\ NoThread \notin Workers
    /\ Spurious \subseteq Workers \cup Waiters
    \* the destructor, the only caller of close(), runs once
    /\ \A a, b \in Closers : a = b

ASSUME TaskAssumption ==
    /\ NoTask \notin Task
    /\ MaxTaskNum \in Limits
    /\ Limits \subseteq Nat

VARIABLES
    tasks,          \* std::queue<HipeTask>
    shared_lock,    \* the worker that holds the mutex between two steps
    stop, waiting,  \* the atomics
    max_task_num,
    pc,             \* where each thread is
    job,            \* the task a worker runs, or a submitter is handing over
    offered,        \* tasks execute() has been called with
    accepted,       \* tasks that entered the queue
    finished        \* tasks whose invocation has returned

flags   == <<stop, waiting, max_task_num>>
history == <<offered, accepted, finished>>
vars    == <<tasks, shared_lock, flags, pc, job, history>>

Thread  == Workers \cup Submitters \cup Waiters \cup Closers
WorkerPC == {"loop", "lock", "test", "block", "asleep", "pop", "run", "exited"}
PC == WorkerPC \cup {"idle", "enqueue", "notify", "wait", "clear", "join", "closed"}

\* A worker at one of these has the unique_lock of worker() engaged.
Holding == {"test", "block", "pop", "run"}

Goto(t, label) == pc' = [pc EXCEPT ![t] = label]

(***************************************************************************)
(* notify_one wakes some thread of those asleep, if there is one; what it  *)
(* wakes still has to take the mutex.  Workers sleep on wait_cv, threads   *)
(* in waitforAllTasks on task_done_cv.                                     *)
(***************************************************************************)
AsleepOn(cv) == {t \in cv : pc[t] = "asleep"}
Awoken_WrongQueue(t) == "wait"
Awoken(t) == IF t \in Workers THEN "lock" ELSE "wait"

Init == /\ tasks = <<>>
        /\ shared_lock = NoThread
        /\ stop = FALSE
        /\ waiting = FALSE
        /\ max_task_num = MaxTaskNum
        /\ pc = [t \in Thread |-> IF t \in Workers THEN "loop" ELSE "idle"]
        /\ job = [t \in Workers \cup Submitters |-> NoTask]
        /\ offered = {}
        /\ accepted = {}
        /\ finished = {}

-----------------------------------------------------------------------------
(* worker(), line by line.                                                 *)

\* while(!stop), read without the mutex.
Loop(w) == /\ pc[w] = "loop"
           /\ Goto(w, IF stop THEN "exited" ELSE "lock")
           /\ UNCHANGED <<tasks, shared_lock, flags, job, history>>

\* unique_lock at the top of the loop, or the relock of a wait that returns.
Lock(w) == /\ pc[w] = "lock"
           /\ shared_lock = NoThread
           /\ shared_lock' = w
           /\ Goto(w, "test")
           /\ UNCHANGED <<tasks, flags, job, history>>

\* The predicate of wait_cv.wait.
Test(w) == /\ pc[w] = "test"
           /\ Goto(w, IF tasks # <<>> \/ stop THEN "pop" ELSE "block")
           /\ UNCHANGED <<tasks, shared_lock, flags, job, history>>

\* wait_cv releases the mutex and blocks, atomically.
Block(w) == /\ pc[w] = "block"
            /\ shared_lock' = NoThread
            /\ Goto(w, "asleep")
            /\ UNCHANGED <<tasks, flags, job, history>>

\* if(stop) break; the mutex is released on the way out.
Break(w) == /\ pc[w] = "pop"
            /\ stop
            /\ shared_lock' = NoThread
            /\ Goto(w, "exited")
            /\ UNCHANGED <<tasks, flags, job, history>>

Pop_Unlocking(w) ==
    /\ pc[w] = "pop" /\ ~stop /\ tasks # <<>>
    /\ job' = [job EXCEPT ![w] = Head(tasks)]
    /\ tasks' = Tail(tasks)
    /\ shared_lock' = NoThread
    /\ Goto(w, "run")
    /\ UNCHANGED <<flags, history>>

\* Take the front of the queue and start to invoke it, lock in hand.  The code
\* does not test for an empty queue here: PopsATask says it need not.
Pop(w) == /\ pc[w] = "pop"
          /\ ~stop
          /\ tasks # <<>>
          /\ job' = [job EXCEPT ![w] = Head(tasks)]
          /\ tasks' = Tail(tasks)
          /\ Goto(w, "run")
          /\ UNCHANGED <<shared_lock, flags, history>>

NotifyWaiter_Never == FALSE
NotifyWaiter == waiting /\ AsleepOn(Waiters) # {}

\* The task returns; a thread in waitforAllTasks is notified; unlock.
Finish(w) ==
    /\ pc[w] = "run"
    /\ finished' = finished \cup {job[w]}
    /\ job' = [job EXCEPT ![w] = NoTask]
    /\ shared_lock' = NoThread
    /\ IF NotifyWaiter
         THEN \E a \in AsleepOn(Waiters) :
                 pc' = [pc EXCEPT ![w] = "loop", ![a] = Awoken(a)]
         ELSE Goto(w, "loop")
    /\ UNCHANGED <<tasks, flags, offered, accepted>>

-----------------------------------------------------------------------------
(* execute() and submit(), which differ only in the future they return.    *)

\* The early return when waiting; the flag is read before the mutex is taken.
Offer(s, t) ==
    /\ pc[s] = "idle"
    /\ t \notin offered
    /\ offered' = offered \cup {t}
    /\ IF waiting
         THEN UNCHANGED <<pc, job>>
         ELSE /\ job' = [job EXCEPT ![s] = t]
              /\ Goto(s, "enqueue")
    /\ UNCHANGED <<tasks, shared_lock, flags, accepted, finished>>

Overflow_OffByOne == Len(tasks) > max_task_num
Overflow == Len(tasks) >= max_task_num

\* Under the mutex: refused when the queue is full, else emplaced.
Enqueue(s) ==
    /\ pc[s] = "enqueue"
    /\ shared_lock = NoThread
    /\ job' = [job EXCEPT ![s] = NoTask]
    /\ IF Overflow
         THEN /\ Goto(s, "idle")
              /\ UNCHANGED <<tasks, accepted>>
         ELSE /\ tasks' = Append(tasks, job[s])
              /\ accepted' = accepted \cup {job[s]}
              /\ Goto(s, "notify")
    /\ UNCHANGED <<shared_lock, flags, offered, finished>>

NotifyOne_Nobody(s) ==
    /\ pc[s] = "notify"
    /\ Goto(s, "idle")
    /\ UNCHANGED <<tasks, shared_lock, flags, job, history>>

\* wait_cv.notify_one(), after the mutex was released.
NotifyOne(s) ==
    /\ pc[s] = "notify"
    /\ IF AsleepOn(Workers) # {}
         THEN \E w \in AsleepOn(Workers) :
                 pc' = [pc EXCEPT ![s] = "idle", ![w] = Awoken(w)]
         ELSE Goto(s, "idle")
    /\ UNCHANGED <<tasks, shared_lock, flags, job, history>>

SetMaxTaskNum(n) ==
    /\ max_task_num' = n
    /\ UNCHANGED <<tasks, shared_lock, stop, waiting, pc, job, history>>

-----------------------------------------------------------------------------
(* waitforAllTasks().                                                      *)

StartWaiting(a) ==
    /\ pc[a] = "idle"
    /\ waiting' = TRUE
    /\ Goto(a, "wait")
    /\ UNCHANGED <<tasks, shared_lock, stop, max_task_num, job, history>>

WaitTest_Unlocked(a) ==
    /\ pc[a] = "wait"
    /\ Goto(a, IF tasks = <<>> THEN "clear" ELSE "asleep")
    /\ UNCHANGED <<tasks, shared_lock, flags, job, history>>

\* Lock, test tasks.empty(), and leave or block: all under the mutex.
WaitTest(a) ==
    /\ pc[a] = "wait"
    /\ shared_lock = NoThread
    /\ Goto(a, IF tasks = <<>> THEN "clear" ELSE "asleep")
    /\ UNCHANGED <<tasks, shared_lock, flags, job, history>>

StopWaiting(a) ==
    /\ pc[a] = "clear"
    /\ waiting' = FALSE
    /\ Goto(a, "idle")
    /\ UNCHANGED <<tasks, shared_lock, stop, max_task_num, job, history>>

-----------------------------------------------------------------------------
(* close(): no step of it takes the mutex.                                 *)

Stop(c) ==
    /\ pc[c] = "idle"
    /\ stop' = TRUE
    /\ Goto(c, "notify")
    /\ UNCHANGED <<tasks, shared_lock, waiting, max_task_num, job, history>>

NotifyAll_One(c) ==
    /\ pc[c] = "notify"
    /\ IF AsleepOn(Workers) # {}
         THEN \E w \in AsleepOn(Workers) :
                 pc' = [pc EXCEPT ![c] = "join", ![w] = Awoken(w)]
         ELSE Goto(c, "join")
    /\ UNCHANGED <<tasks, shared_lock, flags, job, history>>

NotifyAll(c) ==
    /\ pc[c] = "notify"
    /\ pc' = [t \in Thread |-> IF t = c THEN "join"
                               ELSE IF t \in AsleepOn(Workers) THEN Awoken(t)
                               ELSE pc[t]]
    /\ UNCHANGED <<tasks, shared_lock, flags, job, history>>

Join_First(c) ==
    /\ pc[c] = "join"
    /\ \E w \in Workers : pc[w] = "exited"
    /\ stop' = FALSE
    /\ Goto(c, "closed")
    /\ UNCHANGED <<tasks, shared_lock, waiting, max_task_num, job, history>>

\* waitforCurrentTasks() joins every thread; then stop is cleared.
Join(c) ==
    /\ pc[c] = "join"
    /\ \A w \in Workers : pc[w] = "exited"
    /\ stop' = FALSE
    /\ Goto(c, "closed")
    /\ UNCHANGED <<tasks, shared_lock, waiting, max_task_num, job, history>>

-----------------------------------------------------------------------------
\* A condition variable may wake a thread that nobody notified.
SpuriousWake(t) ==
    /\ pc[t] = "asleep"
    /\ Goto(t, Awoken(t))
    /\ UNCHANGED <<tasks, shared_lock, flags, job, history>>

Worker(w) == \/ Loop(w) \/ Lock(w) \/ Test(w) \/ Block(w)
             \/ Break(w) \/ Pop(w) \/ Finish(w)
Submit(s) == \/ \E t \in Task : Offer(s, t)
             \/ Enqueue(s) \/ NotifyOne(s)
WaitforAllTasks(a) == StartWaiting(a) \/ WaitTest(a) \/ StopWaiting(a)
Close(c) == Stop(c) \/ NotifyAll(c) \/ Join(c)

Next == \/ \E w \in Workers : Worker(w)
        \/ \E s \in Submitters : Submit(s)
        \/ \E a \in Waiters : WaitforAllTasks(a)
        \/ \E c \in Closers : Close(c)
        \/ \E t \in Spurious : SpuriousWake(t)
        \/ \E n \in Limits : SetMaxTaskNum(n)

Spec == Init /\ [][Next]_vars

(***************************************************************************)
(* The operating system schedules every thread that can run.  Callers are  *)
(* not obliged to call anything, but a call once started goes on.  Threads *)
(* do not wake up without a reason for ever.                               *)
(***************************************************************************)
Fairness == /\ \A w \in Workers : WF_vars(Worker(w))
            /\ \A s \in Submitters : WF_vars(Enqueue(s) \/ NotifyOne(s))
            /\ \A a \in Waiters : WF_vars(WaitTest(a) \/ StopWaiting(a))
            /\ \A c \in Closers : WF_vars(NotifyAll(c) \/ Join(c))
            /\ <>[][~ \E t \in Spurious : SpuriousWake(t)]_vars

FairSpec == Spec /\ Fairness

-----------------------------------------------------------------------------
(* Properties.                                                             *)

\* Types; a worker is never at a caller's label, nor a caller at a worker's.
TypeOK ==
    /\ tasks \in Seq(Task)
    /\ shared_lock \in Workers \cup {NoThread}
    /\ stop \in BOOLEAN /\ waiting \in BOOLEAN
    /\ max_task_num \in Limits
    /\ pc \in [Thread -> PC]
    /\ \A w \in Workers : pc[w] \in WorkerPC
    /\ \A s \in Submitters : pc[s] \in {"idle", "enqueue", "notify"}
    /\ \A a \in Waiters : pc[a] \in {"idle", "wait", "asleep", "clear"}
    /\ \A c \in Closers : pc[c] \in {"idle", "notify", "join", "closed"}
    /\ job \in [Workers \cup Submitters -> Task \cup {NoTask}]
    /\ offered \subseteq Task /\ accepted \subseteq Task /\ finished \subseteq Task

\* worker() takes tasks.front() on the strength of a predicate that was true
\* because of the queue or because of stop: when stop is not the reason any
\* more, the queue must not be empty (close() resets stop, other workers pop).
PopsATask == \A w \in Workers : pc[w] = "pop" /\ ~stop => tasks # <<>>

\* Tasks are started in order, one at a time, none lost, none twice, whatever
\* the number of workers, submitters and calls of waitforAllTasks() and close().
Running == {job[w] : w \in {v \in Workers : pc[v] = "run"}}
Promise == INSTANCE SerialExecutor WITH queue <- tasks, running <- Running
SerialInOrder == Promise!Spec

\* waitforAllTasks() passes its wait only when every task accepted so far has
\* returned: an empty queue is not enough, the last task may still be running.
WaitMeansDone ==
    [][\A a \in Waiters : pc[a] = "wait" /\ pc'[a] = "clear"
                             => accepted = finished]_vars

\* The queue never holds more than the largest limit ever set: the test of the
\* size and the insertion are not separated by another submitter.
QueueBounded == \E n \in Limits : Len(tasks) <= n

Closed == \E c \in Closers : pc[c] # "idle"

\* An accepted task is run, unless the pool is closed: no wake-up is lost
\* between a submitter that notifies and a worker that is about to sleep.
EveryTaskRuns == \A t \in Task : t \in accepted ~> t \in finished \/ Closed

\* A call of waitforAllTasks() returns, unless the pool is closed.
WaitReturns == \A a \in Waiters : pc[a] = "wait" ~> pc[a] = "clear" \/ Closed

\* close() returns, whatever its workers are doing, if none of them has found
\* nothing to do and not yet blocked when it comes to notify: such a worker is not
\* woken, because close() does not take the mutex.
CloseReturns ==
    \A c \in Closers : (pc[c] = "notify" /\ \A w \in Workers : pc[w] # "block")
                           ~> pc[c] = "closed"
=============================================================================
