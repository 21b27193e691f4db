--------------------------- MODULE SerialExecutor ---------------------------
(***************************************************************************)
(* What gchipe::DynamicThreadPool promises its callers, without a word     *)
(* about threads: tasks that were accepted are started in the order in     *)
(* which they were accepted, one at a time, and none is lost or run twice. *)
(* "One at a time" is what the code does (worker() keeps shared_lock while *)
(* it invokes a task), however many threads the pool has.                  *)
(***************************************************************************)
EXTENDS Sequences

CONSTANT Task

VARIABLES
    queue,      \* accepted and not yet started, oldest first
    running,    \* the set of tasks being invoked
    accepted,   \* every task accepted so far
    finished    \* every task whose invocation has returned

vars == <<queue, running, accepted, finished>>

Init == /\ queue = <<>>
        /\ running = {}
        /\ accepted = {}
        /\ finished = {}

Accept(t) == /\ queue' = Append(queue, t)
             /\ accepted' = accepted \cup {t}
             /\ UNCHANGED <<running, finished>>

Start == /\ running = {}
         /\ queue # <<>>
         /\ queue' = Tail(queue)
         /\ running' = {Head(queue)}
         /\ UNCHANGED <<accepted, finished>>

Finish(t) == /\ running = {t}
             /\ running' = {}
             /\ finished' = finished \cup {t}
             /\ UNCHANGED <<queue, accepted>>

Next == \/ \E t \in Task : Accept(t) \/ Finish(t)
        \/ Start

Spec == Init /\ [][Next]_vars
=============================================================================
