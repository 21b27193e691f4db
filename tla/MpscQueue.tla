------------------------------ MODULE MpscQueue ------------------------------
(***************************************************************************)
(* What gcdst::LockFreeQueue promises many producers and one consumer: the *)
(* items come out once each and in the order in which they went in.  It is *)
(* not quite a queue: dequeue() may answer that there is nothing while the *)
(* oldest item is still being enqueued, even if the enqueue() of a younger *)
(* one has returned.                                                       *)
(***************************************************************************)
EXTENDS Sequences

CONSTANTS
    Item,       \* what is enqueued, each item at most once
    Nothing     \* the answer of dequeue() when it returns false

VARIABLES
    queue,      \* the items, oldest first
    open,       \* those whose enqueue() has not returned
    answer      \* the last answer of dequeue()

vars == <<queue, open, answer>>

Init == queue = <<>> /\ open = {} /\ answer = Nothing

Put(i) == /\ queue' = Append(queue, i)
          /\ open' = open \cup {i}
          /\ UNCHANGED answer

Return(i) == /\ i \in open
             /\ open' = open \ {i}
             /\ UNCHANGED <<queue, answer>>

Take == /\ queue # <<>>
        /\ Head(queue) \notin open
        /\ answer' = Head(queue)
        /\ queue' = Tail(queue)
        /\ UNCHANGED open

TakeNothing == /\ queue # <<>> => Head(queue) \in open
               /\ answer' = Nothing
               /\ UNCHANGED <<queue, open>>

Next == \/ \E i \in Item : Put(i) \/ Return(i)
        \/ Take \/ TakeNothing

Spec == Init /\ [][Next]_vars
=============================================================================
