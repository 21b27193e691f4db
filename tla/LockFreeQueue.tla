---------------------------- MODULE LockFreeQueue ----------------------------
(***************************************************************************)
(* gcdst::LockFreeQueue, a linked list with a compare-and-swap at each of  *)
(* its ends.  The list starts with a node whose item has been taken; an    *)
(* enqueue() makes its node the tail and links it only afterwards.         *)
(*                                                                         *)
(* A step is one access to what threads share.  The comment of the class   *)
(* says MPSC, so there is one consumer: head, and the node behind it once  *)
(* it is linked, are its own, and what it does to them is one step.        *)
(* Memory is a set of nodes that are freed and allocated again, so that a  *)
(* pointer read before may name another node by the time it is used.       *)
(***************************************************************************)
EXTENDS Integers, Sequences, FiniteSets

CONSTANTS
    Producer,   \* threads that call enqueue()
    Item,       \* what they enqueue, each item once
    Node,       \* addresses of nodes
    Null,       \* nullptr
    Nothing     \* no item: dequeue() has returned false

ASSUME QueueAssumption ==
    /\ Null \notin Node
    /\ Nothing \notin Item
    /\ Node # {}

VARIABLES
    head, tail,             \* the atomics
    next, data,             \* fields of the nodes
    ableToDelete,
    live,                   \* nodes that are allocated
    pc, new_node, curr_tail,    \* enqueue() of each producer
    cpc, curr_head, curr_next,  \* dequeue() of the consumer
    val,                    \* what the last dequeue() gave
    chain,                  \* history: the nodes from head to tail, in order
    offered                 \* history: the items enqueue() was called with

nodes    == <<next, data, ableToDelete, live>>
enqueues == <<pc, new_node, curr_tail>>
dequeues == <<cpc, curr_head, curr_next, val>>
vars     == <<head, tail, nodes, enqueues, dequeues, chain, offered>>

Goto(p, label) == pc' = [pc EXCEPT ![p] = label]

Init == \E dummy \in Node :
    /\ head = dummy
    /\ tail = dummy
    /\ next = [n \in Node |-> Null]
    /\ data = [n \in Node |-> Nothing]
    /\ ableToDelete = [n \in Node |-> n = dummy]
    /\ live = {dummy}
    /\ pc = [p \in Producer |-> "idle"]
    /\ new_node = [p \in Producer |-> Null]
    /\ curr_tail = [p \in Producer |-> Null]
    /\ cpc = "idle"
    /\ curr_head = Null
    /\ curr_next = Null
    /\ val = Nothing
    /\ chain = <<dummy>>
    /\ offered = {}

-----------------------------------------------------------------------------
(* enqueue()                                                               *)

\* new Node(item): any memory that is free.
New(p, i, n) ==
    /\ pc[p] = "idle"
    /\ i \notin offered
    /\ n \notin live
    /\ live' = live \cup {n}
    /\ data' = [data EXCEPT ![n] = i]
    /\ next' = [next EXCEPT ![n] = Null]
    /\ ableToDelete' = [ableToDelete EXCEPT ![n] = FALSE]
    /\ new_node' = [new_node EXCEPT ![p] = n]
    /\ offered' = offered \cup {i}
    /\ Goto(p, "load")
    /\ UNCHANGED <<head, tail, curr_tail, dequeues, chain>>

LoadTail(p) ==
    /\ pc[p] = "load"
    /\ curr_tail' = [curr_tail EXCEPT ![p] = tail]
    /\ Goto(p, "cas")
    /\ UNCHANGED <<head, tail, nodes, new_node, dequeues, chain, offered>>

\* Mutant: a store in place of the compare-and-swap.
CasTail_Blind(p) ==
    /\ pc[p] = "cas"
    /\ tail' = new_node[p]
    /\ chain' = Append(chain, new_node[p])
    /\ Goto(p, "link")
    /\ UNCHANGED <<head, nodes, new_node, curr_tail, dequeues, offered>>

CasTail(p) ==
    /\ pc[p] = "cas"
    /\ tail = curr_tail[p]
    /\ tail' = new_node[p]
    /\ chain' = Append(chain, new_node[p])
    /\ Goto(p, "link")
    /\ UNCHANGED <<head, nodes, new_node, curr_tail, dequeues, offered>>

\* Mutant: a failed exchange is not tried again.
CasTailFails_GiveUp(p) ==
    /\ pc[p] = "cas"
    /\ Goto(p, "idle")
    /\ UNCHANGED <<head, tail, nodes, new_node, curr_tail, dequeues, chain, offered>>

\* The tail has moved, or compare_exchange_weak fails for no reason: once more.
CasTailFails(p) ==
    /\ pc[p] = "cas"
    /\ Goto(p, "load")
    /\ UNCHANGED <<head, tail, nodes, new_node, curr_tail, dequeues, chain, offered>>

Link(p) ==
    /\ pc[p] = "link"
    /\ next' = [next EXCEPT ![curr_tail[p]] = new_node[p]]
    /\ Goto(p, "idle")
    /\ UNCHANGED <<head, tail, data, ableToDelete, live, new_node, curr_tail,
                   dequeues, chain, offered>>

-----------------------------------------------------------------------------
(* dequeue()                                                               *)

\* Mutant: the queue is taken for empty when head is tail, not when nothing is linked.
LoadNext_TailTest ==
    /\ cpc = "idle"
    /\ curr_head' = head
    /\ curr_next' = next[head]
    /\ IF head = tail THEN val' = Nothing /\ UNCHANGED cpc
                      ELSE cpc' = "cas" /\ UNCHANGED val
    /\ UNCHANGED <<head, tail, nodes, enqueues, chain, offered>>

\* The loads of head and head->next; false when there is no next node.
LoadNext ==
    /\ cpc = "idle"
    /\ curr_head' = head
    /\ curr_next' = next[head]
    /\ IF next[head] = Null THEN val' = Nothing /\ UNCHANGED cpc
                            ELSE cpc' = "cas" /\ UNCHANGED val
    /\ UNCHANGED <<head, tail, nodes, enqueues, chain, offered>>

\* The next node becomes the head, and its item is the answer.
CasHead ==
    /\ cpc = "cas"
    /\ head = curr_head
    /\ head' = curr_next
    /\ val' = data[curr_next]
    /\ ableToDelete' = [ableToDelete EXCEPT ![curr_next] = TRUE]
    /\ chain' = Tail(chain)
    /\ cpc' = "delete"
    /\ UNCHANGED <<tail, next, data, live, enqueues, curr_head, curr_next, offered>>

CasHeadFails ==
    /\ cpc = "cas"
    /\ cpc' = "idle"
    /\ UNCHANGED <<head, tail, nodes, enqueues, curr_head, curr_next, val, chain, offered>>

\* Mutant: the node whose item was taken is deleted.
Victim == curr_head

\* The spinning and the delete.
Delete ==
    /\ cpc = "delete"
    /\ ableToDelete[curr_head]
    /\ live' = live \ {Victim}
    /\ cpc' = "idle"
    /\ UNCHANGED <<head, tail, next, data, ableToDelete, enqueues, curr_head, curr_next,
                   val, chain, offered>>

-----------------------------------------------------------------------------
Enqueue(p) == \/ LoadTail(p) \/ CasTail(p) \/ Link(p)
              \/ tail # curr_tail[p] /\ CasTailFails(p)
Dequeue == LoadNext \/ CasHead \/ Delete
Spurious == CasHeadFails \/ \E p \in Producer : tail = curr_tail[p] /\ CasTailFails(p)

Next == \/ \E p \in Producer : \/ Enqueue(p)
                               \/ \E i \in Item : \E n \in Node : New(p, i, n)
        \/ Dequeue
        \/ Spurious

Spec == Init /\ [][Next]_vars

\* Threads are scheduled, the consumer polls, and a compare_exchange_weak does not
\* fail for no reason for ever.
FairSpec == /\ Spec
            /\ \A p \in Producer : WF_vars(Enqueue(p))
            /\ WF_vars(Dequeue)
            /\ <>[][~Spurious]_vars

-----------------------------------------------------------------------------
(* Properties.                                                             *)

\* No thread uses a node that dequeue() has deleted, however long ago it read the
\* pointer: not enqueue(), which links its node behind an old tail, nor dequeue().
NoDangling ==
    /\ {head, tail} \subseteq live
    /\ \A p \in Producer : pc[p] = "link" => {curr_tail[p], new_node[p]} \subseteq live
    /\ cpc = "cas" => {curr_head, curr_next} \subseteq live
    /\ cpc = "delete" => curr_head \in live /\ curr_head # head

\* The list implements the queue of MpscQueue, item by item and answer by answer.
Items == [i \in 1 .. Len(chain) - 1 |-> data[chain[i + 1]]]
Unlinked == {data[new_node[p]] : p \in {q \in Producer : pc[q] = "link"}}
Promise == INSTANCE MpscQueue WITH queue <- Items, open <- Unlinked, answer <- val
Fifo == Promise!Spec

\* Every item on its way is taken in the end: no failed compare-and-swap loses it,
\* and no producer that is overtaken between its two steps cuts the list for ever.
OnTheWay(i) == \/ \E p \in Producer : pc[p] \in {"load", "cas"} /\ data[new_node[p]] = i
               \/ \E k \in DOMAIN Items : Items[k] = i
Delivered == \A i \in Item : OnTheWay(i) ~> val = i
=============================================================================
