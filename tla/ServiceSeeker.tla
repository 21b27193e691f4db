---------------------------- MODULE ServiceSeeker ----------------------------
(***************************************************************************)
(* How a client knows the nodes of a service.  watch() reads them from     *)
(* etcd once; the watcher's thread then applies etcd's events, those too   *)
(* that watch() has read the outcome of.  Both hold _watch_mtx for all     *)
(* they do to a service, and so does getServiceNode(): an event is a step, *)
(* and so is each turn of the loop of watch(), while the others wait.      *)
(*                                                                         *)
(* A ServiceEndpoint deletes its address, and is copied with it: the one   *)
(* in the table has an address that its original has deleted.  Whenever it *)
(* is destroyed, or its address read, the program may end, or not.         *)
(***************************************************************************)
EXTENDS HashHeap, FiniteSets

CONSTANTS
    Service,
    None,           \* not registered; not watched
    MaxChanges      \* bound: changes of etcd that are no heartbeat

ASSUME SeekerAssumption == None \notin Score /\ MaxChanges \in Nat

Node == Key

VARIABLES
    etcd,           \* the score of each node of each service
    events,         \* what the watcher has not called back for yet
    nodes,          \* _endpoint_map: nodes_pond and node_list of the services watched
    listed,         \* the values of ls() that watch() has not added yet; none outside of it
    crashed,        \* the program has ended
    changes

vars == <<etcd, events, nodes, listed, crashed, changes>>

Watched == {s \in Service : nodes[s] # None}

Registered(s) == {n \in Node : etcd[s][n] # None}

Init == /\ etcd \in [Service -> [Node -> Score \cup {None}]]
        /\ events = <<>> /\ nodes = [s \in Service |-> None] /\ listed = {}
        /\ crashed = FALSE /\ changes = 0

Event(type, s, n, v) == [type |-> type, service |-> s, node |-> n, score |-> v]

-----------------------------------------------------------------------------
(* etcd: providers come, change their score, and go; each goes on putting its node. *)

Put(s, n, v) ==
    /\ changes < MaxChanges /\ etcd[s][n] # v
    /\ etcd' = [etcd EXCEPT ![s][n] = v]
    /\ events' = Append(events, Event("PUT", s, n, v))
    /\ changes' = changes + 1
    /\ UNCHANGED <<nodes, listed, crashed>>

Leave(s, n) ==
    /\ changes < MaxChanges /\ etcd[s][n] # None
    /\ etcd' = [etcd EXCEPT ![s][n] = None]
    /\ events' = Append(events, Event("DELETE", s, n, None))
    /\ changes' = changes + 1
    /\ UNCHANGED <<nodes, listed, crashed>>

Heartbeat(s, n) ==
    /\ events = <<>> /\ etcd[s][n] # None
    /\ events' = <<Event("PUT", s, n, etcd[s][n])>>
    /\ UNCHANGED <<etcd, nodes, listed, crashed, changes>>

-----------------------------------------------------------------------------
(* The client. *)

NoNodes == [pond |-> <<>>, heap |-> EmptyHeap]

\* A ServiceEndpoint is destroyed whose address is deleted already, or memory is read or
\* written that is not the program's: it ends, or goes on.
MayCrash(undefined) == crashed' \in (IF undefined THEN BOOLEAN ELSE {FALSE})

\* A node that is new to the table.
Added(meta, n, v) == [pond |-> With(meta.pond, n, v), heap |-> insert(meta.heap, n, v)]

\* _watch_mtx is free.
Unlocked == listed = {}

\* watch(): what etcd.ls() finds, or nothing if it fails.
Watch(s) ==
    /\ ~crashed /\ Unlocked /\ nodes[s] = None
    /\ nodes' = [nodes EXCEPT ![s] = NoNodes]
    /\ \E found \in {Registered(s), {}} :
          listed' = {[service |-> s, node |-> n, score |-> etcd[s][n]] : n \in found}
    /\ UNCHANGED <<etcd, events, crashed, changes>>

\* Its loop over them, in any order.
WatchNode ==
    /\ ~crashed
    /\ \E kv \in listed :
          /\ nodes' = [nodes EXCEPT ![kv.service] = Added(nodes[kv.service], kv.node, kv.score)]
          /\ listed' = listed \ {kv}
    /\ UNCHANGED <<etcd, events, crashed, changes>>

Unwatch(s) ==
    /\ ~crashed /\ Unlocked /\ nodes[s] # None
    /\ MayCrash(DOMAIN nodes[s].pond # {})
    /\ nodes' = [nodes EXCEPT ![s] = None]
    /\ UNCHANGED <<etcd, events, listed, changes>>

\* The score that an event leaves in the table: a known node is parsed into a copy.
Parsed(meta, e) == IF e.node \in DOMAIN meta.pond THEN meta.pond[e.node] ELSE e.score

PutNode(e, meta) ==
    /\ e.type = "PUT"
    /\ nodes' = [nodes EXCEPT ![e.service] = Added(meta, e.node, Parsed(meta, e))]
    /\ UNCHANGED crashed

\* Mutant: the events of nodes that go are not handled.
DeleteNode_Ignored(e, meta) == e.type = "DELETE" /\ UNCHANGED <<nodes, crashed>>

DeleteNode(e, meta) ==
    /\ e.type = "DELETE"
    /\ MayCrash(e.node \in DOMAIN meta.pond \/ Undefined(meta.heap, e.node))
    /\ \E heap \in remove(meta.heap, e.node) :
          nodes' = [nodes EXCEPT ![e.service] = [pond |-> Without(meta.pond, e.node), heap |-> heap]]

\* The watcher's callback, for one event.
Callback ==
    /\ ~crashed /\ Unlocked /\ events # <<>>
    /\ events' = Tail(events)
    /\ LET e == Head(events)
       IN  IF e.service \in Watched
           THEN PutNode(e, nodes[e.service]) \/ DeleteNode(e, nodes[e.service])
           ELSE UNCHANGED <<nodes, crashed>>
    /\ UNCHANGED <<etcd, listed, changes>>

\* The node that BestScoreBalancer selects.
select(s) == maxOne(nodes[s].heap)

\* getServiceNode() finds the entry of that node and reads its address, which is deleted: it
\* returns whatever is there by now, and no other state of the program depends on that.
getServiceNode(s) ==
    /\ ~crashed /\ Unlocked
    /\ MayCrash(s \in Watched /\ select(s) \cap DOMAIN nodes[s].pond # {})
    /\ UNCHANGED <<etcd, events, nodes, listed, changes>>

Next == \/ \E s \in Service, n \in Node : Leave(s, n) \/ Heartbeat(s, n) \/ \E v \in Score : Put(s, n, v)
        \/ \E s \in Service : Watch(s) \/ Unwatch(s) \/ getServiceNode(s)
        \/ WatchNode \/ Callback

Spec == Init /\ [][Next]_vars

\* watch() goes on, etcd delivers its events, and providers put their nodes again and again.
FairSpec == /\ Spec
            /\ WF_vars(WatchNode) /\ WF_vars(Callback)
            /\ \A s \in Service, n \in Node : SF_vars(Heartbeat(s, n))

-----------------------------------------------------------------------------
(* Properties. *)

\* The table of a service and its heap, which the callback and watch() change one after the
\* other, name the same nodes, each once: what a balancer selects getServiceNode() finds.
Agree == \A s \in Watched :
    LET meta == nodes[s]
    IN  /\ DOMAIN meta.heap.index = DOMAIN meta.pond
        /\ {meta.heap.sorted[i].key : i \in DOMAIN meta.heap.sorted} = DOMAIN meta.pond
        /\ Len(meta.heap.sorted) = Cardinality(DOMAIN meta.pond)

\* BestScoreBalancer selects a node as long as the table has one, and then one that the table
\* has too, with the best score there, whatever was inserted, changed and removed before.
BestFirst == \A s \in Watched :
    LET pond == nodes[s].pond
    IN  IF pond = <<>> THEN select(s) = {}
        ELSE \E best \in DOMAIN pond : /\ select(s) = {best}
                                       /\ \A n \in DOMAIN pond : pond[n] <= pond[best]

\* What the table of a service names and etcd does not has a DELETE event waiting: however
\* events and tables are older or newer than one another, no node stays that the watcher will
\* not remove (watch(), the callback).
Departing == \A s \in Watched, n \in Node :
    n \in DOMAIN nodes[s].pond \ Registered(s) =>
        \E i \in DOMAIN events : /\ events[i].service = s /\ events[i].node = n
                                 /\ events[i].type = "DELETE"

\* When etcd no longer changes, the table of a service that stays watched names its nodes,
\* though watch() may have failed to read them and events come late (watch(), the callback).
Follows == \A s \in Service :
    (<>[](s \in Watched)) => <>[](crashed \/ (s \in Watched /\ DOMAIN nodes[s].pond = Registered(s)))
=============================================================================
