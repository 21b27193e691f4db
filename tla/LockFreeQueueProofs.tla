------------------------- MODULE LockFreeQueueProofs -------------------------
(***************************************************************************)
(* Theorems about LockFreeQueue, for any number of producers, items and    *)
(* nodes: no freed node is used, and the list is a queue.                  *)
(***************************************************************************)
EXTENDS LockFreeQueue, SequenceTheorems, TLAPS

-----------------------------------------------------------------------------
(* The inductive invariant.                                                *)

TypeOK ==
    /\ head \in Node /\ tail \in Node /\ live \subseteq Node
    /\ next \in [Node -> Node \cup {Null}]
    /\ data \in [Node -> Item \cup {Nothing}]
    /\ ableToDelete \in [Node -> BOOLEAN]
    /\ pc \in [Producer -> {"idle", "load", "cas", "link"}]
    /\ new_node \in [Producer -> Node \cup {Null}]
    /\ curr_tail \in [Producer -> Node \cup {Null}]
    /\ cpc \in {"idle", "cas", "delete"}
    /\ curr_head \in Node \cup {Null} /\ curr_next \in Node \cup {Null}
    /\ val \in Item \cup {Nothing}
    /\ chain \in Seq(Node) /\ Len(chain) > 0
    /\ offered \subseteq Item

\* The chain leads from head to tail through allocated nodes, each of them once.
Chain ==
    /\ head = chain[1] /\ tail = chain[Len(chain)]
    /\ \A i \in 1 .. Len(chain) : chain[i] \in live
    /\ \A i, j \in 1 .. Len(chain) : chain[i] = chain[j] => i = j

\* p is between the two steps of an enqueue(), at place i of the chain.
Gap(p, i) == pc[p] = "link" /\ curr_tail[p] = chain[i] /\ new_node[p] = chain[i + 1]

\* A node of the chain is linked to the next, or somebody is about to link it.
Links ==
    /\ next[tail] = Null
    /\ \A i \in 1 .. Len(chain) - 1 :
          \/ next[chain[i]] = chain[i + 1]
          \/ next[chain[i]] = Null /\ \E p \in Producer : Gap(p, i)

\* The nodes on their way are allocated, not yet in the chain, and differ.
Private(p) == pc[p] \in {"load", "cas"}
OnTheirWay ==
    /\ \A p \in Producer : Private(p) =>
          /\ new_node[p] \in live
          /\ next[new_node[p]] = Null
          /\ \A i \in 1 .. Len(chain) : chain[i] # new_node[p]
    /\ \A p \in Producer : pc[p] = "link" =>
          \E i \in 1 .. Len(chain) - 1 : Gap(p, i) /\ next[chain[i]] = Null
    /\ \A p, q \in Producer :
          p # q /\ pc[p] # "idle" /\ pc[q] # "idle" => new_node[p] # new_node[q]

\* What the consumer has read stays true, and what it deletes is its own.
Consumer ==
    /\ cpc = "cas" => Len(chain) > 1 /\ curr_head = chain[1] /\ curr_next = chain[2]
                      /\ next[chain[1]] = chain[2]
    /\ cpc = "delete" =>
          /\ curr_head \in live
          /\ \A i \in 1 .. Len(chain) : chain[i] # curr_head
          /\ \A p \in Producer : Private(p) => new_node[p] # curr_head

\* No item is in two nodes.
Contents ==
    /\ \A i \in 2 .. Len(chain) : data[chain[i]] \in offered
    /\ \A i, j \in 2 .. Len(chain) : data[chain[i]] = data[chain[j]] => i = j
    /\ \A p \in Producer : Private(p) =>
          /\ data[new_node[p]] \in offered
          /\ \A i \in 2 .. Len(chain) : data[chain[i]] # data[new_node[p]]
    /\ \A p, q \in Producer :
          p # q /\ Private(p) /\ Private(q) => data[new_node[p]] # data[new_node[q]]

Inv == TypeOK /\ Chain /\ Links /\ OnTheirWay /\ Consumer /\ Contents

-----------------------------------------------------------------------------
(* enqueue() keeps the invariant.                                          *)

LEMMA InitInv == Init => Inv
  BY QueueAssumption DEF Init, Inv, TypeOK, Chain, Links, OnTheirWay, Consumer, Contents, Private, Gap

\* New puts a free node, which is neither in the chain nor on its way nor the
\* consumer's, on its way.
LEMMA NewInv ==
    ASSUME Inv, NEW p \in Producer, NEW i \in Item, NEW n \in Node, New(p, i, n)
    PROVE  Inv'
<1> USE DEF Private
<1>0. /\ n \notin live
      /\ \A k \in 1 .. Len(chain) : chain[k] \in live /\ chain[k] # n /\ chain[k] \in Node
      /\ chain' = chain /\ head' = head /\ tail' = tail
      /\ \A k \in Node \ {n} : next'[k] = next[k] /\ data'[k] = data[k]
      /\ next'[n] = Null /\ data'[n] = i
      /\ tail # n
  BY DEF New, Inv, TypeOK, Chain, dequeues
<1>00. /\ pc[p] = "idle" /\ pc'[p] = "load" /\ new_node'[p] = n
       /\ \A q \in Producer \ {p} : pc'[q] = pc[q] /\ new_node'[q] = new_node[q]
       /\ \A q \in Producer \ {p} : pc[q] # "idle" => new_node[q] # n /\ new_node[q] \in Node
  <2>1. \A q \in Producer \ {p} : pc[q] = "link" => new_node[q] # n /\ new_node[q] \in Node
    BY <1>0 DEF Inv, OnTheirWay, Gap, TypeOK
  <2>2. \A q \in Producer \ {p} : Private(q) => new_node[q] # n /\ new_node[q] \in Node
    BY <1>0 DEF Inv, OnTheirWay, TypeOK
  <2> QED
    BY <2>1, <2>2 DEF New, Inv, TypeOK, Goto
<1>1. TypeOK'
  BY DEF New, Inv, TypeOK, Goto, dequeues
<1>2. Chain'
  BY <1>0 DEF Inv, Chain, New
<1>3. Links'
  <2>1. \A q \in Producer : \A k \in 1 .. Len(chain) - 1 : Gap(q, k) => Gap(q, k)'
    BY <1>0, <1>00 DEF Gap, New
  <2> QED
    BY <1>0, <2>1 DEF Inv, Links, TypeOK
<1>4. OnTheirWay'
  <2>1. \A q \in Producer : Private(q)' =>
          /\ new_node'[q] \in live'
          /\ next'[new_node'[q]] = Null
          /\ \A k \in 1 .. Len(chain') : chain'[k] # new_node'[q]
    BY <1>0, <1>00 DEF Inv, OnTheirWay, New
  <2>2. \A q \in Producer : pc'[q] = "link" =>
          \E k \in 1 .. Len(chain') - 1 : Gap(q, k)' /\ next'[chain'[k]] = Null
    BY <1>0, <1>00 DEF Inv, OnTheirWay, New, Gap
  <2>3. \A q, r \in Producer :
          q # r /\ pc'[q] # "idle" /\ pc'[r] # "idle" => new_node'[q] # new_node'[r]
    BY <1>00 DEF Inv, OnTheirWay
  <2> QED
    BY <2>1, <2>2, <2>3 DEF OnTheirWay
<1>5. Consumer'
  BY <1>0, <1>00 DEF Inv, Consumer, New, dequeues
<1>6. Contents'
  <2>1. i \notin offered /\ offered' = offered \cup {i}
    BY DEF New
  <2> QED
    BY <1>0, <1>00, <2>1 DEF Inv, Contents
<1> QED
  BY <1>1, <1>2, <1>3, <1>4, <1>5, <1>6 DEF Inv

LEMMA LoadTailInv ==
    ASSUME Inv, NEW p \in Producer, LoadTail(p)
    PROVE  Inv'
<1>1. /\ pc[p] = "load" /\ pc' = [pc EXCEPT ![p] = "cas"]
      /\ curr_tail' = [curr_tail EXCEPT ![p] = tail]
      /\ UNCHANGED <<head, tail, nodes, new_node, dequeues, chain, offered>>
  BY DEF LoadTail, Goto
<1>2. \A q \in Producer : Private(q)' = Private(q) /\ (pc'[q] = "link") = (pc[q] = "link")
  BY <1>1 DEF Private, Inv, TypeOK
<1>3. \A q \in Producer : \A k : Gap(q, k)' = Gap(q, k)
  BY <1>1 DEF Gap, Inv, TypeOK
<1>4. \A q \in Producer : (pc'[q] = "idle") = (pc[q] = "idle")
  BY <1>1 DEF Inv, TypeOK
<1>5. TypeOK'
  BY <1>1 DEF Inv, TypeOK, nodes, dequeues
<1>6. Chain' /\ Links' /\ Consumer' /\ Contents'
  BY <1>1, <1>2, <1>3 DEF Inv, Chain, Links, Consumer, Contents, nodes, dequeues
<1>7. OnTheirWay'
  BY <1>1, <1>2, <1>3, <1>4 DEF Inv, OnTheirWay, nodes
<1> QED
  BY <1>5, <1>6, <1>7 DEF Inv

LEMMA CasTailFailsInv ==
    ASSUME Inv, NEW p \in Producer, CasTailFails(p)
    PROVE  Inv'
<1>1. /\ pc[p] = "cas" /\ pc' = [pc EXCEPT ![p] = "load"]
      /\ UNCHANGED <<head, tail, nodes, new_node, curr_tail, dequeues, chain, offered>>
  BY DEF CasTailFails, Goto
<1>2. \A q \in Producer : Private(q)' = Private(q) /\ (pc'[q] = "link") = (pc[q] = "link")
  BY <1>1 DEF Private, Inv, TypeOK
<1>3. \A q \in Producer : \A k : Gap(q, k)' = Gap(q, k)
  BY <1>1 DEF Gap, Inv, TypeOK
<1>4. \A q \in Producer : (pc'[q] = "idle") = (pc[q] = "idle")
  BY <1>1 DEF Inv, TypeOK
<1>5. TypeOK'
  BY <1>1 DEF Inv, TypeOK, nodes, dequeues
<1>6. Chain' /\ Links' /\ Consumer' /\ Contents'
  BY <1>1, <1>2, <1>3 DEF Inv, Chain, Links, Consumer, Contents, nodes, dequeues
<1>7. OnTheirWay'
  BY <1>1, <1>2, <1>3, <1>4 DEF Inv, OnTheirWay, nodes
<1> QED
  BY <1>5, <1>6, <1>7 DEF Inv

\* The node of p is the last of the chain now, behind the old tail, which is not linked.
LEMMA CasTailInv ==
    ASSUME Inv, NEW p \in Producer, CasTail(p)
    PROVE  Inv'
<1> DEFINE n == new_node[p]
<1>0. PICK N \in Nat \ {0} : N = Len(chain)
  BY DEF Inv, TypeOK
<1>1. /\ pc[p] = "cas" /\ tail = curr_tail[p] /\ tail' = n /\ pc' = [pc EXCEPT ![p] = "link"]
      /\ chain' = Append(chain, n)
      /\ UNCHANGED <<head, nodes, new_node, curr_tail, dequeues, offered>>
  BY DEF CasTail, Goto
<1>2. /\ Private(p) /\ n \in live /\ n \in Node /\ next[n] = Null
      /\ \A i \in 1 .. N : chain[i] # n
  BY <1>0, <1>1 DEF Private, Inv, OnTheirWay, TypeOK
<1>3. /\ Len(chain') = N + 1 /\ chain'[N + 1] = n
      /\ \A i \in 1 .. N : chain'[i] = chain[i] /\ chain[i] \in Node
      /\ chain' \in Seq(Node)
  BY <1>0, <1>1, <1>2 DEF Inv, TypeOK
<1>4. \A q \in Producer : q # p => /\ Private(q)' = Private(q) /\ pc'[q] = pc[q]
                                   /\ Private(q) => new_node[q] # n
  BY <1>1, <1>2 DEF Private, Inv, TypeOK, OnTheirWay
<1>5. pc'[p] = "link" /\ ~Private(p)'
  BY <1>1 DEF Inv, TypeOK, Private
<1>6. Gap(p, N)' /\ next'[chain'[N]] = Null
  <2>1. N \in 1 .. N /\ chain'[N] = tail
    BY <1>0, <1>3 DEF Inv, Chain
  <2>2. next[tail] = Null /\ next' = next /\ curr_tail' = curr_tail /\ new_node' = new_node
    BY <1>1 DEF Inv, Links, nodes
  <2> QED
    BY <1>1, <1>3, <1>5, <2>1, <2>2 DEF Gap
<1>7. \A q \in Producer : \A i \in 1 .. N - 1 : Gap(q, i) => Gap(q, i)'
  BY <1>0, <1>1, <1>3, <1>4, <1>5 DEF Gap
<1>8. TypeOK'
  BY <1>1, <1>2, <1>3 DEF Inv, TypeOK, nodes, dequeues
<1>9. Chain'
  BY <1>0, <1>1, <1>2, <1>3 DEF Inv, Chain, nodes
<1>10. Links'
  <2>1. next'[tail'] = Null
    BY <1>1, <1>2 DEF nodes
  <2>2. \A i \in 1 .. N - 1 : \/ next'[chain'[i]] = chain'[i + 1]
                              \/ next'[chain'[i]] = Null /\ \E q \in Producer : Gap(q, i)'
    BY <1>0, <1>1, <1>3, <1>7 DEF Inv, Links, nodes
  <2> QED
    BY <1>0, <1>3, <1>6, <2>1, <2>2 DEF Links
<1>11. OnTheirWay'
  <2>1. \A q \in Producer : Private(q)' =>
          /\ new_node'[q] \in live'
          /\ next'[new_node'[q]] = Null
          /\ \A i \in 1 .. Len(chain') : chain'[i] # new_node'[q]
    BY <1>0, <1>1, <1>3, <1>4, <1>5 DEF Inv, OnTheirWay, nodes
  <2>2. \A q \in Producer : pc'[q] = "link" =>
          \E i \in 1 .. Len(chain') - 1 : Gap(q, i)' /\ next'[chain'[i]] = Null
    <3>1. ASSUME NEW q \in Producer, q # p, pc'[q] = "link"
          PROVE  \E i \in 1 .. N - 1 : Gap(q, i)' /\ next'[chain'[i]] = Null
      BY <1>0, <1>1, <1>3, <1>4, <1>7, <3>1 DEF Inv, OnTheirWay, nodes
    <3> QED
      BY <1>0, <1>3, <1>6, <3>1
  <2>3. \A q, r \in Producer :
          q # r /\ pc'[q] # "idle" /\ pc'[r] # "idle" => new_node'[q] # new_node'[r]
    BY <1>1 DEF Inv, OnTheirWay, TypeOK
  <2> QED
    BY <2>1, <2>2, <2>3 DEF OnTheirWay
<1>12. Consumer'
  <2>1. cpc = "delete" => curr_head # n
    BY <1>2 DEF Inv, Consumer
  <2>2. cpc' = "cas" => Len(chain') > 1 /\ curr_head' = chain'[1] /\ curr_next' = chain'[2]
                        /\ next'[chain'[1]] = chain'[2]
    BY <1>0, <1>1, <1>3 DEF Inv, Consumer, nodes, dequeues
  <2> QED
    BY <1>0, <1>1, <1>3, <1>4, <1>5, <2>1, <2>2 DEF Inv, Consumer, nodes, dequeues
<1>13. Contents'
  BY <1>0, <1>1, <1>2, <1>3, <1>4, <1>5 DEF Inv, Contents, nodes
<1> QED
  BY <1>8, <1>9, <1>10, <1>11, <1>12, <1>13 DEF Inv

\* One gap is closed; the others are at other places of the chain.
LEMMA LinkInv ==
    ASSUME Inv, NEW p \in Producer, Link(p)
    PROVE  Inv'
<1> DEFINE N == Len(chain)
<1>1. /\ pc[p] = "link" /\ pc' = [pc EXCEPT ![p] = "idle"]
      /\ next' = [next EXCEPT ![curr_tail[p]] = new_node[p]]
      /\ UNCHANGED <<head, tail, data, ableToDelete, live, new_node, curr_tail, dequeues, chain, offered>>
  BY DEF Link, Goto
<1>2. PICK g \in 1 .. N - 1 : Gap(p, g) /\ next[chain[g]] = Null
  BY <1>1 DEF Inv, OnTheirWay
<1>3. /\ N \in Nat /\ \A i \in 1 .. N : chain[i] \in Node
      /\ \A i, j \in 1 .. N : chain[i] = chain[j] => i = j
      /\ tail = chain[N]
  BY DEF Inv, TypeOK, Chain
<1>4. /\ next'[chain[g]] = chain[g + 1]
      /\ \A n \in Node : n # chain[g] => next'[n] = next[n]
  BY <1>1, <1>2, <1>3 DEF Gap, Inv, TypeOK
<1>5. \A q \in Producer : /\ Private(q)' = Private(q)
                          /\ q # p => pc'[q] = pc[q]
                          /\ Private(q) => new_node[q] \in Node /\ new_node[q] # chain[g]
  BY <1>1, <1>2, <1>3 DEF Private, Inv, TypeOK, OnTheirWay
<1>6. \A q \in Producer : \A i \in 1 .. N - 1 :
          q # p /\ Gap(q, i) => /\ Gap(q, i)' /\ i # g
                                /\ next[chain[i]] = Null => next'[chain[i]] = Null
  <2> SUFFICES ASSUME NEW q \in Producer, NEW i \in 1 .. N - 1, q # p, Gap(q, i)
               PROVE  /\ Gap(q, i)' /\ i # g
                      /\ next[chain[i]] = Null => next'[chain[i]] = Null
    OBVIOUS
  <2>1. i # g
    BY <1>1, <1>2 DEF Gap, Inv, OnTheirWay
  <2>2. Gap(q, i)'
    BY <1>1, <1>5 DEF Gap
  <2>3. chain[i] # chain[g] /\ chain[i] \in Node
    BY <1>3, <2>1
  <2> QED
    BY <1>4, <2>1, <2>2, <2>3
<1>7. TypeOK'
  BY <1>1 DEF Inv, TypeOK, dequeues
<1>8. Chain'
  BY <1>1 DEF Inv, Chain
<1>9. Links'
  <2>1. next'[tail'] = Null
    BY <1>1, <1>3, <1>4 DEF Inv, Links
  <2>2. ASSUME NEW i \in 1 .. N - 1, i # g
        PROVE  \/ next'[chain[i]] = chain[i + 1]
               \/ next'[chain[i]] = Null /\ \E q \in Producer : Gap(q, i)'
    <3>1. next'[chain[i]] = next[chain[i]]
      BY <1>3, <1>4, <2>2
    <3>2. ~Gap(p, i)
      BY <1>2, <1>3, <2>2 DEF Gap
    <3> QED
      BY <1>6, <3>1, <3>2 DEF Inv, Links
  <2> QED
    BY <1>1, <1>4, <2>1, <2>2 DEF Links
<1>10. OnTheirWay'
  <2>1. \A q \in Producer : Private(q)' =>
          /\ new_node'[q] \in live'
          /\ next'[new_node'[q]] = Null
          /\ \A i \in 1 .. Len(chain') : chain'[i] # new_node'[q]
    BY <1>1, <1>4, <1>5 DEF Inv, OnTheirWay
  <2>2. \A q \in Producer : pc'[q] = "link" =>
          \E i \in 1 .. Len(chain') - 1 : Gap(q, i)' /\ next'[chain'[i]] = Null
    BY <1>1, <1>5, <1>6 DEF Inv, OnTheirWay, TypeOK
  <2>3. \A q, r \in Producer :
          q # r /\ pc'[q] # "idle" /\ pc'[r] # "idle" => new_node'[q] # new_node'[r]
    BY <1>1 DEF Inv, OnTheirWay, TypeOK
  <2> QED
    BY <2>1, <2>2, <2>3 DEF OnTheirWay
<1>11. Consumer'
  <2>1. cpc = "cas" => g # 1
    BY <1>2, <1>3, QueueAssumption DEF Inv, Consumer
  <2>2. cpc = "cas" => next'[chain[1]] = next[chain[1]]
    BY <1>3, <1>4, <2>1 DEF Inv, Consumer
  <2> QED
    BY <1>1, <1>5, <2>2 DEF Inv, Consumer, dequeues
<1>12. Contents'
  BY <1>1, <1>5 DEF Inv, Contents
<1> QED
  BY <1>7, <1>8, <1>9, <1>10, <1>11, <1>12 DEF Inv

-----------------------------------------------------------------------------
(* dequeue() keeps the invariant.                                          *)

\* What only dequeue() changes: the list stays as it is if it keeps its nodes.
LEMMA Unmoved ==
    ASSUME Inv, UNCHANGED <<head, tail, next, data, enqueues, chain, offered>>,
           \/ live' = live
           \/ /\ \A i \in 1 .. Len(chain) : chain[i] \in live'
              /\ \A q \in Producer : Private(q) => new_node[q] \in live'
    PROVE  Chain' /\ Links' /\ OnTheirWay' /\ Contents'
<1>1. pc' = pc /\ new_node' = new_node /\ curr_tail' = curr_tail
  BY DEF enqueues
<1>2. \A q \in Producer : \A k : Private(q)' = Private(q) /\ Gap(q, k)' = Gap(q, k)
  BY <1>1 DEF Private, Gap
<1>3. /\ \A i \in 1 .. Len(chain) : chain[i] \in live'
      /\ \A q \in Producer : Private(q) => new_node[q] \in live'
  BY DEF Inv, Chain, OnTheirWay
<1>4. Chain'
  BY <1>3 DEF Inv, Chain
<1>5. Links'
  BY <1>2 DEF Inv, Links
<1>6. OnTheirWay'
  BY <1>1, <1>2, <1>3 DEF Inv, OnTheirWay
<1>7. Contents'
  BY <1>1, <1>2 DEF Inv, Contents
<1> QED
  BY <1>4, <1>5, <1>6, <1>7

LEMMA LoadNextInv ==
    ASSUME Inv, LoadNext
    PROVE  Inv'
<1>1. /\ curr_head' = head /\ curr_next' = next[head]
      /\ UNCHANGED <<head, tail, nodes, enqueues, chain, offered>>
  BY DEF LoadNext
<1>2. head = chain[1] /\ chain[1] \in Node /\ Len(chain) \in Nat \ {0}
  BY DEF Inv, TypeOK, Chain
<1>3. \A q \in Producer : \A k : Private(q)' = Private(q) /\ Gap(q, k)' = Gap(q, k)
  BY <1>1 DEF Private, Gap, enqueues
<1>4. TypeOK'
  BY <1>1, <1>2 DEF LoadNext, Inv, TypeOK, nodes, enqueues
<1>5. Chain' /\ Links' /\ OnTheirWay' /\ Contents'
  BY <1>1, Unmoved DEF nodes
<1>6. Consumer'
  <2>1. CASE next[head] = Null
    BY <1>1, <2>1 DEF LoadNext, Consumer
  <2>2. CASE next[head] # Null
    <3>1. Len(chain) > 1
      BY <1>2, <2>2 DEF Inv, Chain, Links
    <3>2. next[chain[1]] = chain[2]
      <4>1. 1 \in 1 .. Len(chain) - 1
        BY <1>2, <3>1
      <4> QED
        BY <1>2, <2>2, <4>1 DEF Inv, Links
    <3> QED
      BY <1>1, <1>2, <2>2, <3>1, <3>2 DEF LoadNext, Consumer, nodes
  <2> QED
    BY <2>1, <2>2
<1> QED
  BY <1>4, <1>5, <1>6 DEF Inv

\* The places of the chain move down by one, and the old head is the consumer's.
LEMMA CasHeadInv ==
    ASSUME Inv, CasHead
    PROVE  Inv'
<1>0. PICK N \in Nat \ {0} : N = Len(chain) - 1
  BY DEF CasHead, Inv, TypeOK, Consumer
<1>1. /\ curr_head = chain[1] /\ curr_next = chain[2] /\ next[chain[1]] = chain[2]
      /\ head' = chain[2] /\ val' = data[chain[2]]
      /\ ableToDelete' = [ableToDelete EXCEPT ![chain[2]] = TRUE]
      /\ chain' = Tail(chain) /\ cpc' = "delete"
      /\ UNCHANGED <<tail, next, data, live, enqueues, curr_head, curr_next, offered>>
  BY DEF CasHead, Inv, Consumer
<1>2. /\ Len(chain') = N /\ chain' \in Seq(Node)
      /\ \A i \in 1 .. N : chain'[i] = chain[i + 1] /\ i + 1 \in 2 .. N + 1
      /\ 1 \in 1 .. N + 1
  BY <1>0, <1>1 DEF Inv, TypeOK
<1>3. /\ \A i \in 1 .. N + 1 : chain[i] \in Node /\ chain[i] \in live
      /\ \A i, j \in 1 .. N + 1 : chain[i] = chain[j] => i = j
      /\ tail = chain[N + 1]
  BY <1>0 DEF Inv, TypeOK, Chain
<1>4. \A q \in Producer : Private(q)' = Private(q) /\ pc'[q] = pc[q]
  BY <1>1 DEF Private, enqueues
<1>5. \A q \in Producer : \A i \in 1 .. N :
          Gap(q, i) /\ next[chain[i]] = Null => i - 1 \in 1 .. N - 1 /\ Gap(q, i - 1)'
  <2> SUFFICES ASSUME NEW q \in Producer, NEW i \in 1 .. N, Gap(q, i), next[chain[i]] = Null
               PROVE  i - 1 \in 1 .. N - 1 /\ Gap(q, i - 1)'
    OBVIOUS
  <2>1. i # 1
    BY <1>0, <1>1, <1>3, QueueAssumption
  <2>2. i - 1 \in 1 .. N - 1 /\ i - 1 \in 1 .. N /\ i \in 1 .. N
    BY <2>1
  <2>3. chain'[i - 1] = chain[i] /\ chain'[i] = chain[i + 1]
    BY <1>2, <2>2
  <2>4. (i - 1) + 1 = i
    OBVIOUS
  <2> QED
    BY <1>1, <2>2, <2>3, <2>4 DEF Gap, enqueues
<1>6. TypeOK'
  <2>1. chain[2] \in Node /\ val' \in Item \cup {Nothing}
    BY <1>0, <1>1, <1>3 DEF Inv, TypeOK
  <2> QED
    BY <1>0, <1>1, <1>2, <2>1 DEF Inv, TypeOK, enqueues
<1>7. Chain'
  <2>1. 1 \in 1 .. N /\ N \in 1 .. N /\ 1 + 1 = 2
    OBVIOUS
  <2>2. head' = chain'[1] /\ tail' = chain'[N]
    <3>1. chain'[1] = chain[2]
      BY <1>2, <2>1
    <3>2. chain'[N] = chain[N + 1]
      BY <1>2, <2>1
    <3>3. head' = chain[2] /\ tail' = tail
      BY <1>1
    <3> QED
      BY <1>3, <3>1, <3>2, <3>3
  <2>3. ASSUME NEW i \in 1 .. N
        PROVE  chain'[i] \in live'
    <3>1. chain'[i] = chain[i + 1] /\ i + 1 \in 1 .. N + 1
      BY <1>2
    <3>2. chain[i + 1] \in live
      BY <1>3, <3>1
    <3> QED
      BY <1>1, <3>1, <3>2
  <2>4. \A i, j \in 1 .. N : chain'[i] = chain'[j] => i = j
    BY <1>2, <1>3
  <2> QED
    BY <1>2, <2>2, <2>3, <2>4 DEF Chain
<1>8. Links'
  <2>1. next'[tail'] = Null
    BY <1>1 DEF Inv, Links
  <2>2. ASSUME NEW i \in 1 .. N - 1
        PROVE  \/ next'[chain'[i]] = chain'[i + 1]
               \/ next'[chain'[i]] = Null /\ \E q \in Producer : Gap(q, i)'
    <3>1. i + 1 \in 1 .. N /\ chain'[i] = chain[i + 1] /\ chain'[i + 1] = chain[(i + 1) + 1]
      BY <1>2, <2>2
    <3>2. \/ next[chain[i + 1]] = chain[(i + 1) + 1]
          \/ next[chain[i + 1]] = Null /\ \E q \in Producer : Gap(q, i + 1)
      BY <1>0, <3>1 DEF Inv, Links
    <3>3. ASSUME NEW q \in Producer, Gap(q, i + 1), next[chain[i + 1]] = Null
          PROVE  Gap(q, i)'
      <4>1. Gap(q, (i + 1) - 1)'
        BY <1>5, <3>1, <3>3
      <4>2. (i + 1) - 1 = i
        OBVIOUS
      <4> QED
        BY <4>1, <4>2
    <3> QED
      BY <1>1, <3>1, <3>2, <3>3
  <2> QED
    BY <1>2, <2>1, <2>2 DEF Links
<1>9. OnTheirWay'
  <2>1. \A q \in Producer : Private(q)' =>
          /\ new_node'[q] \in live'
          /\ next'[new_node'[q]] = Null
          /\ \A i \in 1 .. Len(chain') : chain'[i] # new_node'[q]
    BY <1>0, <1>1, <1>2, <1>4 DEF Inv, OnTheirWay, enqueues
  <2>2. ASSUME NEW q \in Producer, pc'[q] = "link"
        PROVE  \E i \in 1 .. Len(chain') - 1 : Gap(q, i)' /\ next'[chain'[i]] = Null
    <3>1. PICK i \in 1 .. N : Gap(q, i) /\ next[chain[i]] = Null
      BY <1>0, <1>4, <2>2 DEF Inv, OnTheirWay
    <3>2. i - 1 \in 1 .. N - 1 /\ Gap(q, i - 1)' /\ chain'[i - 1] = chain[(i - 1) + 1]
      BY <1>2, <1>5, <3>1
    <3>3. (i - 1) + 1 = i
      OBVIOUS
    <3> QED
      BY <1>1, <1>2, <3>1, <3>2, <3>3
  <2>3. \A q, r \in Producer :
          q # r /\ pc'[q] # "idle" /\ pc'[r] # "idle" => new_node'[q] # new_node'[r]
    BY <1>1 DEF Inv, OnTheirWay, enqueues
  <2> QED
    BY <2>1, <2>2, <2>3 DEF OnTheirWay
<1>10. Consumer'
  <2>1. \A i \in 1 .. N : chain'[i] # chain[1]
    BY <1>2, <1>3
  <2>2. \A q \in Producer : Private(q)' => new_node'[q] # chain[1]
    BY <1>0, <1>1, <1>2, <1>4 DEF Inv, OnTheirWay, enqueues
  <2> QED
    BY <1>1, <1>2, <1>3, <2>1, <2>2 DEF Consumer
<1>11. Contents'
  <2>1. \A i \in 2 .. N : chain'[i] = chain[i + 1] /\ i + 1 \in 2 .. N + 1
    BY <1>2
  <2>2. \A i \in 2 .. N : data'[chain'[i]] \in offered'
    BY <1>0, <1>1, <2>1 DEF Inv, Contents
  <2>3. \A i, j \in 2 .. N : data'[chain'[i]] = data'[chain'[j]] => i = j
    BY <1>0, <1>1, <2>1 DEF Inv, Contents
  <2>4. \A q \in Producer : Private(q)' =>
          /\ data'[new_node'[q]] \in offered'
          /\ \A i \in 2 .. N : data'[chain'[i]] # data'[new_node'[q]]
    BY <1>0, <1>1, <1>4, <2>1 DEF Inv, Contents, enqueues
  <2>5. \A q, r \in Producer :
          q # r /\ Private(q)' /\ Private(r)' => data'[new_node'[q]] # data'[new_node'[r]]
    BY <1>1, <1>4 DEF Inv, Contents, enqueues
  <2> QED
    BY <1>2, <2>2, <2>3, <2>4, <2>5 DEF Contents
<1> QED
  BY <1>6, <1>7, <1>8, <1>9, <1>10, <1>11 DEF Inv

LEMMA CasHeadFailsInv ==
    ASSUME Inv, CasHeadFails
    PROVE  Inv'
<1>1. cpc' = "idle" /\ UNCHANGED <<head, tail, nodes, enqueues, curr_head, curr_next, val, chain, offered>>
  BY DEF CasHeadFails
<1>2. TypeOK' /\ Consumer'
  BY <1>1 DEF Inv, TypeOK, Consumer, nodes, enqueues
<1> QED
  BY <1>1, <1>2, Unmoved DEF Inv, nodes

LEMMA DeleteInv ==
    ASSUME Inv, Delete
    PROVE  Inv'
<1>1. /\ cpc = "delete" /\ cpc' = "idle" /\ live' = live \ {curr_head}
      /\ UNCHANGED <<head, tail, next, data, ableToDelete, enqueues, curr_head, curr_next, val, chain, offered>>
  BY DEF Delete, Victim
<1>2. /\ \A i \in 1 .. Len(chain) : chain[i] \in live'
      /\ \A q \in Producer : Private(q) => new_node[q] \in live'
  BY <1>1 DEF Inv, Chain, OnTheirWay, Consumer
<1>3. TypeOK' /\ Consumer'
  BY <1>1 DEF Inv, TypeOK, Consumer, enqueues
<1> QED
  BY <1>1, <1>2, <1>3, Unmoved DEF Inv

LEMMA StutterInv == Inv /\ UNCHANGED vars => Inv'
<1> SUFFICES ASSUME Inv, UNCHANGED vars PROVE Inv'
  OBVIOUS
<1>1. TypeOK'
  BY DEF vars, Inv, TypeOK, nodes, enqueues, dequeues
<1>2. Consumer'
  BY DEF vars, Inv, Consumer, Private, nodes, enqueues, dequeues
<1> QED
  BY <1>1, <1>2, Unmoved DEF Inv, vars, nodes

LEMMA NextInv == Inv /\ [Next]_vars => Inv'
<1> SUFFICES ASSUME Inv, [Next]_vars PROVE Inv'
  OBVIOUS
<1>1. ASSUME NEW p \in Producer, Enqueue(p) PROVE Inv'
  BY <1>1, LoadTailInv, CasTailInv, CasTailFailsInv, LinkInv DEF Enqueue
<1>2. ASSUME NEW p \in Producer, NEW i \in Item, NEW n \in Node, New(p, i, n) PROVE Inv'
  BY <1>2, NewInv
<1>3. CASE Dequeue
  BY <1>3, LoadNextInv, CasHeadInv, DeleteInv DEF Dequeue
<1>4. CASE Spurious
  BY <1>4, CasHeadFailsInv, CasTailFailsInv DEF Spurious
<1>5. CASE UNCHANGED vars
  BY <1>5, StutterInv
<1> QED
  BY <1>1, <1>2, <1>3, <1>4, <1>5 DEF Next

LEMMA Invariant == Spec => []Inv
  BY InitInv, NextInv, PTL DEF Spec

\* No thread uses memory that has been freed: neither the producer that writes to
\* the node that was the tail when it looked, nor the consumer (enqueue(), dequeue()).
THEOREM Safe == Spec => []NoDangling
<1>1. Inv => NoDangling
  <2> SUFFICES ASSUME Inv PROVE NoDangling
    OBVIOUS
  <2>1. Len(chain) \in Nat \ {0} /\ \A i \in 1 .. Len(chain) : chain[i] \in live
    BY DEF Inv, TypeOK, Chain
  <2>2. {head, tail} \subseteq live
    BY <2>1 DEF Inv, Chain
  <2>3. \A p \in Producer : pc[p] = "link" => {curr_tail[p], new_node[p]} \subseteq live
    BY <2>1 DEF Inv, OnTheirWay, Gap
  <2>4. cpc = "cas" => {curr_head, curr_next} \subseteq live
    BY <2>1 DEF Inv, Consumer
  <2>5. cpc = "delete" => curr_head \in live /\ curr_head # head
    BY <2>1 DEF Inv, Consumer, Chain
  <2> QED
    BY <2>2, <2>3, <2>4, <2>5 DEF NoDangling
<1> QED
  BY <1>1, Invariant, PTL
-----------------------------------------------------------------------------
(* The list implements MpscQueue.  CasTail puts an item, Link is the return *)
(* of its enqueue(), CasHead takes one and LoadNext may take nothing.       *)

ItemsIn(c, d) == [i \in 1 .. Len(c) - 1 |-> d[c[i + 1]]]

LEMMA ItemsInSeq ==
    ASSUME NEW c \in Seq(Node), Len(c) > 0, NEW d,
           \A i \in 2 .. Len(c) : d[c[i]] \in Item
    PROVE  ItemsIn(c, d) \in Seq(Item) /\ Len(ItemsIn(c, d)) = Len(c) - 1
<1>1. Len(c) - 1 \in Nat /\ \A i \in 1 .. Len(c) - 1 : d[c[i + 1]] \in Item
  <2>1. \A i \in 1 .. Len(c) - 1 : i + 1 \in 2 .. Len(c)
    OBVIOUS
  <2> QED
    BY <2>1
<1>2. ItemsIn(c, d) \in [1 .. Len(c) - 1 -> Item]
  BY <1>1 DEF ItemsIn
<1> QED
  BY <1>1, <1>2

LEMMA NoItems ==
    ASSUME NEW c, Len(c) = 1, NEW d
    PROVE  ItemsIn(c, d) = <<>>
<1>1. 1 .. Len(c) - 1 = {}
  OBVIOUS
<1> QED
  BY <1>1 DEF ItemsIn

LEMMA ItemsInAppend ==
    ASSUME NEW c \in Seq(Node), Len(c) > 0, NEW d, NEW n \in Node,
           \A i \in 2 .. Len(c) : d[c[i]] \in Item, d[n] \in Item
    PROVE  ItemsIn(Append(c, n), d) = Append(ItemsIn(c, d), d[n])
<1> DEFINE a == Append(c, n)
           s == ItemsIn(a, d)
           t == Append(ItemsIn(c, d), d[n])
<1>1. /\ a \in Seq(Node) /\ Len(a) = Len(c) + 1 /\ a[Len(c) + 1] = n
      /\ \A i \in 1 .. Len(c) : a[i] = c[i]
  BY AppendProperties
<1>2. \A i \in 2 .. Len(a) : d[a[i]] \in Item
  BY <1>1
<1>3. s \in Seq(Item) /\ Len(s) = Len(c)
  <2> HIDE DEF a
  <2>1. Len(a) > 0 /\ Len(a) - 1 = Len(c)
    BY <1>1
  <2> QED
    BY <1>1, <1>2, <2>1, ItemsInSeq
<1>4. ItemsIn(c, d) \in Seq(Item) /\ Len(ItemsIn(c, d)) = Len(c) - 1
  BY ItemsInSeq
<1>5. /\ t \in Seq(Item) /\ Len(t) = Len(c) /\ t[Len(c)] = d[n]
      /\ \A i \in 1 .. Len(c) - 1 : t[i] = ItemsIn(c, d)[i]
  BY <1>4, AppendProperties
<1>6. ASSUME NEW i \in 1 .. Len(c)
      PROVE  s[i] = t[i]
  <2>1. s[i] = d[a[i + 1]]
    BY <1>1 DEF ItemsIn
  <2>2. CASE i = Len(c)
    BY <1>1, <1>5, <2>1, <2>2
  <2>3. CASE i # Len(c)
    <3>1. i \in 1 .. Len(c) - 1 /\ i + 1 \in 1 .. Len(c)
      BY <2>3
    <3>2. ItemsIn(c, d)[i] = d[c[i + 1]]
      BY <3>1 DEF ItemsIn
    <3> QED
      BY <1>1, <1>5, <2>1, <3>1, <3>2
  <2> QED
    BY <2>2, <2>3
<1> HIDE DEF s, t
<1> QED
  BY <1>3, <1>5, <1>6, SeqEqual DEF s, t

LEMMA ItemsInTail ==
    ASSUME NEW c \in Seq(Node), Len(c) > 1, NEW d,
           \A i \in 2 .. Len(c) : d[c[i]] \in Item
    PROVE  /\ ItemsIn(c, d) # <<>>
           /\ Head(ItemsIn(c, d)) = d[c[2]]
           /\ ItemsIn(Tail(c), d) = Tail(ItemsIn(c, d))
<1> DEFINE s == ItemsIn(c, d)
           r == Tail(c)
           t == ItemsIn(r, d)
<1>1. s \in Seq(Item) /\ Len(s) = Len(c) - 1
  BY ItemsInSeq
<1>2. /\ r \in Seq(Node) /\ Len(r) = Len(c) - 1
      /\ \A i \in 1 .. Len(c) - 1 : r[i] = c[i + 1]
  BY HeadTailProperties, EmptySeq
<1>3. \A i \in 2 .. Len(r) : d[r[i]] \in Item
  <2>1. \A i \in 2 .. Len(c) - 1 : i \in 1 .. Len(c) - 1 /\ i + 1 \in 2 .. Len(c)
    OBVIOUS
  <2> QED
    BY <1>2, <2>1
<1>4. t \in Seq(Item) /\ Len(t) = Len(c) - 2
  <2> HIDE DEF r
  <2>1. Len(r) > 0 /\ Len(r) - 1 = Len(c) - 2
    BY <1>2
  <2> QED
    BY <1>2, <1>3, <2>1, ItemsInSeq
<1>5. s # <<>> /\ Head(s) = s[1]
  <2> HIDE DEF s
  <2> QED
    BY <1>1, EmptySeq
<1>6. s[1] = d[c[2]]
  <2>1. 1 \in 1 .. Len(c) - 1 /\ 1 + 1 = 2
    OBVIOUS
  <2> QED
    BY <2>1 DEF ItemsIn
<1>7. /\ Tail(s) \in Seq(Item) /\ Len(Tail(s)) = Len(c) - 2
      /\ \A i \in 1 .. Len(c) - 2 : Tail(s)[i] = s[i + 1]
  <2> HIDE DEF s
  <2> QED
    BY <1>1, <1>5, HeadTailProperties
<1>8. ASSUME NEW i \in 1 .. Len(c) - 2
      PROVE  Tail(s)[i] = t[i]
  <2>1. i \in 1 .. Len(r) - 1 /\ i + 1 \in 1 .. Len(c) - 1
    BY <1>2
  <2>2. t[i] = d[r[i + 1]]
    BY <2>1 DEF ItemsIn
  <2>3. s[i + 1] = d[c[(i + 1) + 1]]
    BY <2>1 DEF ItemsIn
  <2> QED
    BY <1>2, <1>7, <2>1, <2>2, <2>3
<1> HIDE DEF s, t
<1>9. t = Tail(s)
  BY <1>4, <1>7, <1>8, SeqEqual
<1> QED
  BY <1>5, <1>6, <1>9 DEF s, t

\* The items are those of the chain, and an item whose enqueue() has not returned
\* is at a gap: the one before it is not linked.
LEMMA Places ==
    ASSUME Inv
    PROVE  /\ chain \in Seq(Node) /\ Len(chain) \in Nat \ {0}
           /\ \A i \in 1 .. Len(chain) : chain[i] \in Node
           /\ Items = ItemsIn(chain, data)
           /\ \A i \in 2 .. Len(chain) : data[chain[i]] \in Item
           /\ \A p \in Producer : pc[p] = "link" =>
                 \E i \in 1 .. Len(chain) - 1 :
                    new_node[p] = chain[i + 1] /\ next[chain[i]] = Null
<1>1. Items = ItemsIn(chain, data)
  BY DEF Items, ItemsIn
<1>2. \A i \in 2 .. Len(chain) : data[chain[i]] \in Item
  BY DEF Inv, Contents, TypeOK
<1> QED
  BY <1>1, <1>2 DEF Inv, TypeOK, OnTheirWay, Gap

\* Steps that move neither the chain nor a producer that is between its two steps.
LEMMA Quiet ==
    ASSUME chain' = chain, val' = val,
           \A i \in 1 .. Len(chain) : data'[chain[i]] = data[chain[i]],
           \A p \in Producer :
              /\ pc'[p] = "link" <=> pc[p] = "link"
              /\ pc[p] = "link" => data'[new_node'[p]] = data[new_node[p]],
           Len(chain) \in Nat
    PROVE  Items' = Items /\ Unlinked' = Unlinked
<1>1. \A i \in 1 .. Len(chain) - 1 : data'[chain'[i + 1]] = data[chain[i + 1]]
  OBVIOUS
<1>2. Items' = Items
  BY <1>1 DEF Items
<1>3. {q \in Producer : pc'[q] = "link"} = {q \in Producer : pc[q] = "link"}
  OBVIOUS
<1>4. Unlinked' = Unlinked
  BY <1>3 DEF Unlinked
<1> QED
  BY <1>2, <1>4

LEMMA NewStep ==
    ASSUME Inv, NEW p \in Producer, NEW i \in Item, NEW n \in Node, New(p, i, n)
    PROVE  UNCHANGED Promise!vars
<1>1. \A k \in 1 .. Len(chain) : chain[k] \in Node /\ chain[k] # n
  BY DEF New, Inv, TypeOK, Chain
<1>2. /\ chain' = chain /\ val' = val
      /\ \A k \in 1 .. Len(chain) : data'[chain[k]] = data[chain[k]]
  BY <1>1 DEF New, Inv, TypeOK, dequeues
<1>3. ASSUME NEW q \in Producer
      PROVE  /\ pc'[q] = "link" <=> pc[q] = "link"
             /\ pc[q] = "link" => data'[new_node'[q]] = data[new_node[q]]
  <2>1. pc'[q] = "link" <=> pc[q] = "link"
    BY DEF New, Inv, TypeOK, Goto
  <2>2. ASSUME pc[q] = "link" PROVE data'[new_node'[q]] = data[new_node[q]]
    <3>1. q # p
      BY <2>2 DEF New
    <3>2. new_node'[q] = new_node[q]
      BY <3>1 DEF New, Inv, TypeOK
    <3>3. PICK k \in 1 .. Len(chain) - 1 : new_node[q] = chain[k + 1]
      BY <2>2, Places
    <3>4. k + 1 \in 1 .. Len(chain)
      BY Places
    <3> QED
      BY <1>2, <3>2, <3>3, <3>4
  <2> QED
    BY <2>1, <2>2
<1> QED
  BY <1>2, <1>3, Places, Quiet DEF Promise!vars

LEMMA CasTailStep ==
    ASSUME Inv, NEW p \in Producer, CasTail(p)
    PROVE  Promise!Next
<1> DEFINE n == new_node[p]
<1>1. /\ pc[p] = "cas" /\ pc' = [pc EXCEPT ![p] = "link"] /\ chain' = Append(chain, n)
      /\ data' = data /\ new_node' = new_node /\ val' = val
  BY DEF CasTail, Goto, nodes, dequeues
<1>2. n \in Node /\ data[n] \in Item
  BY <1>1 DEF Inv, TypeOK, OnTheirWay, Contents, Private
<1>3. Items' = Append(Items, data[n])
  <2>1. Items' = ItemsIn(chain', data')
    BY DEF Items, ItemsIn
  <2> HIDE DEF n
  <2> QED
    BY <1>1, <1>2, <2>1, Places, ItemsInAppend
<1>4. {q \in Producer : pc'[q] = "link"} = {q \in Producer : pc[q] = "link"} \cup {p}
  BY <1>1 DEF Inv, TypeOK
<1>5. Unlinked' = Unlinked \cup {data[n]}
  BY <1>1, <1>4 DEF Unlinked
<1>6. Promise!Put(data[n])
  BY <1>1, <1>3, <1>5 DEF Promise!Put
<1> QED
  BY <1>2, <1>6 DEF Promise!Next

LEMMA LinkStep ==
    ASSUME Inv, NEW p \in Producer, Link(p)
    PROVE  Promise!Next
<1> DEFINE n == new_node[p]
<1>1. /\ pc[p] = "link" /\ pc' = [pc EXCEPT ![p] = "idle"]
      /\ UNCHANGED <<data, new_node, chain, val>>
  BY DEF Link, Goto, dequeues
<1>2. PICK g \in 1 .. Len(chain) - 1 : n = chain[g + 1]
  BY <1>1, Places
<1>3. g + 1 \in 2 .. Len(chain) /\ data[n] \in Item
  BY <1>2, Places
<1>4. ASSUME NEW q \in Producer, q # p, pc[q] = "link"
      PROVE  data[new_node[q]] # data[n]
  <2>1. PICK h \in 1 .. Len(chain) - 1 : new_node[q] = chain[h + 1]
    BY <1>4, Places
  <2>2. h + 1 \in 2 .. Len(chain) /\ new_node[q] # n
    BY <1>1, <1>4, <2>1, Places DEF Inv, OnTheirWay
  <2> QED
    BY <1>2, <1>3, <2>1, <2>2 DEF Inv, Contents
<1>5. {q \in Producer : pc'[q] = "link"} = {q \in Producer : pc[q] = "link"} \ {p}
  BY <1>1 DEF Inv, TypeOK
<1>6. Unlinked' = Unlinked \ {data[n]} /\ data[n] \in Unlinked
  BY <1>1, <1>4, <1>5 DEF Unlinked
<1>7. Items' = Items
  BY <1>1 DEF Items
<1>8. Promise!Return(data[n])
  BY <1>1, <1>6, <1>7 DEF Promise!Return
<1> QED
  BY <1>3, <1>8 DEF Promise!Next

LEMMA LoadNextStep ==
    ASSUME Inv, LoadNext
    PROVE  [Promise!Next]_Promise!vars
<1>1. UNCHANGED <<pc, new_node, data, chain>>
  BY DEF LoadNext, nodes, enqueues
<1>2. Items' = Items /\ Unlinked' = Unlinked
  BY <1>1 DEF Items, Unlinked
<1>3. CASE next[head] # Null
  BY <1>2, <1>3 DEF LoadNext, Promise!vars
<1>4. CASE next[head] = Null
  <2>1. ASSUME Items # <<>>
        PROVE  Head(Items) \in Unlinked
    <3>1. Len(chain) > 1
      <4>1. Len(chain) = 1 => ItemsIn(chain, data) = <<>>
        BY NoItems
      <4>2. Items = ItemsIn(chain, data)
        BY Places
      <4>3. Len(chain) # 1
        BY <2>1, <4>1, <4>2, Zenon
      <4>4. chain \in Seq(Node) /\ Len(chain) \in Nat /\ Len(chain) # 0
        BY Places
      <4>5. \A n \in Nat : n # 0 /\ n # 1 => n > 1
        OBVIOUS
      <4> QED
        BY <4>3, <4>4, <4>5
    <3>2. head = chain[1] /\ 1 \in 1 .. Len(chain) - 1 /\ 2 \in 1 .. Len(chain) /\ 1 + 1 = 2
      BY <3>1, Places DEF Inv, Chain
    <3>3. PICK p \in Producer : Gap(p, 1)
      BY <1>4, <3>2, Places, QueueAssumption DEF Inv, Links
    <3>4. data[chain[2]] \in Unlinked
      BY <3>2, <3>3 DEF Gap, Unlinked
    <3>5. Head(ItemsIn(chain, data)) = data[chain[2]]
      BY <3>1, Places, ItemsInTail
    <3> QED
      BY <3>4, <3>5, Places
  <2>2. val' = Nothing
    BY <1>4 DEF LoadNext
  <2> QED
    BY <1>2, <2>1, <2>2 DEF Promise!TakeNothing, Promise!Next
<1> QED
  BY <1>3, <1>4

LEMMA CasHeadStep ==
    ASSUME Inv, CasHead
    PROVE  Promise!Next
<1>1. /\ Len(chain) > 1 /\ curr_next = chain[2] /\ next[chain[1]] = chain[2]
      /\ val' = data[chain[2]] /\ chain' = Tail(chain)
      /\ UNCHANGED <<data, pc, new_node>>
  BY DEF CasHead, Inv, Consumer, enqueues
<1>2. /\ Items # <<>> /\ Head(Items) = data[chain[2]]
      /\ ItemsIn(chain', data') = Tail(Items)
  BY <1>1, Places, ItemsInTail
<1>3. Items' = Tail(Items)
  BY <1>2 DEF Items, ItemsIn
<1>4. ASSUME NEW p \in Producer, pc[p] = "link"
      PROVE  data[new_node[p]] # data[chain[2]]
  <2>1. PICK i \in 1 .. Len(chain) - 1 : new_node[p] = chain[i + 1] /\ next[chain[i]] = Null
    BY <1>4, Places
  <2>2. chain[2] # Null
    BY <1>1, Places, QueueAssumption
  <2>3. i # 1 /\ i + 1 \in 2 .. Len(chain) /\ 2 \in 2 .. Len(chain) /\ i + 1 # 2
    BY <1>1, <2>1, <2>2, Places
  <2> QED
    BY <2>1, <2>3 DEF Inv, Contents
<1>5. Head(Items) \notin Unlinked /\ Unlinked' = Unlinked
  BY <1>1, <1>2, <1>4 DEF Unlinked
<1>6. Promise!Take
  BY <1>1, <1>2, <1>3, <1>5 DEF Promise!Take
<1> QED
  BY <1>6 DEF Promise!Next

LEMMA StepIsPromised == Inv /\ [Next]_vars => [Promise!Next]_Promise!vars
<1> SUFFICES ASSUME Inv, [Next]_vars
             PROVE  [Promise!Next]_Promise!vars
  OBVIOUS
<1>1. ASSUME UNCHANGED <<data, new_node, chain, val>>,
             \A p \in Producer : pc'[p] = "link" <=> pc[p] = "link"
      PROVE  UNCHANGED Promise!vars
  BY <1>1, Places, Quiet DEF Promise!vars
<1>2. ASSUME NEW p \in Producer, LoadTail(p) \/ CasTailFails(p)
      PROVE  UNCHANGED Promise!vars
  <2>1. UNCHANGED <<data, new_node, chain, val>>
    BY <1>2 DEF LoadTail, CasTailFails, nodes, dequeues
  <2>2. \A q \in Producer : pc'[q] = "link" <=> pc[q] = "link"
    BY <1>2 DEF LoadTail, CasTailFails, Goto, Inv, TypeOK
  <2> QED
    BY <1>1, <2>1, <2>2
<1>3. ASSUME Delete \/ CasHeadFails \/ UNCHANGED vars
      PROVE  UNCHANGED Promise!vars
  <2>1. UNCHANGED <<data, new_node, chain, val, pc>>
    BY <1>3 DEF Delete, CasHeadFails, vars, nodes, enqueues, dequeues
  <2> QED
    BY <1>1, <2>1
<1>4. ASSUME NEW p \in Producer, Enqueue(p) PROVE [Promise!Next]_Promise!vars
  BY <1>2, <1>4, CasTailStep, LinkStep DEF Enqueue
<1>5. ASSUME NEW p \in Producer, NEW i \in Item, NEW n \in Node, New(p, i, n)
      PROVE  [Promise!Next]_Promise!vars
  BY <1>5, NewStep
<1>6. CASE Dequeue
  BY <1>3, <1>6, LoadNextStep, CasHeadStep DEF Dequeue
<1>7. CASE Spurious
  BY <1>2, <1>3, <1>7 DEF Spurious
<1> QED
  BY <1>3, <1>4, <1>5, <1>6, <1>7 DEF Next

\* LockFreeQueue implements MpscQueue: whatever the producers and the consumer do to
\* one another, items come out once and in the order of the exchanges of tail, and
\* dequeue() finds nothing only when nothing is there or the oldest is not linked.
THEOREM Implements == Spec => Fifo
<1>1. Init => Promise!Init
  <2> SUFFICES ASSUME Init PROVE Promise!Init
    OBVIOUS
  <2>1. Inv /\ Len(chain) = 1
    BY InitInv DEF Init
  <2>2. Items = <<>>
    BY <2>1, Places, NoItems
  <2>3. Unlinked = {}
    BY DEF Init, Unlinked
  <2> QED
    BY <2>2, <2>3 DEF Init, Promise!Init
<1> QED
  BY <1>1, Invariant, StepIsPromised, PTL DEF Spec, Fifo, Promise!Spec
=============================================================================
