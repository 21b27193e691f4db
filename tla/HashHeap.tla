------------------------------ MODULE HashHeap ------------------------------
(***************************************************************************)
(* HashHeap<Key, Score>: keys with scores, the best first, and a list of   *)
(* the keys for a choice at random or in turn.  Every operation holds the  *)
(* mutex from its first to its last line.                                  *)
(*                                                                         *)
(* The list holds pointers to the strings of the caller of insert().  A    *)
(* caller whose string is gone by then leaves it pointers behind which any *)
(* key may be read (Borrowed).                                             *)
(***************************************************************************)
EXTENDS Integers, SequencesExt

CONSTANTS
    Key,
    Score,
    Borrowed        \* the strings given to insert() do not outlive the call

ASSUME HeapAssumption == Score \subseteq Int /\ Borrowed \in BOOLEAN

Entry == [key : Key, score : Score]

\* sorted is sorted_scores, index the scores of key_index, list random_list and pos
\* key_to_random_list.
EmptyHeap == [sorted |-> <<>>, index |-> <<>>, list |-> <<>>, pos |-> <<>>]

\* What may be read where a pointer to k is kept.
Read(k) == IF Borrowed THEN Key ELSE {k}

With(f, k, v) == [x \in DOMAIN f \cup {k} |-> IF x = k THEN v ELSE f[x]]
Without(f, k) == [x \in DOMAIN f \ {k} |-> f[x]]

\* Mutant: the entry of an old score stays.
Erase_Nothing(sorted, k) == sorted

\* The entry at the iterator that key_index has for a key.
Erase(sorted, k) == RemoveAt(sorted, CHOOSE i \in DOMAIN sorted : sorted[i].key = k)

\* Mutant: the order of std::less.
Emplace_Less(sorted, k, v) ==
    InsertAt(sorted, CHOOSE p \in 1 .. Len(sorted) + 1 :
                        \A i \in DOMAIN sorted : i < p <=> sorted[i].score <= v, [key |-> k, score |-> v])

\* multimap::emplace(): the highest score first, behind those that are equal.
Emplace(sorted, k, v) ==
    InsertAt(sorted, CHOOSE p \in 1 .. Len(sorted) + 1 :
                        \A i \in DOMAIN sorted : i < p <=> sorted[i].score >= v, [key |-> k, score |-> v])

insert(h, k, v) ==
    LET known == k \in DOMAIN h.index
    IN  [sorted |-> Emplace(IF known THEN Erase(h.sorted, k) ELSE h.sorted, k, v),
         index  |-> With(h.index, k, v),
         list   |-> IF known THEN h.list ELSE Append(h.list, k),
         pos    |-> IF known THEN h.pos ELSE With(h.pos, k, Len(h.list))]

\* Where remove_random_key() takes the key to be: 0 if it is not there.
Position(h, k) == IF k \in DOMAIN h.pos THEN h.pos[k] ELSE 0

\* remove_random_key() writes where the key is; outside the list that is memory of others.
Removable(h, k) == Position(h, k) < Len(h.list)

\* Known or not, remove_random_key() reads a key through the pointer that it finds in that
\* place: one to a string that is gone, or no pointer at all.
Undefined(h, k) == Borrowed \/ ~Removable(h, k)

\* The last of the list takes the place of the key.  Its pointer is read where the key was,
\* behind the end if the key was the last.
remove_random_key(h, k) ==
    LET p     == Position(h, k)
        moved == IF Removable(h, k) THEN [h.list EXCEPT ![p + 1] = Last(h.list)] ELSE h.list
        read  == IF Removable(h, k) THEN Read(Last(h.list)) ELSE Key
    IN  {[list |-> IF moved = <<>> THEN <<>> ELSE Front(moved),
          pos  |-> With(Without(h.pos, k), x, p)] : x \in read}

remove(h, k) ==
    LET known == k \in DOMAIN h.index
    IN  {[sorted |-> IF known THEN Erase(h.sorted, k) ELSE h.sorted,
          index  |-> Without(h.index, k),
          list   |-> r.list, pos |-> r.pos] : r \in remove_random_key(h, k)}

\* The best; nothing of an empty heap.
maxOne(h) == {h.sorted[i].key : i \in DOMAIN h.sorted \cap {1}}
=============================================================================
