----------------------------- MODULE LinkedList -----------------------------
(***************************************************************************)
(* Lab 1: the linked list.  The heap is a record: the head of the list,    *)
(* the value and the next pointer of every node, and the nodes that malloc *)
(* has given out and free has not taken back.                              *)
(*                                                                         *)
(* An operation is the writes it makes to the heap, in their order, and    *)
(* what it returns; all it reads it reads before the first write.  A loop  *)
(* that follows the next pointers is the node at which it stops.           *)
(***************************************************************************)
EXTENDS Integers, Sequences, FiniteSets, SequencesExt

CONSTANTS
  Nodes,   \* the nodes malloc can give out
  NULL

ASSUME HeapAssumption ==
  /\ NULL \notin Nodes
  /\ IsFiniteSet(Nodes)

-----------------------------------------------------------------------------
(* Reading                                                                 *)

\* The node that k steps from the head lead to, NULL from the end on.
NodeAt(h) ==
  LET at[k \in 0 .. Cardinality(Nodes)] ==
        IF k = 0 THEN h.head
        ELSE IF at[k - 1] = NULL THEN NULL ELSE h.next[at[k - 1]]
  IN  at

list_length(h) == Cardinality({k \in DOMAIN NodeAt(h) : NodeAt(h)[k] # NULL})

\* The values from the first to the last, as list_print shows them.
Elements(h) ==
  [k \in 1 .. list_length(h) |-> h.value[NodeAt(h)[k - 1]]]

Smaller(a, b) == IF a < b THEN a ELSE b

list_is_in(h, v) ==
  \E k \in 0 .. list_length(h) - 1 : h.value[NodeAt(h)[k]] = v

\* The first index is 0, although list.h says it is 1.
list_get_elem_at(h, index) ==
  IF index \in 0 .. list_length(h) - 1 THEN h.value[NodeAt(h)[index]] ELSE -1

list_get_index_of(h, v) ==
  IF list_is_in(h, v)
  THEN CHOOSE k \in 0 .. list_length(h) - 1 :
         /\ h.value[NodeAt(h)[k]] = v
         /\ \A j \in 0 .. k - 1 : h.value[NodeAt(h)[j]] # v
  ELSE -1

-----------------------------------------------------------------------------
(* Writes                                                                  *)

\* malloc and the assignments to a node that nobody else can reach.
getNode(n, v, next) == [do |-> "malloc", node |-> n, value |-> v, to |-> next]
SetHead(n) == [do |-> "head", to |-> n]
SetNext(n, next) == [do |-> "next", node |-> n, to |-> next]
Free(n) == [do |-> "free", node |-> n]

Write(h, w) ==
  CASE w.do = "malloc" -> [h EXCEPT !.used = @ \cup {w.node},
                                    !.value[w.node] = w.value,
                                    !.next[w.node] = w.to]
    [] w.do = "head" -> [h EXCEPT !.head = w.to]
    [] w.do = "next" -> [h EXCEPT !.next[w.node] = w.to]
    [] w.do = "free" -> [h EXCEPT !.used = @ \ {w.node}]

Op(writes, ret) == [writes |-> writes, ret |-> ret]

\* The heap after the whole operation.
After(h, op) == FoldLeft(Write, h, op.writes)

-----------------------------------------------------------------------------
(* The operations that change the list; n is the node malloc returns       *)

list_add_to_front(h, n, v) == Op(<<getNode(n, v, h.head), SetHead(n)>>, v)

list_add_to_back(h, n, v) ==
  LET last == NodeAt(h)[list_length(h) - 1] IN
  Op(<<getNode(n, v, NULL),
       IF h.head = NULL THEN SetHead(n) ELSE SetNext(last, n)>>, v)

AddAfter(h, n, v, curr) ==
  Op(<<getNode(n, v, h.next[curr]), SetNext(curr, n)>>, v)

list_add_at_index_one_late(h, n, v, index) == \* a mutant: i < index
  IF index <= 0 \/ h.head = NULL
  THEN list_add_to_front(h, n, v)
  ELSE AddAfter(h, n, v, NodeAt(h)[Smaller(index + 1, list_length(h)) - 1])

list_add_at_index(h, n, v, index) ==
  IF index <= 0 \/ h.head = NULL
  THEN list_add_to_front(h, n, v)
  ELSE AddAfter(h, n, v, NodeAt(h)[Smaller(index, list_length(h)) - 1])

RemoveNothing == Op(<< >>, -1)

list_remove_from_front(h) ==
  IF h.head = NULL
  THEN RemoveNothing
  ELSE Op(<<SetHead(h.next[h.head]), Free(h.head)>>, h.value[h.head])

list_remove_from_back(h) ==
  LET len == list_length(h)
      last == NodeAt(h)[len - 1]
  IN  CASE len = 0 -> RemoveNothing
        [] len = 1 -> Op(<<Free(last), SetHead(NULL)>>, h.value[last])
        [] OTHER -> Op(<<Free(last), SetNext(NodeAt(h)[len - 2], NULL)>>,
                       h.value[last])

\* The loop to the node before; the last node has none after it.
BeforeOneLate(h, index) == \* a mutant: i < index
  NodeAt(h)[Smaller(index + 1, list_length(h)) - 1]
Before(h, index) == NodeAt(h)[Smaller(index, list_length(h)) - 1]

list_remove_at_index(h, index) ==
  IF h.head = NULL THEN RemoveNothing
  ELSE IF index <= 0 THEN list_remove_from_front(h)
  ELSE LET curr == Before(h, index)
           temp == h.next[curr]
       IN  IF temp = NULL THEN RemoveNothing
           ELSE Op(<<SetNext(curr, h.next[temp]), Free(temp)>>, h.value[temp])

-----------------------------------------------------------------------------
(* What they mean, on sequences                                            *)

Clip(x, low, high) == IF x < low THEN low ELSE IF x > high THEN high ELSE x

Inserted(s, v, index) == InsertAt(s, Clip(index, 0, Len(s)) + 1, v)

\* The list without the element at an index, and that element.
Without(s, index) ==
  IF index \in 0 .. Len(s) - 1
  THEN <<RemoveAt(s, index + 1), s[index + 1]>>
  ELSE <<s, -1>>

Does(h, op, result) ==
  /\ <<Elements(After(h, op)), op.ret>> = result
  /\ After(h, op).used = {NodeAt(After(h, op))[k] :
                            k \in 0 .. Len(result[1]) - 1}

(* What the library does to a list, it does to the sequence of values: what *)
(* is added is found there, what is removed is gone and returned, nothing   *)
(* else moves, and no node is in the heap that is not in the list.  Where   *)
(* values are added and removed, the first element has index 0 (main.c of   *)
(* lab 1 expects it), lower indices stand for it, and higher ones than the  *)
(* last for the end when adding.  list_get_elem_at, of which list.h says    *)
(* that its first index is 1, is only held to what is true from either      *)
(* base: it gives -1 at -1 and at Len + 1, and the value at the index that  *)
(* list_get_index_of returns for it, which is the first index to have it.   *)
IsASequence(h, Values) ==
  LET s == Elements(h)
      Indices == -1 .. Len(s) + 1
  IN  /\ \A n \in Nodes \ h.used, v \in Values :
           /\ Does(h, list_add_to_front(h, n, v), <<<<v>> \o s, v>>)
           /\ Does(h, list_add_to_back(h, n, v), <<Append(s, v), v>>)
           /\ \A i \in Indices :
                Does(h, list_add_at_index(h, n, v, i), <<Inserted(s, v, i), v>>)
      /\ Does(h, list_remove_from_front(h), Without(s, 0))
      /\ Does(h, list_remove_from_back(h), Without(s, Len(s) - 1))
      /\ \A i \in Indices :
           Does(h, list_remove_at_index(h, i), Without(s, IF i < 0 THEN 0 ELSE i))
      /\ \A i \in {-1, Len(s) + 1} : list_get_elem_at(h, i) = -1
      /\ \A v \in Values :
           /\ list_is_in(h, v) <=> \E j \in DOMAIN s : s[j] = v
           /\ LET i == list_get_index_of(h, v) IN
              IF list_is_in(h, v)
              THEN /\ list_get_elem_at(h, i) = v
                   /\ \A j \in 0 .. i - 1 : list_get_elem_at(h, j) # v
              ELSE i = -1
=============================================================================
