-------------------------------- MODULE Lists --------------------------------
(***************************************************************************)
(* The doubly linked lists of lib/kernel/list.c.  A node is two pointers   *)
(* inside some structure; m.next and m.prev are those pointers for every   *)
(* node there is.  A list is its two sentinels, head and tail.  Each       *)
(* function that writes pointers does so with interrupts disabled and is   *)
(* an operator from the memory before the call to the memory after it.     *)
(***************************************************************************)
EXTENDS Naturals, Sequences, FiniteSets

CONSTANTS Node,     \* the addresses of all list_nodes, sentinels included
          MaxLen,   \* no list has more members
          NULL

Memory == [next : [Node -> Node \cup {NULL}], prev : [Node -> Node \cup {NULL}]]

list_init(m, list) ==
  [next |-> [m.next EXCEPT ![list.head] = list.tail, ![list.tail] = NULL],
   prev |-> [m.prev EXCEPT ![list.head] = NULL, ![list.tail] = list.head]]

list_insert_before(m, before, node) ==
  [next |-> [m.next EXCEPT ![m.prev[before]] = node, ![node] = before],
   prev |-> [m.prev EXCEPT ![node] = m.prev[before], ![before] = node]]

(* Mutant of list_push: the node goes to the end.                          *)
list_push_end(m, list, node) == list_insert_before(m, list.tail, node)

list_push(m, list, node) == list_insert_before(m, m.next[list.head], node)
list_append(m, list, node) == list_insert_before(m, list.tail, node)

(* Mutant of list_remove: the successor keeps its prev.                    *)
list_remove_half(m, node) ==
  [next |-> [m.next EXCEPT ![m.prev[node]] = m.next[node]], prev |-> m.prev]

(* The removed node keeps its own two pointers.                            *)
list_remove(m, node) ==
  [next |-> [m.next EXCEPT ![m.prev[node]] = m.next[node]],
   prev |-> [m.prev EXCEPT ![m.next[node]] = m.prev[node]]]

list_front(m, list) == m.next[list.head]
list_pop(m, list) == list_remove(m, list_front(m, list))
list_empty(m, list) == list_front(m, list) = list.tail

(* The nodes that the loop of node_find, list_traversal and list_len       *)
(* visits, from head.next to the tail, when nothing changes meanwhile.     *)
Visited(m, list) ==
  LET ends == {list.tail, NULL}
      step == [n \in Node \cup {NULL} |-> IF n \in ends THEN n ELSE m.next[n]]
      at[i \in 1..(MaxLen + 1)] == step[IF i = 1 THEN list.head ELSE at[i - 1]]
      len == CHOOSE k \in 0..(MaxLen + 1) : /\ \A i \in 1..k : at[i] \notin ends
                                            /\ k <= MaxLen => at[k + 1] \in ends
  IN  [i \in 1..len |-> at[i]]

list_len(m, list) == Len(Visited(m, list))
node_find(m, list, node) == \E i \in 1..list_len(m, list) : Visited(m, list)[i] = node
-----------------------------------------------------------------------------
(* What the pointers stand for: list holds the sequence s when next leads  *)
(* from head over the members of s, in order, to tail, prev leads back the *)
(* same way, and no node comes twice.                                      *)
Chain(list, s) == [i \in 0..(Len(s) + 1) |-> IF i = 0 THEN list.head
                                             ELSE IF i = Len(s) + 1 THEN list.tail
                                             ELSE s[i]]

Linked(m, c, n) == \A i \in 0..n : m.next[c[i]] = c[i + 1] /\ m.prev[c[i + 1]] = c[i]

Distinct(c, n) == \A i, j \in 0..(n + 1) : c[i] = c[j] => i = j

IsList(m, list, s) == /\ Linked(m, Chain(list, s), Len(s))
                      /\ Distinct(Chain(list, s), Len(s))
=============================================================================
