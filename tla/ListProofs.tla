----------------------------- MODULE ListProofs -----------------------------
(***************************************************************************)
(* The functions of lib/kernel/list.c do to the pointers what Append,      *)
(* putting in front and Tail do to the sequence a list stands for, and     *)
(* leave every other list alone.  This is why Threads, Sync and Heap may   *)
(* keep their lists as sequences.                                          *)
(***************************************************************************)
EXTENDS Lists, WellFoundedInduction, TLAPS

(* The sentinels of list and the members of s are nodes.                   *)
OnNodes(list, s) == list.head \in Node /\ list.tail \in Node /\ s \in Seq(Node)

(* node is no part of list while it holds s.                               *)
Outside(node, list, s) == \A i \in 0..(Len(s) + 1) : Chain(list, s)[i] # node

(* The two lists have no node in common.                                   *)
Apart(list, s, other, r) == \A i \in 0..(Len(r) + 1) : Outside(Chain(other, r)[i], list, s)

(* A chain consists of nodes.                                              *)
LEMMA ChainNodes ==
  ASSUME NEW list, NEW s, OnNodes(list, s)
  PROVE  /\ Len(s) \in Nat
         /\ \A i \in 0..(Len(s) + 1) : Chain(list, s)[i] \in Node
  BY DEF Chain, OnNodes

(* list_insert_before writes the pointers of three nodes.                  *)
LEMMA InsertWrites ==
  ASSUME NEW m \in Memory, NEW before \in Node, NEW node \in Node,
         m.prev[before] \in Node
  PROVE  LET n == list_insert_before(m, before, node)
         IN  /\ n \in Memory
             /\ n.next[node] = before
             /\ node # m.prev[before] => n.next[m.prev[before]] = node
             /\ \A x \in Node : x # node /\ x # m.prev[before] => n.next[x] = m.next[x]
             /\ n.prev[before] = node
             /\ node # before => n.prev[node] = m.prev[before]
             /\ \A x \in Node : x # node /\ x # before => n.prev[x] = m.prev[x]
  BY DEF list_insert_before, Memory

(* Inserting before member k of the chain puts the node at place k.        *)
LEMMA InsertAt ==
  ASSUME NEW m \in Memory, NEW list, NEW s, OnNodes(list, s), IsList(m, list, s),
         NEW k \in 1..(Len(s) + 1), NEW node \in Node, Outside(node, list, s),
         NEW t, OnNodes(list, t), Len(t) = Len(s) + 1,
         \A i \in 1..(k - 1) : t[i] = s[i],
         t[k] = node,
         \A i \in k..Len(s) : t[i + 1] = s[i]
  PROVE  IsList(list_insert_before(m, Chain(list, s)[k], node), list, t)
PROOF
<1> DEFINE c == Chain(list, s)
           d == Chain(list, t)
           n == list_insert_before(m, c[k], node)
<1>1. /\ Len(s) \in Nat
      /\ \A i \in 0..(Len(s) + 1) : c[i] \in Node /\ c[i] # node
      /\ \A i, j \in 0..(Len(s) + 1) : c[i] = c[j] => i = j
      /\ \A i \in 0..Len(s) : m.next[c[i]] = c[i + 1] /\ m.prev[c[i + 1]] = c[i]
  BY ChainNodes DEF Outside, IsList, Linked, Distinct
<1>2. /\ \A i \in 0..(k - 1) : d[i] = c[i]
      /\ d[k] = node
      /\ \A i \in (k + 1)..(Len(s) + 2) : d[i] = c[i - 1]
  BY <1>1 DEF Chain
<1> HIDE DEF c, d
<1>3. c[k] \in Node /\ m.prev[c[k]] = c[k - 1] /\ c[k - 1] \in Node
  <2>1. k - 1 \in 0..Len(s) /\ (k - 1) + 1 = k
    BY <1>1
  <2> QED  BY <1>1, <2>1
<1>4. /\ n.next[node] = c[k]
      /\ n.next[c[k - 1]] = node
      /\ \A x \in Node : x # node /\ x # c[k - 1] => n.next[x] = m.next[x]
      /\ n.prev[c[k]] = node
      /\ n.prev[node] = c[k - 1]
      /\ \A x \in Node : x # node /\ x # c[k] => n.prev[x] = m.prev[x]
  <2>1. k - 1 \in 0..(Len(s) + 1) /\ k \in 0..(Len(s) + 1)
    BY <1>1
  <2>2. node # c[k - 1] /\ node # c[k]
    BY <1>1, <2>1
  <2> QED  BY <1>3, <2>2, InsertWrites
<1>5. Linked(n, d, Len(t))
  <2> SUFFICES ASSUME NEW i \in 0..(Len(s) + 1)
               PROVE  n.next[d[i]] = d[i + 1] /\ n.prev[d[i + 1]] = d[i]
    BY DEF Linked
  <2>1. CASE i < k - 1
    <3>1. d[i] = c[i] /\ d[i + 1] = c[i + 1] /\ i \in 0..Len(s)
      BY <1>1, <1>2, <2>1
    <3>2. /\ i \in 0..(Len(s) + 1) /\ k - 1 \in 0..(Len(s) + 1) /\ i # k - 1
          /\ i + 1 \in 0..(Len(s) + 1) /\ k \in 0..(Len(s) + 1) /\ i + 1 # k
      BY <1>1, <2>1
    <3>3. c[i] # c[k - 1] /\ c[i + 1] # c[k]
      BY <1>1, <3>2
    <3> QED  BY <1>1, <1>4, <3>1, <3>2, <3>3
  <2>2. CASE i = k - 1
    BY <1>1, <1>2, <1>4, <2>2
  <2>3. CASE i = k
    BY <1>1, <1>2, <1>4, <2>3
  <2>4. CASE i > k
    <3>1. /\ i - 1 \in 0..Len(s) /\ (i - 1) + 1 = i /\ (i + 1) - 1 = i
          /\ i \in (k + 1)..(Len(s) + 2) /\ i + 1 \in (k + 1)..(Len(s) + 2)
      BY <1>1, <2>4
    <3>2. d[i] = c[i - 1] /\ d[i + 1] = c[i]
      BY <1>2, <3>1
    <3>3. c[i - 1] # c[k - 1] /\ c[i] # c[k]
      BY <1>1, <2>4
    <3>4. /\ m.next[c[i - 1]] = c[i] /\ m.prev[c[i]] = c[i - 1]
          /\ c[i - 1] \in Node \ {node} /\ c[i] \in Node \ {node}
      BY <1>1, <3>1
    <3> QED  BY <1>4, <3>2, <3>3, <3>4
  <2> QED  BY <1>1, <2>1, <2>2, <2>3, <2>4
<1>6. Distinct(d, Len(t))
  <2> DEFINE from(i) == IF i < k THEN i ELSE i - 1
  <2>1. \A i \in 0..(Len(s) + 2) :
           i # k => d[i] = c[from(i)] /\ from(i) \in 0..(Len(s) + 1) /\ d[i] # node
    BY <1>1, <1>2
  <2>2. \A i, j \in 0..(Len(s) + 2) : i # k /\ j # k /\ from(i) = from(j) => i = j
    BY <1>1
  <2> HIDE DEF from
  <2> SUFFICES ASSUME NEW i \in 0..(Len(s) + 2), NEW j \in 0..(Len(s) + 2), d[i] = d[j]
               PROVE  i = j
    BY <1>1 DEF Distinct
  <2>3. CASE i = k \/ j = k
    BY <1>2, <2>1, <2>3
  <2>4. CASE i # k /\ j # k
    BY <1>1, <2>1, <2>2, <2>4
  <2> QED  BY <2>3, <2>4
<1> QED  BY <1>5, <1>6 DEF IsList, c, d

(* list_append implements Append: it may be called with any node that is   *)
(* not in the list.                                                        *)
THEOREM AppendImplements ==
  ASSUME NEW m \in Memory, NEW list, NEW s, OnNodes(list, s), IsList(m, list, s),
         NEW node \in Node, Outside(node, list, s)
  PROVE  IsList(list_append(m, list, node), list, Append(s, node))
PROOF
<1>1. Len(s) \in Nat /\ Chain(list, s)[Len(s) + 1] = list.tail
  BY DEF Chain, OnNodes
<1> DEFINE t == Append(s, node)
<1>2. /\ OnNodes(list, t) /\ Len(t) = Len(s) + 1 /\ t[Len(s) + 1] = node
      /\ \A i \in 1..Len(s) : t[i] = s[i]
  BY DEF OnNodes
<1> HIDE DEF t
<1>3. IsList(list_insert_before(m, Chain(list, s)[Len(s) + 1], node), list, t)
  <2>1. /\ Len(s) + 1 \in 1..(Len(s) + 1) /\ (Len(s) + 1) - 1 = Len(s)
        /\ \A i \in (Len(s) + 1)..Len(s) : t[i + 1] = s[i]
    BY <1>1
  <2> QED  BY <1>2, <2>1, InsertAt
<1> QED  BY <1>1, <1>3 DEF list_append, t

(* list_push puts the node in front of the sequence.                       *)
THEOREM PushImplements ==
  ASSUME NEW m \in Memory, NEW list, NEW s, OnNodes(list, s), IsList(m, list, s),
         NEW node \in Node, Outside(node, list, s)
  PROVE  IsList(list_push(m, list, node), list, <<node>> \o s)
PROOF
<1>1. Len(s) \in Nat /\ Chain(list, s)[1] = m.next[list.head]
  <2>1. Len(s) \in Nat /\ 0 \in 0..Len(s) /\ 0 + 1 = 1 /\ Chain(list, s)[0] = list.head
    BY DEF Chain, OnNodes
  <2> QED  BY <2>1 DEF IsList, Linked
<1> DEFINE t == <<node>> \o s
<1>2. /\ OnNodes(list, t) /\ Len(t) = Len(s) + 1 /\ t[1] = node
      /\ \A i \in 1..Len(s) : t[i + 1] = s[i]
  BY DEF OnNodes
<1> HIDE DEF t
<1>3. IsList(list_insert_before(m, Chain(list, s)[1], node), list, t)
  <2>1. 1 \in 1..(Len(s) + 1) /\ \A i \in 1..(1 - 1) : t[i] = s[i]
    BY <1>1
  <2> QED  BY <1>2, <2>1, InsertAt
<1> QED  BY <1>1, <1>3 DEF list_push, t

(* list_remove takes member k out of the sequence, wherever it stands.     *)
THEOREM RemoveImplements ==
  ASSUME NEW m \in Memory, NEW list, NEW s, OnNodes(list, s), IsList(m, list, s),
         NEW k \in 1..Len(s),
         NEW t, OnNodes(list, t), Len(t) = Len(s) - 1,
         \A i \in 1..(k - 1) : t[i] = s[i],
         \A i \in k..(Len(s) - 1) : t[i] = s[i + 1]
  PROVE  IsList(list_remove(m, s[k]), list, t)
PROOF
<1> DEFINE c == Chain(list, s)
           d == Chain(list, t)
           n == list_remove(m, c[k])
<1>1. /\ Len(s) \in Nat /\ c[k] = s[k]
      /\ \A i \in 0..(Len(s) + 1) : c[i] \in Node
      /\ \A i, j \in 0..(Len(s) + 1) : c[i] = c[j] => i = j
      /\ \A i \in 0..Len(s) : m.next[c[i]] = c[i + 1] /\ m.prev[c[i + 1]] = c[i]
  <2>1. Len(s) \in Nat /\ c[k] = s[k]
    BY DEF OnNodes, Chain
  <2> QED  BY <2>1, ChainNodes DEF IsList, Linked, Distinct
<1>2. /\ \A i \in 0..(k - 1) : d[i] = c[i]
      /\ \A i \in k..Len(s) : d[i] = c[i + 1]
  <2>1. ASSUME NEW i \in 0..(k - 1)
        PROVE  d[i] = c[i]
    BY <1>1 DEF Chain
  <2>2. ASSUME NEW i \in k..Len(s)
        PROVE  d[i] = c[i + 1]
    <3>1. CASE i = Len(s)
      BY <1>1, <3>1 DEF Chain
    <3>2. CASE i < Len(s)
      BY <1>1, <3>2 DEF Chain
    <3> QED  BY <1>1, <3>1, <3>2
  <2> QED  BY <2>1, <2>2
<1> HIDE DEF c, d
<1>3. /\ k - 1 \in 0..Len(s) /\ (k - 1) + 1 = k /\ k \in 0..Len(s)
      /\ k - 1 \in 0..(Len(s) + 1) /\ k + 1 \in 0..(Len(s) + 1)
  BY <1>1
<1>4. /\ m.prev[c[k]] = c[k - 1] /\ m.next[c[k]] = c[k + 1]
      /\ c[k - 1] \in Node /\ c[k] \in Node /\ c[k + 1] \in Node
  BY <1>1, <1>3
<1>5. /\ n.next[c[k - 1]] = c[k + 1]
      /\ \A x \in Node : x # c[k - 1] => n.next[x] = m.next[x]
      /\ n.prev[c[k + 1]] = c[k - 1]
      /\ \A x \in Node : x # c[k + 1] => n.prev[x] = m.prev[x]
  BY <1>4 DEF list_remove, Memory
<1>6. Linked(n, d, Len(t))
  <2> SUFFICES ASSUME NEW i \in 0..(Len(s) - 1)
               PROVE  n.next[d[i]] = d[i + 1] /\ n.prev[d[i + 1]] = d[i]
    BY DEF Linked
  <2>1. CASE i < k - 1
    <3>0. Len(s) \in Nat /\ k \in 1..Len(s)
      BY <1>1
    <3>a. /\ i \in 0..(k - 1) /\ i + 1 \in 0..(k - 1)
          /\ i \in 0..Len(s) /\ i \in 0..(Len(s) + 1) /\ i + 1 \in 0..(Len(s) + 1)
          /\ i # k - 1 /\ i + 1 # k + 1
      BY <2>1, <3>0
    <3>1. d[i] = c[i] /\ d[i + 1] = c[i + 1] /\ i \in 0..Len(s) /\ i + 1 \in 0..(Len(s) + 1)
      BY <1>2, <3>a
    <3>2. c[i] # c[k - 1] /\ c[i + 1] # c[k + 1]
      BY <1>1, <1>3, <3>a
    <3>3. /\ m.next[c[i]] = c[i + 1] /\ m.prev[c[i + 1]] = c[i]
          /\ c[i] \in Node /\ c[i + 1] \in Node
      BY <1>1, <3>1
    <3> QED  BY <1>5, <3>1, <3>2, <3>3
  <2>2. CASE i = k - 1
    <3>1. d[i] = c[k - 1] /\ d[i + 1] = c[k + 1]
      BY <1>1, <1>2, <1>3, <2>2
    <3> QED  BY <1>5, <3>1
  <2>3. CASE i >= k
    <3>1. /\ i \in k..Len(s) /\ i + 1 \in k..Len(s) /\ i + 1 \in 0..Len(s)
          /\ i + 1 \in 0..(Len(s) + 1) /\ (i + 1) + 1 \in 0..(Len(s) + 1)
          /\ i + 1 # k - 1 /\ (i + 1) + 1 # k + 1
      BY <1>1, <2>3
    <3>2. d[i] = c[i + 1] /\ d[i + 1] = c[(i + 1) + 1]
      BY <1>2, <3>1
    <3>3. c[i + 1] # c[k - 1] /\ c[(i + 1) + 1] # c[k + 1]
      BY <1>1, <1>3, <3>1
    <3>4. m.next[c[i + 1]] = c[(i + 1) + 1] /\ m.prev[c[(i + 1) + 1]] = c[i + 1]
      BY <1>1, <3>1
    <3>5. c[i + 1] \in Node /\ c[(i + 1) + 1] \in Node
      BY <1>1, <3>1
    <3> QED  BY <1>5, <3>2, <3>3, <3>4, <3>5
  <2> QED  BY <1>1, <2>1, <2>2, <2>3
<1>7. Distinct(d, Len(t))
  <2> DEFINE from(i) == IF i < k THEN i ELSE i + 1
  <2>1. \A i \in 0..Len(s) : d[i] = c[from(i)] /\ from(i) \in 0..(Len(s) + 1)
    BY <1>1, <1>2
  <2>2. \A i, j \in 0..Len(s) : from(i) = from(j) => i = j
    BY <1>1
  <2> HIDE DEF from
  <2> SUFFICES ASSUME NEW i \in 0..Len(s), NEW j \in 0..Len(s), d[i] = d[j]
               PROVE  i = j
    BY <1>1 DEF Distinct
  <2> QED  BY <1>1, <2>1, <2>2
<1> QED  BY <1>1, <1>6, <1>7 DEF IsList, c, d

(* list_pop returns the first member and leaves the rest.                  *)
THEOREM PopImplements ==
  ASSUME NEW m \in Memory, NEW list, NEW s, OnNodes(list, s), IsList(m, list, s),
         s # <<>>
  PROVE  /\ list_front(m, list) = Head(s)
         /\ IsList(list_pop(m, list), list, Tail(s))
PROOF
<1>1. Len(s) \in Nat /\ 1 \in 1..Len(s)
  BY DEF OnNodes
<1>2. list_front(m, list) = s[1]
  <2>1. /\ 0 \in 0..Len(s) /\ 0 + 1 = 1
        /\ Chain(list, s)[0] = list.head /\ Chain(list, s)[1] = s[1]
    BY <1>1 DEF Chain
  <2> QED  BY <2>1 DEF IsList, Linked, list_front
<1> DEFINE t == Tail(s)
<1>3. OnNodes(list, t) /\ Len(t) = Len(s) - 1 /\ \A i \in 1..(Len(s) - 1) : t[i] = s[i + 1]
  BY DEF OnNodes
<1> HIDE DEF t
<1>4. IsList(list_remove(m, s[1]), list, t)
  <2>1. \A i \in 1..(1 - 1) : t[i] = s[i]
    BY <1>1
  <2> QED  BY <1>1, <1>3, <2>1, RemoveImplements
<1> QED  BY <1>2, <1>4 DEF list_pop, t

(* list_empty tells whether there are members.                             *)
THEOREM EmptyImplements ==
  ASSUME NEW m, NEW list, NEW s, OnNodes(list, s), IsList(m, list, s)
  PROVE  list_empty(m, list) <=> s = <<>>
PROOF
<1> DEFINE c == Chain(list, s)
<1>1. /\ Len(s) \in Nat /\ 0 \in 0..Len(s) /\ 0 + 1 = 1
      /\ c[0] = list.head /\ c[Len(s) + 1] = list.tail
      /\ 1 \in 0..(Len(s) + 1) /\ Len(s) + 1 \in 0..(Len(s) + 1)
  BY DEF Chain, OnNodes
<1> HIDE DEF c
<1>2. list_front(m, list) = c[1]
  BY <1>1 DEF IsList, Linked, list_front, c
<1>3. c[1] = c[Len(s) + 1] <=> 1 = Len(s) + 1
  BY <1>1 DEF IsList, Distinct, c
<1>4. Len(s) = 0 <=> s = <<>>
  BY DEF OnNodes
<1> QED  BY <1>1, <1>2, <1>3, <1>4 DEF list_empty

(* A list none of whose nodes is written stays as it is.                   *)
LEMMA Untouched ==
  ASSUME NEW m, NEW n, NEW other, NEW r, OnNodes(other, r), IsList(m, other, r),
         \A i \in 0..(Len(r) + 1) : /\ n.next[Chain(other, r)[i]] = m.next[Chain(other, r)[i]]
                                    /\ n.prev[Chain(other, r)[i]] = m.prev[Chain(other, r)[i]]
  PROVE  IsList(n, other, r)
PROOF
<1> DEFINE c == Chain(other, r)
<1>1. Len(r) \in Nat
  BY DEF OnNodes
<1>2. Linked(m, c, Len(r)) /\ Distinct(c, Len(r))
  BY DEF IsList
<1> HIDE DEF c
<1>3. Linked(n, c, Len(r))
  <2> SUFFICES ASSUME NEW i \in 0..Len(r)
               PROVE  n.next[c[i]] = c[i + 1] /\ n.prev[c[i + 1]] = c[i]
    BY DEF Linked
  <2>1. i \in 0..(Len(r) + 1) /\ i + 1 \in 0..(Len(r) + 1)
    BY <1>1
  <2> QED  BY <1>2, <2>1 DEF Linked, c
<1> QED  BY <1>2, <1>3 DEF IsList, c

(* Putting a node into one list, in front or behind, changes no other list *)
(* that has neither that node nor one of the first list.                   *)
THEOREM InsertKeepsOthers ==
  ASSUME NEW m \in Memory, NEW list, NEW s, OnNodes(list, s), IsList(m, list, s),
         NEW other, NEW r, OnNodes(other, r), IsList(m, other, r),
         Apart(list, s, other, r),
         NEW node \in Node, Outside(node, other, r)
  PROVE  /\ IsList(list_append(m, list, node), other, r)
         /\ IsList(list_push(m, list, node), other, r)
PROOF
<1> DEFINE c == Chain(list, s)
           d == Chain(other, r)
<1>1. /\ Len(s) \in Nat
      /\ \A i \in 0..(Len(s) + 1) : c[i] \in Node
      /\ \A i \in 0..Len(s) : m.next[c[i]] = c[i + 1] /\ m.prev[c[i + 1]] = c[i]
      /\ c[0] = list.head /\ c[Len(s) + 1] = list.tail
  <2>1. Len(s) \in Nat /\ c[0] = list.head /\ c[Len(s) + 1] = list.tail
    BY DEF Chain, OnNodes
  <2> QED  BY <2>1, ChainNodes DEF IsList, Linked
<1>2. \A i \in 0..(Len(r) + 1) : d[i] \in Node /\ d[i] # node
  BY ChainNodes DEF Outside
<1>3. \A i \in 0..(Len(r) + 1) : \A j \in 0..(Len(s) + 1) : d[i] # c[j]
  BY DEF Apart, Outside
<1> HIDE DEF c, d
<1>4. ASSUME NEW k \in 1..(Len(s) + 1)
      PROVE  IsList(list_insert_before(m, c[k], node), other, r)
  <2>1. /\ k - 1 \in 0..Len(s) /\ (k - 1) + 1 = k
        /\ k - 1 \in 0..(Len(s) + 1) /\ k \in 0..(Len(s) + 1)
    BY <1>1
  <2>2. c[k] \in Node /\ m.prev[c[k]] = c[k - 1] /\ c[k - 1] \in Node
    BY <1>1, <2>1
  <2> DEFINE n == list_insert_before(m, c[k], node)
  <2>3. \A x \in Node : x # node /\ x # c[k] /\ x # c[k - 1]
                          => n.next[x] = m.next[x] /\ n.prev[x] = m.prev[x]
    BY <2>2, InsertWrites
  <2> HIDE DEF n
  <2>4. \A i \in 0..(Len(r) + 1) : n.next[d[i]] = m.next[d[i]] /\ n.prev[d[i]] = m.prev[d[i]]
    BY <1>2, <1>3, <2>1, <2>3
  <2> QED  BY <2>4, Untouched DEF n, d
<1>5. /\ 1 \in 1..(Len(s) + 1) /\ Len(s) + 1 \in 1..(Len(s) + 1)
      /\ 0 \in 0..Len(s) /\ 0 + 1 = 1
  BY <1>1
<1>6. list_append(m, list, node) = list_insert_before(m, c[Len(s) + 1], node)
  BY <1>1 DEF list_append
<1>7. list_push(m, list, node) = list_insert_before(m, c[1], node)
  BY <1>1, <1>5 DEF list_push
<1> QED  BY <1>4, <1>5, <1>6, <1>7

(* list_pop from one list changes no other.                                *)
THEOREM PopKeepsOthers ==
  ASSUME NEW m \in Memory, NEW list, NEW s, OnNodes(list, s), IsList(m, list, s),
         s # <<>>,
         NEW other, NEW r, OnNodes(other, r), IsList(m, other, r),
         Apart(list, s, other, r)
  PROVE  IsList(list_pop(m, list), other, r)
PROOF
<1> DEFINE c == Chain(list, s)
           d == Chain(other, r)
<1>1. /\ Len(s) \in Nat /\ 0 \in 0..Len(s) /\ 1 \in 0..Len(s) /\ 0 + 1 = 1 /\ 1 + 1 = 2
      /\ 0 \in 0..(Len(s) + 1) /\ 1 \in 0..(Len(s) + 1) /\ 2 \in 0..(Len(s) + 1)
      /\ c[0] = list.head
  BY DEF Chain, OnNodes
<1>2. /\ m.next[c[0]] = c[1] /\ m.prev[c[1]] = c[0] /\ m.next[c[1]] = c[2]
      /\ c[0] \in Node /\ c[1] \in Node /\ c[2] \in Node
  BY <1>1, ChainNodes DEF IsList, Linked
<1>3. \A i \in 0..(Len(r) + 1) : d[i] \in Node
  BY ChainNodes
<1>4. \A i \in 0..(Len(r) + 1) : d[i] # c[0] /\ d[i] # c[2]
  BY <1>1 DEF Apart, Outside
<1> DEFINE n == list_pop(m, list)
<1> HIDE DEF c, d
<1>5. \A x \in Node : x # c[0] /\ x # c[2] => n.next[x] = m.next[x] /\ n.prev[x] = m.prev[x]
  BY <1>1, <1>2 DEF list_pop, list_front, list_remove, Memory
<1> HIDE DEF n
<1>6. \A i \in 0..(Len(r) + 1) : n.next[d[i]] = m.next[d[i]] /\ n.prev[d[i]] = m.prev[d[i]]
  BY <1>3, <1>4, <1>5
<1> QED  BY <1>6, Untouched DEF n, d
(* Inserting leaves pointers to nodes, and the only new successors are the *)
(* node and members of the list.                                           *)
LEMMA InsertMemory ==
  ASSUME NEW m \in Memory, NEW list, NEW s, OnNodes(list, s), IsList(m, list, s), NEW node \in Node
  PROVE  \A n \in {list_append(m, list, node), list_push(m, list, node)} :
           /\ n \in Memory
           /\ \A x \in Node : \/ n.next[x] = node \/ n.next[x] = m.next[x]
                              \/ \E i \in 0..(Len(s) + 1) : n.next[x] = Chain(list, s)[i]
<1> DEFINE c == Chain(list, s)
<1>1. /\ Len(s) \in Nat /\ \A i \in 0..(Len(s) + 1) : c[i] \in Node
      /\ c[0] = list.head /\ c[Len(s) + 1] = list.tail
      /\ \A i \in 0..Len(s) : m.next[c[i]] = c[i + 1] /\ m.prev[c[i + 1]] = c[i]
  BY ChainNodes DEF Chain, IsList, Linked, OnNodes
<1> HIDE DEF c
<1>2. ASSUME NEW k \in 1..(Len(s) + 1), NEW n, n = list_insert_before(m, c[k], node)
      PROVE  /\ n \in Memory
             /\ \A x \in Node : n.next[x] = node \/ n.next[x] = m.next[x] \/ n.next[x] = c[k]
  <2>1. k \in 0..(Len(s) + 1) /\ k - 1 \in 0..Len(s) /\ (k - 1) + 1 = k /\ k - 1 \in 0..(Len(s) + 1)
    BY <1>1
  <2>2. c[k] \in Node /\ m.prev[c[k]] \in Node
    BY <1>1, <2>1
  <2> HIDE DEF Memory
  <2> QED BY <1>2, <2>2, InsertWrites
<1>3. /\ list_append(m, list, node) = list_insert_before(m, c[Len(s) + 1], node)
      /\ list_push(m, list, node) = list_insert_before(m, c[1], node)
      /\ 1 \in 1..(Len(s) + 1) /\ Len(s) + 1 \in 1..(Len(s) + 1)
  <2>1. 0 \in 0..Len(s) /\ 0 + 1 = 1
    BY <1>1
  <2>2. m.next[list.head] = c[1]
    BY <1>1, <2>1
  <2> QED BY <1>1, <2>2 DEF list_append, list_push
<1>4. \A k \in 1..(Len(s) + 1) : k \in 0..(Len(s) + 1)
  BY <1>1
<1> QED BY <1>2, <1>3, <1>4 DEF c

(* Taking the front leaves pointers to nodes, and no new successors.       *)
LEMMA PopMemory ==
  ASSUME NEW m \in Memory, NEW list, NEW s, OnNodes(list, s), IsList(m, list, s), s # <<>>
  PROVE  /\ list_pop(m, list) \in Memory
         /\ \A x \in Node : \E y \in Node : list_pop(m, list).next[x] = m.next[y]
<1> DEFINE c == Chain(list, s)
           n == list_pop(m, list)
<1>1. /\ Len(s) \in Nat /\ Len(s) # 0 /\ \A i \in 0..(Len(s) + 1) : c[i] \in Node
      /\ c[0] = list.head
      /\ \A i \in 0..Len(s) : m.next[c[i]] = c[i + 1] /\ m.prev[c[i + 1]] = c[i]
  BY ChainNodes DEF Chain, IsList, Linked, OnNodes
<1> HIDE DEF c
<1>2. 0 \in 0..Len(s) /\ 1 \in 0..Len(s) /\ 1 \in 0..(Len(s) + 1) /\ 2 \in 0..(Len(s) + 1) /\ 0 + 1 = 1 /\ 1 + 1 = 2
  BY <1>1
<1>3. m.next[c[0]] = c[1] /\ m.prev[c[1]] = c[0] /\ m.next[c[1]] = c[2] /\ c[1] \in Node /\ c[2] \in Node /\ c[0] \in Node
  BY <1>1, <1>2
<1>4. n = [next |-> [m.next EXCEPT ![c[0]] = c[2]], prev |-> [m.prev EXCEPT ![c[2]] = c[0]]]
  BY <1>1, <1>3 DEF list_pop, list_front, list_remove
<1>5. m.next \in [Node -> Node \cup {NULL}] /\ m.prev \in [Node -> Node \cup {NULL}]
  BY DEF Memory
<1>6. n \in Memory
  BY <1>3, <1>4, <1>5 DEF Memory
<1>7. \A x \in Node : n.next[x] = m.next[x] \/ n.next[x] = m.next[c[1]]
  BY <1>3, <1>4, <1>5
<1> QED BY <1>3, <1>6, <1>7
-----------------------------------------------------------------------------
(* Two walks over the nodes are the same up to n if they begin alike and   *)
(* go on alike: a first place where they differ does not exist.            *)
Alike(f, g, n) == f[1] = g[1] /\ \A i \in 2..n : f[i - 1] = g[i - 1] => f[i] = g[i]

(* Two such walks are the same.                                            *)
LEMMA SameWalk ==
  ASSUME NEW n \in Nat, NEW f, NEW g, Alike(f, g, n)
  PROVE  \A i \in 1..n : f[i] = g[i]
<1> DEFINE T == {i \in 1..n : f[i] # g[i]}
           R == OpToRel(<, Nat)
<1> SUFFICES ASSUME T # {} PROVE FALSE
  OBVIOUS
<1>0. T \in SUBSET Nat
  OBVIOUS
<1>1. IsWellFoundedOn(R, Nat)
  BY NatLessThanWellFounded
<1> HIDE DEF R
<1>2. PICK i \in T : \A j \in T : ~ (<<j, i>> \in R)
  BY <1>0, <1>1, WFMin
<1>3. \A j \in T : ~ (j < i)
  BY <1>0, <1>2 DEF R, OpToRel
<1>4. i \in 1..n /\ f[i] # g[i] /\ i # 1
  BY DEF Alike
<1>5. i \in 2..n /\ i - 1 \in 1..n /\ i - 1 < i
  BY <1>4
<1>6. f[i - 1] = g[i - 1]
  BY <1>3, <1>5
<1> QED BY <1>4, <1>5, <1>6 DEF Alike

(* The loop of Visited has a meaning: a function that satisfies its        *)
(* recursion.                                                              *)
Walk(at, m, list) ==
  at = [i \in 1..(MaxLen + 1) |->
          [n \in Node \cup {NULL} |-> IF n \in {list.tail, NULL} THEN n ELSE m.next[n]]
            [IF i = 1 THEN list.head ELSE at[i - 1]]]

Stops(at, list, k) == /\ \A i \in 1..k : at[i] \notin {list.tail, NULL}
                      /\ k <= MaxLen => at[k + 1] \in {list.tail, NULL}

(* Its CHOOSE is a solution as soon as there is one.                       *)
LEMMA WalkIs ==
  ASSUME NEW m, NEW list, NEW f, Walk(f, m, list)
  PROVE  Walk(CHOOSE at : Walk(at, m, list), m, list)
  BY Zenon

(* A walk over the nodes of a list visits the sequence it holds.           *)
THEOREM VisitedImplements ==
  ASSUME NEW m, NEW list, NEW s, OnNodes(list, s), IsList(m, list, s),
         MaxLen \in Nat, Len(s) <= MaxLen, NULL \notin Node
  PROVE  Visited(m, list) = s
<1> DEFINE c == Chain(list, s)
           l == Len(s)
           step == [n \in Node \cup {NULL} |-> IF n \in {list.tail, NULL} THEN n ELSE m.next[n]]
           g == [i \in 1..(MaxLen + 1) |-> IF i <= l THEN s[i] ELSE list.tail]
           at == CHOOSE f : Walk(f, m, list)
<1>1. l \in Nat /\ l <= MaxLen /\ s \in Seq(Node) /\ list.head \in Node /\ list.tail \in Node
  BY DEF OnNodes
<1>2. /\ c[0] = list.head /\ c[l + 1] = list.tail /\ \A i \in 1..l : c[i] = s[i]
      /\ \A i \in 0..(l + 1) : c[i] \in Node
  BY <1>1 DEF Chain
<1>3. /\ \A i, j \in 0..(l + 1) : c[i] = c[j] => i = j
      /\ \A i \in 0..l : m.next[c[i]] = c[i + 1]
  BY DEF IsList, Linked, Distinct
<1> HIDE DEF c
<1>4. \A i \in 0..l : step[c[i]] = c[i + 1]
  <2> SUFFICES ASSUME NEW i \in 0..l PROVE step[c[i]] = c[i + 1]
    OBVIOUS
  <2>1. i \in 0..(l + 1) /\ l + 1 \in 0..(l + 1) /\ i # l + 1
    BY <1>1
  <2>2. c[i] # list.tail /\ c[i] # NULL /\ c[i] \in Node
    BY <1>2, <1>3, <2>1
  <2> QED BY <1>3, <2>2
<1>5. step[list.tail] = list.tail
  BY <1>1
<1> HIDE DEF step
<1>6. g[1] = step[list.head] /\ \A i \in 2..(MaxLen + 1) : g[i] = step[g[i - 1]]
  <2>1. g[1] = c[1] /\ step[list.head] = c[1]
    <3>1. 1 \in 1..(MaxLen + 1) /\ 0 \in 0..l /\ 0 + 1 = 1
      BY <1>1
    <3>2. step[c[0]] = c[1]
      BY <1>4, <3>1
    <3>3. CASE l = 0
      BY <1>1, <1>2, <3>1, <3>2, <3>3
    <3>4. CASE l # 0
      BY <1>1, <1>2, <3>1, <3>2, <3>4
    <3> QED BY <3>3, <3>4
  <2>2. ASSUME NEW i \in 2..(MaxLen + 1) PROVE g[i] = step[g[i - 1]]
    <3>1. i \in 1..(MaxLen + 1) /\ i - 1 \in 1..(MaxLen + 1) /\ (i - 1) + 1 = i
      BY <1>1
    <3>2. CASE i - 1 <= l
      <4>1. i - 1 \in 0..l /\ i - 1 \in 1..l
        BY <1>1, <3>1, <3>2
      <4>2. g[i - 1] = c[i - 1]
        BY <1>2, <3>1, <3>2, <4>1
      <4>3. step[g[i - 1]] = c[i]
        BY <1>4, <3>1, <4>1, <4>2
      <4>4. g[i] = c[i]
        <5>1. CASE i <= l
          <6>1. i \in 1..l
            BY <1>1, <5>1
          <6> QED BY <1>2, <3>1, <5>1, <6>1
        <5>2. CASE ~ (i <= l)
          <6>1. i = l + 1
            BY <1>1, <3>1, <3>2, <5>2
          <6> QED BY <1>2, <3>1, <5>2, <6>1
        <5> QED BY <5>1, <5>2
      <4> QED BY <4>3, <4>4
    <3>3. CASE ~ (i - 1 <= l)
      <4>1. ~ (i <= l)
        BY <1>1, <3>1, <3>3
      <4>2. g[i] = list.tail /\ g[i - 1] = list.tail
        BY <3>1, <3>3, <4>1
      <4> QED BY <1>5, <4>2
    <3> QED BY <3>2, <3>3
  <2> QED BY <2>1, <2>2
<1> HIDE DEF g
<1>7. Walk(g, m, list)
  <2> DEFINE e == [i \in 1..(MaxLen + 1) |-> step[IF i = 1 THEN list.head ELSE g[i - 1]]]
  <2>1. \A i \in 1..(MaxLen + 1) : i = 1 \/ i \in 2..(MaxLen + 1)
    BY <1>1
  <2>2. \A i \in 1..(MaxLen + 1) : g[i] = e[i]
    BY <1>6, <2>1
  <2>3. g = [i \in 1..(MaxLen + 1) |-> g[i]]
    BY DEF g
  <2>4. g = e
    BY <2>2, <2>3
  <2> HIDE DEF e
  <2>5. Walk(g, m, list) <=> g = e
    BY DEF Walk, e, step
  <2> QED BY <2>4, <2>5
<1>8. Walk(at, m, list)
  BY <1>7, WalkIs
<1> HIDE DEF at
<1>9. at[1] = step[list.head] /\ \A i \in 2..(MaxLen + 1) : at[i] = step[at[i - 1]]
  <2>1. at = [i \in 1..(MaxLen + 1) |-> step[IF i = 1 THEN list.head ELSE at[i - 1]]]
    BY <1>8 DEF Walk, step
  <2>2. 1 \in 1..(MaxLen + 1) /\ \A i \in 2..(MaxLen + 1) : i \in 1..(MaxLen + 1) /\ i # 1
    BY <1>1
  <2> QED BY <2>1, <2>2
<1>10. \A i \in 1..(MaxLen + 1) : at[i] = g[i]
  <2> DEFINE n == MaxLen + 1
  <2>1. n \in Nat /\ at[1] = g[1]
    BY <1>1, <1>6, <1>9
  <2>2. \A i \in 2..n : at[i - 1] = g[i - 1] => at[i] = g[i]
    BY <1>6, <1>9
  <2> HIDE DEF n
  <2>3. Alike(at, g, n)
    BY <2>1, <2>2 DEF Alike
  <2>4. \A i \in 1..n : at[i] = g[i]
    BY <2>1, <2>3, SameWalk
  <2> QED BY <2>4 DEF n
<1>11. /\ \A i \in 1..l : at[i] = s[i] /\ at[i] \notin {list.tail, NULL}
       /\ at[l + 1] = list.tail
  <2>1. ASSUME NEW i \in 1..l PROVE at[i] = s[i] /\ at[i] \notin {list.tail, NULL}
    <3>1. i \in 1..(MaxLen + 1) /\ i <= l /\ i \in 0..(l + 1) /\ l + 1 \in 0..(l + 1) /\ i # l + 1
      BY <1>1
    <3>2. at[i] = s[i]
      BY <1>10, <3>1 DEF g
    <3>3. s[i] = c[i] /\ c[i] # c[l + 1] /\ c[i] \in Node
      BY <1>2, <1>3, <3>1
    <3> QED BY <1>2, <3>2, <3>3
  <2>2. l + 1 \in 1..(MaxLen + 1) /\ ~ (l + 1 <= l)
    BY <1>1
  <2>3. at[l + 1] = list.tail
    BY <1>10, <2>2 DEF g
  <2> QED BY <2>1, <2>3
<1>12. l \in 0..(MaxLen + 1) /\ Stops(at, list, l)
  BY <1>1, <1>11 DEF Stops
<1>13. ASSUME NEW k \in 0..(MaxLen + 1), Stops(at, list, k) PROVE k = l
  <2>1. CASE k < l
    <3>1. k + 1 \in 1..l /\ k <= MaxLen
      BY <1>1, <2>1
    <3> QED BY <1>11, <1>13, <3>1 DEF Stops
  <2>2. CASE k > l
    <3>1. l + 1 \in 1..k
      BY <1>1, <2>2
    <3> QED BY <1>11, <1>13, <3>1 DEF Stops
  <2> QED BY <1>1, <2>1, <2>2
<1> DEFINE len == CHOOSE k \in 0..(MaxLen + 1) : Stops(at, list, k)
<1>14. len = l
  <2>1. len \in 0..(MaxLen + 1) /\ Stops(at, list, len)
    BY <1>12, Zenon
  <2> HIDE DEF len
  <2> QED BY <1>13, <2>1
<1>15. Visited(m, list) = [i \in 1..len |-> at[i]]
  BY Zenon DEF Visited, Walk, Stops, at
<1> HIDE DEF len
<1>16. [i \in 1..l |-> at[i]] = [i \in 1..l |-> s[i]]
  BY <1>11
<1>17. s = [i \in 1..l |-> s[i]]
  BY <1>1
<1> QED BY <1>14, <1>15, <1>16, <1>17
=============================================================================
