----------------------------- MODULE TasksProofs -----------------------------
(***************************************************************************)
(* Proofs, for any set of tasks, any programme of main and any time slice, *)
(* of the safety properties of Tasks and Boot, and of the refinement of    *)
(* Threads by Tasks.                                                       *)
(*                                                                         *)
(* The lists of the kernel are pointers in one memory.  Holds(m, Q, A)     *)
(* says that the pointers m hold the queues Q (the ready list and the      *)
(* waiters of each lock) and the list A of all tasks; the lemmas on it,    *)
(* from those of ListProofs, say what list_append, list_push and list_pop  *)
(* make of Q and A.  The invariant TasksInv(Q) is about these queues, and  *)
(* each action has a lemma.                                                *)
(***************************************************************************)
EXTENDS Tasks, FiniteSetTheorems, TLAPS

(* The theorems about lists, for the nodes of the kernel.                  *)
LP == INSTANCE ListProofs WITH Node <- Nodes, MaxLen <- Cardinality(Task)

Queue == {"ready"} \cup Lock

(* The list functions of Tasks are those of ListProofs.                    *)
LEMMA Same ==
  /\ \A m, l, s : LP!IsList(m, l, s) <=> IsList(m, l, s)
  /\ \A m, l, x : LP!list_append(m, l, x) = list_append(m, l, x) /\ LP!list_push(m, l, x) = list_push(m, l, x)
  /\ \A m, l : LP!list_pop(m, l) = list_pop(m, l) /\ LP!list_front(m, l) = list_front(m, l)
               /\ (LP!list_empty(m, l) <=> list_empty(m, l)) /\ LP!Visited(m, l) = Visited(m, l)
  /\ LP!Memory = Memory
<1>1. \A l, s : LP!Chain(l, s) = Chain(l, s)
  BY DEF LP!Chain, Chain
<1>2. \A m, l, s : LP!IsList(m, l, s) <=> IsList(m, l, s)
  BY <1>1 DEF LP!IsList, IsList, LP!Linked, Linked, LP!Distinct, Distinct
<1>3. \A m, l, x : LP!list_append(m, l, x) = list_append(m, l, x) /\ LP!list_push(m, l, x) = list_push(m, l, x)
  BY DEF LP!list_append, list_append, LP!list_push, list_push, LP!list_insert_before, list_insert_before
<1>4. \A m, l : LP!list_pop(m, l) = list_pop(m, l) /\ LP!list_front(m, l) = list_front(m, l)
               /\ (LP!list_empty(m, l) <=> list_empty(m, l)) 
  BY DEF LP!list_pop, list_pop, LP!list_remove, list_remove, LP!list_front, list_front, LP!list_empty, list_empty
<1>5. \A m, l : LP!Visited(m, l) = Visited(m, l)
  BY Zenon DEF LP!Visited, Visited
<1>6. LP!Memory = Memory
  BY DEF LP!Memory, Memory
<1> QED BY <1>2, <1>3, <1>4, <1>5, <1>6

(* The nodes of a sequence of tasks, and being in it.                      *)
Tags(s) == [i \in 1..Len(s) |-> Tag(s[i])]
AllTags(s) == [i \in 1..Len(s) |-> AllTag(s[i])]
In(t, s) == \E i \in 1..Len(s) : s[i] = t

Sentinels(name) == {<<"head", name>>, <<"tail", name>>}

(* A queue is on nodes, its own sentinels and the tags of its members.     *)
LEMMA QueueNodes ==
  ASSUME NEW n \in Queue, NEW s \in Seq(Task)
  PROVE  /\ LP!OnNodes(List(n), Tags(s)) /\ Len(Tags(s)) = Len(s) /\ Len(s) \in Nat
         /\ \A i \in 0..(Len(s) + 1) :
              \/ LP!Chain(List(n), Tags(s))[i] \in Sentinels(n)
              \/ \E t \in Task : In(t, s) /\ LP!Chain(List(n), Tags(s))[i] = Tag(t)
<1>1. List(n).head = <<"head", n>> /\ List(n).tail = <<"tail", n>>
  BY DEF List
<1>2. <<"head", n>> \in Nodes /\ <<"tail", n>> \in Nodes
  BY DEF Nodes, Queue
<1>3. Len(s) \in Nat /\ \A i \in 1..Len(s) : s[i] \in Task /\ Tag(s[i]) \in Nodes
  BY DEF Nodes, Tag
<1>4. Tags(s) \in Seq(Nodes) /\ Len(Tags(s)) = Len(s) /\ \A i \in 1..Len(s) : Tags(s)[i] = Tag(s[i])
  BY <1>3 DEF Tags
<1>5. ASSUME NEW i \in 0..(Len(s) + 1)
      PROVE  \/ LP!Chain(List(n), Tags(s))[i] \in Sentinels(n)
             \/ \E t \in Task : In(t, s) /\ LP!Chain(List(n), Tags(s))[i] = Tag(t)
  <2>1. CASE i = 0 \/ i = Len(s) + 1
    BY <1>1, <1>4, <2>1 DEF LP!Chain, Sentinels
  <2>2. CASE i \in 1..Len(s)
    <3>1. LP!Chain(List(n), Tags(s))[i] = Tag(s[i])
      BY <1>3, <1>4, <2>2 DEF LP!Chain
    <3> QED BY <1>3, <2>2, <3>1 DEF In
  <2> QED BY <1>3, <2>1, <2>2
<1> QED BY <1>1, <1>2, <1>3, <1>4, <1>5 DEF LP!OnNodes

(* So is thread_all_list.                                                  *)
LEMMA AllNodes ==
  ASSUME NEW s \in Seq(Task)
  PROVE  /\ LP!OnNodes(all, AllTags(s)) /\ Len(AllTags(s)) = Len(s) /\ Len(s) \in Nat
         /\ \A i \in 0..(Len(s) + 1) :
              \/ LP!Chain(all, AllTags(s))[i] \in Sentinels("all")
              \/ \E t \in Task : In(t, s) /\ LP!Chain(all, AllTags(s))[i] = AllTag(t)
<1>1. all.head = <<"head", "all">> /\ all.tail = <<"tail", "all">>
  BY DEF List, all
<1>2. <<"head", "all">> \in Nodes /\ <<"tail", "all">> \in Nodes
  BY DEF Nodes
<1>3. Len(s) \in Nat /\ \A i \in 1..Len(s) : s[i] \in Task /\ AllTag(s[i]) \in Nodes
  BY DEF Nodes, AllTag
<1>4. /\ AllTags(s) \in Seq(Nodes) /\ Len(AllTags(s)) = Len(s)
      /\ \A i \in 1..Len(s) : AllTags(s)[i] = AllTag(s[i])
  BY <1>3 DEF AllTags
<1>5. ASSUME NEW i \in 0..(Len(s) + 1)
      PROVE  \/ LP!Chain(all, AllTags(s))[i] \in Sentinels("all")
             \/ \E t \in Task : In(t, s) /\ LP!Chain(all, AllTags(s))[i] = AllTag(t)
  <2>1. CASE i = 0 \/ i = Len(s) + 1
    BY <1>1, <1>4, <2>1 DEF LP!Chain, Sentinels
  <2>2. CASE i \in 1..Len(s)
    <3>1. LP!Chain(all, AllTags(s))[i] = AllTag(s[i])
      BY <1>3, <1>4, <2>2 DEF LP!Chain
    <3> QED BY <1>3, <2>2, <3>1 DEF In
  <2> QED BY <1>3, <2>1, <2>2
<1> QED BY <1>1, <1>2, <1>3, <1>4, <1>5 DEF LP!OnNodes

(* The pointers m hold the queues Q and the list of all tasks A, and no    *)
(* task is in two queues.                                                  *)
Disjoint(Q) == \A n, k \in Queue : \A t \in Task : In(t, Q[n]) /\ In(t, Q[k]) => n = k

Holds(m, Q, A) ==
  /\ m \in Memory /\ Q \in [Queue -> Seq(Task)] /\ A \in Seq(Task)
  /\ \A n \in Queue : IsList(m, List(n), Tags(Q[n]))
  /\ IsList(m, all, AllTags(A))
  /\ Disjoint(Q)

(* Two lists have no node in common, and a task outside a queue has its    *)
(* tag outside.                                                            *)
LEMMA QueuesApart ==
  ASSUME NEW Q \in [Queue -> Seq(Task)], Disjoint(Q), NEW n \in Queue, NEW k \in Queue, n # k
  PROVE  LP!Apart(List(n), Tags(Q[n]), List(k), Tags(Q[k]))
<1> SUFFICES ASSUME NEW i \in 0..(Len(Q[k]) + 1), NEW j \in 0..(Len(Q[n]) + 1)
             PROVE  LP!Chain(List(n), Tags(Q[n]))[j] # LP!Chain(List(k), Tags(Q[k]))[i]
  BY QueueNodes DEF LP!Apart, LP!Outside
<1>1. \/ LP!Chain(List(n), Tags(Q[n]))[j] \in Sentinels(n)
      \/ \E t \in Task : In(t, Q[n]) /\ LP!Chain(List(n), Tags(Q[n]))[j] = Tag(t)
  BY QueueNodes
<1>2. \/ LP!Chain(List(k), Tags(Q[k]))[i] \in Sentinels(k)
      \/ \E t \in Task : In(t, Q[k]) /\ LP!Chain(List(k), Tags(Q[k]))[i] = Tag(t)
  BY QueueNodes
<1> QED BY <1>1, <1>2 DEF Sentinels, Tag, Disjoint

(* A queue has no node in common with thread_all_list.                     *)
LEMMA AllApart ==
  ASSUME NEW s \in Seq(Task), NEW A \in Seq(Task), NEW n \in Queue
  PROVE  LP!Apart(List(n), Tags(s), all, AllTags(A)) /\ LP!Apart(all, AllTags(A), List(n), Tags(s))
<1>1. ASSUME NEW i \in 0..(Len(A) + 1), NEW j \in 0..(Len(s) + 1)
      PROVE  LP!Chain(List(n), Tags(s))[j] # LP!Chain(all, AllTags(A))[i]
  <2>1. \/ LP!Chain(List(n), Tags(s))[j] \in Sentinels(n)
        \/ \E t \in Task : In(t, s) /\ LP!Chain(List(n), Tags(s))[j] = Tag(t)
    BY QueueNodes
  <2>2. \/ LP!Chain(all, AllTags(A))[i] \in Sentinels("all")
        \/ \E t \in Task : In(t, A) /\ LP!Chain(all, AllTags(A))[i] = AllTag(t)
    BY AllNodes
  <2> QED BY <2>1, <2>2 DEF Sentinels, Tag, AllTag, Queue, Lock
<1> QED BY <1>1, QueueNodes, AllNodes DEF LP!Apart, LP!Outside

(* The tag of a task that is not in a queue is outside it.                 *)
LEMMA TagOutside ==
  ASSUME NEW s \in Seq(Task), NEW n \in Queue, NEW t \in Task, ~ In(t, s), NEW A \in Seq(Task)
  PROVE  LP!Outside(Tag(t), List(n), Tags(s)) /\ LP!Outside(Tag(t), all, AllTags(A))
<1>1. ASSUME NEW j \in 0..(Len(s) + 1) PROVE LP!Chain(List(n), Tags(s))[j] # Tag(t)
  <2>1. \/ LP!Chain(List(n), Tags(s))[j] \in Sentinels(n)
        \/ \E u \in Task : In(u, s) /\ LP!Chain(List(n), Tags(s))[j] = Tag(u)
    BY QueueNodes
  <2> QED BY <2>1 DEF Sentinels, Tag
<1>2. ASSUME NEW j \in 0..(Len(A) + 1) PROVE LP!Chain(all, AllTags(A))[j] # Tag(t)
  <2>1. \/ LP!Chain(all, AllTags(A))[j] \in Sentinels("all")
        \/ \E u \in Task : In(u, A) /\ LP!Chain(all, AllTags(A))[j] = AllTag(u)
    BY AllNodes
  <2> QED BY <2>1 DEF Sentinels, Tag, AllTag
<1> QED BY <1>1, <1>2, QueueNodes, AllNodes DEF LP!Outside

(* So is the tag of a task that is not in thread_all_list.                 *)
LEMMA AllTagOutside ==
  ASSUME NEW s \in Seq(Task), NEW n \in Queue, NEW t \in Task, NEW A \in Seq(Task), ~ In(t, A)
  PROVE  LP!Outside(AllTag(t), List(n), Tags(s)) /\ LP!Outside(AllTag(t), all, AllTags(A))
<1>1. ASSUME NEW j \in 0..(Len(s) + 1) PROVE LP!Chain(List(n), Tags(s))[j] # AllTag(t)
  <2>1. \/ LP!Chain(List(n), Tags(s))[j] \in Sentinels(n)
        \/ \E u \in Task : In(u, s) /\ LP!Chain(List(n), Tags(s))[j] = Tag(u)
    BY QueueNodes
  <2> QED BY <2>1 DEF Sentinels, Tag, AllTag
<1>2. ASSUME NEW j \in 0..(Len(A) + 1) PROVE LP!Chain(all, AllTags(A))[j] # AllTag(t)
  <2>1. \/ LP!Chain(all, AllTags(A))[j] \in Sentinels("all")
        \/ \E u \in Task : In(u, A) /\ LP!Chain(all, AllTags(A))[j] = AllTag(u)
    BY AllNodes
  <2> QED BY <2>1 DEF Sentinels, AllTag
<1> QED BY <1>1, <1>2, QueueNodes, AllNodes DEF LP!Outside
-----------------------------------------------------------------------------
(* Sequences of tasks and of their tags.                                   *)
LEMMA TagsOf ==
  ASSUME NEW s \in Seq(Task), NEW t \in Task
  PROVE  /\ Tags(Append(s, t)) = Append(Tags(s), Tag(t)) /\ Append(s, t) \in Seq(Task)
         /\ Tags(<<t>> \o s) = <<Tag(t)>> \o Tags(s) /\ <<t>> \o s \in Seq(Task)
         /\ AllTags(Append(s, t)) = Append(AllTags(s), AllTag(t))
         /\ s # <<>> => /\ Tags(s) # <<>> /\ Tags(Tail(s)) = Tail(Tags(s)) /\ Tail(s) \in Seq(Task)
                        /\ Head(Tags(s)) = Tag(Head(s)) /\ Head(s) \in Task
         /\ Tags(s) = <<>> <=> s = <<>>
  BY DEF Tags, AllTags

(* What is in a sequence that has grown or shrunk.                         *)
LEMMA InGrown ==
  ASSUME NEW s \in Seq(Task), NEW t \in Task, NEW u
  PROVE  /\ In(u, Append(s, t)) <=> In(u, s) \/ u = t
         /\ In(u, <<t>> \o s) <=> In(u, s) \/ u = t
<1>1. Len(s) \in Nat /\ Len(Append(s, t)) = Len(s) + 1 /\ Len(<<t>> \o s) = Len(s) + 1
  OBVIOUS
<1>2. /\ \A i \in 1..Len(s) : Append(s, t)[i] = s[i] /\ (<<t>> \o s)[i + 1] = s[i]
      /\ Append(s, t)[Len(s) + 1] = t /\ (<<t>> \o s)[1] = t
  OBVIOUS
<1>3. /\ \A i \in 1..Len(s) : i \in 1..(Len(s) + 1) /\ i + 1 \in 1..(Len(s) + 1)
      /\ 1 \in 1..(Len(s) + 1) /\ Len(s) + 1 \in 1..(Len(s) + 1)
      /\ \A i \in 1..(Len(s) + 1) : /\ i \in 1..Len(s) \/ i = Len(s) + 1
                                    /\ i = 1 \/ (i - 1 \in 1..Len(s) /\ (i - 1) + 1 = i)
  BY <1>1
<1>4. In(u, Append(s, t)) <=> In(u, s) \/ u = t
  <2> DEFINE q == Append(s, t)
  <2> HIDE DEF q
  <2> QED BY <1>1, <1>2, <1>3 DEF In, q
<1>5. In(u, <<t>> \o s) <=> In(u, s) \/ u = t
  <2> DEFINE q == <<t>> \o s
  <2>1. Len(q) = Len(s) + 1 /\ q[1] = t /\ \A i \in 1..Len(s) : q[i + 1] = s[i]
    BY <1>1, <1>2
  <2> HIDE DEF q
  <2>2. ASSUME In(u, q) PROVE In(u, s) \/ u = t
    <3>1. PICK i \in 1..(Len(s) + 1) : q[i] = u
      BY <2>1, <2>2 DEF In
    <3>2. i = 1 \/ (i - 1 \in 1..Len(s) /\ q[(i - 1) + 1] = s[i - 1] /\ (i - 1) + 1 = i)
      BY <1>3, <2>1
    <3> QED BY <2>1, <3>1, <3>2 DEF In
  <2>3. ASSUME In(u, s) PROVE In(u, q)
    <3>1. PICK i \in 1..Len(s) : s[i] = u
      BY <2>3 DEF In
    <3> QED BY <1>3, <2>1, <3>1 DEF In
  <2>4. ASSUME u = t PROVE In(u, q)
    BY <1>3, <2>1, <2>4 DEF In
  <2> QED BY <2>2, <2>3, <2>4 DEF q
<1> QED BY <1>4, <1>5

(* The front of a queue without repetitions is not in the rest.            *)
LEMMA InTail ==
  ASSUME NEW s \in Seq(Task), s # <<>>, \A i, j \in 1..Len(s) : s[i] = s[j] => i = j, NEW u
  PROVE  In(Head(s), s) /\ (In(u, Tail(s)) <=> In(u, s) /\ u # Head(s))
<1>1. /\ Len(s) \in Nat /\ Len(s) # 0 /\ Len(Tail(s)) = Len(s) - 1 /\ Head(s) = s[1]
      /\ \A i \in 1..(Len(s) - 1) : Tail(s)[i] = s[i + 1]
  OBVIOUS
<1> DEFINE q == Tail(s)
<1> HIDE DEF q
<1>2. 1 \in 1..Len(s) /\ \A i \in 1..(Len(s) - 1) : i + 1 \in 1..Len(s) /\ i + 1 # 1
  BY <1>1
<1>3. \A i \in 1..Len(s) : i = 1 \/ (i - 1 \in 1..(Len(s) - 1) /\ (i - 1) + 1 = i)
  BY <1>1
<1>4. ASSUME In(u, q) PROVE In(u, s) /\ u # s[1]
  <2>1. PICK i \in 1..(Len(s) - 1) : s[i + 1] = u
    BY <1>1, <1>4 DEF In, q
  <2> QED BY <1>2, <2>1 DEF In
<1>5. ASSUME In(u, s), u # s[1] PROVE In(u, q)
  <2>1. PICK i \in 1..Len(s) : s[i] = u
    BY <1>5 DEF In
  <2>2. i - 1 \in 1..(Len(s) - 1) /\ (i - 1) + 1 = i
    BY <1>3, <1>5, <2>1
  <2>3. q[i - 1] = s[(i - 1) + 1] /\ i - 1 \in 1..Len(q)
    BY <1>1, <2>2 DEF q
  <2> QED BY <2>1, <2>2, <2>3 DEF In
<1> QED BY <1>1, <1>2, <1>4, <1>5 DEF In, q

(* A list that the pointers hold has no repetitions.                       *)
LEMMA NoRepeats ==
  ASSUME NEW m, NEW n \in Queue, NEW s \in Seq(Task), IsList(m, List(n), Tags(s))
  PROVE  \A i, j \in 1..Len(s) : s[i] = s[j] => i = j
<1>1. Len(s) \in Nat /\ Len(Tags(s)) = Len(s)
  BY QueueNodes
<1>2. \A i \in 1..Len(s) : Chain(List(n), Tags(s))[i] = Tag(s[i]) /\ i \in 0..(Len(s) + 1)
  BY <1>1 DEF Chain, Tags
<1> QED BY <1>1, <1>2 DEF IsList, Distinct
-----------------------------------------------------------------------------
(* The successors of nodes that are tags are tags of tasks in B.           *)
Known(m, B) == \A x \in Nodes, u \in Task : m.next[x] = Tag(u) => u \in B

(* thread_ready_list or the waiters of a lock get a task, at the end or in *)
(* front, that is in no queue.                                             *)
LEMMA HoldsMore ==
  ASSUME NEW m, NEW Q, NEW A, Holds(m, Q, A), NEW n \in Queue, NEW t \in Task,
         \A k \in Queue : ~ In(t, Q[k]),
         NEW B, Known(m, B), t \in B, \A k \in Queue, u \in Task : In(u, Q[k]) => u \in B
  PROVE  /\ Holds(list_append(m, List(n), Tag(t)), [Q EXCEPT ![n] = Append(Q[n], t)], A)
         /\ Known(list_append(m, List(n), Tag(t)), B)
         /\ Holds(list_push(m, List(n), Tag(t)), [Q EXCEPT ![n] = <<t>> \o Q[n]], A)
         /\ Known(list_push(m, List(n), Tag(t)), B)
<1>1. /\ m \in Memory /\ Q \in [Queue -> Seq(Task)] /\ A \in Seq(Task)
      /\ \A k \in Queue : IsList(m, List(k), Tags(Q[k]))
      /\ IsList(m, all, AllTags(A)) /\ Disjoint(Q)
  BY DEF Holds
<1>2. Q[n] \in Seq(Task) /\ Tag(t) \in Nodes
  BY <1>1 DEF Tag, Nodes
<1>3. LP!OnNodes(List(n), Tags(Q[n])) /\ LP!Outside(Tag(t), List(n), Tags(Q[n]))
  BY <1>1, <1>2, QueueNodes, TagOutside
<1> DEFINE One(r, z) == \/ r = Append(Q[n], t) /\ z = list_append(m, List(n), Tag(t))
                        \/ r = <<t>> \o Q[n] /\ z = list_push(m, List(n), Tag(t))
<1>4. ASSUME NEW r, NEW z, One(r, z)
      PROVE  Holds(z, [Q EXCEPT ![n] = r], A) /\ Known(z, B)
  <2> DEFINE P == [Q EXCEPT ![n] = r]
  <2>1. r \in Seq(Task) /\ IsList(z, List(n), Tags(r))
    <3>1. IsList(list_append(m, List(n), Tag(t)), List(n), Append(Tags(Q[n]), Tag(t)))
      BY <1>1, <1>2, <1>3, Same, LP!AppendImplements
    <3>2. IsList(list_push(m, List(n), Tag(t)), List(n), <<Tag(t)>> \o Tags(Q[n]))
      BY <1>1, <1>2, <1>3, Same, LP!PushImplements
    <3>3. /\ Tags(Append(Q[n], t)) = Append(Tags(Q[n]), Tag(t)) /\ Append(Q[n], t) \in Seq(Task)
          /\ Tags(<<t>> \o Q[n]) = <<Tag(t)>> \o Tags(Q[n]) /\ <<t>> \o Q[n] \in Seq(Task)
      BY <1>2, TagsOf, Zenon
    <3>4. CASE r = Append(Q[n], t) /\ z = list_append(m, List(n), Tag(t))
      BY <3>1, <3>3, <3>4, Zenon
    <3>5. CASE r = <<t>> \o Q[n] /\ z = list_push(m, List(n), Tag(t))
      BY <3>2, <3>3, <3>5, Zenon
    <3> QED BY <1>4, <3>4, <3>5, Zenon
  <2>2. ASSUME NEW k \in Queue, k # n PROVE IsList(z, List(k), Tags(Q[k]))
    <3>1. Q[k] \in Seq(Task) /\ LP!OnNodes(List(k), Tags(Q[k]))
      BY <1>1, QueueNodes
    <3>2. LP!Outside(Tag(t), List(k), Tags(Q[k])) /\ LP!Apart(List(n), Tags(Q[n]), List(k), Tags(Q[k]))
      BY <1>1, <2>2, <3>1, TagOutside, QueuesApart
    <3>3. /\ IsList(list_append(m, List(n), Tag(t)), List(k), Tags(Q[k]))
          /\ IsList(list_push(m, List(n), Tag(t)), List(k), Tags(Q[k]))
      BY <1>1, <1>2, <1>3, <3>1, <3>2, Same, LP!InsertKeepsOthers
    <3> QED BY <1>4, <3>3
  <2>3. IsList(z, all, AllTags(A))
    <3>1. /\ LP!OnNodes(all, AllTags(A)) /\ LP!Outside(Tag(t), all, AllTags(A))
          /\ LP!Apart(List(n), Tags(Q[n]), all, AllTags(A))
      BY <1>1, <1>2, AllNodes, TagOutside, AllApart
    <3>2. /\ IsList(list_append(m, List(n), Tag(t)), all, AllTags(A))
          /\ IsList(list_push(m, List(n), Tag(t)), all, AllTags(A))
      BY <1>1, <1>2, <1>3, <3>1, Same, LP!InsertKeepsOthers
    <3> QED BY <1>4, <3>2
  <2>4. /\ z \in Memory
        /\ \A x \in Nodes : \/ z.next[x] = Tag(t) \/ z.next[x] = m.next[x]
                            \/ \E i \in 0..(Len(Tags(Q[n])) + 1) : z.next[x] = LP!Chain(List(n), Tags(Q[n]))[i]
    BY <1>1, <1>2, <1>3, <1>4, Same, LP!InsertMemory
  <2>5. \A u : In(u, r) <=> In(u, Q[n]) \/ u = t
    <3>1. \A u : In(u, Append(Q[n], t)) <=> In(u, Q[n]) \/ u = t
      BY <1>2, InGrown
    <3>2. \A u : In(u, <<t>> \o Q[n]) <=> In(u, Q[n]) \/ u = t
      BY <1>2, InGrown
    <3> QED BY <1>4, <3>1, <3>2
  <2>6. P \in [Queue -> Seq(Task)] /\ P[n] = r /\ \A k \in Queue : k # n => P[k] = Q[k]
    BY <1>1, <2>1
  <2> HIDE DEF P
  <2>7. \A k \in Queue, u \in Task : In(u, P[k]) <=> In(u, Q[k]) \/ (k = n /\ u = t)
    BY <2>5, <2>6
  <2>8. Disjoint(P)
    BY <1>1, <2>7 DEF Disjoint
  <2>9. \A k \in Queue : IsList(z, List(k), Tags(P[k]))
    BY <2>1, <2>2, <2>6
  <2>10. Known(z, B)
    <3> SUFFICES ASSUME NEW x \in Nodes, NEW u \in Task, z.next[x] = Tag(u) PROVE u \in B
      BY DEF Known
    <3>1. CASE z.next[x] = Tag(t)
      BY <3>1 DEF Tag
    <3>2. CASE z.next[x] = m.next[x]
      BY <3>2 DEF Known
    <3>3. CASE \E i \in 0..(Len(Tags(Q[n])) + 1) : z.next[x] = LP!Chain(List(n), Tags(Q[n]))[i]
      <4>1. Tag(u) \in Sentinels(n) \/ \E v \in Task : In(v, Q[n]) /\ Tag(u) = Tag(v)
        BY <1>2, <3>3, QueueNodes
      <4> QED BY <4>1 DEF Sentinels, Tag
    <3> QED BY <2>4, <3>1, <3>2, <3>3
  <2> QED BY <1>1, <2>3, <2>4, <2>6, <2>8, <2>9, <2>10 DEF Holds, P
<1>5. /\ One(Append(Q[n], t), list_append(m, List(n), Tag(t)))
      /\ One(<<t>> \o Q[n], list_push(m, List(n), Tag(t)))
  OBVIOUS
<1> HIDE DEF One
<1> QED BY <1>4, <1>5

(* The front of a queue is taken.                                          *)
LEMMA HoldsLess ==
  ASSUME NEW m, NEW Q, NEW A, Holds(m, Q, A), NEW n \in Queue, Q[n] # <<>>, NEW B, Known(m, B)
  PROVE  /\ list_front(m, List(n)) = Tag(Head(Q[n])) /\ Head(Q[n]) \in Task
         /\ Holds(list_pop(m, List(n)), [Q EXCEPT ![n] = Tail(Q[n])], A)
         /\ Known(list_pop(m, List(n)), B)
         /\ In(Head(Q[n]), Q[n])
         /\ \A u : In(u, Tail(Q[n])) <=> In(u, Q[n]) /\ u # Head(Q[n])
<1> DEFINE z == list_pop(m, List(n))
           P == [Q EXCEPT ![n] = Tail(Q[n])]
<1>1. /\ m \in Memory /\ Q \in [Queue -> Seq(Task)] /\ A \in Seq(Task)
      /\ \A k \in Queue : IsList(m, List(k), Tags(Q[k]))
      /\ IsList(m, all, AllTags(A)) /\ Disjoint(Q)
  BY DEF Holds
<1>2. Q[n] \in Seq(Task) /\ Head(Q[n]) \in Task /\ Tail(Q[n]) \in Seq(Task)
  BY <1>1
<1>3. /\ LP!OnNodes(List(n), Tags(Q[n])) /\ Tags(Q[n]) # <<>> /\ Tags(Tail(Q[n])) = Tail(Tags(Q[n]))
      /\ Head(Tags(Q[n])) = Tag(Head(Q[n]))
  BY <1>2, QueueNodes, TagsOf
<1>4. list_front(m, List(n)) = Tag(Head(Q[n])) /\ IsList(z, List(n), Tags(Tail(Q[n])))
  BY <1>1, <1>3, Same, LP!PopImplements
<1>5. ASSUME NEW k \in Queue, k # n PROVE IsList(z, List(k), Tags(Q[k]))
  <2>1. /\ Q[k] \in Seq(Task) /\ LP!OnNodes(List(k), Tags(Q[k]))
        /\ LP!Apart(List(n), Tags(Q[n]), List(k), Tags(Q[k]))
    BY <1>1, <1>5, QueueNodes, QueuesApart
  <2> QED BY <1>1, <1>3, <2>1, Same, LP!PopKeepsOthers
<1>6. IsList(z, all, AllTags(A))
  <2>1. LP!OnNodes(all, AllTags(A)) /\ LP!Apart(List(n), Tags(Q[n]), all, AllTags(A))
    BY <1>1, <1>2, AllNodes, AllApart
  <2> QED BY <1>1, <1>3, <2>1, Same, LP!PopKeepsOthers
<1>7. z \in Memory /\ \A x \in Nodes : \E y \in Nodes : z.next[x] = m.next[y]
  BY <1>1, <1>3, Same, LP!PopMemory
<1>8. In(Head(Q[n]), Q[n]) /\ \A u : In(u, Tail(Q[n])) <=> In(u, Q[n]) /\ u # Head(Q[n])
  <2>1. \A i, j \in 1..Len(Q[n]) : Q[n][i] = Q[n][j] => i = j
    BY <1>1, <1>2, NoRepeats
  <2> QED BY <1>2, <2>1, InTail
<1> HIDE DEF z
<1>9. P \in [Queue -> Seq(Task)] /\ P[n] = Tail(Q[n]) /\ \A k \in Queue : k # n => P[k] = Q[k]
  BY <1>1, <1>2
<1> HIDE DEF P
<1>10. Disjoint(P)
  <2>1. \A k \in Queue, u \in Task : In(u, P[k]) => In(u, Q[k])
    BY <1>8, <1>9
  <2> QED BY <1>1, <2>1 DEF Disjoint
<1>11. \A k \in Queue : IsList(z, List(k), Tags(P[k]))
  BY <1>4, <1>5, <1>9
<1>12. Known(z, B)
  BY <1>7 DEF Known
<1>13. Holds(z, P, A)
  BY <1>1, <1>6, <1>7, <1>9, <1>10, <1>11 DEF Holds
<1> QED BY <1>2, <1>4, <1>8, <1>12, <1>13 DEF z, P

(* thread_all_list gets a task that is not in it.                          *)
LEMMA HoldsAll ==
  ASSUME NEW m, NEW Q, NEW A, Holds(m, Q, A), NEW t \in Task, ~ In(t, A), NEW B, Known(m, B)
  PROVE  /\ Holds(list_append(m, all, AllTag(t)), Q, Append(A, t))
         /\ Known(list_append(m, all, AllTag(t)), B)
<1> DEFINE z == list_append(m, all, AllTag(t))
<1>1. /\ m \in Memory /\ Q \in [Queue -> Seq(Task)] /\ A \in Seq(Task)
      /\ \A k \in Queue : IsList(m, List(k), Tags(Q[k]))
      /\ IsList(m, all, AllTags(A)) /\ Disjoint(Q)
  BY DEF Holds
<1>2. AllTag(t) \in Nodes /\ Append(A, t) \in Seq(Task)
  BY <1>1 DEF AllTag, Nodes
<1>3. LP!OnNodes(all, AllTags(A)) /\ LP!Outside(AllTag(t), all, AllTags(A))
  <2>1. "ready" \in Queue
    BY DEF Queue
  <2> QED BY <1>1, <2>1, AllNodes, AllTagOutside
<1>4. IsList(z, all, AllTags(Append(A, t)))
  <2>1. IsList(z, all, Append(AllTags(A), AllTag(t)))
    BY <1>1, <1>2, <1>3, Same, LP!AppendImplements
  <2> QED BY <1>1, <2>1, TagsOf
<1>5. ASSUME NEW k \in Queue PROVE IsList(z, List(k), Tags(Q[k]))
  <2>1. /\ Q[k] \in Seq(Task) /\ LP!OnNodes(List(k), Tags(Q[k]))
        /\ LP!Outside(AllTag(t), List(k), Tags(Q[k])) /\ LP!Apart(all, AllTags(A), List(k), Tags(Q[k]))
    BY <1>1, QueueNodes, AllTagOutside, AllApart
  <2> QED BY <1>1, <1>2, <1>3, <2>1, Same, LP!InsertKeepsOthers
<1>6. /\ z \in Memory
      /\ \A x \in Nodes : \/ z.next[x] = AllTag(t) \/ z.next[x] = m.next[x]
                          \/ \E i \in 0..(Len(AllTags(A)) + 1) : z.next[x] = LP!Chain(all, AllTags(A))[i]
  BY <1>1, <1>2, <1>3, Same, LP!InsertMemory
<1> HIDE DEF z
<1>7. Known(z, B)
  <2> SUFFICES ASSUME NEW x \in Nodes, NEW u \in Task, z.next[x] = Tag(u) PROVE u \in B
    BY DEF Known
  <2>1. CASE z.next[x] = AllTag(t)
    BY <2>1 DEF Tag, AllTag
  <2>2. CASE z.next[x] = m.next[x]
    BY <2>2 DEF Known
  <2>3. CASE \E i \in 0..(Len(AllTags(A)) + 1) : z.next[x] = LP!Chain(all, AllTags(A))[i]
    <3>1. Tag(u) \in Sentinels("all") \/ \E v \in Task : Tag(u) = AllTag(v)
      BY <1>1, <2>3, AllNodes
    <3> QED BY <3>1 DEF Sentinels, Tag, AllTag
  <2> QED BY <1>6, <2>1, <2>2, <2>3
<1> QED BY <1>1, <1>2, <1>4, <1>5, <1>6, <1>7 DEF Holds, z

(* A sequence of different tasks is not longer than there are tasks.       *)
LEMMA NotLonger ==
  ASSUME NEW s \in Seq(Task), \A i, j \in 1..Len(s) : s[i] = s[j] => i = j
  PROVE  Len(s) <= Cardinality(Task) /\ Cardinality(Task) \in Nat
<1>1. IsFiniteSet(Task)
  BY TaskAssumption
<1>2. Cardinality(Task) \in Nat
  BY <1>1, FS_CardinalityType
<1>3. Len(s) \in Nat /\ s \in [1..Len(s) -> Task] /\ DOMAIN s = 1..Len(s)
  OBVIOUS
<1>4. s \in Injection(1..Len(s), Task)
  BY <1>3 DEF Injection, IsInjective
<1>5. Cardinality(1..Len(s)) <= Cardinality(Task)
  BY <1>1, <1>4, FS_Injection
<1>6. Cardinality(1..Len(s)) = Len(s)
  <2>1. 1 \in Int /\ Len(s) \in Int
    BY <1>3
  <2>2. Cardinality(1..Len(s)) = IF 1 > Len(s) THEN 0 ELSE Len(s) - 1 + 1
    BY <2>1, FS_Interval
  <2> QED BY <1>3, <2>2
<1> QED BY <1>2, <1>5, <1>6

(* What a walk over a queue visits, and what list_empty and node_find say. *)
LEMMA HoldsFind ==
  ASSUME NEW m, NEW Q, NEW A, Holds(m, Q, A), NEW n \in Queue
  PROVE  /\ Visited(m, List(n)) = Tags(Q[n])
         /\ list_empty(m, List(n)) <=> Q[n] = <<>>
         /\ \A t \in Task : node_find(m, List(n), Tag(t)) <=> In(t, Q[n])
<1>1. /\ m \in Memory /\ Q[n] \in Seq(Task) /\ IsList(m, List(n), Tags(Q[n]))
  BY DEF Holds
<1>2. LP!OnNodes(List(n), Tags(Q[n])) /\ Len(Tags(Q[n])) = Len(Q[n]) /\ Len(Q[n]) \in Nat
  BY <1>1, QueueNodes
<1>3. Len(Tags(Q[n])) <= Cardinality(Task) /\ Cardinality(Task) \in Nat
  BY <1>1, <1>2, NoRepeats, NotLonger
<1>4. Visited(m, List(n)) = Tags(Q[n])
  BY <1>1, <1>2, <1>3, Same, NodeAssumption, LP!VisitedImplements
<1>5. list_empty(m, List(n)) <=> Q[n] = <<>>
  <2>1. list_empty(m, List(n)) <=> Tags(Q[n]) = <<>>
    BY <1>1, <1>2, Same, LP!EmptyImplements
  <2>2. Tags(Q[n]) = <<>> <=> Q[n] = <<>>
    BY <1>1, <1>2
  <2> QED BY <2>1, <2>2
<1>6. \A i \in 1..Len(Q[n]) : Tags(Q[n])[i] = Tag(Q[n][i])
  BY DEF Tags
<1>7. \A t \in Task : node_find(m, List(n), Tag(t)) <=> In(t, Q[n])
  BY <1>2, <1>4, <1>6 DEF node_find, list_len, In, Tag
<1> QED BY <1>4, <1>5, <1>7

(* The same for thread_all_list.                                           *)
LEMMA HoldsFindAll ==
  ASSUME NEW m, NEW Q, NEW A, Holds(m, Q, A)
  PROVE  /\ Visited(m, all) = AllTags(A)
         /\ \A t \in Task : node_find(m, all, AllTag(t)) <=> In(t, A)
<1>1. /\ m \in Memory /\ A \in Seq(Task) /\ IsList(m, all, AllTags(A))
  BY DEF Holds
<1>2. LP!OnNodes(all, AllTags(A)) /\ Len(AllTags(A)) = Len(A) /\ Len(A) \in Nat
  BY <1>1, AllNodes
<1>3. \A i, j \in 1..Len(A) : A[i] = A[j] => i = j
  <2>1. \A i \in 1..Len(A) : Chain(all, AllTags(A))[i] = AllTag(A[i]) /\ i \in 0..(Len(A) + 1)
    BY <1>2 DEF Chain, AllTags
  <2> QED BY <1>1, <1>2, <2>1 DEF IsList, Distinct
<1>4. Len(AllTags(A)) <= Cardinality(Task) /\ Cardinality(Task) \in Nat
  BY <1>1, <1>2, <1>3, NotLonger
<1>5. Visited(m, all) = AllTags(A)
  BY <1>1, <1>2, <1>4, Same, NodeAssumption, LP!VisitedImplements
<1>6. \A i \in 1..Len(A) : AllTags(A)[i] = AllTag(A[i])
  BY DEF AllTags
<1>7. \A t \in Task : node_find(m, all, AllTag(t)) <=> In(t, A)
  BY <1>2, <1>5, <1>6 DEF node_find, list_len, In, AllTag
<1> QED BY <1>5, <1>7

(* list_init links the two sentinels and touches no other node.            *)
LEMMA InitList ==
  ASSUME NEW m \in Memory, NEW name \in Queue \cup {"all"}
  PROVE  LET r == list_init(m, List(name))
         IN  /\ r \in Memory
             /\ r.next[<<"head", name>>] = <<"tail", name>> /\ r.prev[<<"tail", name>>] = <<"head", name>>
             /\ \A x \in Nodes : x \notin Sentinels(name) => r.next[x] = m.next[x] /\ r.prev[x] = m.prev[x]
             /\ \A x \in Nodes : r.next[x] \in {m.next[x], <<"tail", name>>, NULL}
<1>1. List(name).head = <<"head", name>> /\ List(name).tail = <<"tail", name>>
  BY DEF List
<1>2. <<"head", name>> \in Nodes /\ <<"tail", name>> \in Nodes /\ <<"head", name>> # <<"tail", name>>
  BY DEF Nodes, Queue
<1>3. m.next \in [Nodes -> Nodes \cup {NULL}] /\ m.prev \in [Nodes -> Nodes \cup {NULL}]
  BY DEF Memory
<1> DEFINE h == <<"head", name>>
           t == <<"tail", name>>
           r == list_init(m, List(name))
<1>4. r = [next |-> [m.next EXCEPT ![h] = t, ![t] = NULL], prev |-> [m.prev EXCEPT ![h] = NULL, ![t] = h]]
  BY <1>1 DEF list_init
<1>5. h \in Nodes /\ t \in Nodes /\ h # t
  BY <1>2
<1> HIDE DEF h, t, r
<1>6. r \in Memory
  BY <1>3, <1>4, <1>5 DEF Memory
<1>7. /\ r.next[h] = t /\ r.prev[t] = h
      /\ \A x \in Nodes : x \notin {h, t} => r.next[x] = m.next[x] /\ r.prev[x] = m.prev[x]
      /\ \A x \in Nodes : r.next[x] \in {m.next[x], t, NULL}
  BY <1>3, <1>4, <1>5
<1> QED BY <1>6, <1>7 DEF h, t, r, Sentinels

(* As TasksInit says: four empty lists, and the main thread in the last.   *)
LEMMA HoldsInit ==
  ASSUME TasksInit
  PROVE  Holds(links, [n \in Queue |-> <<>>], <<Main>>) /\ Known(links, {Main})
<1> DEFINE zero == [n \in Nodes |-> NULL]
           m0 == [next |-> zero, prev |-> zero]
           m1 == list_init(m0, List("ready"))
           m2 == list_init(m1, List("all"))
           m3 == list_init(m2, List("kernel_pool"))
           m4 == list_init(m3, List("user_pool"))
           Q == [n \in Queue |-> <<>>]
<1>1. links = list_append(m4, all, AllTag(Main))
  BY DEF TasksInit
<1>2. m0 \in Memory /\ \A x \in Nodes : m0.next[x] = NULL
  BY DEF Memory
<1>3. Queue = {"ready", "kernel_pool", "user_pool"}
  BY DEF Queue, Lock
<1> HIDE DEF m0
<1>4. /\ m1 \in Memory /\ m1.next[<<"head", "ready">>] = <<"tail", "ready">>
      /\ m1.prev[<<"tail", "ready">>] = <<"head", "ready">>
      /\ \A x \in Nodes : m1.next[x] \in {<<"tail", "ready">>, NULL}
  BY <1>2, <1>3, InitList
<1> HIDE DEF m1
<1>5. /\ m2 \in Memory /\ m2.next[<<"head", "all">>] = <<"tail", "all">>
      /\ m2.prev[<<"tail", "all">>] = <<"head", "all">>
      /\ \A x \in Nodes : x \notin Sentinels("all") => m2.next[x] = m1.next[x] /\ m2.prev[x] = m1.prev[x]
      /\ \A x \in Nodes : m2.next[x] \in {m1.next[x], <<"tail", "all">>, NULL}
  BY <1>4, InitList
<1> HIDE DEF m2
<1>6. /\ m3 \in Memory /\ m3.next[<<"head", "kernel_pool">>] = <<"tail", "kernel_pool">>
      /\ m3.prev[<<"tail", "kernel_pool">>] = <<"head", "kernel_pool">>
      /\ \A x \in Nodes : x \notin Sentinels("kernel_pool") => m3.next[x] = m2.next[x] /\ m3.prev[x] = m2.prev[x]
      /\ \A x \in Nodes : m3.next[x] \in {m2.next[x], <<"tail", "kernel_pool">>, NULL}
  BY <1>3, <1>5, InitList
<1> HIDE DEF m3
<1>7. /\ m4 \in Memory /\ m4.next[<<"head", "user_pool">>] = <<"tail", "user_pool">>
      /\ m4.prev[<<"tail", "user_pool">>] = <<"head", "user_pool">>
      /\ \A x \in Nodes : x \notin Sentinels("user_pool") => m4.next[x] = m3.next[x] /\ m4.prev[x] = m3.prev[x]
      /\ \A x \in Nodes : m4.next[x] \in {m3.next[x], <<"tail", "user_pool">>, NULL}
  BY <1>3, <1>6, InitList
<1> HIDE DEF m4
<1>8. \A n \in Queue \cup {"all"} : <<"head", n>> \in Nodes /\ <<"tail", n>> \in Nodes
  BY DEF Nodes, Queue
<1>9. \A n \in Queue \cup {"all"} : /\ m4.next[<<"head", n>>] = <<"tail", n>>
                                    /\ m4.prev[<<"tail", n>>] = <<"head", n>>
  <2>1. /\ m4.next[<<"head", "ready">>] = <<"tail", "ready">> /\ m4.prev[<<"tail", "ready">>] = <<"head", "ready">>
    BY <1>3, <1>4, <1>5, <1>6, <1>7, <1>8 DEF Sentinels
  <2>2. /\ m4.next[<<"head", "all">>] = <<"tail", "all">> /\ m4.prev[<<"tail", "all">>] = <<"head", "all">>
    BY <1>5, <1>6, <1>7, <1>8 DEF Sentinels
  <2>3. /\ m4.next[<<"head", "kernel_pool">>] = <<"tail", "kernel_pool">>
        /\ m4.prev[<<"tail", "kernel_pool">>] = <<"head", "kernel_pool">>
    BY <1>3, <1>6, <1>7, <1>8 DEF Sentinels
  <2> QED BY <1>3, <1>7, <2>1, <2>2, <2>3
<1>10. ASSUME NEW n \in Queue \cup {"all"} PROVE IsList(m4, List(n), <<>>)
  <2> DEFINE c == Chain(List(n), <<>>)
  <2>1. Len(<<>>) = 0 /\ c[0] = <<"head", n>> /\ c[0 + 1] = <<"tail", n>>
    BY DEF Chain, List
  <2>2. <<"head", n>> # <<"tail", n>>
    OBVIOUS
  <2> HIDE DEF c
  <2>3. Linked(m4, c, 0)
    <3>1. m4.next[c[0]] = c[0 + 1] /\ m4.prev[c[0 + 1]] = c[0]
      BY <1>9, <2>1, Zenon
    <3>2. \A i \in 0..0 : i = 0
      OBVIOUS
    <3> QED BY <3>1, <3>2, Zenon DEF Linked
  <2>4. Distinct(c, 0)
    BY <2>1, <2>2 DEF Distinct
  <2> QED BY <2>1, <2>3, <2>4 DEF IsList, c
<1>11. Holds(m4, Q, <<>>)
  <2>1. Tags(<<>>) = <<>> /\ AllTags(<<>>) = <<>> /\ all = List("all") /\ <<>> \in Seq(Task)
    BY DEF Tags, AllTags, all
  <2>2. Disjoint(Q)
    BY DEF Disjoint, In
  <2> QED BY <1>7, <1>10, <2>1, <2>2 DEF Holds
<1>12. Known(m4, {Main})
  <2>1. \A x \in Nodes : m4.next[x] \in {<<"tail", "ready">>, <<"tail", "all">>, <<"tail", "kernel_pool">>,
                                         <<"tail", "user_pool">>, NULL}
    BY <1>4, <1>5, <1>6, <1>7
  <2>2. \A u \in Task : Tag(u) # NULL
    BY NodeAssumption DEF Tag, Nodes
  <2> QED BY <2>1, <2>2 DEF Known, Tag
<1>13. Main \in Task /\ ~ In(Main, <<>>) /\ Append(<<>>, Main) = <<Main>>
  BY TaskAssumption DEF In
<1> HIDE DEF Q
<1>14. Holds(links, Q, Append(<<>>, Main)) /\ Known(links, {Main})
  BY <1>1, <1>11, <1>12, <1>13, HoldsAll
<1> QED BY <1>13, <1>14 DEF Q
-----------------------------------------------------------------------------
(* The invariant.  The state of every task, wherever it is.                *)
Status == {"READY", "RUNNING", "BLOCKED"}
Pcb == [kstack : Int, pid : Nat, status : Status, ticks : 0..Priority, elapsed : Nat, pgdir : BOOLEAN]

MainLabel == {"boot", "page", "init", "pid", "bitmap", "create", "dir", "pgdir", "insert",
              "find", "walk", "append", "lost", "all", "idle"}
Label(t) == IF t = Main THEN MainLabel
            ELSE IF t \in Process THEN {"born", "fresh", "stack", "iret", "user", "trap"}
            ELSE {"born", "work", "heap", "trap"}

Types ==
  /\ pcb \in [Task -> Pcb] /\ resume \in [Task -> BOOLEAN] /\ intr \in BOOLEAN
  /\ pc \in [Task -> UNION {Label(t) : t \in Task}] /\ \A t \in Task : pc[t] \in Label(t)
  /\ holder \in [Lock -> Task \cup {NULL}]
  /\ frame \in [Task -> {0, Word * intr_stack}] /\ got \in [Task -> Nat]
  /\ made \in 0..Len(Programme)

(* init_all fills in the tables before main enables interrupts.            *)
BootInv ==
  /\ booted \in 0..8 /\ DOMAIN handlers = Vector
  /\ booted >= 1 => unmasked = {Clock, Keys}
  /\ booted >= 2 => handlers[Clock] = "intr_timer_handler"
  /\ booted >= 4 => {"main_thread", "thread_lists"} \subseteq ready_parts
  /\ booted >= 6 => handlers[Keys] = "intr_keyboard_handler" /\ "kbd_buf" \in ready_parts
  /\ booted >= 7 => "tss" \in ready_parts
  /\ pc[Main] # "boot" => booted = 8
  /\ pc[Main] = "boot" => current = Main /\ ~ intr /\ made = 0

(* What main has made of the next task so far.                             *)
Room == Word * intr_stack + Word * thread_stack

MakeInv ==
  /\ pc[Main] # "idle" => made < Len(Programme)
  /\ next_pid = IF pc[Main] \in {"boot", "page", "init", "idle"} THEN made + 1 ELSE made + 2
  /\ pc[Main] = "pid" => pcb[new] = Fresh
  /\ pc[Main] \in {"bitmap", "create", "dir", "pgdir", "insert", "find", "walk", "append"} =>
       /\ pcb[new].pid = made + 2 /\ pcb[new].status = "READY"
       /\ pcb[new].ticks = Priority /\ pcb[new].elapsed = 0
  /\ pc[Main] \in {"bitmap", "create"} => pcb[new].kstack = 0 /\ ~ pcb[new].pgdir
  /\ pc[Main] \in {"dir", "pgdir", "insert", "find", "walk", "append"} => pcb[new].kstack = Room
  /\ pc[Main] \in {"bitmap", "dir", "pgdir", "insert"} => new \in Process
  /\ pc[Main] \in {"find", "walk", "append", "all"} => new \notin Process
  /\ pc[Main] = "insert" => pcb[new].pgdir
  /\ pc[Main] \in {"find", "walk", "append"} => ~ pcb[new].pgdir

(* The queues hold the tasks by their status, and one task runs.           *)
QueueOf(p, t) == CASE p[t].status = "READY" -> "ready" [] p[t].status = "BLOCKED" -> pool(t)
                   [] p[t].status = "RUNNING" -> "none"

Queued(p, Q, B) == \A t \in Task, n \in Queue : In(t, Q[n]) <=> t \in B /\ QueueOf(p, t) = n

AllMade == [i \in 1..(made + 1) |-> IF i = 1 THEN Main ELSE Programme[i - 1]]

SchedInv(Q) ==
  /\ halted = FALSE
  /\ Holds(links, Q, AllMade) /\ Known(links, Born) /\ Queued(pcb, Q, Born)
  /\ current \in Born /\ \A t \in Born : pcb[t].status = "RUNNING" <=> t = current
  /\ pc[Main] = "walk" => /\ curr \in Nodes \cup {NULL}
                          /\ \A u \in Task : curr = Tag(u) => u \in Born

(* Who has taken the lock of a pool goes on, or is ready to.               *)
LockInv ==
  \A l \in Lock : holder[l] # NULL =>
    /\ holder[l] \in Born /\ pool(holder[l]) = l /\ pc[holder[l]] \in Alloc
    /\ pcb[holder[l]].status # "BLOCKED"

(* A process has a page directory and a TSS of its own, a pid of its own,  *)
(* and, until it has used it, the room that thread_create left.            *)
HomeInv ==
  /\ UserAtHome
  /\ \A t \in Born : pcb[t].pgdir <=> t \in Process

PidInv ==
  /\ pcb[Main].pid = 1
  /\ \A i \in 1..made : pcb[Programme[i]].pid = i + 1
  /\ pc[Main] = "all" => pcb[new].pid = made + 2
  /\ \A t \in Task : got[t] \in {0, pcb[t].pid}
  /\ \A t \in Task \ Born : pc[t] = "born" /\ got[t] = 0

FrameInv ==
  /\ pc[current] = "born" => ~ intr
  /\ \A t \in Born : pc[t] \in {"born", "fresh"} =>
       pcb[t].kstack = Room /\ pcb[t].ticks + pcb[t].elapsed = Priority
  /\ \A t \in Task : pc[t] = "fresh" => t = current

TasksInv(Q) ==
  Types /\ BootInv /\ MakeInv /\ SchedInv(Q) /\ LockInv /\ HomeInv /\ PidInv /\ FrameInv
-----------------------------------------------------------------------------
(* What is known of the tasks that exist and of the one main is making.    *)
LEMMA BornIs ==
  ASSUME Types, MakeInv
  PROVE  /\ Main \in Born /\ Born \subseteq Task
         /\ AllMade \in Seq(Task) /\ Len(AllMade) = made + 1 /\ made \in Nat
         /\ \A i \in 1..made : Programme[i] \in Born
         /\ made < Len(Programme) =>
              /\ new \in Task /\ new # Main /\ ~ In(new, AllMade)
              /\ (pc[Main] = "all" => new \in Born) /\ (pc[Main] # "all" => new \notin Born)
<1>a. Programme \in Seq(Task \ {Main}) /\ Main \in Task
  BY TaskAssumption, Zenon
<1>b. Len(Programme) \in Nat /\ \A i \in 1..Len(Programme) : Programme[i] \in Task \ {Main}
  BY <1>a
<1>c. made \in 0..Len(Programme)
  BY Zenon DEF Types
<1>1. /\ made \in Nat /\ made <= Len(Programme) /\ Len(Programme) \in Nat /\ Main \in Task
      /\ \A i \in 1..Len(Programme) : Programme[i] \in Task /\ Programme[i] # Main
  BY <1>a, <1>b, <1>c
<1>2. \A i, j \in 1..Len(Programme) : Programme[i] = Programme[j] => i = j
  BY TaskAssumption DEF IsInjective
<1>3. \A i \in 1..(made + 1) : i = 1 \/ i - 1 \in 1..made
  BY <1>1
<1>4. \A i \in 1..made : i \in 1..Len(Programme)
  BY <1>1
<1>5. AllMade \in Seq(Task) /\ Len(AllMade) = made + 1
  BY <1>1, <1>3, <1>4 DEF AllMade
<1>6. ASSUME made < Len(Programme)
      PROVE  /\ made + 1 \in 1..Len(Programme) /\ made + 1 \notin 1..made
             /\ new \in Task /\ new # Main /\ ~ In(new, AllMade)
             /\ \A i \in 1..made : Programme[i] # new
  <2>1. made + 1 \in 1..Len(Programme) /\ \A i \in 1..made : i # made + 1
    BY <1>1, <1>6
  <2>2. new \in Task /\ new # Main /\ \A i \in 1..made : Programme[i] # new
    BY <1>1, <1>2, <1>4, <2>1 DEF new
  <2>3. \A i \in 1..(made + 1) : AllMade[i] = Main \/ \E j \in 1..made : AllMade[i] = Programme[j]
    BY <1>3 DEF AllMade
  <2> HIDE DEF new
  <2> QED BY <2>1, <2>2, <2>3, <1>5 DEF In
<1>7. Main \in Born /\ \A i \in 1..made : Programme[i] \in Born
  BY DEF Born
<1>8. Born \subseteq Task
  BY <1>1, <1>4, <1>6 DEF Born, MakeInv
<1>9. made < Len(Programme) => (pc[Main] = "all" => new \in Born) /\ (pc[Main] # "all" => new \notin Born)
  BY <1>6 DEF Born
<1> QED BY <1>1, <1>5, <1>6, <1>7, <1>8, <1>9

(* A step that creates no task.                                            *)
LEMMA BornKept ==
  ASSUME made' = made, pc'[Main] = "all" <=> pc[Main] = "all"
  PROVE  Born' = Born /\ AllMade' = AllMade /\ new' = new
  BY DEF Born, AllMade, new

(* init_all is over: what it has done stays done.                          *)
LEMMA BootKept ==
  ASSUME BootInv, UNCHANGED bootVars, pc[Main] # "boot", pc'[Main] # "boot"
  PROVE  BootInv'
  BY DEF BootInv, bootVars

(* A step that leaves main where it is and the task it makes alone.        *)
LEMMA MakeKept ==
  ASSUME Types, MakeInv, made' = made, next_pid' = next_pid, pc'[Main] = pc[Main],
         \A t \in Task \ Born : pcb'[t] = pcb[t]
  PROVE  MakeInv'
<1>1. new' = new /\ (pc[Main] # "idle" /\ pc[Main] # "all" => pcb'[new] = pcb[new])
  BY BornIs DEF MakeInv, new
<1> QED BY <1>1 DEF MakeInv

(* A step that writes no pid and no result of getpid.                      *)
LEMMA PidKept ==
  ASSUME Types, PidInv, made' = made, pc'[Main] = "all" <=> pc[Main] = "all", got' = got,
         \A t \in Task : pcb'[t].pid = pcb[t].pid, \A t \in Task \ Born : pc'[t] = pc[t], MakeInv
  PROVE  PidInv'
<1>1. Born' = Born /\ new' = new
  BY BornKept
<1>2. (\A i \in 1..made : Programme[i] \in Task) /\ (pc[Main] = "all" => new \in Task) /\ Main \in Task
  BY BornIs DEF MakeInv
<1> QED BY <1>1, <1>2 DEF PidInv

(* The holders of locks go on.                                             *)
LEMMA LockKept ==
  ASSUME Types, LockInv, holder' = holder, Born \subseteq Born',
         \A t \in Born : pc[t] \in Alloc => pc'[t] \in Alloc,
         \A t \in Born : pcb[t].status # "BLOCKED" =>
           pcb'[t].status # "BLOCKED" \/ \A l \in Lock : holder[l] # t
  PROVE  LockInv'
  BY DEF LockInv

(* UserAtHome when the same task runs on.                                  *)
LEMMA HomeKept ==
  ASSUME HomeInv, UNCHANGED <<cr3, esp0, current>>, Born' = Born,
         \A t \in Born : pcb'[t].pgdir = pcb[t].pgdir
  PROVE  HomeInv'
  BY DEF HomeInv, UserAtHome

(* The queues when no list and no status of a task in them changes.        *)
LEMMA SchedKept ==
  ASSUME NEW Q, SchedInv(Q), UNCHANGED <<links, current, halted>>, Born' = Born, AllMade' = AllMade,
         Types, \A t \in Born : pcb'[t].status = pcb[t].status,
         pc'[Main] = "walk" => pc[Main] = "walk" /\ curr' = curr
  PROVE  SchedInv(Q)'
<1>1. Holds(links, Q, AllMade)' /\ Known(links, Born)' /\ halted' = FALSE
  BY DEF SchedInv
<1>2. Queued(pcb, Q, Born)'
  BY DEF SchedInv, Queued, QueueOf
<1>3. /\ current' \in Born' /\ \A t \in Born' : pcb'[t].status = "RUNNING" <=> t = current'
      /\ pc'[Main] = "walk" => /\ curr' \in Nodes \cup {NULL}
                               /\ \A u \in Task : curr' = Tag(u) => u \in Born'
  BY DEF SchedInv
<1> QED BY <1>1, <1>2, <1>3 DEF SchedInv
-----------------------------------------------------------------------------
(* A task that runs goes a step further; its status, pid and page          *)
(* directory stay.                                                         *)
LEMMA TaskMoves ==
  ASSUME NEW Q, TasksInv(Q), NEW t \in Task, NEW label, NEW after, TaskStep(t, label, after),
         label \notin MainLabel, label \notin Alloc,
         \A u \in Task : u # t => pcb'[u] = pcb[u],
         pcb'[t].status = pcb[t].status, pcb'[t].pid = pcb[t].pid, pcb'[t].pgdir = pcb[t].pgdir
  PROVE  /\ BootInv' /\ MakeInv' /\ SchedInv(Q)' /\ LockInv' /\ HomeInv' /\ (got' = got => PidInv')
         /\ t = current /\ t \in Born /\ t # Main /\ Born' = Born /\ current' = current
         /\ pc[t] = label /\ pc'[t] = after /\ \A u \in Task : u # t => pc'[u] = pc[u]
<1>1. /\ Types /\ BootInv /\ MakeInv /\ SchedInv(Q) /\ LockInv /\ HomeInv /\ PidInv /\ FrameInv
  BY DEF TasksInv
<1>2. /\ t = current /\ t \in Born /\ current' = current /\ pc[t] = label /\ t # Main
      /\ pc'[t] = after /\ \A u \in Task : u # t => pc'[u] = pc[u]
  BY <1>1 DEF TaskStep, At, Goto, Types, Label, SchedInv
<1>3. Main \in Task /\ pc'[Main] = pc[Main] /\ pc[Main] # "boot"
  BY <1>1, <1>2, TaskAssumption DEF BootInv
<1>4. /\ UNCHANGED bootVars /\ UNCHANGED <<links, current, resume, holder, cr3, esp0, next_pid, made, curr, halted>>
  BY DEF TaskStep
<1>5. Born' = Born /\ AllMade' = AllMade /\ new' = new
  BY <1>3, <1>4, BornKept
<1>6. BootInv'
  BY <1>1, <1>3, <1>4, BootKept
<1>7. MakeInv'
  BY <1>1, <1>2, <1>3, <1>4, MakeKept
<1>8. SchedInv(Q)'
  BY <1>1, <1>2, <1>3, <1>4, <1>5, BornIs, SchedKept
<1>9. LockInv'
  BY <1>1, <1>2, <1>4, <1>5, BornIs, LockKept
<1>10. HomeInv'
  BY <1>1, <1>2, <1>4, <1>5, BornIs, HomeKept
<1>11. got' = got => PidInv'
  BY <1>1, <1>2, <1>3, <1>4, PidKept
<1> QED BY <1>2, <1>5, <1>6, <1>7, <1>8, <1>9, <1>10, <1>11

(* What a step of a task must keep of the types.                           *)
LEMMA TypesMoved ==
  ASSUME Types, NEW t \in Task, NEW after \in Label(t), Goto(t, after),
         pcb' \in [Task -> Pcb], intr' \in BOOLEAN, got' \in [Task -> Nat],
         frame' \in [Task -> {0, Word * intr_stack}], UNCHANGED <<resume, holder, made>>
  PROVE  Types'
  BY DEF Types, Goto

(* kernel_thread: the first step of a task.                                *)
LEMMA KernelThreadStep ==
  ASSUME NEW Q, TasksInv(Q), NEW t \in Task, kernel_thread(t)
  PROVE  TasksInv(Q)'
<1> DEFINE after == IF t \in Process THEN "fresh" ELSE "work"
<1>1. TaskStep(t, "born", after) /\ UNCHANGED <<pcb, frame, got>> /\ intr' = TRUE
  BY DEF kernel_thread
<1>2. Types /\ FrameInv
  BY DEF TasksInv
<1>3. "born" \notin MainLabel /\ "born" \notin Alloc
  BY DEF MainLabel, Alloc
<1>4. /\ BootInv' /\ MakeInv' /\ SchedInv(Q)' /\ LockInv' /\ HomeInv' /\ PidInv'
      /\ t = current /\ t \in Born /\ t # Main /\ Born' = Born /\ current' = current
      /\ pc[t] = "born" /\ pc'[t] = after /\ \A u \in Task : u # t => pc'[u] = pc[u]
  BY <1>1, <1>3, TaskMoves
<1>5. Types'
  BY <1>1, <1>2, <1>4, TypesMoved DEF TaskStep, Types, Label
<1>6. FrameInv'
  BY <1>1, <1>2, <1>4, BornIs DEF FrameInv, TasksInv
<1> QED BY <1>4, <1>5, <1>6 DEF TasksInv

(* start_process: the frame goes where thread_create left room for it.     *)
LEMMA StartProcessStep ==
  ASSUME NEW Q, TasksInv(Q), NEW t \in Task, start_process(t)
  PROVE  TasksInv(Q)'
<1> DEFINE k == pcb[t].kstack - Word * thread_stack
<1>1. /\ TaskStep(t, "fresh", "stack") /\ UNCHANGED <<intr, got>>
      /\ pcb' = [pcb EXCEPT ![t].kstack = k] /\ frame' = [frame EXCEPT ![t] = k]
  BY DEF start_process
<1>2. Types /\ FrameInv
  BY DEF TasksInv
<1>3. "fresh" \notin MainLabel /\ "fresh" \notin Alloc
  BY DEF MainLabel, Alloc
<1>4. pcb \in [Task -> Pcb] /\ pcb[t] \in Pcb
  BY <1>2 DEF Types
<1>5. t = current /\ pc[t] = "fresh" /\ t \in Born
  BY <1>1 DEF TaskStep, At, TasksInv, SchedInv
<1>6. k = Word * intr_stack /\ k \in Int
  BY <1>2, <1>5 DEF FrameInv, Room, Word, intr_stack, thread_stack
<1> HIDE DEF k
<1>7. /\ pcb' \in [Task -> Pcb]
      /\ \A u \in Task : u # t => pcb'[u] = pcb[u]
      /\ pcb'[t].status = pcb[t].status /\ pcb'[t].pid = pcb[t].pid /\ pcb'[t].pgdir = pcb[t].pgdir
  BY <1>1, <1>4, <1>6 DEF Pcb
<1>8. /\ BootInv' /\ MakeInv' /\ SchedInv(Q)' /\ LockInv' /\ HomeInv' /\ PidInv'
      /\ t # Main /\ Born' = Born /\ current' = current
      /\ pc'[t] = "stack" /\ \A u \in Task : u # t => pc'[u] = pc[u]
  BY <1>1, <1>3, <1>7, TaskMoves
<1>9. Types'
  <2>1. "stack" \in Label(t)
    BY <1>2, <1>5, <1>8 DEF Types, Label
  <2>2. frame' \in [Task -> {0, Word * intr_stack}]
    BY <1>1, <1>2, <1>6 DEF Types
  <2> QED BY <1>1, <1>2, <1>7, <2>1, <2>2, TypesMoved DEF TaskStep, Types
<1>10. FrameInv'
  BY <1>1, <1>2, <1>5, <1>7, <1>8, BornIs DEF FrameInv, TasksInv
<1> QED BY <1>8, <1>9, <1>10 DEF TasksInv

(* A process leaves the kernel for the first time.                         *)
LEMMA ToUserStep ==
  ASSUME NEW Q, TasksInv(Q), NEW t \in Task, ToUser(t)
  PROVE  TasksInv(Q)'
<1>1. TaskStep(t, "iret", "user") /\ UNCHANGED <<pcb, frame, got>> /\ intr' = TRUE
  BY DEF ToUser
<1>2. Types /\ FrameInv
  BY DEF TasksInv
<1>3. "iret" \notin MainLabel /\ "iret" \notin Alloc
  BY DEF MainLabel, Alloc
<1>4. /\ BootInv' /\ MakeInv' /\ SchedInv(Q)' /\ LockInv' /\ HomeInv' /\ PidInv'
      /\ t = current /\ t \in Born /\ t # Main /\ Born' = Born /\ current' = current
      /\ pc[t] = "iret" /\ pc'[t] = "user" /\ \A u \in Task : u # t => pc'[u] = pc[u]
  BY <1>1, <1>3, TaskMoves
<1>5. Types'
  BY <1>1, <1>2, <1>4, TypesMoved DEF TaskStep, Types, Label
<1>6. FrameInv'
  BY <1>1, <1>2, <1>4, BornIs DEF FrameInv, TasksInv
<1> QED BY <1>4, <1>5, <1>6 DEF TasksInv

(* running_thread finds the task that runs.                                *)
LEMMA RunningThread ==
  ASSUME NEW Q, TasksInv(Q)
  PROVE  running_thread = current /\ current \in Task
<1>1. Types /\ MakeInv /\ SchedInv(Q) /\ HomeInv
  BY DEF TasksInv
<1>2. current \in Task /\ pc[current] \in Label(current)
  BY <1>1, BornIs DEF SchedInv, Types
<1>3. pc[current] = "user" => current \in Process
  BY <1>2 DEF Label, MainLabel
<1> QED BY <1>1, <1>2, <1>3 DEF running_thread, HomeInv, UserAtHome

(* getpid returns the pid of the caller.                                   *)
LEMMA GetpidStep ==
  ASSUME NEW Q, TasksInv(Q), NEW t \in Task, Getpid(t)
  PROVE  TasksInv(Q)'
<1>1. /\ TaskStep(t, "user", "user") /\ UNCHANGED <<intr, pcb, frame>>
      /\ got' = [got EXCEPT ![t] = pcb[running_thread].pid]
  BY DEF Getpid
<1>2. Types /\ FrameInv /\ PidInv
  BY DEF TasksInv
<1>3. "user" \notin MainLabel /\ "user" \notin Alloc
  BY DEF MainLabel, Alloc
<1>4. /\ BootInv' /\ MakeInv' /\ SchedInv(Q)' /\ LockInv' /\ HomeInv'
      /\ t = current /\ t \in Born /\ t # Main /\ Born' = Born /\ current' = current
      /\ pc[t] = "user" /\ pc'[t] = "user" /\ \A u \in Task : u # t => pc'[u] = pc[u]
  BY <1>1, <1>3, TaskMoves
<1>5. got' = [got EXCEPT ![t] = pcb[t].pid] /\ pcb[t].pid \in Nat
  BY <1>1, <1>2, <1>4, RunningThread DEF Types, Pcb
<1>6. Types'
  BY <1>1, <1>2, <1>4, <1>5, TypesMoved DEF TaskStep, Types, Label
<1>7. FrameInv'
  BY <1>1, <1>2, <1>4, BornIs DEF FrameInv, TasksInv
<1>8. PidInv'
  <2>1. pc' = pc /\ made' = made
    BY <1>1, <1>2, <1>4 DEF TaskStep, Goto, Types
  <2>2. \A u \in Task : got'[u] \in {0, pcb'[u].pid} /\ (u \notin Born => got'[u] = 0)
    <3> TAKE u \in Task
    <3>1. /\ pcb' = pcb /\ got[u] \in {0, pcb[u].pid} /\ (u \notin Born => got[u] = 0)
          /\ got \in [Task -> Nat]
      BY <1>1, <1>2 DEF PidInv, Types
    <3>2. CASE u = t
      BY <1>4, <1>5, <3>1, <3>2
    <3>3. CASE u # t
      BY <1>5, <3>1, <3>3
    <3> QED BY <3>2, <3>3
  <2> QED BY <1>1, <1>2, <1>4, <2>1, <2>2 DEF PidInv, new
<1> QED BY <1>4, <1>6, <1>7, <1>8 DEF TasksInv

(* A call of malloc or free.                                               *)
LEMMA CallHeapStep ==
  ASSUME NEW Q, TasksInv(Q), NEW t \in Task, CallHeap(t)
  PROVE  TasksInv(Q)'
<1>1. PICK label \in {"user", "work"}, after \in {"trap", "heap"} :
        TaskStep(t, label, after) /\ (label = "user" => after = "trap")
  BY DEF CallHeap
<1>2. UNCHANGED <<pcb, frame, got>> /\ intr' \in BOOLEAN
  BY DEF CallHeap, TasksInv, Types
<1>3. Types /\ FrameInv
  BY DEF TasksInv
<1>4. label \notin MainLabel /\ label \notin Alloc
  BY DEF MainLabel, Alloc
<1>5. /\ BootInv' /\ MakeInv' /\ SchedInv(Q)' /\ LockInv' /\ HomeInv' /\ PidInv'
      /\ t = current /\ t \in Born /\ t # Main /\ Born' = Born /\ current' = current
      /\ pc[t] = label /\ pc'[t] = after /\ \A u \in Task : u # t => pc'[u] = pc[u]
  BY <1>1, <1>2, <1>4, TaskMoves
<1>6. Types'
  <2>1. after \in Label(t)
    BY <1>1, <1>3, <1>5 DEF Types, Label
  <2> QED BY <1>1, <1>2, <1>3, <2>1, TypesMoved DEF TaskStep, Types
<1>7. FrameInv'
  BY <1>1, <1>2, <1>3, <1>5, BornIs DEF FrameInv, TasksInv
<1> QED BY <1>5, <1>6, <1>7 DEF TasksInv
-----------------------------------------------------------------------------
(* init_thread, thread_create and process_execute write the PCB of the new *)
(* task, which nothing else looks at yet.                                  *)
LEMMA PcbWritten ==
  ASSUME NEW Q, TasksInv(Q), NEW label \in {"init", "pid", "create", "pgdir"},
         NEW after \in {"pid", "bitmap", "create", "dir", "find", "insert"},
         NEW p \in Pcb, PcbStep(label, after, p)
  PROVE  /\ Types' /\ BootInv' /\ SchedInv(Q)' /\ LockInv' /\ HomeInv' /\ PidInv' /\ FrameInv'
         /\ pc[Main] = label /\ pc'[Main] = after /\ new' = new /\ made' = made
         /\ pcb'[new] = p /\ made < Len(Programme) /\ made \in Nat /\ pcb[new] \in Pcb
<1>1. /\ Types /\ BootInv /\ MakeInv /\ SchedInv(Q) /\ LockInv /\ HomeInv /\ PidInv /\ FrameInv
  BY DEF TasksInv
<1>2. /\ current = Main /\ pc[Main] = label /\ pc' = [pc EXCEPT ![Main] = after]
      /\ pcb' = [pcb EXCEPT ![new] = p]
      /\ UNCHANGED <<intr, bootVars, links, current, resume, holder, cr3, esp0, made, curr, frame, got, halted>>
  BY DEF PcbStep, At, Goto
<1>3. Main \in Task /\ pc'[Main] = after /\ \A u \in Task : u # Main => pc'[u] = pc[u]
  BY <1>1, <1>2, TaskAssumption DEF Types
<1>4. made < Len(Programme) /\ made \in Nat /\ new \in Task /\ new \notin Born /\ new # Main /\ Born \subseteq Task
  BY <1>1, <1>2, BornIs DEF MakeInv
<1>5. pcb'[new] = p /\ \A u \in Task : u # new => pcb'[u] = pcb[u]
  BY <1>1, <1>2, <1>4 DEF Types
<1>6. Born' = Born /\ AllMade' = AllMade /\ new' = new
  BY <1>2, <1>3, BornKept
<1>7. Types'
  <2>1. after \in Label(Main)
    BY DEF Label, MainLabel
  <2>2. pcb' \in [Task -> Pcb]
    BY <1>1, <1>2 DEF Types
  <2> QED BY <1>1, <1>2, <1>3, <2>1, <2>2, TypesMoved DEF Types, Goto
<1>8. BootInv'
  BY <1>1, <1>2, <1>3, BootKept
<1>9. SchedInv(Q)'
  BY <1>1, <1>2, <1>3, <1>4, <1>5, <1>6, SchedKept
<1>10. LockInv'
  <2>1. \A t \in Born : pc[t] \in Alloc => pc'[t] \in Alloc
    BY <1>2, <1>3, <1>4 DEF Alloc
  <2> QED BY <1>1, <1>2, <1>4, <1>5, <1>6, <2>1, LockKept
<1>11. HomeInv'
  BY <1>1, <1>2, <1>4, <1>5, <1>6, HomeKept
<1>12. PidInv'
  <2>1. \A i \in 1..made : Programme[i] \in Born
    BY <1>1, BornIs
  <2>2. Main \in Born
    BY DEF Born
  <2>3. got[new] = 0
    BY <1>1, <1>4 DEF PidInv
  <2> QED BY <1>1, <1>2, <1>3, <1>4, <1>5, <1>6, <2>1, <2>2, <2>3 DEF PidInv
<1>13. FrameInv'
  BY <1>1, <1>2, <1>3, <1>4, <1>5, <1>6 DEF FrameInv
<1> QED BY <1>1, <1>2, <1>3, <1>4, <1>5, <1>6, <1>7, <1>8, <1>9, <1>10, <1>11, <1>12, <1>13 DEF Types

(* init_thread, up to the pid.                                             *)
LEMMA InitThreadStep ==
  ASSUME NEW Q, TasksInv(Q), InitThread
  PROVE  TasksInv(Q)'
<1>1. PcbStep("init", "pid", Fresh) /\ next_pid' = next_pid + 1 /\ MakeInv
  BY DEF InitThread, TasksInv
<1>2. Fresh \in Pcb
  BY TaskAssumption DEF Fresh, Pcb, Status
<1>3. /\ Types' /\ BootInv' /\ SchedInv(Q)' /\ LockInv' /\ HomeInv' /\ PidInv' /\ FrameInv'
      /\ pc[Main] = "init" /\ pc'[Main] = "pid" /\ new' = new /\ made' = made
      /\ pcb'[new] = Fresh /\ made < Len(Programme) /\ made \in Nat
  BY <1>1, <1>2, PcbWritten
<1>4. MakeInv'
  BY <1>1, <1>3 DEF MakeInv
<1> QED BY <1>3, <1>4 DEF TasksInv

(* The rest of init_thread.                                                *)
LEMMA InitRestStep ==
  ASSUME NEW Q, TasksInv(Q), InitRest
  PROVE  TasksInv(Q)'
<1> DEFINE p == [pcb[new] EXCEPT !.pid = allocate_pid, !.ticks = Priority]
           after == IF new \in Process THEN "bitmap" ELSE "create"
<1>1. PcbStep("pid", after, p) /\ next_pid' = next_pid /\ MakeInv /\ Types
  BY DEF InitRest, TasksInv
<1>2. pc[Main] = "pid" /\ pcb[new] = Fresh /\ next_pid = made + 2 /\ made \in Nat
  BY <1>1 DEF PcbStep, At, MakeInv, Types
<1>3. pcb[new] \in Pcb /\ pcb[new].status = "READY" /\ pcb[new].elapsed = 0 /\ pcb[new].kstack = 0 /\ ~ pcb[new].pgdir
  BY <1>2, TaskAssumption DEF Pcb, Status, Fresh
<1>4. /\ p \in Pcb /\ p.pid = made + 2 /\ p.status = "READY" /\ p.ticks = Priority /\ p.elapsed = 0
      /\ p.kstack = 0 /\ ~ p.pgdir
  <2>1. allocate_pid = made + 2 /\ made + 2 \in Nat /\ Priority \in 0..Priority
    BY <1>2, TaskAssumption DEF allocate_pid
  <2> HIDE DEF allocate_pid
  <2> QED BY <1>3, <2>1 DEF Pcb
<1> HIDE DEF p
<1>5. /\ Types' /\ BootInv' /\ SchedInv(Q)' /\ LockInv' /\ HomeInv' /\ PidInv' /\ FrameInv'
      /\ pc'[Main] = after /\ new' = new /\ made' = made
      /\ pcb'[new] = p /\ made < Len(Programme)
  BY <1>1, <1>4, PcbWritten
<1>6. MakeInv'
  BY <1>1, <1>2, <1>4, <1>5 DEF MakeInv
<1> QED BY <1>5, <1>6 DEF TasksInv

(* thread_create.                                                          *)
LEMMA ThreadCreateStep ==
  ASSUME NEW Q, TasksInv(Q), ThreadCreate
  PROVE  TasksInv(Q)'
<1> DEFINE p == [pcb[new] EXCEPT !.kstack = @ + Word * intr_stack + Word * thread_stack]
           after == IF new \in Process THEN "dir" ELSE "find"
<1>1. PcbStep("create", after, p) /\ next_pid' = next_pid /\ MakeInv /\ Types
  BY DEF ThreadCreate, TasksInv
<1>2. /\ pc[Main] = "create" /\ next_pid = made + 2 /\ made \in Nat /\ made < Len(Programme)
      /\ pcb[new].pid = made + 2 /\ pcb[new].status = "READY" /\ pcb[new].ticks = Priority
      /\ pcb[new].elapsed = 0 /\ pcb[new].kstack = 0 /\ ~ pcb[new].pgdir
  BY <1>1 DEF PcbStep, At, MakeInv, Types
<1>3. pcb[new] \in Pcb
  BY <1>1, <1>2, BornIs DEF Types
<1>4. /\ p \in Pcb /\ p.pid = made + 2 /\ p.status = "READY" /\ p.ticks = Priority /\ p.elapsed = 0
      /\ p.kstack = Room /\ ~ p.pgdir
  BY <1>2, <1>3 DEF Pcb, Room, Word, intr_stack, thread_stack
<1> HIDE DEF p
<1>5. /\ Types' /\ BootInv' /\ SchedInv(Q)' /\ LockInv' /\ HomeInv' /\ PidInv' /\ FrameInv'
      /\ pc'[Main] = after /\ new' = new /\ made' = made
      /\ pcb'[new] = p
  BY <1>1, <1>4, PcbWritten
<1>6. MakeInv'
  BY <1>1, <1>2, <1>4, <1>5 DEF MakeInv
<1> QED BY <1>5, <1>6 DEF TasksInv

(* create_page_dir has returned.                                           *)
LEMMA SetPgdirStep ==
  ASSUME NEW Q, TasksInv(Q), SetPgdir
  PROVE  TasksInv(Q)'
<1> DEFINE p == [pcb[new] EXCEPT !.pgdir = TRUE]
<1>1. PcbStep("pgdir", "insert", p) /\ next_pid' = next_pid /\ MakeInv /\ Types
  BY DEF SetPgdir, TasksInv
<1>2. /\ pc[Main] = "pgdir" /\ next_pid = made + 2 /\ made \in Nat /\ made < Len(Programme)
      /\ pcb[new].pid = made + 2 /\ pcb[new].status = "READY" /\ pcb[new].ticks = Priority
      /\ pcb[new].elapsed = 0 /\ pcb[new].kstack = Room /\ new \in Process
  BY <1>1 DEF PcbStep, At, MakeInv, Types
<1>3. pcb[new] \in Pcb
  BY <1>1, <1>2, BornIs DEF Types
<1>4. /\ p \in Pcb /\ p.pid = made + 2 /\ p.status = "READY" /\ p.ticks = Priority /\ p.elapsed = 0
      /\ p.kstack = Room /\ p.pgdir
  BY <1>2, <1>3 DEF Pcb
<1> HIDE DEF p
<1>5. /\ Types' /\ BootInv' /\ SchedInv(Q)' /\ LockInv' /\ HomeInv' /\ PidInv' /\ FrameInv'
      /\ pc'[Main] = "insert" /\ new' = new /\ made' = made
      /\ pcb'[new] = p
  BY <1>1, <1>4, PcbWritten
<1>6. MakeInv'
  BY <1>1, <1>2, <1>4, <1>5 DEF MakeInv
<1> QED BY <1>5, <1>6 DEF TasksInv
-----------------------------------------------------------------------------
(* What every step of main at the lists leaves as it is.                   *)
LEMMA ListMoves ==
  ASSUME NEW Q, TasksInv(Q), NEW label \in {"insert", "find", "walk", "append", "all"},
         NEW after \in {"walk", "append", "lost", "all", "idle", "page"}, ListStep(label, after),
         made' \in 0..Len(Programme), \A t \in Task \ Born' : t \notin Born
  PROVE  /\ Types' /\ BootInv' /\ current = Main /\ current' = Main /\ pc[Main] = label /\ pc'[Main] = after
         /\ \A u \in Task : u # Main => pc'[u] = pc[u]
         /\ (Born \subseteq Born' => LockInv')
         /\ made < Len(Programme) /\ made \in Nat /\ next_pid = made + 2 /\ new \in Task /\ Born \subseteq Task
         /\ UNCHANGED <<intr, pcb, current, holder, cr3, esp0, next_pid, frame, got>>
<1>1. Types /\ BootInv /\ MakeInv /\ LockInv
  BY DEF TasksInv
<1>2. /\ current = Main /\ pc[Main] = label /\ pc' = [pc EXCEPT ![Main] = after]
      /\ UNCHANGED <<intr, bootVars, pcb, current, resume, holder, cr3, esp0, next_pid, frame, got>>
  BY DEF ListStep, At, Goto
<1>3. Main \in Task /\ pc'[Main] = after /\ \A u \in Task : u # Main => pc'[u] = pc[u]
  BY <1>1, <1>2, TaskAssumption DEF Types
<1>4. /\ made < Len(Programme) /\ made \in Nat /\ next_pid = made + 2 /\ new \in Task /\ Born \subseteq Task
  BY <1>1, <1>2, BornIs DEF MakeInv
<1>5. Types'
  <2>1. after \in Label(Main)
    BY DEF Label, MainLabel
  <2> QED BY <1>1, <1>2, <1>3, <2>1 DEF Types
<1>6. BootInv'
  BY <1>1, <1>2, <1>3, BootKept
<1>7. Born \subseteq Born' => LockInv'
  <2>1. \A t \in Born : pc[t] \in Alloc => pc'[t] \in Alloc
    BY <1>2, <1>3, <1>4 DEF Alloc
  <2> QED BY <1>1, <1>2, <1>4, <2>1, LockKept
<1> QED BY <1>2, <1>3, <1>4, <1>5, <1>6, <1>7

(* node_find in thread_start goes on, stands at a node or is lost.         *)
LEMMA WalkMoves ==
  ASSUME NEW Q, TasksInv(Q), NEW label \in {"find", "walk"}, NEW after \in {"walk", "append", "lost"},
         ListStep(label, after), UNCHANGED <<links, made, halted>>,
         after = "walk" => curr' \in Nodes \cup {NULL} /\ \A u \in Task : curr' = Tag(u) => u \in Born
  PROVE  TasksInv(Q)'
<1>1. Types /\ MakeInv /\ SchedInv(Q) /\ HomeInv /\ PidInv /\ FrameInv
  BY DEF TasksInv
<1>2. pc[Main] = label /\ pc'[Main] = after
  BY <1>1, TaskAssumption DEF ListStep, At, Goto, Types
<1>3. Born' = Born /\ AllMade' = AllMade /\ new' = new
  BY <1>2, BornKept
<1>4. made' \in 0..Len(Programme)
  BY <1>1 DEF Types
<1>5. /\ Types' /\ BootInv' /\ current = Main /\ current' = Main /\ LockInv'
      /\ \A u \in Task : u # Main => pc'[u] = pc[u]
      /\ made < Len(Programme) /\ made \in Nat /\ next_pid = made + 2 /\ new \in Task /\ Born \subseteq Task
      /\ UNCHANGED <<intr, pcb, current, holder, cr3, esp0, next_pid, frame, got>>
  BY <1>3, <1>4, ListMoves
<1>6. MakeInv'
  BY <1>1, <1>2, <1>3, <1>5 DEF MakeInv
<1>7. SchedInv(Q)'
  <2>1. Holds(links, Q, AllMade)' /\ Known(links, Born)' /\ Queued(pcb, Q, Born)' /\ halted' = FALSE
    <3>1. /\ Holds(links, Q, AllMade) /\ Known(links, Born) /\ Queued(pcb, Q, Born) /\ halted = FALSE
          /\ links' = links /\ pcb' = pcb /\ halted' = halted
      BY <1>1, <1>5, Zenon DEF SchedInv
    <3>2. Holds(links, Q, AllMade)' /\ Known(links, Born)'
      BY <1>3, <3>1 DEF Holds, Known, IsList
    <3>3. Queued(pcb, Q, Born)'
      BY <1>3, <3>1 DEF Queued, QueueOf
    <3> QED BY <3>1, <3>2, <3>3
  <2> QED BY <1>1, <1>2, <1>3, <1>5, <2>1 DEF SchedInv
<1>8. HomeInv'
  BY <1>1, <1>3, <1>5, HomeKept
<1>9. PidInv'
  BY <1>1, <1>2, <1>3, <1>5, TaskAssumption, PidKept DEF Born
<1>10. FrameInv'
  BY <1>1, <1>2, <1>3, <1>5 DEF FrameInv
<1> QED BY <1>5, <1>6, <1>7, <1>8, <1>9, <1>10 DEF TasksInv

(* A pointer that main follows leads to a task that exists.                *)
LEMMA Followed ==
  ASSUME NEW Q, TasksInv(Q), NEW x \in Nodes
  PROVE  links.next[x] \in Nodes \cup {NULL} /\ \A u \in Task : links.next[x] = Tag(u) => u \in Born
<1>1. links \in Memory /\ Known(links, Born)
  BY DEF TasksInv, SchedInv, Holds
<1> QED BY <1>1 DEF Memory, Known

(* The first pointer of the loop of node_find.                             *)
LEMMA FindFirstStep ==
  ASSUME NEW Q, TasksInv(Q), FindFirst
  PROVE  TasksInv(Q)'
<1>1. ListStep("find", "walk") /\ curr' = list_front(links, ready) /\ UNCHANGED <<links, made, halted>>
  BY DEF FindFirst
<1>2. list_front(links, ready) = links.next[<<"head", "ready">>] /\ <<"head", "ready">> \in Nodes
  BY DEF list_front, ready, List, Nodes
<1> QED BY <1>1, <1>2, Followed, WalkMoves

(* The next one: the new task is not there, as it has never been in a      *)
(* list.                                                                   *)
LEMMA FindNextStep ==
  ASSUME NEW Q, TasksInv(Q), FindNext
  PROVE  TasksInv(Q)'
<1> DEFINE after == CASE curr = ready.tail -> "append" [] curr = NULL -> "lost" [] OTHER -> "walk"
<1>1. /\ ListStep("walk", after) /\ halted' = (curr = Tag(new))
      /\ curr' = IF curr \in {ready.tail, NULL} THEN NULL ELSE links.next[curr]
      /\ UNCHANGED <<links, made>>
  BY DEF FindNext
<1>2. Types /\ MakeInv /\ SchedInv(Q) /\ pc[Main] = "walk"
  BY <1>1 DEF TasksInv, ListStep, At
<1>3. new \in Task /\ new \notin Born
  BY <1>2, BornIs DEF MakeInv
<1>4. /\ curr \in Nodes \cup {NULL} /\ ~ halted
      /\ \A u \in Task : curr = Tag(u) => u \in Born
  BY <1>2 DEF SchedInv
<1>5. UNCHANGED halted
  <2>1. curr # Tag(new) /\ halted = FALSE
    BY <1>3, <1>4
  <2>2. halted' = (curr = Tag(new))
    BY <1>1
  <2> HIDE DEF after
  <2>3. halted' = FALSE
    BY <2>1, <2>2, Zenon
  <2> QED BY <2>1, <2>3
<1>6. after \in {"walk", "append", "lost"} /\ (after = "walk" => curr \in Nodes /\ curr' = links.next[curr])
  BY <1>1, <1>4
<1> HIDE DEF after
<1> QED BY <1>1, <1>5, <1>6, Followed, WalkMoves
-----------------------------------------------------------------------------
(* The ready list as the scheduler of Threads sees it.                     *)
ReadyOf(m) == LET v == Visited(m, ready) IN [i \in DOMAIN v |-> elem2entry(v[i])]

(* It is the queue of the invariant.                                       *)
LEMMA ReadyIs ==
  ASSUME NEW m, NEW Q, NEW A, Holds(m, Q, A)
  PROVE  ReadyOf(m) = Q["ready"] /\ Q["ready"] \in Seq(Task)
<1>1. Visited(m, ready) = Tags(Q["ready"]) /\ Q["ready"] \in Seq(Task)
  BY HoldsFind DEF ready, Queue, Holds
<1>2. ASSUME NEW s \in Seq(Task) PROVE [i \in DOMAIN Tags(s) |-> elem2entry(Tags(s)[i])] = s
  <2>1. Tags(s) = [i \in 1..Len(s) |-> Tag(s[i])]
    BY DEF Tags
  <2>2. [i \in DOMAIN Tags(s) |-> elem2entry(Tags(s)[i])] = [i \in 1..Len(s) |-> s[i]]
    BY <2>1 DEF Tag, elem2entry
  <2>3. s = [i \in 1..Len(s) |-> s[i]]
    OBVIOUS
  <2> QED BY <2>2, <2>3
<1> QED BY <1>1, <1>2 DEF ReadyOf

(* Before and after a step.                                                *)
LEMMA ReadySeqs ==
  readySeq = ReadyOf(links) /\ readySeq' = ReadyOf(links')
  BY DEF readySeq, ReadyOf

(* Being in a queue, as node_find of Threads sees it.                      *)
LEMMA InRange ==
  ASSUME NEW s \in Seq(Task), NEW t
  PROVE  T!node_find(s, t) <=> In(t, s)
  BY DEF T!node_find, T!Range, In

(* A task that has not run yet will be switched to with interrupts on, as  *)
(* Threads has it.                                                         *)
Awaits == \A t \in Task : pc[t] = "born" => resume[t]

(* The task new is on the ready list, with a full slice: the step of       *)
(* thread_start and process_execute that Threads knows.                    *)
LEMMA StartsTask ==
  ASSUME NEW Q, TasksInv(Q), Awaits, NEW R, NEW A, Holds(links', R, A), R["ready"] = Append(Q["ready"], new),
         new \in Task, new \notin Born, Born' = Born \cup {new}, pcb[new].status = "READY",
         pcb[new].ticks = Priority, ~ In(new, Q["ready"]), UNCHANGED <<pcb, current, resume, intr, halted>>,
         pc[current] # "born", pc'[current] # "born"
  PROVE  T!thread_start(new)
<1>1. Types /\ SchedInv(Q) /\ PidInv
  BY DEF TasksInv
<1>2. readySeq = Q["ready"] /\ Q["ready"] \in Seq(Task) /\ readySeq' = Append(readySeq, new)
  BY <1>1, ReadySeqs, ReadyIs DEF SchedInv
<1>3. halted = FALSE /\ ~ halted
  BY <1>1 DEF SchedInv
<1>4. ~ T!node_find(readySeq, new)
  BY <1>2, InRange
<1>5. bornStatus[new] = "UNBORN" /\ bornStatus' = [bornStatus EXCEPT ![new] = "READY"]
  BY DEF bornStatus
<1>6. bornTicks' = [bornTicks EXCEPT ![new] = Priority]
  BY DEF bornTicks
<1>7. resume' = [resume EXCEPT ![new] = TRUE]
  <2>1. resume[new] = TRUE /\ resume \in [Task -> BOOLEAN]
    BY <1>1 DEF Types, PidInv, Awaits
  <2> QED BY <2>1
<1>8. enabled' = enabled
  BY DEF enabled
<1> QED BY <1>2, <1>3, <1>4, <1>5, <1>6, <1>7, <1>8 DEF T!thread_start, T!list_append

(* A step that Threads does not see, except for the interrupt flag.        *)
Unseen == UNCHANGED <<current, readySeq, bornStatus, bornTicks, resume, halted>>

(* One that moves no task in the queues.                                   *)
LEMMA NotSeen ==
  ASSUME NEW Q, TasksInv(Q), TasksInv(Q)', Born' = Born, UNCHANGED <<current, resume>>,
         \A t \in Born : pcb'[t].status = pcb[t].status /\ pcb'[t].ticks = pcb[t].ticks
  PROVE  Unseen
<1>1. Holds(links, Q, AllMade) /\ Holds(links', Q, AllMade') /\ halted = FALSE /\ halted' = FALSE
  BY DEF TasksInv, SchedInv
<1>2. readySeq' = readySeq
  BY <1>1, ReadySeqs, ReadyIs
<1>3. bornStatus' = bornStatus /\ bornTicks' = bornTicks
  BY DEF bornStatus, bornTicks
<1> QED BY <1>1, <1>2, <1>3 DEF Unseen
-----------------------------------------------------------------------------
(* All tasks of C but t belong where they did.                             *)
Others(p, q, C, t) == \A u \in C : u # t => QueueOf(q, u) = QueueOf(p, u)

(* Only the queue n differs.                                               *)
Only(Q, R, n) == \A k \in Queue : k # n => R[k] = Q[k]

(* t is in none of the queues Q, and n is the one it belongs in when the   *)
(* PCBs are q.                                                             *)
CanEnter(m, Q, A, C, p, q, n, t) ==
  /\ Holds(m, Q, A) /\ Known(m, C) /\ Queued(p, Q, C)
  /\ n \in Queue /\ t \in Task /\ (t \notin C \/ QueueOf(p, t) \notin Queue)
  /\ QueueOf(q, t) = n /\ Others(p, q, C, t)

(* A task enters a queue, at its end or at its front: one that was in none.*)
LEMMA Enters ==
  ASSUME NEW m, NEW Q, NEW A, NEW C, NEW p, NEW q, NEW n, NEW t, CanEnter(m, Q, A, C, p, q, n, t)
  PROVE  /\ \E R : /\ Holds(list_append(m, List(n), Tag(t)), R, A) /\ Queued(q, R, C \cup {t})
                   /\ Known(list_append(m, List(n), Tag(t)), C \cup {t})
                   /\ R[n] = Append(Q[n], t) /\ In(t, R[n]) /\ Only(Q, R, n)
         /\ \E R : /\ Holds(list_push(m, List(n), Tag(t)), R, A) /\ Queued(q, R, C \cup {t})
                   /\ Known(list_push(m, List(n), Tag(t)), C \cup {t})
                   /\ R[n] = <<t>> \o Q[n] /\ Only(Q, R, n)
<1> DEFINE B == C \cup {t}
           R1 == [Q EXCEPT ![n] = Append(Q[n], t)]
           R2 == [Q EXCEPT ![n] = <<t>> \o Q[n]]
<1> USE DEF CanEnter
<1>1. Known(m, B) /\ t \in B
  BY DEF Known
<1>2. Q \in [Queue -> Seq(Task)] /\ Q[n] \in Seq(Task)
  BY DEF Holds
<1>3. \A k \in Queue : ~ In(t, Q[k])
  BY DEF Queued
<1>4. \A k \in Queue, u \in Task : In(u, Q[k]) => u \in B
  BY DEF Queued
<1> HIDE DEF B
<1>5. /\ Holds(list_append(m, List(n), Tag(t)), R1, A) /\ Known(list_append(m, List(n), Tag(t)), B)
      /\ Holds(list_push(m, List(n), Tag(t)), R2, A) /\ Known(list_push(m, List(n), Tag(t)), B)
  BY <1>1, <1>3, <1>4, HoldsMore
<1>6. /\ R1[n] = Append(Q[n], t) /\ \A k \in Queue : k # n => R1[k] = Q[k]
      /\ R2[n] = <<t>> \o Q[n] /\ \A k \in Queue : k # n => R2[k] = Q[k]
  BY <1>2
<1>7. \A u : /\ In(u, Append(Q[n], t)) <=> In(u, Q[n]) \/ u = t
             /\ In(u, <<t>> \o Q[n]) <=> In(u, Q[n]) \/ u = t
  BY <1>2, InGrown
<1> HIDE DEF R1, R2
<1>8. ASSUME NEW R, \A u : In(u, R[n]) <=> In(u, Q[n]) \/ u = t, \A k \in Queue : k # n => R[k] = Q[k]
      PROVE  Queued(q, R, B)
  <2> SUFFICES ASSUME NEW u \in Task, NEW k \in Queue PROVE In(u, R[k]) <=> u \in B /\ QueueOf(q, u) = k
    BY DEF Queued
  <2>1. In(u, R[k]) <=> In(u, Q[k]) \/ (k = n /\ u = t)
    BY <1>8
  <2>2. In(u, Q[k]) <=> u \in C /\ QueueOf(p, u) = k
    BY DEF Queued
  <2>3. CASE u = t
    BY <1>1, <1>3, <2>1, <2>3
  <2>4. CASE u # t
    BY <2>1, <2>2, <2>4 DEF B, Others
  <2> QED BY <2>3, <2>4
<1>9. Queued(q, R1, B) /\ Queued(q, R2, B)
  BY <1>6, <1>7, <1>8
<1> QED BY <1>5, <1>6, <1>7, <1>9 DEF B, Only

(* The queues R that list_append of t to the n-th leaves in the memory m.  *)
Appended(m, Q, A, B, q, n, t) ==
  \E R : /\ Holds(m, R, A) /\ Queued(q, R, B) /\ Known(m, B)
         /\ R[n] = Append(Q[n], t) /\ In(t, R[n]) /\ Only(Q, R, n)

(* list_append of a task that can enter a queue.                           *)
LEMMA AppendEnters ==
  ASSUME NEW m, NEW Q, NEW A, NEW C, NEW p, NEW q, NEW n, NEW t, CanEnter(m, Q, A, C, p, q, n, t)
  PROVE  Appended(list_append(m, List(n), Tag(t)), Q, A, C \cup {t}, q, n, t)
<1>1. \E R : /\ Holds(list_append(m, List(n), Tag(t)), R, A) /\ Queued(q, R, C \cup {t})
             /\ Known(list_append(m, List(n), Tag(t)), C \cup {t})
             /\ R[n] = Append(Q[n], t) /\ In(t, R[n]) /\ Only(Q, R, n)
  BY Enters, Zenon
<1> QED BY <1>1, Zenon DEF Appended

(* The first task of a queue leaves it.                                    *)
LEMMA Leaves ==
  ASSUME NEW m, NEW Q, NEW A, Holds(m, Q, A), NEW C, Known(m, C), NEW p, Queued(p, Q, C),
         NEW n \in Queue, Q[n] # <<>>
  PROVE  \E u, R :
           /\ u \in Task /\ list_front(m, List(n)) = Tag(u) /\ u \in C /\ QueueOf(p, u) = n /\ u = Head(Q[n])
           /\ Holds(list_pop(m, List(n)), R, A) /\ Known(list_pop(m, List(n)), C)
           /\ R[n] = Tail(Q[n]) /\ Only(Q, R, n)
           /\ \A q : QueueOf(q, u) \notin Queue /\ Others(p, q, C, u) => Queued(q, R, C)
<1> DEFINE u == Head(Q[n])
           R == [Q EXCEPT ![n] = Tail(Q[n])]
<1>1. /\ list_front(m, List(n)) = Tag(u) /\ u \in Task
      /\ Holds(list_pop(m, List(n)), R, A) /\ Known(list_pop(m, List(n)), C)
      /\ In(u, Q[n]) /\ \A v : In(v, Tail(Q[n])) <=> In(v, Q[n]) /\ v # u
  BY HoldsLess
<1>2. Q \in [Queue -> Seq(Task)]
  BY DEF Holds
<1>3. R[n] = Tail(Q[n]) /\ \A k \in Queue : k # n => R[k] = Q[k]
  BY <1>2
<1>4. u \in C /\ QueueOf(p, u) = n
  BY <1>1 DEF Queued
<1> HIDE DEF u, R
<1>5. ASSUME NEW q, QueueOf(q, u) \notin Queue, Others(p, q, C, u)
      PROVE  Queued(q, R, C)
  <2> SUFFICES ASSUME NEW v \in Task, NEW k \in Queue PROVE In(v, R[k]) <=> v \in C /\ QueueOf(q, v) = k
    BY DEF Queued
  <2>1. In(v, Q[k]) <=> v \in C /\ QueueOf(p, v) = k
    BY DEF Queued
  <2>2. In(v, R[k]) <=> In(v, Q[k]) /\ ~ (k = n /\ v = u)
    BY <1>1, <1>3
  <2>3. CASE v = u
    BY <1>4, <1>5, <2>1, <2>2, <2>3
  <2>4. CASE v # u
    BY <1>5, <2>1, <2>2, <2>4 DEF Others
  <2> QED BY <2>3, <2>4
<1> QED BY <1>1, <1>3, <1>4, <1>5 DEF u, Only

(* The task that main has made is one that the scheduler may run.          *)
LEMMA NewIsFit ==
  ASSUME Types, MakeInv, HomeInv, PidInv, FrameInv,
         pc[Main] \in {"insert", "append"}, current = Main,
         Born' = Born \cup {new}, UNCHANGED <<intr, pcb, current, cr3, esp0, got>>,
         pc'[Main] \notin {"born", "fresh"}, \A u \in Task : u # Main => pc'[u] = pc[u]
  PROVE  /\ HomeInv' /\ FrameInv' /\ new \in Task /\ new \notin Born /\ QueueOf(pcb, new) = "ready"
         /\ pcb[new].pid = made + 2 /\ pcb[new].status = "READY"
         /\ \A t \in Task \ Born' : pc'[t] = "born" /\ got'[t] = 0
<1>1. /\ new \in Task /\ new \notin Born /\ new # Main /\ Born \subseteq Task /\ Main \in Born
      /\ made < Len(Programme)
  BY BornIs DEF MakeInv
<1>2. /\ pcb[new].pid = made + 2 /\ pcb[new].status = "READY" /\ pcb[new].ticks = Priority
      /\ pcb[new].elapsed = 0 /\ pcb[new].kstack = Room /\ (pcb[new].pgdir <=> new \in Process)
  BY DEF MakeInv
<1>3. QueueOf(pcb, new) = "ready"
  BY <1>2 DEF QueueOf
<1>4. HomeInv'
  BY <1>1, <1>2 DEF HomeInv, UserAtHome
<1>5. FrameInv'
  <2>1. pcb[new].ticks + pcb[new].elapsed = Priority
    BY <1>2, TaskAssumption
  <2> QED BY <1>1, <1>2, <2>1 DEF FrameInv
<1>6. \A t \in Task \ Born' : pc'[t] = "born" /\ got'[t] = 0
  BY <1>1 DEF PidInv
<1> QED BY <1>1, <1>2, <1>3, <1>4, <1>5, <1>6

(* thread_start puts the new thread on the ready list.                     *)
LEMMA AppendReadyStep ==
  ASSUME NEW Q, TasksInv(Q), AppendReady
  PROVE  (\E R : TasksInv(R)') /\ (Awaits => T!thread_start(new))
<1>1. /\ ListStep("append", "all") /\ links' = list_append(links, ready, Tag(new))
      /\ UNCHANGED <<made, curr, halted>>
  BY DEF AppendReady
<1>2. Types /\ MakeInv /\ SchedInv(Q) /\ HomeInv /\ PidInv /\ FrameInv
  BY DEF TasksInv
<1>3. pc[Main] = "append" /\ pc'[Main] = "all" /\ current = Main
  BY <1>1, <1>2, TaskAssumption DEF ListStep, At, Goto, Types
<1>4. Born' = Born \cup {new} /\ AllMade' = AllMade /\ new' = new
  BY <1>1, <1>3 DEF Born, AllMade, new
<1>5. made' \in 0..Len(Programme)
  BY <1>1, <1>2 DEF Types
<1>6. /\ Types' /\ BootInv' /\ LockInv' /\ current' = Main
      /\ \A u \in Task : u # Main => pc'[u] = pc[u]
      /\ made < Len(Programme) /\ made \in Nat /\ next_pid = made + 2 /\ new \in Task
      /\ UNCHANGED <<intr, pcb, current, holder, cr3, esp0, next_pid, frame, got>>
  BY <1>1, <1>4, <1>5, ListMoves
<1>7. /\ HomeInv' /\ FrameInv' /\ new \in Task /\ new \notin Born /\ QueueOf(pcb, new) = "ready"
      /\ pcb[new].pid = made + 2 /\ pcb[new].status = "READY"
      /\ \A t \in Task \ Born' : pc'[t] = "born" /\ got'[t] = 0
  BY <1>2, <1>3, <1>4, <1>6, NewIsFit
<1>8. MakeInv'
  BY <1>1, <1>2, <1>3, <1>4, <1>6 DEF MakeInv
<1>9. PidInv'
  BY <1>1, <1>2, <1>3, <1>4, <1>6, <1>7 DEF PidInv
<1>10. PICK R : /\ Holds(links', R, AllMade) /\ Queued(pcb, R, Born \cup {new}) /\ Known(links', Born \cup {new})
                /\ R["ready"] = Append(Q["ready"], new)
  <2>1. CanEnter(links, Q, AllMade, Born, pcb, pcb, "ready", new)
    BY <1>2, <1>7 DEF SchedInv, Queue, Others, CanEnter
  <2>2. Appended(list_append(links, List("ready"), Tag(new)), Q, AllMade, Born \cup {new}, pcb, "ready", new)
    BY <2>1, AppendEnters, Zenon
  <2> QED BY <1>1, <2>2 DEF ready, Appended
<1>11. SchedInv(R)'
  <2>1. Holds(links', R, AllMade') /\ Queued(pcb', R, Born') /\ Known(links', Born')
    BY <1>4, <1>6, <1>10
  <2>2. halted' = FALSE /\ current' \in Born' /\ \A t \in Born' : pcb'[t].status = "RUNNING" <=> t = current'
    BY <1>1, <1>2, <1>4, <1>6, <1>7 DEF SchedInv
  <2> QED BY <1>3, <2>1, <2>2 DEF SchedInv
<1>12. ASSUME Awaits PROVE T!thread_start(new)
  <2>1. ~ In(new, Q["ready"])
    BY <1>2, <1>7 DEF SchedInv, Queued, Queue
  <2>2. pcb[new].ticks = Priority /\ pc[current] # "born" /\ pc'[current] # "born"
    BY <1>2, <1>3 DEF MakeInv
  <2>3. UNCHANGED <<pcb, current, resume, intr, halted>>
    BY <1>1 DEF ListStep
  <2> QED BY <1>4, <1>7, <1>10, <1>12, <2>1, <2>2, <2>3, StartsTask
<1> QED BY <1>6, <1>7, <1>8, <1>9, <1>11, <1>12 DEF TasksInv

(* thread_all_list and the count of tasks grow.                            *)
LEMMA AllGrows ==
  ASSUME Types, MakeInv, made < Len(Programme), made' = made + 1, pc'[Main] # "all"
  PROVE  /\ Born' = Born \cup {new} /\ AllMade' = Append(AllMade, new) /\ made' \in 0..Len(Programme)
         /\ \A i \in 1..made' : i \in 1..made \/ (i = made + 1 /\ Programme[i] = new)
<1>1. made \in Nat /\ Len(Programme) \in Nat
  BY TaskAssumption DEF Types
<1>2. \A i \in 1..(made + 1) : i \in 1..made \/ i = made + 1
  BY <1>1
<1>3. \A i \in 1..made' : i \in 1..made \/ (i = made + 1 /\ Programme[i] = new)
  BY <1>2 DEF new
<1>4. \A i \in 1..made : i \in 1..(made + 1)
  BY <1>1
<1>5. made + 1 \in 1..(made + 1)
  BY <1>1
<1>6. {Programme[i] : i \in 1..(made + 1)} = {Programme[i] : i \in 1..made} \cup {new}
  BY <1>2, <1>4, <1>5 DEF new
<1>7. Born' = Born \cup {new}
  BY <1>6 DEF Born, new
<1>8. AllMade' = Append(AllMade, new)
  <2>1. AllMade \in Seq(Task) /\ Len(AllMade) = made + 1 /\ new \in Task
    BY BornIs
  <2>2. AllMade' = [i \in 1..((made + 1) + 1) |-> IF i = 1 THEN Main ELSE Programme[i - 1]]
    BY DEF AllMade
  <2>3. Append(AllMade, new) = [i \in 1..((made + 1) + 1) |-> IF i = (made + 1) + 1 THEN new ELSE AllMade[i]]
    <3>1. ASSUME NEW s \in Seq(Task), NEW t \in Task
          PROVE  Append(s, t) = [i \in 1..(Len(s) + 1) |-> IF i = Len(s) + 1 THEN t ELSE s[i]]
      <4>1. /\ Append(s, t) \in Seq(Task) /\ Len(Append(s, t)) = Len(s) + 1 /\ Len(s) \in Nat
            /\ \A i \in 1..(Len(s) + 1) : Append(s, t)[i] = IF i = Len(s) + 1 THEN t ELSE s[i]
        OBVIOUS
      <4> DEFINE q == Append(s, t)
      <4>2. q \in Seq(Task)
        BY <4>1
      <4> HIDE DEF q
      <4>3. q = [i \in 1..Len(q) |-> q[i]]
        BY <4>2
      <4> QED BY <4>1, <4>3 DEF q
    <3> QED BY <2>1, <3>1
  <2>4. \A i \in 1..((made + 1) + 1) : \/ i \in 1..(made + 1) /\ i # (made + 1) + 1
                                       \/ i = (made + 1) + 1 /\ i # 1 /\ i - 1 = made + 1
    BY <1>1
  <2>5. \A i \in 1..((made + 1) + 1) : (IF i = 1 THEN Main ELSE Programme[i - 1])
                                       = IF i = (made + 1) + 1 THEN new ELSE AllMade[i]
    BY <2>4 DEF AllMade, new
  <2> QED BY <2>2, <2>3, <2>5
<1>9. made' \in 0..Len(Programme)
  BY <1>1
<1> QED BY <1>3, <1>7, <1>8, <1>9

(* thread_start puts the new thread on thread_all_list.                    *)
LEMMA AppendAllStep ==
  ASSUME NEW Q, TasksInv(Q), AppendAll
  PROVE  TasksInv(Q)' /\ Born' = Born
<1>1. /\ ListStep("all", AfterNew) /\ made' = made + 1 /\ UNCHANGED curr
      /\ IF node_find(links, all, AllTag(new)) THEN halted' = TRUE /\ UNCHANGED links
         ELSE links' = list_append(links, all, AllTag(new)) /\ UNCHANGED halted
  BY DEF AppendAll
<1>2. Types /\ MakeInv /\ SchedInv(Q) /\ HomeInv /\ PidInv /\ FrameInv
  BY DEF TasksInv
<1>3. /\ pc[Main] = "all" /\ pc'[Main] = AfterNew /\ current = Main /\ AfterNew \in {"idle", "page"}
  BY <1>1, <1>2, TaskAssumption DEF ListStep, At, Goto, Types, AfterNew
<1>4. made < Len(Programme) /\ made \in Nat /\ Len(Programme) \in Nat
  BY <1>2, <1>3, TaskAssumption DEF MakeInv, Types
<1>5. new \in Task /\ ~ In(new, AllMade) /\ new \in Born /\ Born \subseteq Task /\ new # Main
  BY <1>2, <1>3, <1>4, BornIs
<1>6. /\ Born' = Born /\ AllMade' = Append(AllMade, new) /\ made' \in 0..Len(Programme)
      /\ \A i \in 1..made' : i \in 1..made \/ (i = made + 1 /\ Programme[i] = new)
  <2>1. pc'[Main] # "all"
    BY <1>3
  <2> HIDE DEF new
  <2> QED BY <1>1, <1>2, <1>4, <1>5, <2>1, AllGrows
<1>7. /\ Types' /\ BootInv' /\ LockInv' /\ current' = Main
      /\ \A u \in Task : u # Main => pc'[u] = pc[u]
      /\ next_pid = made + 2
      /\ UNCHANGED <<intr, pcb, current, holder, cr3, esp0, next_pid, frame, got>>
  BY <1>1, <1>3, <1>6, ListMoves
<1>8. MakeInv'
  <2>1. pc'[Main] # "idle" => made' < Len(Programme)
    BY <1>1, <1>3, <1>4 DEF AfterNew
  <2>2. next_pid' = made' + 1
    BY <1>1, <1>4, <1>7
  <2> QED BY <1>3, <2>1, <2>2 DEF MakeInv
<1>9. Holds(links, Q, AllMade) /\ Known(links, Born) /\ Queued(pcb, Q, Born) /\ halted = FALSE
  BY <1>2 DEF SchedInv
<1>10. ~ node_find(links, all, AllTag(new))
  BY <1>5, <1>9, HoldsFindAll
<1>11. Holds(links', Q, AllMade') /\ Known(links', Born') /\ Queued(pcb', Q, Born') /\ halted' = FALSE
  BY <1>1, <1>5, <1>6, <1>7, <1>9, <1>10, HoldsAll
<1>12. SchedInv(Q)'
  <2>1. current' \in Born' /\ \A t \in Born' : pcb'[t].status = "RUNNING" <=> t = current'
    BY <1>2, <1>6, <1>7 DEF SchedInv
  <2> QED BY <1>3, <1>11, <2>1 DEF SchedInv
<1>13. HomeInv'
  BY <1>2, <1>6, <1>7, HomeKept
<1>14. PidInv'
  <2>1. pcb[new].pid = made + 2
    BY <1>2, <1>3 DEF PidInv
  <2>2. \A i \in 1..made' : pcb[Programme[i]].pid = i + 1
    BY <1>2, <1>4, <1>6, <2>1 DEF PidInv
  <2>3. \A t \in Task \ Born' : pc'[t] = "born" /\ got'[t] = 0
    BY <1>2, <1>6, <1>7 DEF PidInv, Born
  <2> QED BY <1>2, <1>3, <1>7, <2>2, <2>3 DEF PidInv
<1>15. FrameInv'
  BY <1>2, <1>3, <1>5, <1>6, <1>7 DEF FrameInv
<1> QED BY <1>6, <1>7, <1>8, <1>12, <1>13, <1>14, <1>15 DEF TasksInv

(* process_execute puts the new process on both lists.                     *)
LEMMA InsertProcessStep ==
  ASSUME NEW Q, TasksInv(Q), InsertProcess
  PROVE  (\E R : TasksInv(R)') /\ (Awaits => T!thread_start(new))
<1>1. /\ ListStep("insert", AfterNew) /\ made' = made + 1 /\ UNCHANGED curr
      /\ IF node_find(links, ready, Tag(new)) \/ node_find(links, all, AllTag(new))
         THEN halted' = TRUE /\ UNCHANGED links
         ELSE /\ links' = list_append(list_append(links, ready, Tag(new)), all, AllTag(new))
              /\ UNCHANGED halted
  BY DEF InsertProcess
<1>2. Types /\ MakeInv /\ SchedInv(Q) /\ HomeInv /\ PidInv /\ FrameInv
  BY DEF TasksInv
<1>3. /\ pc[Main] = "insert" /\ pc'[Main] = AfterNew /\ current = Main /\ AfterNew \in {"idle", "page"}
  BY <1>1, <1>2, TaskAssumption DEF ListStep, At, Goto, Types, AfterNew
<1>4. made < Len(Programme) /\ made \in Nat /\ Len(Programme) \in Nat
  BY <1>2, <1>3, TaskAssumption DEF MakeInv, Types
<1>5. new \in Task /\ ~ In(new, AllMade) /\ Born \subseteq Task /\ new # Main
  BY <1>2, <1>3, <1>4, BornIs
<1>6. /\ Born' = Born \cup {new} /\ AllMade' = Append(AllMade, new) /\ made' \in 0..Len(Programme)
      /\ \A i \in 1..made' : i \in 1..made \/ (i = made + 1 /\ Programme[i] = new)
  BY <1>1, <1>2, <1>3, <1>4, AllGrows
<1>7. /\ Types' /\ BootInv' /\ LockInv' /\ current' = Main
      /\ \A u \in Task : u # Main => pc'[u] = pc[u]
      /\ next_pid = made + 2
      /\ UNCHANGED <<intr, pcb, current, holder, cr3, esp0, next_pid, frame, got>>
  BY <1>1, <1>3, <1>6, ListMoves
<1>8. /\ HomeInv' /\ FrameInv' /\ new \notin Born /\ QueueOf(pcb, new) = "ready"
      /\ pcb[new].pid = made + 2 /\ pcb[new].status = "READY"
      /\ \A t \in Task \ Born' : pc'[t] = "born" /\ got'[t] = 0
  BY <1>2, <1>3, <1>6, <1>7, NewIsFit
<1>9. MakeInv'
  <2>1. pc'[Main] # "idle" => made' < Len(Programme)
    BY <1>1, <1>3, <1>4 DEF AfterNew
  <2>2. next_pid' = made' + 1
    BY <1>1, <1>4, <1>7
  <2> QED BY <1>3, <2>1, <2>2 DEF MakeInv
<1>10. Holds(links, Q, AllMade) /\ Known(links, Born) /\ Queued(pcb, Q, Born) /\ halted = FALSE /\ "ready" \in Queue
  BY <1>2 DEF SchedInv, Queue
<1>11. ~ node_find(links, ready, Tag(new)) /\ ~ node_find(links, all, AllTag(new))
  <2>1. ~ In(new, Q["ready"])
    BY <1>5, <1>8, <1>10 DEF Queued
  <2> QED BY <1>5, <1>10, <2>1, HoldsFind, HoldsFindAll DEF ready
<1> DEFINE lk == list_append(links, ready, Tag(new))
<1> HIDE DEF lk
<1>12. PICK R : /\ Holds(lk, R, AllMade) /\ Queued(pcb, R, Born \cup {new}) /\ Known(lk, Born \cup {new})
                /\ R["ready"] = Append(Q["ready"], new)
  <2>1. lk = list_append(links, List("ready"), Tag(new))
    BY DEF lk, ready
  <2>2. CanEnter(links, Q, AllMade, Born, pcb, pcb, "ready", new)
    BY <1>5, <1>8, <1>10 DEF Others, CanEnter
  <2>3. Appended(list_append(links, List("ready"), Tag(new)), Q, AllMade, Born \cup {new}, pcb, "ready", new)
    BY <2>2, AppendEnters, Zenon
  <2> QED BY <2>1, <2>3 DEF Appended
<1>13. links' = list_append(lk, all, AllTag(new)) /\ halted' = FALSE
  BY <1>1, <1>10, <1>11 DEF lk
<1>14. Holds(links', R, AllMade') /\ Known(links', Born') /\ Queued(pcb', R, Born')
  BY <1>5, <1>6, <1>7, <1>12, <1>13, HoldsAll
<1>15. SchedInv(R)'
  <2>1. current' \in Born' /\ \A t \in Born' : pcb'[t].status = "RUNNING" <=> t = current'
    BY <1>2, <1>6, <1>7, <1>8 DEF SchedInv
  <2> QED BY <1>3, <1>13, <1>14, <2>1 DEF SchedInv
<1>16. PidInv'
  <2>1. \A i \in 1..made' : pcb[Programme[i]].pid = i + 1
    BY <1>2, <1>4, <1>6, <1>8 DEF PidInv
  <2> QED BY <1>2, <1>3, <1>7, <1>8, <2>1 DEF PidInv
<1>17. ASSUME Awaits PROVE T!thread_start(new)
  <2>1. ~ In(new, Q["ready"])
    BY <1>5, <1>8, <1>10 DEF Queued
  <2>2. pcb[new].ticks = Priority /\ pc[current] # "born" /\ pc'[current] # "born"
    BY <1>2, <1>3 DEF MakeInv
  <2>3. UNCHANGED <<pcb, current, resume, intr, halted>>
    BY <1>1, <1>10, <1>13 DEF ListStep
  <2> QED BY <1>5, <1>6, <1>8, <1>12, <1>14, <1>17, <2>1, <2>2, <2>3, StartsTask
<1> QED BY <1>7, <1>8, <1>9, <1>15, <1>16, <1>17 DEF TasksInv
-----------------------------------------------------------------------------
(* A call of init_all, and main's intr_enable.                             *)
LEMMA BootStep ==
  ASSUME BootInv, InitNext, UNCHANGED taskVars
  PROVE  BootInv'
<1>1. Len(init_all) = 8 /\ booted \in 0..8
  BY DEF init_all, BootInv
<1>2. /\ booted < 8 /\ booted' = booted + 1 /\ intr' = intr
      /\ ready_parts' = ready_parts \cup parts[init_all[booted + 1]]
  BY <1>1 DEF InitNext
<1>3. UNCHANGED <<pc, current, made>>
  BY DEF taskVars
<1>4. pc[Main] = "boot"
  BY <1>2 DEF BootInv
<1>5. booted' \in 0..8 /\ (pc'[Main] # "boot" => booted' = 8)
  BY <1>1, <1>2, <1>3, <1>4
<1>6. pc'[Main] = "boot" => current' = Main /\ ~ intr' /\ made' = 0
  BY <1>2, <1>3 DEF BootInv
<1> DEFINE Tables == /\ DOMAIN handlers = Vector
                     /\ booted >= 1 => unmasked = {Clock, Keys}
                     /\ booted >= 2 => handlers[Clock] = "intr_timer_handler"
                     /\ booted >= 4 => {"main_thread", "thread_lists"} \subseteq ready_parts
                     /\ booted >= 6 => handlers[Keys] = "intr_keyboard_handler" /\ "kbd_buf" \in ready_parts
                     /\ booted >= 7 => "tss" \in ready_parts
<1>7. Tables
  BY DEF BootInv
<1>8. Clock \in Vector /\ Keys \in Vector /\ Clock # Keys
  BY DEF Vector, Clock, Keys
<1> HIDE DEF Vector, Clock, Keys
<1> DEFINE call == init_all[booted + 1]
<1>9. /\ booted = 0 => call = "init_intr"
      /\ booted = 1 => call = "init_timer"
      /\ booted = 2 => call = "mem_init"
      /\ booted = 3 => call = "thread_init"
      /\ booted = 4 => call = "console_init"
      /\ booted = 5 => call = "keyboard_init"
      /\ booted = 6 => call = "tss_init"
      /\ booted = 7 => call = "syscall_init"
  BY DEF init_all
<1>10. (CASE call = "init_intr" -> init_intr
          [] call = "init_timer" -> register_handler(Clock, "intr_timer_handler") /\ UNCHANGED unmasked
          [] call = "keyboard_init" -> register_handler(Keys, "intr_keyboard_handler") /\ UNCHANGED unmasked
          [] OTHER -> UNCHANGED <<handlers, unmasked>>)
  BY DEF InitNext
<1>11. ready_parts' = ready_parts \cup parts[call]
  BY <1>2
<1> HIDE DEF call
<1>12. booted = 0 => unmasked' = {Clock, Keys} /\ DOMAIN handlers' = Vector
  BY <1>9, <1>10 DEF init_intr
<1>13. booted = 1 => unmasked' = unmasked /\ handlers' = [handlers EXCEPT ![Clock] = "intr_timer_handler"]
  BY <1>9, <1>10 DEF register_handler
<1>14. booted = 5 => unmasked' = unmasked /\ handlers' = [handlers EXCEPT ![Keys] = "intr_keyboard_handler"]
  BY <1>9, <1>10 DEF register_handler
<1>15. booted \in {2, 3, 4, 6, 7} => unmasked' = unmasked /\ handlers' = handlers
  BY <1>9, <1>10
<1>16. /\ ready_parts \subseteq ready_parts'
       /\ booted = 3 => {"main_thread", "thread_lists"} \subseteq ready_parts'
       /\ booted = 5 => "kbd_buf" \in ready_parts'
       /\ booted = 6 => "tss" \in ready_parts'
  BY <1>9, <1>11 DEF parts
<1>17. booted \in {0, 1, 2, 3, 4, 5, 6, 7}
  BY <1>1, <1>2
<1>18. Tables'
  BY <1>2, <1>7, <1>8, <1>12, <1>13, <1>14, <1>15, <1>16, <1>17
<1> QED BY <1>5, <1>6, <1>18 DEF BootInv

(* The start of the kernel.                                                *)
LEMMA StartStep ==
  ASSUME NEW Q, TasksInv(Q), Start
  PROVE  TasksInv(Q)'
<1>1. /\ Types /\ BootInv /\ MakeInv /\ SchedInv(Q) /\ LockInv /\ HomeInv /\ PidInv /\ FrameInv
  BY DEF TasksInv
<1>2. CASE InitNext /\ UNCHANGED taskVars
  <2>1. /\ UNCHANGED <<pcb, links, current, resume, pc, holder, cr3, esp0, next_pid, made, curr, frame, got, halted>>
        /\ intr' = intr
    BY <1>2 DEF taskVars, InitNext
  <2>2. BootInv'
    BY <1>1, <1>2, BootStep
  <2>3. Born' = Born /\ AllMade' = AllMade /\ new' = new
    BY <2>1, BornKept
  <2>4. Types' /\ LockInv'
    BY <1>1, <2>1, <2>3 DEF Types, LockInv
  <2>5. MakeInv' /\ HomeInv'
    BY <1>1, <2>1, <2>3 DEF MakeInv, HomeInv, UserAtHome
  <2>6. PidInv' /\ FrameInv'
    BY <1>1, <2>1, <2>3 DEF PidInv, FrameInv
  <2>7. SchedInv(Q)'
    BY <1>1, <2>1, <2>3, SchedKept
  <2> QED BY <2>2, <2>4, <2>5, <2>6, <2>7 DEF TasksInv
<1>3. CASE Booted /\ At(Main, "boot") /\ Goto(Main, "page") /\ intr' = TRUE
           /\ UNCHANGED <<bootVars, pcb, links, current, resume, holder, cr3, esp0,
                          next_pid, made, curr, frame, got, halted>>
  <2>1. /\ pc[Main] = "boot" /\ pc'[Main] = "page" /\ current = Main /\ Main \in Task
        /\ \A u \in Task : u # Main => pc'[u] = pc[u]
    BY <1>1, <1>3, TaskAssumption DEF At, Goto, Types
  <2>2. booted = 8
    BY <1>3 DEF Booted, init_all
  <2>3. BootInv'
    BY <1>1, <1>3, <2>1, <2>2 DEF BootInv, bootVars
  <2>4. Born' = Born /\ AllMade' = AllMade /\ new' = new
    BY <1>3, <2>1, BornKept
  <2>5. Types'
    <3>1. "page" \in Label(Main)
      BY DEF Label, MainLabel
    <3> QED BY <1>1, <1>3, <2>1, <3>1, TypesMoved DEF Types
  <2>6. Born \subseteq Task
    BY <1>1, BornIs
  <2>7. LockInv'
    <3>1. \A t \in Born : pc[t] \in Alloc => pc'[t] \in Alloc
      BY <2>1, <2>6 DEF Alloc
    <3> QED BY <1>1, <1>3, <2>4, <3>1, LockKept
  <2>8. MakeInv' /\ HomeInv'
    BY <1>1, <1>3, <2>1, <2>4 DEF MakeInv, HomeInv, UserAtHome
  <2>9. PidInv'
    BY <1>1, <1>3, <2>1, <2>4, PidKept DEF Born
  <2>10. FrameInv'
    BY <1>1, <1>3, <2>1, <2>4, <2>6 DEF FrameInv
  <2>11. SchedInv(Q)'
    BY <1>1, <1>3, <2>1, <2>4, SchedKept
  <2> QED BY <2>3, <2>5, <2>7, <2>8, <2>9, <2>10, <2>11 DEF TasksInv
<1> QED BY <1>2, <1>3 DEF Start
-----------------------------------------------------------------------------
(* A task at an allocation.                                                *)
LEMMA Allocates ==
  ASSUME NEW Q, TasksInv(Q), NEW t \in Task, current = t, pc[t] \in Alloc
  PROVE  /\ t \in Born /\ pcb[t].status = "RUNNING" /\ pool(t) \in Lock /\ pool(t) \in Queue /\ pool(t) # "ready"
         /\ pc[Main] # "boot" /\ pc[t] \notin {"born", "fresh"} /\ Born \subseteq Task
<1>1. Types /\ BootInv /\ MakeInv /\ SchedInv(Q)
  BY DEF TasksInv
<1>2. t \in Born /\ pcb[t].status = "RUNNING"
  BY <1>1 DEF SchedInv
<1>3. pool(t) \in Lock /\ pool(t) \in Queue /\ pool(t) # "ready"
  BY DEF pool, Lock, Queue
<1>4. pc[t] \notin {"born", "fresh", "boot"}
  BY DEF Alloc
<1> QED BY <1>1, <1>2, <1>3, <1>4, BornIs DEF BootInv

(* The lock of the pool is free.                                           *)
LEMMA DownFreeStep ==
  ASSUME NEW Q, TasksInv(Q), NEW t \in Task, Down(t), holder[pool(t)] = NULL
  PROVE  TasksInv(Q)'
<1>1. /\ Types /\ BootInv /\ MakeInv /\ SchedInv(Q) /\ LockInv /\ HomeInv /\ PidInv /\ FrameInv
  BY DEF TasksInv
<1>2. /\ current = t /\ pc[t] \in Alloc /\ intr' = Flag(t)
      /\ holder' = [holder EXCEPT ![pool(t)] = t]
      /\ UNCHANGED <<bootVars, pcb, links, current, resume, pc, cr3, esp0, next_pid, made, curr, frame, got, halted>>
  BY DEF Down
<1>3. /\ t \in Born /\ pcb[t].status = "RUNNING" /\ pool(t) \in Lock
      /\ pc[Main] # "boot" /\ pc[t] \notin {"born", "fresh"} /\ Born \subseteq Task
  BY <1>2, Allocates
<1>4. Born' = Born /\ AllMade' = AllMade /\ new' = new
  BY <1>2, BornKept
<1>5. Types'
  BY <1>1, <1>2 DEF Types, Flag
<1>6. BootInv'
  BY <1>1, <1>2, <1>3, BootKept
<1>7. MakeInv' /\ HomeInv'
  BY <1>1, <1>2, <1>4 DEF MakeInv, HomeInv, UserAtHome
<1>8. LockInv'
  BY <1>1, <1>2, <1>3, <1>4 DEF LockInv, Types
<1>9. PidInv' /\ FrameInv'
  BY <1>1, <1>2, <1>3, <1>4 DEF PidInv, FrameInv
<1>10. SchedInv(Q)'
  BY <1>1, <1>2, <1>4, SchedKept
<1> QED BY <1>5, <1>6, <1>7, <1>8, <1>9, <1>10 DEF TasksInv

(* Where an allocation returns to.                                         *)
LEMMA AfterIs ==
  ASSUME Types, NEW t \in Task, pc[t] \in Alloc
  PROVE  /\ After(t) \in Label(t) /\ After(t) \notin {"boot", "born", "fresh", "walk", "all"}
         /\ t = Main => /\ pc[t] \in {"page", "bitmap", "dir"}
                        /\ pc[t] = "page" => After(t) = "init"
                        /\ pc[t] = "bitmap" => After(t) = "create"
                        /\ pc[t] = "dir" => After(t) = "pgdir"
<1>1. pc[t] \in Label(t)
  BY DEF Types
<1>2. /\ pc[t] = "page" => After(t) = "init"
      /\ pc[t] = "bitmap" => After(t) = "create"
      /\ pc[t] = "dir" => After(t) = "pgdir"
      /\ pc[t] = "stack" => After(t) = "iret"
      /\ pc[t] \in {"heap", "trap"} => After(t) = IF t \in Process THEN "user" ELSE "work"
  BY DEF After
<1>3. pc[t] \in {"page", "bitmap", "dir", "stack", "heap", "trap"}
  BY DEF Alloc
<1>4. Main \notin Process
  BY TaskAssumption
<1>5. CASE t = Main
  BY <1>1, <1>2, <1>3, <1>5 DEF Label, MainLabel
<1>6. CASE t \in Process
  BY <1>1, <1>2, <1>3, <1>4, <1>6 DEF Label
<1>7. CASE t # Main /\ t \notin Process
  BY <1>1, <1>2, <1>3, <1>7 DEF Label
<1> QED BY <1>5, <1>6, <1>7

(* sema_up, apart from the queues: the lock is free and the task goes on.  *)
LEMMA UpMoves ==
  ASSUME NEW Q, TasksInv(Q), NEW t \in Task, current = t, pc[t] \in Alloc, holder[pool(t)] = t,
         holder' = [holder EXCEPT ![pool(t)] = NULL], Goto(t, After(t)), intr' = TRUE,
         UNCHANGED <<bootVars, current, resume, cr3, esp0, next_pid, made, curr, frame, got>>,
         pcb' \in [Task -> Pcb], \A u \in Task \ Born : pcb'[u] = pcb[u],
         \A u \in Task : /\ pcb'[u].pid = pcb[u].pid /\ pcb'[u].pgdir = pcb[u].pgdir
                         /\ pcb'[u].kstack = pcb[u].kstack /\ pcb'[u].ticks = pcb[u].ticks
                         /\ pcb'[u].elapsed = pcb[u].elapsed
                         /\ pcb[u].status # "BLOCKED" => pcb'[u].status # "BLOCKED"
  PROVE  /\ Types' /\ BootInv' /\ MakeInv' /\ LockInv' /\ HomeInv' /\ PidInv' /\ FrameInv'
         /\ Born' = Born /\ AllMade' = AllMade /\ (pc'[Main] = "walk" => pc[Main] = "walk")
<1>1. /\ Types /\ BootInv /\ MakeInv /\ SchedInv(Q) /\ LockInv /\ HomeInv /\ PidInv /\ FrameInv
  BY DEF TasksInv
<1>2. /\ t \in Born /\ pool(t) \in Lock /\ pc[Main] # "boot" /\ pc[t] \notin {"born", "fresh"} /\ Born \subseteq Task
  BY Allocates
<1>3. /\ After(t) \in Label(t) /\ After(t) \notin {"boot", "born", "fresh", "walk", "all"}
      /\ t = Main => /\ pc[t] \in {"page", "bitmap", "dir"}
                     /\ pc[t] = "page" => After(t) = "init"
                     /\ pc[t] = "bitmap" => After(t) = "create"
                     /\ pc[t] = "dir" => After(t) = "pgdir"
  BY <1>1, AfterIs
<1>4. /\ pc' = [pc EXCEPT ![t] = After(t)] /\ pc'[t] = After(t) /\ \A u \in Task : u # t => pc'[u] = pc[u]
  BY <1>1 DEF Goto, Types
<1>5. Main \in Task
  BY TaskAssumption
<1>6. /\ pc'[Main] # "boot" /\ (pc'[Main] = "all" <=> pc[Main] = "all") /\ (pc'[Main] = "walk" => pc[Main] = "walk")
  BY <1>2, <1>3, <1>4, <1>5
<1>7. Born' = Born /\ AllMade' = AllMade /\ new' = new
  BY <1>6, BornKept
<1>8. Types'
  <2>1. holder' \in [Lock -> Task \cup {NULL}]
    BY <1>1 DEF Types
  <2> QED BY <1>1, <1>3, <1>4, <2>1 DEF Types
<1>9. BootInv'
  BY <1>1, <1>2, <1>6, BootKept
<1>10. MakeInv'
  <2>1. CASE t # Main
    BY <1>1, <1>4, <1>5, <2>1, MakeKept
  <2>2. CASE t = Main
    <3>1. new \in Task /\ new \notin Born
      BY <1>1, <1>3, <2>2, BornIs DEF MakeInv
    <3>2. pcb'[new] = pcb[new]
      BY <3>1
    <3> QED BY <1>1, <1>3, <1>4, <1>7, <2>2, <3>2 DEF MakeInv
  <2> QED BY <2>1, <2>2
<1>11. LockInv'
  <2> SUFFICES ASSUME NEW l \in Lock, holder'[l] # NULL
               PROVE  /\ holder'[l] \in Born' /\ pool(holder'[l]) = l /\ pc'[holder'[l]] \in Alloc
                      /\ pcb'[holder'[l]].status # "BLOCKED"
    BY DEF LockInv, pool
  <2>1. l # pool(t) /\ holder'[l] = holder[l]
    BY <1>1, <1>2 DEF Types
  <2>2. /\ holder[l] \in Born /\ pool(holder[l]) = l /\ pc[holder[l]] \in Alloc /\ pcb[holder[l]].status # "BLOCKED"
    BY <1>1, <2>1 DEF LockInv
  <2>3. holder[l] # t /\ holder[l] \in Task
    BY <1>2, <2>1, <2>2
  <2> QED BY <1>4, <1>7, <2>1, <2>2, <2>3
<1>12. HomeInv'
  BY <1>1, <1>2, <1>7, HomeKept
<1>13. PidInv'
  BY <1>1, <1>2, <1>4, <1>6, PidKept
<1>14. FrameInv'
  BY <1>1, <1>2, <1>3, <1>4, <1>7 DEF FrameInv
<1> QED BY <1>6, <1>7, <1>8, <1>9, <1>10, <1>11, <1>12, <1>13, <1>14

(* sema_up: nobody waits, or the first task that waits becomes ready.      *)
LEMMA UpStep ==
  ASSUME NEW Q, TasksInv(Q), NEW t \in Task, Up(t)
  PROVE  (\E R : TasksInv(R)') /\ SchedulerStep
<1> DEFINE waiters == List(pool(t))
           v == elem2entry(list_front(links, waiters))
           lk == list_pop(links, waiters)
<1>1. /\ current = t /\ pc[t] \in Alloc /\ holder[pool(t)] = t
      /\ holder' = [holder EXCEPT ![pool(t)] = NULL] /\ Goto(t, After(t))
      /\ UNCHANGED <<bootVars, next_pid, made, curr, frame, got>>
  BY DEF Up
<1>2. IF list_empty(links, waiters)
      THEN intr' = TRUE /\ UNCHANGED <<pcb, links, current, resume, cr3, esp0, halted>>
      ELSE thread_unblock(v, lk)
  BY DEF Up
<1>3. Types /\ SchedInv(Q) /\ pcb \in [Task -> Pcb]
  BY DEF TasksInv, Types
<1>4. /\ t \in Born /\ pcb[t].status = "RUNNING" /\ pool(t) \in Queue /\ pool(t) # "ready" /\ Born \subseteq Task
  BY <1>1, Allocates
<1>5. /\ Holds(links, Q, AllMade) /\ Known(links, Born) /\ Queued(pcb, Q, Born) /\ halted = FALSE /\ "ready" \in Queue
  BY <1>3 DEF SchedInv, Queue
<1> HIDE DEF waiters, v, lk
<1>6. CASE list_empty(links, waiters)
  <2>1. intr' = TRUE /\ UNCHANGED <<pcb, links, current, resume, cr3, esp0, halted>>
    BY <1>2, <1>6
  <2>2. /\ Types' /\ BootInv' /\ MakeInv' /\ LockInv' /\ HomeInv' /\ PidInv' /\ FrameInv'
        /\ Born' = Born /\ AllMade' = AllMade /\ (pc'[Main] = "walk" => pc[Main] = "walk")
    BY <1>1, <1>3, <2>1, UpMoves
  <2>3. SchedInv(Q)'
    BY <1>1, <1>3, <2>1, <2>2, SchedKept
  <2>4. TasksInv(Q)'
    BY <2>2, <2>3 DEF TasksInv
  <2>5. Unseen
    BY <2>1, <2>2, <2>4, NotSeen
  <2> QED BY <2>4, <2>5 DEF SchedulerStep, Unseen
<1>7. CASE ~ list_empty(links, waiters)
  <2>1. Q[pool(t)] # <<>>
    BY <1>4, <1>5, <1>7, HoldsFind DEF waiters
  <2>2. PICK u, P :
           /\ u \in Task /\ list_front(links, waiters) = Tag(u) /\ u \in Born /\ QueueOf(pcb, u) = pool(t)
           /\ Holds(lk, P, AllMade) /\ Known(lk, Born) /\ Only(Q, P, pool(t))
           /\ \A q : QueueOf(q, u) \notin Queue /\ Others(pcb, q, Born, u) => Queued(q, P, Born)
    <3>1. lk = list_pop(links, List(pool(t))) /\ waiters = List(pool(t))
      BY DEF lk, waiters
    <3> QED BY <1>4, <1>5, <2>1, <3>1, Leaves
  <2>3. v = u
    BY <2>2 DEF v, elem2entry, Tag
  <2>4. pcb[u] \in Pcb /\ pcb[u].status \in Status
    BY <1>3, <2>2 DEF Pcb
  <2>5. pcb[u].status = "BLOCKED" /\ u # t
    <3>1. QueueOf(pcb, u) # "ready" /\ QueueOf(pcb, u) # "none"
      BY <1>4, <2>2 DEF pool
    <3> QED BY <1>4, <2>4, <3>1 DEF QueueOf, Status
  <2> DEFINE mid == [pcb EXCEPT ![u].status = "RUNNING"]
             end == [pcb EXCEPT ![u].status = "READY"]
  <2>6. /\ QueueOf(mid, u) = "none" /\ Others(pcb, mid, Born, u)
        /\ QueueOf(end, u) = "ready" /\ Others(mid, end, Born, u)
    BY <1>3, <1>4, <2>2, <2>4 DEF QueueOf, Pcb, Others
  <2>7. end \in [Task -> Pcb] /\ end[u].status = "READY" /\ \A w \in Task : w # u => end[w] = pcb[w]
    BY <1>3, <2>2, <2>4 DEF Pcb, Status
  <2>8. /\ end[u].pid = pcb[u].pid /\ end[u].pgdir = pcb[u].pgdir
        /\ end[u].kstack = pcb[u].kstack /\ end[u].ticks = pcb[u].ticks /\ end[u].elapsed = pcb[u].elapsed
    BY <1>3, <2>4 DEF Pcb
  <2> HIDE DEF mid, end
  <2>9. "none" \notin Queue
    BY DEF Queue, Lock
  <2>10. Queued(mid, P, Born)
    BY <2>2, <2>6, <2>9
  <2>11. ~ node_find(lk, ready, Tag(u))
    <3>1. ~ In(u, P["ready"])
      BY <1>5, <2>2, <2>6, <2>10 DEF Queued
    <3> QED BY <1>5, <2>2, <3>1, HoldsFind DEF ready
  <2>12. /\ links' = list_push(lk, ready, Tag(u)) /\ pcb' = end /\ intr' = TRUE
         /\ UNCHANGED <<current, resume, cr3, esp0, halted>>
    BY <1>2, <1>7, <2>3, <2>5, <2>11 DEF thread_unblock, end
  <2>13. /\ Types' /\ BootInv' /\ MakeInv' /\ LockInv' /\ HomeInv' /\ PidInv' /\ FrameInv'
         /\ Born' = Born /\ AllMade' = AllMade /\ (pc'[Main] = "walk" => pc[Main] = "walk")
    <3>1. \A w \in Task \ Born : end[w] = pcb[w]
      BY <2>2, <2>7
    <3>2. \A w \in Task : /\ end[w].pid = pcb[w].pid /\ end[w].pgdir = pcb[w].pgdir
                          /\ end[w].kstack = pcb[w].kstack /\ end[w].ticks = pcb[w].ticks
                          /\ end[w].elapsed = pcb[w].elapsed
                          /\ pcb[w].status # "BLOCKED" => end[w].status # "BLOCKED"
      BY <2>7, <2>8
    <3> QED BY <1>1, <2>7, <2>12, <3>1, <3>2, UpMoves
  <2>14. PICK R : /\ Holds(links', R, AllMade) /\ Queued(end, R, Born) /\ Known(links', Born)
                  /\ R["ready"] = <<u>> \o P["ready"]
    <3>1. links' = list_push(lk, List("ready"), Tag(u)) /\ Born \cup {u} = Born
      BY <2>2, <2>12 DEF ready
    <3>2. CanEnter(lk, P, AllMade, Born, mid, end, "ready", u)
      BY <1>5, <2>2, <2>6, <2>9, <2>10 DEF CanEnter
    <3>3. \E R : /\ Holds(list_push(lk, List("ready"), Tag(u)), R, AllMade) /\ Queued(end, R, Born \cup {u})
                 /\ Known(list_push(lk, List("ready"), Tag(u)), Born \cup {u})
                 /\ R["ready"] = <<u>> \o P["ready"] /\ Only(P, R, "ready")
      BY <3>2, Enters, Zenon
    <3> QED BY <3>1, <3>3
  <2>15. SchedInv(R)'
    <3>1. Holds(links', R, AllMade') /\ Queued(pcb', R, Born') /\ Known(links', Born') /\ halted' = FALSE
      BY <1>5, <2>12, <2>13, <2>14
    <3>2. current' \in Born' /\ \A w \in Born' : pcb'[w].status = "RUNNING" <=> w = current'
      BY <1>1, <1>3, <1>4, <2>5, <2>7, <2>12, <2>13 DEF SchedInv
    <3>3. pc'[Main] = "walk" => curr' \in Nodes \cup {NULL} /\ \A w \in Task : curr' = Tag(w) => w \in Born'
      BY <1>1, <1>3, <2>13 DEF SchedInv
    <3> QED BY <3>1, <3>2, <3>3 DEF SchedInv
  <2>16. T!CanUnblock(u) /\ T!thread_unblock(u)
    <3>1. readySeq = Q["ready"] /\ P["ready"] = readySeq /\ readySeq \in Seq(Task)
      BY <1>4, <1>5, <2>2, ReadySeqs, ReadyIs DEF Only
    <3>2. readySeq' = <<u>> \o readySeq
      BY <2>14, <3>1, ReadySeqs, ReadyIs
    <3>3. ~ T!node_find(readySeq, u)
      BY <1>5, <2>2, <2>6, <2>9, <2>10, <3>1, InRange DEF Queued
    <3>4. bornStatus[u] = "BLOCKED" /\ bornStatus' = [bornStatus EXCEPT ![u] = "READY"]
      BY <2>2, <2>5, <2>7, <2>12, <2>13 DEF bornStatus
    <3> QED BY <3>2, <3>3, <3>4 DEF T!CanUnblock, T!thread_unblock, T!list_push
  <2>17. bornTicks' = bornTicks
    BY <2>7, <2>8, <2>12, <2>13 DEF bornTicks
  <2> QED BY <2>2, <2>12, <2>13, <2>15, <2>16, <2>17 DEF TasksInv, SchedulerStep
<1> QED BY <1>6, <1>7
-----------------------------------------------------------------------------
(* Min of two numbers, for the count of ticks.                             *)
LEMMA MinOfTwo ==
  ASSUME NEW a \in Nat, NEW b \in Nat
  PROVE  Min({a, b}) \in Nat /\ (a <= b => Min({a, b}) = a)
<1>1. \E x \in {a, b} : \A y \in {a, b} : x <= y
  OBVIOUS
<1>2. Min({a, b}) \in {a, b} /\ \A y \in {a, b} : Min({a, b}) <= y
  BY <1>1 DEF Min
<1> QED BY <1>2

(* A write to one field of one PCB.                                        *)
WithKstack(p, t, x) == [p EXCEPT ![t].kstack = x]
WithStatus(p, t, x) == [p EXCEPT ![t].status = x]
WithTicks(p, t, x) == [p EXCEPT ![t].ticks = x]
WithElapsed(p, t, x) == [p EXCEPT ![t].elapsed = x]

(* A write to self_kstack changes nothing else.                            *)
LEMMA SetKstack ==
  ASSUME NEW p \in [Task -> Pcb], NEW t \in Task, NEW x \in Int
  PROVE  LET q == WithKstack(p, t, x)
         IN  /\ q \in [Task -> Pcb] /\ (\A u \in Task : u # t => q[u] = p[u]) /\ q[t].kstack = x
             /\ q[t].pid = p[t].pid /\ q[t].status = p[t].status /\ q[t].ticks = p[t].ticks
             /\ q[t].elapsed = p[t].elapsed /\ q[t].pgdir = p[t].pgdir
<1> DEFINE r == [p[t] EXCEPT !.kstack = x]
<1>1. p[t] \in Pcb
  OBVIOUS
<1>2. WithKstack(p, t, x) = [p EXCEPT ![t] = r]
  BY DEF WithKstack
<1>3. /\ r \in Pcb /\ r.kstack = x
      /\ r.pid = p[t].pid /\ r.status = p[t].status /\ r.ticks = p[t].ticks
      /\ r.elapsed = p[t].elapsed /\ r.pgdir = p[t].pgdir
  BY <1>1 DEF Pcb
<1> HIDE DEF r
<1>4. [p EXCEPT ![t] = r][t] = r /\ [p EXCEPT ![t] = r] \in [Task -> Pcb] /\ \A u \in Task : u # t => [p EXCEPT ![t] = r][u] = p[u]
  BY <1>3
<1> QED BY <1>2, <1>3, <1>4

(* A write to status changes nothing else.                                 *)
LEMMA SetStatus ==
  ASSUME NEW p \in [Task -> Pcb], NEW t \in Task, NEW x \in Status
  PROVE  LET q == WithStatus(p, t, x)
         IN  /\ q \in [Task -> Pcb] /\ (\A u \in Task : u # t => q[u] = p[u]) /\ q[t].status = x
             /\ q[t].kstack = p[t].kstack /\ q[t].pid = p[t].pid /\ q[t].ticks = p[t].ticks
             /\ q[t].elapsed = p[t].elapsed /\ q[t].pgdir = p[t].pgdir
<1> DEFINE r == [p[t] EXCEPT !.status = x]
<1>1. p[t] \in Pcb
  OBVIOUS
<1>2. WithStatus(p, t, x) = [p EXCEPT ![t] = r]
  BY DEF WithStatus
<1>3. /\ r \in Pcb /\ r.status = x
      /\ r.kstack = p[t].kstack /\ r.pid = p[t].pid /\ r.ticks = p[t].ticks
      /\ r.elapsed = p[t].elapsed /\ r.pgdir = p[t].pgdir
  BY <1>1 DEF Pcb
<1> HIDE DEF r
<1>4. [p EXCEPT ![t] = r][t] = r /\ [p EXCEPT ![t] = r] \in [Task -> Pcb] /\ \A u \in Task : u # t => [p EXCEPT ![t] = r][u] = p[u]
  BY <1>3
<1> QED BY <1>2, <1>3, <1>4

(* A write to ticks changes nothing else.                                  *)
LEMMA SetTicks ==
  ASSUME NEW p \in [Task -> Pcb], NEW t \in Task, NEW x \in 0..Priority
  PROVE  LET q == WithTicks(p, t, x)
         IN  /\ q \in [Task -> Pcb] /\ (\A u \in Task : u # t => q[u] = p[u]) /\ q[t].ticks = x
             /\ q[t].kstack = p[t].kstack /\ q[t].pid = p[t].pid /\ q[t].status = p[t].status
             /\ q[t].elapsed = p[t].elapsed /\ q[t].pgdir = p[t].pgdir
<1> DEFINE r == [p[t] EXCEPT !.ticks = x]
<1>1. p[t] \in Pcb
  OBVIOUS
<1>2. WithTicks(p, t, x) = [p EXCEPT ![t] = r]
  BY DEF WithTicks
<1>3. /\ r \in Pcb /\ r.ticks = x
      /\ r.kstack = p[t].kstack /\ r.pid = p[t].pid /\ r.status = p[t].status
      /\ r.elapsed = p[t].elapsed /\ r.pgdir = p[t].pgdir
  BY <1>1 DEF Pcb
<1> HIDE DEF r
<1>4. [p EXCEPT ![t] = r][t] = r /\ [p EXCEPT ![t] = r] \in [Task -> Pcb] /\ \A u \in Task : u # t => [p EXCEPT ![t] = r][u] = p[u]
  BY <1>3
<1> QED BY <1>2, <1>3, <1>4

(* A write to elapsed changes nothing else.                                *)
LEMMA SetElapsed ==
  ASSUME NEW p \in [Task -> Pcb], NEW t \in Task, NEW x \in Nat
  PROVE  LET q == WithElapsed(p, t, x)
         IN  /\ q \in [Task -> Pcb] /\ (\A u \in Task : u # t => q[u] = p[u]) /\ q[t].elapsed = x
             /\ q[t].kstack = p[t].kstack /\ q[t].pid = p[t].pid /\ q[t].status = p[t].status
             /\ q[t].ticks = p[t].ticks /\ q[t].pgdir = p[t].pgdir
<1> DEFINE r == [p[t] EXCEPT !.elapsed = x]
<1>1. p[t] \in Pcb
  OBVIOUS
<1>2. WithElapsed(p, t, x) = [p EXCEPT ![t] = r]
  BY DEF WithElapsed
<1>3. /\ r \in Pcb /\ r.elapsed = x
      /\ r.kstack = p[t].kstack /\ r.pid = p[t].pid /\ r.status = p[t].status
      /\ r.ticks = p[t].ticks /\ r.pgdir = p[t].pgdir
  BY <1>1 DEF Pcb
<1> HIDE DEF r
<1>4. [p EXCEPT ![t] = r][t] = r /\ [p EXCEPT ![t] = r] \in [Task -> Pcb] /\ \A u \in Task : u # t => [p EXCEPT ![t] = r][u] = p[u]
  BY <1>3
<1> QED BY <1>2, <1>3, <1>4

(* What schedule and switch_to write: the stack of the task c that leaves  *)
(* and the status of the task u that comes.                                *)
LEMMA Marked ==
  ASSUME NEW left \in [Task -> Pcb], NEW c \in Task, NEW u \in Task
  PROVE  LET q == WithStatus(WithKstack(left, c, Deep), u, "RUNNING")
         IN  /\ q \in [Task -> Pcb] /\ q[u].status = "RUNNING"
             /\ \A t \in Task : /\ q[t].pid = left[t].pid /\ q[t].pgdir = left[t].pgdir
                                /\ q[t].ticks = left[t].ticks /\ q[t].elapsed = left[t].elapsed
                                /\ t # u => q[t].status = left[t].status
                                /\ t # c => q[t].kstack = left[t].kstack
                                /\ t # c /\ t # u => q[t] = left[t]
<1> DEFINE q == WithStatus(WithKstack(left, c, Deep), u, "RUNNING")
<1> DEFINE mid == WithKstack(left, c, Deep)
<1>1. Deep \in Int /\ "RUNNING" \in Status
  BY DEF Deep, Status
<1>2. q = WithStatus(mid, u, "RUNNING") /\ mid = WithKstack(left, c, Deep)
  OBVIOUS
<1> HIDE DEF mid, q
<1>3. /\ mid \in [Task -> Pcb] /\ (\A t \in Task : t # c => mid[t] = left[t])
      /\ mid[c].pid = left[c].pid /\ mid[c].status = left[c].status /\ mid[c].ticks = left[c].ticks
      /\ mid[c].elapsed = left[c].elapsed /\ mid[c].pgdir = left[c].pgdir
  BY <1>1, <1>2, SetKstack
<1>4. /\ q \in [Task -> Pcb] /\ (\A t \in Task : t # u => q[t] = mid[t]) /\ q[u].status = "RUNNING"
      /\ q[u].kstack = mid[u].kstack /\ q[u].pid = mid[u].pid /\ q[u].ticks = mid[u].ticks
      /\ q[u].elapsed = mid[u].elapsed /\ q[u].pgdir = mid[u].pgdir
  BY <1>1, <1>2, <1>3, SetStatus
<1>5. \A t \in Task : /\ q[t].pid = mid[t].pid /\ q[t].pgdir = mid[t].pgdir
                      /\ q[t].ticks = mid[t].ticks /\ q[t].elapsed = mid[t].elapsed /\ q[t].kstack = mid[t].kstack
                      /\ t # u => q[t].status = mid[t].status
  BY <1>4
<1>6. \A t \in Task : /\ mid[t].pid = left[t].pid /\ mid[t].pgdir = left[t].pgdir
                      /\ mid[t].ticks = left[t].ticks /\ mid[t].elapsed = left[t].elapsed
                      /\ mid[t].status = left[t].status
  BY <1>3
<1> QED BY <1>3, <1>4, <1>5, <1>6 DEF q

(* The head of the queue R["ready"] gets the CPU from current, when the    *)
(* PCBs are left.                                                          *)
TakesOver(left, R) ==
  /\ readySeq' = Tail(R["ready"]) /\ current' = Head(R["ready"]) /\ current' \in Born /\ Born' = Born
  /\ \A t \in Born : /\ pcb'[t].ticks = left[t].ticks
                     /\ pcb'[t].status = IF t = current' THEN "RUNNING" ELSE left[t].status

(* The second half of schedule, and switch_to: the PCBs are left, the      *)
(* lists lk with the queues R, and the task that leaves the CPU is already *)
(* where it belongs.                                                       *)
LEMMA Dispatch ==
  ASSUME NEW Q, TasksInv(Q), NEW left \in [Task -> Pcb], NEW lk, NEW R, NEW res \in [Task -> BOOLEAN],
         Holds(lk, R, AllMade), Known(lk, Born), Queued(left, R, Born), R["ready"] # <<>>,
         \A t \in Task : t # current => left[t] = pcb[t],
         left[current].status # "RUNNING",
         left[current].status = "BLOCKED" => \A l \in Lock : holder[l] # current,
         left[current].pid = pcb[current].pid, left[current].pgdir = pcb[current].pgdir,
         pc[current] \notin {"born", "fresh"}, pc[Main] # "boot",
         NEW next, next = elem2entry(list_front(lk, ready)),
         links' = list_pop(lk, ready),
         pcb' = WithStatus(WithKstack(left, current, Deep), next, "RUNNING"),
         current' = next, resume' = res, intr' = (res[next] /\ pc[next] # "born"),
         process_activate(pcb, next),
         UNCHANGED <<bootVars, pc, holder, next_pid, made, curr, frame, got, halted>>
  PROVE  (\E S : TasksInv(S)') /\ TakesOver(left, R)
<1>1. /\ Types /\ BootInv /\ MakeInv /\ SchedInv(Q) /\ LockInv /\ HomeInv /\ PidInv /\ FrameInv
  BY DEF TasksInv
<1>2. current \in Born /\ Born \subseteq Task /\ "ready" \in Queue /\ current \in Task
  BY <1>1, BornIs DEF SchedInv, Queue
<1>3. PICK u, S :
         /\ u \in Task /\ list_front(lk, ready) = Tag(u) /\ u \in Born /\ QueueOf(left, u) = "ready"
         /\ u = Head(R["ready"]) /\ S["ready"] = Tail(R["ready"])
         /\ Holds(links', S, AllMade) /\ Known(links', Born)
         /\ \A q : QueueOf(q, u) \notin Queue /\ Others(left, q, Born, u) => Queued(q, S, Born)
  <2>1. links' = list_pop(lk, List("ready")) /\ ready = List("ready")
    BY DEF ready
  <2> QED BY <1>2, <2>1, Leaves
<1>4. next = u
  BY <1>3 DEF elem2entry, Tag
<1>5. /\ pcb' \in [Task -> Pcb] /\ pcb'[u].status = "RUNNING"
      /\ \A t \in Task : /\ pcb'[t].pid = left[t].pid /\ pcb'[t].pgdir = left[t].pgdir
                         /\ pcb'[t].ticks = left[t].ticks /\ pcb'[t].elapsed = left[t].elapsed
                         /\ t # u => pcb'[t].status = left[t].status
                         /\ t # current => pcb'[t].kstack = left[t].kstack
                         /\ t # current /\ t # u => pcb'[t] = left[t]
  <2>1. pcb' = WithStatus(WithKstack(left, current, Deep), u, "RUNNING")
    BY <1>4
  <2>2. left \in [Task -> Pcb] /\ current \in Task /\ u \in Task
    BY <1>2, <1>3
  <2> QED BY <2>1, <2>2, Marked, SMTT(30)
<1>6. \A t \in Task : pcb'[t].pid = pcb[t].pid /\ pcb'[t].pgdir = pcb[t].pgdir
  BY <1>2, <1>5
<1>7. \A t \in Task : t # current => /\ pcb'[t].kstack = pcb[t].kstack /\ pcb'[t].ticks = pcb[t].ticks
                                     /\ pcb'[t].elapsed = pcb[t].elapsed
  BY <1>2, <1>5
<1>8. \A t \in Task \ Born : pcb'[t] = pcb[t]
  <2>1. ASSUME NEW t \in Task \ Born PROVE pcb'[t] = pcb[t]
    <3>1. t # current /\ t # u /\ t \in Task
      BY <1>2, <1>3, Zenon
    <3> QED BY <1>5, <3>1
  <2> QED BY <2>1
<1>9. Born' = Born /\ AllMade' = AllMade /\ new' = new
  BY BornKept
<1>10. Types'
  BY <1>1, <1>5 DEF Types
<1>11. BootInv'
  BY <1>1, BootKept
<1>12. MakeInv'
  BY <1>1, <1>8, MakeKept
<1>13. Queued(pcb', S, Born)
  <2>1. QueueOf(pcb', u) \notin Queue
    BY <1>5 DEF QueueOf, Queue, Lock
  <2>2. Others(left, pcb', Born, u)
    BY <1>2, <1>5 DEF Others, QueueOf
  <2> QED BY <1>3, <2>1, <2>2
<1>14. SchedInv(S)'
  <2>1. Holds(links', S, AllMade') /\ Queued(pcb', S, Born') /\ Known(links', Born') /\ halted' = FALSE
    BY <1>1, <1>3, <1>9, <1>13 DEF SchedInv
  <2>2. \A t \in Born : t # u => pcb'[t].status # "RUNNING"
    BY <1>1, <1>2, <1>5 DEF SchedInv
  <2>3. current' \in Born' /\ \A t \in Born' : pcb'[t].status = "RUNNING" <=> t = current'
    <3>1. current' = u /\ u \in Born /\ pcb'[u].status = "RUNNING" /\ Born' = Born
      BY <1>3, <1>4, <1>5, <1>9
    <3> QED BY <2>2, <3>1
  <2>4. pc'[Main] = "walk" => curr' \in Nodes \cup {NULL} /\ \A t \in Task : curr' = Tag(t) => t \in Born'
    BY <1>1, <1>9 DEF SchedInv
  <2> QED BY <2>1, <2>3, <2>4 DEF SchedInv
<1>15. LockInv'
  <2>1. \A t \in Born : pcb[t].status # "BLOCKED" => pcb'[t].status # "BLOCKED" \/ \A l \in Lock : holder[l] # t
    BY <1>2, <1>5
  <2> QED BY <1>1, <1>9, <2>1, LockKept
<1>16. HomeInv'
  <2>1. \A t \in Born' : pcb'[t].pgdir <=> t \in Process
    BY <1>1, <1>2, <1>6, <1>9 DEF HomeInv
  <2>2. pcb[u].pgdir <=> u \in Process
    BY <1>1, <1>3 DEF HomeInv
  <2> QED BY <1>4, <2>1, <2>2 DEF HomeInv, UserAtHome, process_activate
<1>17. PidInv'
  BY <1>1, <1>6, PidKept
<1>18. FrameInv'
  <2>1. pc[u] = "born" => intr' = FALSE
    BY <1>4
  <2>2. \A t \in Task : pc[t] # "fresh"
    BY <1>1 DEF FrameInv
  <2> QED BY <1>1, <1>2, <1>4, <1>7, <1>9, <2>1, <2>2 DEF FrameInv
<1>19. TakesOver(left, R)
  <2>1. readySeq' = Tail(R["ready"])
    BY <1>3, ReadySeqs, ReadyIs
  <2>2. \A t \in Born : /\ pcb'[t].ticks = left[t].ticks
                        /\ pcb'[t].status = IF t = current' THEN "RUNNING" ELSE left[t].status
    BY <1>2, <1>4, <1>5
  <2> QED BY <1>3, <1>4, <1>9, <2>1, <2>2 DEF TakesOver
<1> QED BY <1>10, <1>11, <1>12, <1>14, <1>15, <1>16, <1>17, <1>18, <1>19 DEF TasksInv

(* The statuses and slices that Threads sees when the PCBs are p.          *)
StatusOf(p) == [t \in Task |-> IF t \in Born THEN p[t].status ELSE "UNBORN"]
TicksOf(p) == [t \in Task |-> IF t \in Born THEN p[t].ticks ELSE Priority]

(* After a switch they are those at the switch, and the next task runs.    *)
LEMMA TakenOver ==
  ASSUME NEW left, NEW R, TakesOver(left, R), Born \subseteq Task
  PROVE  bornStatus' = [StatusOf(left) EXCEPT ![current'] = "RUNNING"] /\ bornTicks' = TicksOf(left)
<1>1. PICK B : B = Born
  OBVIOUS
<1>2. PICK q : q = pcb'
  OBVIOUS
<1>3. PICK next : next = current'
  OBVIOUS
<1>4. /\ next \in B /\ B \subseteq Task
      /\ \A t \in B : /\ q[t].ticks = left[t].ticks
                      /\ q[t].status = IF t = next THEN "RUNNING" ELSE left[t].status
  BY <1>1, <1>2, <1>3 DEF TakesOver
<1>5. /\ bornStatus' = [t \in Task |-> IF t \in B THEN q[t].status ELSE "UNBORN"]
      /\ bornTicks' = [t \in Task |-> IF t \in B THEN q[t].ticks ELSE Priority]
  <2>1. Born' = B /\ pcb' = q
    BY <1>1, <1>2 DEF TakesOver
  <2> QED BY <2>1 DEF bornStatus, bornTicks
<1>6. /\ StatusOf(left) = [t \in Task |-> IF t \in B THEN left[t].status ELSE "UNBORN"]
      /\ TicksOf(left) = [t \in Task |-> IF t \in B THEN left[t].ticks ELSE Priority]
  BY <1>1 DEF StatusOf, TicksOf
<1> QED BY <1>3, <1>4, <1>5, <1>6

(* So a switch is the schedule of Threads, called with the statuses st.    *)
LEMMA Schedules ==
  ASSUME NEW left, NEW R, TakesOver(left, R), Born \subseteq Task, Types, Awaits,
         current \in Task, pc[current] # "born", NEW flag \in BOOLEAN, NEW res, res = [resume EXCEPT ![current] = flag],
         resume' = res, intr' = (res[current'] /\ pc[current'] # "born"), pc' = pc, halted' = halted,
         NEW st, NEW runs \in BOOLEAN, runs = (st[current] = "RUNNING"), runs => ~ T!node_find(readySeq, current),
         R["ready"] = IF runs THEN Append(readySeq, current) ELSE readySeq, R["ready"] # <<>>,
         StatusOf(left) = IF runs THEN [st EXCEPT ![current] = "READY"] ELSE st,
         TicksOf(left) = IF runs THEN [bornTicks EXCEPT ![current] = Priority] ELSE bornTicks
  PROVE  T!schedule(st, res)
<1>1. readySeq' = Tail(R["ready"]) /\ current' = Head(R["ready"]) /\ current' \in Task
  BY DEF TakesOver
<1>2. bornStatus' = [StatusOf(left) EXCEPT ![current'] = "RUNNING"] /\ bornTicks' = TicksOf(left)
  BY TakenOver
<1>3. enabled' = res[current']
  <2>1. pc[current'] = "born" => res[current'] = TRUE
    BY <1>1 DEF Types, Awaits
  <2>2. res[current'] \in BOOLEAN
    BY <1>1 DEF Types
  <2> QED BY <2>1, <2>2 DEF enabled
<1>4. CASE runs
  BY <1>1, <1>2, <1>3, <1>4 DEF T!schedule, T!list_append
<1>5. CASE ~ runs
  BY <1>1, <1>2, <1>3, <1>5 DEF T!schedule
<1> QED BY <1>4, <1>5

(* The timer interrupt.                                                    *)
LEMMA TimerStep ==
  ASSUME NEW Q, TasksInv(Q), Timer
  PROVE  (\E S : TasksInv(S)') /\ (Awaits => T!intr_timer_handler)
<1>1. /\ Types /\ BootInv /\ MakeInv /\ SchedInv(Q) /\ LockInv /\ HomeInv /\ PidInv /\ FrameInv
  BY DEF TasksInv
<1>2. running_thread = current /\ current \in Task
  BY RunningThread
<1>3. PICK e : e = Min({pcb[current].elapsed + 1, Patience})
  OBVIOUS
<1>4. PICK p : p = WithElapsed(pcb, current, e)
  OBVIOUS
<1>5. /\ intr /\ Clock \in unmasked /\ (pc[current] = "fresh" => pcb[current].elapsed < Patience)
      /\ UNCHANGED <<bootVars, pc, holder, next_pid, made, curr, frame, got>>
      /\ IF handlers[Clock] # "intr_timer_handler" THEN panic_spin
         ELSE IF pcb[current].ticks = 0
         THEN schedule(current, p, links, [resume EXCEPT ![current] = TRUE])
         ELSE /\ pcb' = [p EXCEPT ![current].ticks = @ - 1]
              /\ UNCHANGED <<links, current, resume, intr, cr3, esp0, halted>>
  <2>1. p = [pcb EXCEPT ![current].elapsed = Min({@ + 1, Patience})]
    BY <1>3, <1>4 DEF WithElapsed
  <2> QED BY <1>2, <2>1 DEF Timer
<1>6. pc[Main] # "boot" /\ pc[current] # "born" /\ handlers[Clock] = "intr_timer_handler"
  BY <1>1, <1>5 DEF BootInv, FrameInv
<1>7. pcb[current] \in Pcb /\ pcb \in [Task -> Pcb] /\ current \in Born /\ Born \subseteq Task
  BY <1>1, <1>2, BornIs DEF Types, SchedInv
<1>8. /\ pcb[current].elapsed \in Nat /\ pcb[current].ticks \in 0..Priority /\ pcb[current].status = "RUNNING"
      /\ Priority \in Nat /\ Patience \in Nat /\ Patience <= Priority
  <2>1. Priority \in Nat /\ Patience \in 0..Priority
    BY TaskAssumption, Zenon
  <2>2. pcb[current].elapsed \in Nat /\ pcb[current].ticks \in 0..Priority
    BY <1>7 DEF Pcb
  <2>3. pcb[current].status = "RUNNING"
    BY <1>1, <1>7 DEF SchedInv
  <2> QED BY <2>1, <2>2, <2>3
<1>9. e \in Nat /\ (pc[current] = "fresh" => e = pcb[current].elapsed + 1)
  <2>1. pcb[current].elapsed + 1 \in Nat
    BY <1>8
  <2> QED BY <1>3, <1>5, <1>8, <2>1, MinOfTwo
<1>10. /\ p \in [Task -> Pcb] /\ (\A u \in Task : u # current => p[u] = pcb[u]) /\ p[current].elapsed = e
       /\ p[current].kstack = pcb[current].kstack /\ p[current].pid = pcb[current].pid
       /\ p[current].status = pcb[current].status
       /\ p[current].ticks = pcb[current].ticks /\ p[current].pgdir = pcb[current].pgdir
  BY <1>2, <1>4, <1>7, <1>9, SetElapsed
<1>11. CASE pcb[current].ticks # 0
  <2>1. /\ pcb' = WithTicks(p, current, pcb[current].ticks - 1) /\ pcb[current].ticks - 1 \in 0..Priority
        /\ UNCHANGED <<links, current, resume, intr, cr3, esp0, halted>>
    BY <1>5, <1>6, <1>8, <1>10, <1>11 DEF WithTicks
  <2>2. /\ pcb' \in [Task -> Pcb] /\ (\A u \in Task : u # current => pcb'[u] = p[u])
        /\ pcb'[current].ticks = pcb[current].ticks - 1
        /\ pcb'[current].kstack = p[current].kstack /\ pcb'[current].pid = p[current].pid
        /\ pcb'[current].status = p[current].status
        /\ pcb'[current].elapsed = p[current].elapsed /\ pcb'[current].pgdir = p[current].pgdir
    BY <1>2, <1>10, <2>1, SetTicks
  <2>3. /\ \A u \in Task : u # current => pcb'[u] = pcb[u]
        /\ \A u \in Task : /\ pcb'[u].pid = pcb[u].pid /\ pcb'[u].pgdir = pcb[u].pgdir
                           /\ pcb'[u].status = pcb[u].status /\ pcb'[u].kstack = pcb[u].kstack
    BY <1>10, <2>2
  <2>4. Born' = Born /\ AllMade' = AllMade
    BY <1>5, BornKept
  <2>5. Types'
    BY <1>1, <1>5, <2>1, <2>2 DEF Types
  <2>6. BootInv'
    BY <1>1, <1>5, <1>6, BootKept
  <2>7. MakeInv'
    BY <1>1, <1>5, <1>7, <2>3, MakeKept
  <2>8. SchedInv(Q)'
    BY <1>1, <1>5, <1>7, <2>1, <2>3, <2>4, SchedKept
  <2>9. LockInv'
    BY <1>1, <1>5, <1>7, <2>3, <2>4, LockKept
  <2>10. HomeInv'
    BY <1>1, <1>7, <2>1, <2>3, <2>4, HomeKept
  <2>11. PidInv'
    BY <1>1, <1>5, <2>3, PidKept
  <2>12. FrameInv'
    <3>1. /\ pc[current] = "fresh" => /\ pcb[current].ticks + pcb[current].elapsed = Priority
                                      /\ pcb'[current].ticks + pcb'[current].elapsed = Priority
      BY <1>1, <1>7, <1>8, <1>9, <1>10, <2>2 DEF FrameInv
    <3> QED BY <1>1, <1>5, <1>6, <1>7, <2>1, <2>3, <2>4, <3>1 DEF FrameInv
  <2>13. T!intr_timer_handler
    <3>1. ~ halted /\ enabled /\ enabled' = enabled /\ readySeq' = readySeq
      BY <1>1, <1>5, <2>1 DEF SchedInv, enabled, readySeq
    <3>2. bornTicks[current] = pcb[current].ticks
      BY <1>2, <1>7 DEF bornTicks
    <3>3. bornStatus' = bornStatus
      BY <1>7, <2>3, <2>4 DEF bornStatus
    <3>4. bornTicks' = [bornTicks EXCEPT ![current] = bornTicks[current] - 1]
      BY <1>2, <1>7, <2>2, <2>3, <2>4, <3>2 DEF bornTicks
    <3> QED BY <1>11, <2>1, <3>1, <3>2, <3>3, <3>4 DEF T!intr_timer_handler
  <2> QED BY <2>5, <2>6, <2>7, <2>8, <2>9, <2>10, <2>11, <2>12, <2>13 DEF TasksInv
<1>12. CASE pcb[current].ticks = 0
  <2>1. pc[current] # "fresh"
    BY <1>1, <1>5, <1>7, <1>8, <1>12 DEF FrameInv
  <2>2. PICK left : left = WithStatus(WithTicks(p, current, Priority), current, "READY")
    OBVIOUS
  <2>3. PICK lk : lk = list_append(links, ready, Tag(current))
    OBVIOUS
  <2>4. PICK res : res = [resume EXCEPT ![current] = TRUE]
    OBVIOUS
  <2>5. Switch(current, TRUE, p, links, res)
    BY <1>5, <1>6, <1>8, <1>10, <1>12, <2>4 DEF schedule
  <2>6. /\ left \in [Task -> Pcb] /\ (\A u \in Task : u # current => left[u] = p[u])
        /\ left[current].status = "READY" /\ left[current].pid = p[current].pid
        /\ left[current].pgdir = p[current].pgdir /\ left[current].ticks = Priority
    <3>1. PICK mid : mid = WithTicks(p, current, Priority)
      OBVIOUS
    <3>2. Priority \in 0..Priority /\ "READY" \in Status
      BY <1>8 DEF Status
    <3>3. /\ mid \in [Task -> Pcb] /\ (\A u \in Task : u # current => mid[u] = p[u])
          /\ mid[current].pid = p[current].pid /\ mid[current].pgdir = p[current].pgdir
          /\ mid[current].ticks = Priority
      BY <1>2, <1>10, <3>1, <3>2, SetTicks
    <3>4. left = WithStatus(mid, current, "READY")
      BY <2>2, <3>1
    <3>5. /\ left \in [Task -> Pcb] /\ (\A u \in Task : u # current => left[u] = mid[u])
          /\ left[current].status = "READY" /\ left[current].pid = mid[current].pid
          /\ left[current].pgdir = mid[current].pgdir /\ left[current].ticks = mid[current].ticks
      BY <1>2, <3>2, <3>3, <3>4, SetStatus
    <3> QED BY <3>3, <3>5
  <2>7. res \in [Task -> BOOLEAN]
    BY <1>1, <2>4 DEF Types
  <2>8. /\ Holds(links, Q, AllMade) /\ Known(links, Born) /\ Queued(pcb, Q, Born) /\ "ready" \in Queue
        /\ halted = FALSE
    BY <1>1 DEF SchedInv, Queue
  <2>9. /\ QueueOf(pcb, current) \notin Queue /\ QueueOf(left, current) = "ready"
        /\ Others(pcb, left, Born, current)
    <3>1. QueueOf(pcb, current) = "none" /\ "none" \notin Queue
      BY <1>8 DEF QueueOf, Queue, Lock
    <3>2. QueueOf(left, current) = "ready"
      BY <2>6 DEF QueueOf
    <3>3. Others(pcb, left, Born, current)
      BY <1>7, <1>10, <2>6 DEF Others, QueueOf
    <3> QED BY <3>1, <3>2, <3>3
  <2>10. ~ node_find(links, ready, Tag(current))
    <3>1. ~ In(current, Q["ready"])
      BY <1>2, <2>8, <2>9 DEF Queued
    <3> QED BY <1>2, <2>8, <3>1, HoldsFind DEF ready
  <2>11. PICK R : /\ Holds(lk, R, AllMade) /\ Queued(left, R, Born) /\ Known(lk, Born) /\ R["ready"] # <<>>
                  /\ R["ready"] = Append(Q["ready"], current)
    <3>1. lk = list_append(links, List("ready"), Tag(current)) /\ Born \cup {current} = Born
      BY <1>7, <2>3 DEF ready
    <3>2. \E R : /\ Holds(list_append(links, List("ready"), Tag(current)), R, AllMade)
                 /\ Queued(left, R, Born \cup {current})
                 /\ Known(list_append(links, List("ready"), Tag(current)), Born \cup {current})
                 /\ R["ready"] = Append(Q["ready"], current) /\ In(current, R["ready"]) /\ Only(Q, R, "ready")
      <4>1. CanEnter(links, Q, AllMade, Born, pcb, left, "ready", current)
        BY <1>2, <2>8, <2>9 DEF CanEnter
      <4> QED BY <4>1, Enters, ZenonT(60)
    <3>3. ~ In(current, <<>>)
      BY DEF In
    <3> QED BY <3>1, <3>2, <3>3
  <2>12. ~ list_empty(lk, ready)
    BY <2>8, <2>11, HoldsFind DEF ready
  <2>13. PICK next : next = elem2entry(list_front(lk, ready))
    OBVIOUS
  <2>14. /\ links' = list_pop(lk, ready) /\ current' = next /\ resume' = res
         /\ pcb' = WithStatus(WithKstack(left, current, Deep), next, "RUNNING")
         /\ intr' = (res[next] /\ pc[next] # "born") /\ process_activate(p, next) /\ UNCHANGED halted
    <3>1. left = [p EXCEPT ![current].ticks = Priority, ![current].status = "READY"]
      BY <2>2 DEF WithTicks, WithStatus
    <3> QED BY <2>3, <2>5, <2>10, <2>12, <2>13, <3>1 DEF Switch, WithStatus, WithKstack
  <2>15. process_activate(pcb, next)
    <3>1. next \in Task
      <4>1. \E u \in Task : list_front(lk, List("ready")) = Tag(u)
        BY <2>8, <2>11, Leaves
      <4> QED BY <2>13, <4>1 DEF ready, Tag, elem2entry
    <3>2. p[next].pgdir = pcb[next].pgdir
      BY <1>10, <3>1
    <3> QED BY <2>14, <3>2 DEF process_activate
  <2>16. /\ \A t \in Task : t # current => left[t] = pcb[t]
         /\ left[current].status # "RUNNING"
         /\ left[current].status = "BLOCKED" => \A l \in Lock : holder[l] # current
         /\ left[current].pid = pcb[current].pid /\ left[current].pgdir = pcb[current].pgdir
    BY <1>10, <2>6
  <2>17. UNCHANGED <<bootVars, pc, holder, next_pid, made, curr, frame, got, halted>>
    BY <1>5, <2>14
  <2>18. left \in [Task -> Pcb] /\ pc[current] \notin {"born", "fresh"} /\ pc[Main] # "boot"
    BY <1>6, <2>1, <2>6
  <2>19. (\E S : TasksInv(S)') /\ TakesOver(left, R)
    BY <2>7, <2>11, <2>13, <2>14, <2>15, <2>16, <2>17, <2>18, Dispatch
  <2>20. ASSUME Awaits PROVE T!intr_timer_handler
    <3>1. readySeq = Q["ready"] /\ Q["ready"] \in Seq(Task)
      BY <2>8, ReadySeqs, ReadyIs
    <3>2. ~ T!node_find(readySeq, current)
      BY <1>2, <2>8, <2>9, <3>1, InRange DEF Queued
    <3>3. /\ bornStatus[current] = "RUNNING" /\ StatusOf(left) = [bornStatus EXCEPT ![current] = "READY"]
          /\ bornTicks[current] = 0 /\ TicksOf(left) = [bornTicks EXCEPT ![current] = Priority]
      BY <1>2, <1>7, <1>8, <1>12, <2>6, <2>16 DEF StatusOf, TicksOf, bornStatus, bornTicks
    <3>4. intr' = (res[current'] /\ pc[current'] # "born") /\ pc' = pc /\ halted' = halted /\ pc[current] # "born"
      BY <1>6, <2>14, <2>17
    <3>5. R["ready"] = Append(readySeq, current)
      BY <2>11, <3>1
    <3>6. T!schedule(bornStatus, res)
      BY <1>1, <1>2, <1>7, <2>4, <2>11, <2>14, <2>19, <2>20, <3>2, <3>3, <3>4, <3>5, Schedules
    <3>7. ~ halted /\ enabled
      BY <1>5, <2>8 DEF enabled
    <3> QED BY <2>4, <3>3, <3>6, <3>7 DEF T!intr_timer_handler
  <2> QED BY <2>19, <2>20
<1> QED BY <1>11, <1>12

(* The lock is taken: the task waits, and its holder, if nobody else, is   *)
(* ready to run.                                                           *)
LEMMA DownBlockStep ==
  ASSUME NEW Q, TasksInv(Q), NEW t \in Task, Down(t), holder[pool(t)] # NULL
  PROVE  (\E S : TasksInv(S)') /\ (Awaits => T!thread_block(FALSE))
<1>1. /\ Types /\ BootInv /\ MakeInv /\ SchedInv(Q) /\ LockInv /\ HomeInv /\ PidInv /\ FrameInv
  BY DEF TasksInv
<1>2. PICK left : left = WithStatus(pcb, t, "BLOCKED")
  OBVIOUS
<1>3. PICK lk : lk = list_append(links, List(pool(t)), Tag(t))
  OBVIOUS
<1>4. PICK res : res = [resume EXCEPT ![t] = FALSE]
  OBVIOUS
<1>5. /\ current = t /\ pc[t] \in Alloc /\ holder[pool(t)] # t
      /\ UNCHANGED <<bootVars, pc, holder, next_pid, made, curr, frame, got>>
      /\ IF node_find(links, List(pool(t)), Tag(t)) THEN panic_spin ELSE schedule(t, left, lk, res)
  BY <1>2, <1>3, <1>4 DEF Down, WithStatus
<1>6. /\ t \in Born /\ pcb[t].status = "RUNNING" /\ pool(t) \in Lock /\ pool(t) \in Queue /\ pool(t) # "ready"
      /\ pc[Main] # "boot" /\ pc[t] \notin {"born", "fresh"} /\ Born \subseteq Task
  BY <1>5, Allocates
<1>7. /\ left \in [Task -> Pcb] /\ (\A u \in Task : u # t => left[u] = pcb[u])
      /\ left[t].status = "BLOCKED" /\ left[t].pid = pcb[t].pid /\ left[t].pgdir = pcb[t].pgdir
      /\ left[t].ticks = pcb[t].ticks
  <2>1. pcb \in [Task -> Pcb] /\ "BLOCKED" \in Status
    BY <1>1 DEF Types, Status
  <2> QED BY <1>2, <2>1, SetStatus
<1>8. res \in [Task -> BOOLEAN]
  BY <1>1, <1>4 DEF Types
<1>9. /\ Holds(links, Q, AllMade) /\ Known(links, Born) /\ Queued(pcb, Q, Born) /\ "ready" \in Queue
      /\ Q \in [Queue -> Seq(Task)]
  BY <1>1 DEF SchedInv, Queue, Holds
<1>10. /\ QueueOf(pcb, t) \notin Queue /\ QueueOf(left, t) = pool(t) /\ Others(pcb, left, Born, t)
  <2>1. QueueOf(pcb, t) = "none" /\ "none" \notin Queue
    BY <1>6 DEF QueueOf, Queue, Lock
  <2>2. QueueOf(left, t) = pool(t)
    BY <1>7 DEF QueueOf
  <2>3. Others(pcb, left, Born, t)
    BY <1>6, <1>7 DEF Others, QueueOf
  <2> QED BY <2>1, <2>2, <2>3
<1>11. ~ node_find(links, List(pool(t)), Tag(t))
  <2>1. ~ In(t, Q[pool(t)])
    BY <1>6, <1>9, <1>10 DEF Queued
  <2> QED BY <1>6, <1>9, <2>1, HoldsFind
<1>12. Q["ready"] # <<>>
  <2> DEFINE h == holder[pool(t)]
  <2>1. h \in Born /\ pcb[h].status # "BLOCKED" /\ h # t
    BY <1>1, <1>5, <1>6 DEF LockInv
  <2>2. pcb[h].status # "RUNNING" /\ pcb[h].status \in Status
    BY <1>1, <1>5, <1>6, <2>1 DEF SchedInv, Types, Pcb
  <2>3. QueueOf(pcb, h) = "ready"
    BY <2>1, <2>2 DEF Status, QueueOf
  <2>4. In(h, Q["ready"])
    BY <1>6, <1>9, <2>1, <2>3 DEF Queued
  <2>5. ~ In(h, <<>>)
    BY DEF In
  <2> QED BY <2>4, <2>5
<1>13. PICK R : /\ Holds(lk, R, AllMade) /\ Queued(left, R, Born) /\ Known(lk, Born) /\ R["ready"] # <<>>
                /\ R["ready"] = Q["ready"]
  <2>1. Born \cup {t} = Born
    BY <1>6
  <2>2. CanEnter(links, Q, AllMade, Born, pcb, left, pool(t), t)
    BY <1>6, <1>9, <1>10 DEF CanEnter
  <2>3. PICK R : /\ Holds(list_append(links, List(pool(t)), Tag(t)), R, AllMade)
                 /\ Queued(left, R, Born \cup {t})
                 /\ Known(list_append(links, List(pool(t)), Tag(t)), Born \cup {t})
                 /\ Only(Q, R, pool(t))
    BY <2>2, Enters
  <2>4. R["ready"] = Q["ready"]
    BY <1>6, <1>9, <2>3 DEF Only
  <2> QED BY <1>3, <1>12, <2>1, <2>3, <2>4
<1>14. ~ list_empty(lk, ready)
  BY <1>9, <1>13, HoldsFind DEF ready
<1>15. PICK next : next = elem2entry(list_front(lk, ready))
  OBVIOUS
<1>16. /\ links' = list_pop(lk, ready) /\ current' = next /\ resume' = res
       /\ pcb' = WithStatus(WithKstack(left, t, Deep), next, "RUNNING")
       /\ intr' = (res[next] /\ pc[next] # "born") /\ process_activate(left, next) /\ UNCHANGED halted
  <2>1. Switch(t, FALSE, left, lk, res)
    BY <1>5, <1>7, <1>11 DEF schedule
  <2> QED BY <1>14, <1>15, <2>1 DEF Switch, WithStatus, WithKstack
<1>17. process_activate(pcb, next)
  <2>1. next \in Task
    <3>1. \E u \in Task : list_front(lk, List("ready")) = Tag(u)
      BY <1>9, <1>13, Leaves
    <3> QED BY <1>15, <3>1 DEF ready, Tag, elem2entry
  <2>2. left[next].pgdir = pcb[next].pgdir
    BY <1>7, <2>1
  <2> QED BY <1>16, <2>2 DEF process_activate
<1>18. \A l \in Lock : holder[l] # t
  BY <1>1, <1>5, TaskAssumption DEF LockInv
<1>19. UNCHANGED <<bootVars, pc, holder, next_pid, made, curr, frame, got, halted>>
  BY <1>5, <1>16
<1>20. (\E S : TasksInv(S)') /\ TakesOver(left, R)
  BY <1>5, <1>6, <1>7, <1>8, <1>13, <1>15, <1>16, <1>17, <1>18, <1>19, Dispatch
<1>21. ASSUME Awaits PROVE T!thread_block(FALSE)
  <2>1. readySeq = Q["ready"] /\ R["ready"] = readySeq /\ readySeq # <<>>
    BY <1>9, <1>13, ReadySeqs, ReadyIs
  <2>2. PICK st : st = [bornStatus EXCEPT ![current] = "BLOCKED"]
    OBVIOUS
  <2>3. StatusOf(left) = st /\ TicksOf(left) = bornTicks /\ st[current] = "BLOCKED"
    BY <1>5, <1>6, <1>7, <2>2 DEF StatusOf, TicksOf, bornStatus, bornTicks
  <2>4. /\ intr' = (res[current'] /\ pc[current'] # "born") /\ pc' = pc /\ halted' = halted /\ pc[current] # "born"
        /\ current \in Task /\ res = [resume EXCEPT ![current] = FALSE]
    BY <1>4, <1>5, <1>6, <1>16, <1>19
  <2>5. T!schedule(st, res)
    BY <1>1, <1>6, <1>13, <1>16, <1>20, <1>21, <2>1, <2>3, <2>4, Schedules
  <2> QED BY <2>2, <2>4, <2>5 DEF T!thread_block
<1> QED BY <1>20, <1>21
-----------------------------------------------------------------------------
(* The invariant holds when main starts.                                   *)
LEMMA InitInv ==
  ASSUME TasksInit
  PROVE  \E Q : TasksInv(Q)
<1> PICK Q : Q = [n \in Queue |-> <<>>]
  OBVIOUS
<1>1. /\ current = Main /\ pc = [t \in Task |-> IF t = Main THEN "boot" ELSE "born"]
      /\ resume = [t \in Task |-> TRUE] /\ holder = [l \in Lock |-> NULL]
      /\ cr3 = "kernel" /\ next_pid = 1 /\ made = 0 /\ halted = FALSE
      /\ frame = [t \in Task |-> 0] /\ got = [t \in Task |-> 0] /\ BootInit
  BY DEF TasksInit
<1>2. pcb = [t \in Task |-> IF t # Main THEN Fresh
                            ELSE [Fresh EXCEPT !.pid = 1, !.status = "RUNNING", !.ticks = Priority]]
  BY DEF TasksInit
<1>3. /\ Main \in Task /\ Main \notin Process /\ Priority \in Nat /\ Len(Programme) \in Nat /\ Len(Programme) # 0
      /\ Process \subseteq Task
  BY TaskAssumption
<1>4. Fresh \in Pcb /\ Fresh.status = "READY" /\ Fresh.pgdir = FALSE
  BY <1>3 DEF Fresh, Pcb, Status
<1>5. /\ pcb \in [Task -> Pcb] /\ pcb[Main].status = "RUNNING" /\ pcb[Main].pid = 1 /\ ~ pcb[Main].pgdir
  <2> DEFINE m == [Fresh EXCEPT !.pid = 1, !.status = "RUNNING", !.ticks = Priority]
  <2>1. m \in Pcb /\ m.status = "RUNNING" /\ m.pid = 1 /\ m.pgdir = FALSE
    <3>1. "RUNNING" \in Status /\ 1 \in Nat /\ Priority \in 0..Priority
      BY <1>3 DEF Status
    <3> QED BY <1>4, <3>1 DEF Pcb
  <2>2. pcb = [t \in Task |-> IF t # Main THEN Fresh ELSE m]
    BY <1>2
  <2> HIDE DEF m
  <2> QED BY <1>3, <1>4, <2>1, <2>2
<1>6. Born = {Main}
  BY <1>1, <1>3 DEF Born
<1>7. AllMade = <<Main>>
  BY <1>1 DEF AllMade
<1>8. Types
  <2>1. \A t \in Task : pc[t] \in Label(t)
    BY <1>1, <1>3 DEF Label, MainLabel
  <2>2. pc \in [Task -> UNION {Label(t) : t \in Task}]
    BY <1>1, <2>1
  <2>3. /\ resume \in [Task -> BOOLEAN] /\ holder \in [Lock -> Task \cup {NULL}]
        /\ frame \in [Task -> {0, Word * intr_stack}] /\ got \in [Task -> Nat] /\ made \in 0..Len(Programme)
    BY <1>1, <1>3
  <2>4. intr \in BOOLEAN
    BY <1>1 DEF BootInit
  <2> QED BY <1>5, <2>1, <2>2, <2>3, <2>4 DEF Types
<1>9. BootInv
  BY <1>1, <1>3 DEF BootInv, BootInit
<1>10. MakeInv
  BY <1>1, <1>3 DEF MakeInv
<1>11. SchedInv(Q)
  <2>1. Holds(links, Q, AllMade) /\ Known(links, Born)
    BY <1>6, <1>7, HoldsInit
  <2>2. Queued(pcb, Q, Born)
    <3>1. QueueOf(pcb, Main) = "none" /\ "none" \notin Queue
      BY <1>5 DEF QueueOf, Queue, Lock
    <3>2. \A t \in Task, n \in Queue : ~ In(t, Q[n])
      BY DEF In
    <3> QED BY <1>6, <3>1, <3>2 DEF Queued
  <2> QED BY <1>1, <1>3, <1>5, <1>6, <2>1, <2>2 DEF SchedInv
<1>12. LockInv
  BY <1>1 DEF LockInv
<1>13. HomeInv
  BY <1>1, <1>3, <1>5, <1>6 DEF HomeInv, UserAtHome
<1>14. PidInv
  BY <1>1, <1>3, <1>5, <1>6 DEF PidInv
<1>15. FrameInv
  BY <1>1, <1>3, <1>6 DEF FrameInv
<1> QED BY <1>8, <1>9, <1>10, <1>11, <1>12, <1>13, <1>14, <1>15 DEF TasksInv

(* It holds after every step.                                              *)
LEMMA NextInv ==
  ASSUME NEW Q, TasksInv(Q), [TasksNext]_vars
  PROVE  \E R : TasksInv(R)'
<1>1. CASE Start
  BY <1>1, StartStep
<1>2. CASE Create
  BY <1>2, InitThreadStep, InitRestStep, ThreadCreateStep, SetPgdirStep, InsertProcessStep, FindFirstStep,
     FindNextStep, AppendReadyStep, AppendAllStep DEF Create
<1>3. CASE Timer
  BY <1>3, TimerStep
<1>4. ASSUME NEW t \in Task, Run(t) PROVE \E R : TasksInv(R)'
  <2>1. CASE Down(t)
    BY <2>1, DownFreeStep, DownBlockStep
  <2>2. CASE Up(t)
    BY <2>2, UpStep
  <2>3. CASE kernel_thread(t) \/ start_process(t) \/ ToUser(t) \/ Getpid(t) \/ CallHeap(t)
    BY <2>3, KernelThreadStep, StartProcessStep, ToUserStep, GetpidStep, CallHeapStep
  <2> QED BY <1>4, <2>1, <2>2, <2>3 DEF Run
<1>5. CASE UNCHANGED vars
  <2>1. /\ Types /\ BootInv /\ MakeInv /\ SchedInv(Q) /\ LockInv /\ HomeInv /\ PidInv /\ FrameInv
    BY DEF TasksInv
  <2>2. /\ UNCHANGED <<pcb, links, current, resume, pc, holder, cr3, esp0, next_pid, made, curr, frame, got, halted>>
        /\ intr' = intr /\ UNCHANGED bootVars
    BY <1>5 DEF vars, taskVars
  <2>3. Born' = Born /\ AllMade' = AllMade /\ new' = new
    BY <2>2, BornKept
  <2>4. Types' /\ LockInv' /\ BootInv'
    BY <2>1, <2>2, <2>3 DEF Types, LockInv, BootInv, bootVars
  <2>5. MakeInv' /\ HomeInv'
    BY <2>1, <2>2, <2>3 DEF MakeInv, HomeInv, UserAtHome
  <2>6. PidInv' /\ FrameInv'
    BY <2>1, <2>2, <2>3 DEF PidInv, FrameInv
  <2>7. SchedInv(Q)'
    BY <2>1, <2>2, <2>3, SchedKept
  <2> QED BY <2>4, <2>5, <2>6, <2>7 DEF TasksInv
<1> QED BY <1>1, <1>2, <1>3, <1>4, <1>5 DEF TasksNext

(* The inductive invariant: there are queues that the pointers hold.       *)
Invariant == \E Q : TasksInv(Q)

(* It holds throughout.                                                    *)
LEMMA InvStays == TasksSpec => []Invariant
<1>1. TasksInit => Invariant
  BY InitInv DEF Invariant
<1>2. Invariant /\ [TasksNext]_vars => Invariant'
  BY NextInv DEF Invariant
<1> QED BY <1>1, <1>2, PTL DEF TasksSpec
-----------------------------------------------------------------------------
(* The tags of a sequence of tasks are the tags of the tasks in it.        *)
LEMMA RangeOfTags ==
  ASSUME NEW s \in Seq(Task), NEW S \in SUBSET Task, \A t \in Task : In(t, s) <=> t \in S
  PROVE  Range(Tags(s)) = {Tag(t) : t \in S}
<1>1. DOMAIN Tags(s) = 1..Len(s) /\ \A i \in 1..Len(s) : Tags(s)[i] = Tag(s[i]) /\ s[i] \in Task
  BY DEF Tags
<1>2. \A i \in 1..Len(s) : s[i] \in S
  BY <1>1 DEF In
<1>3. \A t \in S : \E i \in 1..Len(s) : s[i] = t
  BY DEF In
<1> QED BY <1>1, <1>2, <1>3 DEF Range

(* The lists are the queues of the invariant.                              *)
LEMMA InvLinked ==
  ASSUME NEW Q, TasksInv(Q)
  PROVE  WellLinked
<1>1. Types /\ MakeInv /\ SchedInv(Q) /\ Born \subseteq Task
  BY BornIs DEF TasksInv
<1>2. Holds(links, Q, AllMade) /\ Queued(pcb, Q, Born) /\ Q \in [Queue -> Seq(Task)]
  BY <1>1 DEF SchedInv, Holds
<1>3. ASSUME NEW n \in Queue, NEW S \in SUBSET Task, \A t \in Task : t \in S <=> t \in Born /\ QueueOf(pcb, t) = n
      PROVE  InList(List(n), S)
  <2>1. Visited(links, List(n)) = Tags(Q[n])
    BY <1>2, HoldsFind
  <2>2. IsList(links, List(n), Tags(Q[n])) /\ Q[n] \in Seq(Task)
    BY <1>2 DEF Holds
  <2>3. Range(Tags(Q[n])) = {Tag(t) : t \in S}
    BY <1>2, <1>3, <2>2, RangeOfTags DEF Queued
  <2> QED BY <2>1, <2>2, <2>3 DEF InList
<1>4. \A t \in Born : /\ pcb[t].status \in Status /\ pool(t) \in Lock /\ pool(t) # "ready"
                      /\ pcb[t].status = "READY" <=> QueueOf(pcb, t) = "ready"
                      /\ pcb[t].status = "BLOCKED" => QueueOf(pcb, t) = pool(t)
                      /\ pcb[t].status = "RUNNING" => QueueOf(pcb, t) = "none"
  BY <1>1 DEF Types, Pcb, Status, QueueOf, pool, Lock
<1>5. InList(ready, {t \in Born : pcb[t].status = "READY"})
  <2> DEFINE S == {t \in Born : pcb[t].status = "READY"}
  <2>1. "ready" \in Queue /\ S \in SUBSET Task /\ \A t \in Task : t \in S <=> t \in Born /\ QueueOf(pcb, t) = "ready"
    BY <1>1, <1>4 DEF Queue
  <2> HIDE DEF S
  <2> QED BY <1>3, <2>1 DEF S, ready
<1>6. ASSUME NEW l \in Lock
      PROVE  InList(List(l), {t \in Born : pcb[t].status = "BLOCKED" /\ pool(t) = l})
  <2> DEFINE S == {t \in Born : pcb[t].status = "BLOCKED" /\ pool(t) = l}
  <2>1. l \in Queue /\ l # "ready" /\ l # "none"
    BY DEF Queue, Lock
  <2>2. S \in SUBSET Task /\ \A t \in Task : t \in S <=> t \in Born /\ QueueOf(pcb, t) = l
    BY <1>1, <1>4, <2>1 DEF Status
  <2> HIDE DEF S
  <2> QED BY <1>3, <2>1, <2>2 DEF S
<1>7. Visited(links, all) = AllTags(AllMade) /\ IsList(links, all, AllTags(AllMade))
  BY <1>2, HoldsFindAll DEF Holds
<1>8. AllTags(AllMade) = <<AllTag(Main)>> \o [i \in 1..made |-> AllTag(Programme[i])]
  <2> DEFINE r == [i \in 1..made |-> AllTag(Programme[i])]
             q == [i \in 1..(made + 1) |-> IF i = 1 THEN AllTag(Main) ELSE r[i - 1]]
  <2>1. made \in Nat /\ Len(AllMade) = made + 1 /\ \A i \in 1..made : Programme[i] \in Task
    BY <1>1, BornIs
  <2>2. \A i \in 1..made : AllTag(Programme[i]) \in Nodes
    BY <2>1 DEF AllTag, Nodes
  <2>3. r \in Seq(Nodes) /\ Len(r) = made
    BY <2>1, <2>2
  <2>4. AllTags(AllMade) = q
    <3>1. \A i \in 1..(made + 1) : i = 1 \/ i - 1 \in 1..made
      BY <2>1
    <3>2. \A i \in 1..(made + 1) : AllTag(AllMade[i]) = IF i = 1 THEN AllTag(Main) ELSE r[i - 1]
      BY <3>1 DEF AllMade
    <3> QED BY <2>1, <3>2 DEF AllTags
  <2>5. AllTag(Main) \in Nodes
    BY TaskAssumption DEF AllTag, Nodes
  <2>6. ASSUME NEW s \in Seq(Nodes), NEW x \in Nodes
        PROVE  <<x>> \o s = [i \in 1..(Len(s) + 1) |-> IF i = 1 THEN x ELSE s[i - 1]]
    <3> DEFINE z == <<x>> \o s
    <3>1. z \in Seq(Nodes) /\ Len(z) = Len(s) + 1 /\ \A i \in 1..(Len(s) + 1) : z[i] = IF i = 1 THEN x ELSE s[i - 1]
      BY <2>6
    <3> HIDE DEF z
    <3>2. z = [i \in 1..Len(z) |-> z[i]]
      BY <3>1
    <3> QED BY <3>1, <3>2 DEF z
  <2> HIDE DEF r
  <2>7. <<AllTag(Main)>> \o r = q
    <3>1. <<AllTag(Main)>> \o r = [i \in 1..(Len(r) + 1) |-> IF i = 1 THEN AllTag(Main) ELSE r[i - 1]]
      BY <2>3, <2>5, <2>6
    <3> QED BY <2>3, <3>1
  <2> HIDE DEF q
  <2> QED BY <2>4, <2>7 DEF r
<1> QED BY <1>5, <1>6, <1>7, <1>8 DEF WellLinked

(* The pids are the ones allocate_pid counted.                             *)
LEMMA InvPids ==
  ASSUME NEW Q, TasksInv(Q)
  PROVE  PidsTellApart
<1>1. Types /\ MakeInv /\ PidInv /\ made \in Nat
  BY BornIs DEF TasksInv
<1> DEFINE Nth(t, i) == /\ pcb[t].pid = i + 1
                        /\ (i = 0 /\ t = Main) \/ (i \in 1..made /\ t = Programme[i]) \/ (i = made + 1 /\ t = new)
<1>2. \A t \in Born : \E i \in 0..(made + 1) : Nth(t, i)
  <2> SUFFICES ASSUME NEW t \in Born PROVE \E i \in 0..(made + 1) : Nth(t, i)
    OBVIOUS
  <2>1. CASE t = Main
    <3>1. 0 \in 0..(made + 1) /\ Nth(t, 0)
      BY <1>1, <2>1 DEF PidInv
    <3> QED BY <3>1
  <2>2. CASE \E i \in 1..made : t = Programme[i]
    <3>1. PICK i \in 1..made : t = Programme[i]
      BY <2>2
    <3>2. i \in 0..(made + 1) /\ Nth(t, i)
      BY <1>1, <3>1 DEF PidInv
    <3> QED BY <3>2
  <2>3. CASE pc[Main] = "all" /\ t = new
    <3>1. made + 1 \in 0..(made + 1) /\ Nth(t, made + 1)
      BY <1>1, <2>3 DEF PidInv
    <3> QED BY <3>1
  <2> QED BY <2>1, <2>2, <2>3 DEF Born
<1>3. ASSUME NEW t \in Born, NEW u \in Born, pcb[t].pid = pcb[u].pid PROVE t = u
  <2>1. PICK i \in 0..(made + 1) : Nth(t, i)
    BY <1>2
  <2>2. PICK j \in 0..(made + 1) : Nth(u, j)
    BY <1>2
  <2>3. i = j
    <3>1. i + 1 = j + 1
      BY <1>3, <2>1, <2>2
    <3> QED BY <1>1, <3>1
  <2> QED BY <1>1, <2>1, <2>2, <2>3 DEF new
<1>4. Process \subseteq Task
  BY TaskAssumption
<1> QED BY <1>1, <1>3, <1>4 DEF PidsTellApart, PidInv

(* The tables are filled in when interrupts are enabled.                   *)
LEMMA InvReady ==
  ASSUME NEW Q, TasksInv(Q)
  PROVE  ReadyForInterrupts
<1>1. BootInv
  BY DEF TasksInv
<1> SUFFICES ASSUME intr, NEW v \in unmasked
             PROVE  /\ handlers[v] \in DOMAIN Needs \ {"general_intr_handler"}
                    /\ Needs[handlers[v]] \subseteq ready_parts
  BY DEF ReadyForInterrupts
<1>2. booted = 8
  BY <1>1 DEF BootInv
<1>3. /\ unmasked = {Clock, Keys} /\ handlers[Clock] = "intr_timer_handler"
      /\ handlers[Keys] = "intr_keyboard_handler"
      /\ {"main_thread", "thread_lists", "kbd_buf", "tss"} \subseteq ready_parts
  BY <1>1, <1>2 DEF BootInv
<1> QED BY <1>3 DEF Needs

(* In every state of every execution the pointers form the lists the       *)
(* scheduler means: exactly the ready tasks on the ready list, exactly the *)
(* tasks blocked on a lock among its waiters, and all tasks, in the order  *)
(* of their creation, on thread_all_list, whatever tasks main creates and  *)
(* wherever the timer interrupts.                                          *)
THEOREM ListsStayLinked == TasksSpec => []WellLinked
<1>1. Invariant => WellLinked
  BY InvLinked DEF Invariant
<1> QED BY <1>1, InvStays, PTL

(* No assertion of the scheduler or of the creation of tasks ever fails:   *)
(* no task is put on a list it is on, schedule always finds a ready task,  *)
(* thread_unblock a blocked one, and the timer its handler.                *)
THEOREM TasksNeverPanic == TasksSpec => []TasksNoPanic
<1>1. Invariant => TasksNoPanic
  BY DEF Invariant, TasksInv, SchedInv, TasksNoPanic
<1> QED BY <1>1, InvStays, PTL

(* start_process fills in the room that thread_create left, whatever       *)
(* switches come before it: given that at most Patience ticks, which are   *)
(* not more than a time slice, come before it does.                        *)
THEOREM FramesInPlace == TasksSpec => []FrameInPlace
<1>1. Invariant => FrameInPlace
  BY TaskAssumption DEF Invariant, TasksInv, Types, FrameInPlace
<1> QED BY <1>1, InvStays, PTL

(* After every switch a process runs on its own page directory, with its   *)
(* own ring 0 stack in the TSS, and a kernel task on the kernel's          *)
(* directory.                                                              *)
THEOREM UsersStayAtHome == TasksSpec => []UserAtHome
<1>1. Invariant => UserAtHome
  BY DEF Invariant, TasksInv, HomeInv
<1> QED BY <1>1, InvStays, PTL

(* Tasks have different pids, although allocate_pid reads the counter      *)
(* after it has released pid_lock, and getpid returns the caller's own.    *)
THEOREM PidsStayApart == TasksSpec => []PidsTellApart
<1>1. Invariant => PidsTellApart
  BY InvPids DEF Invariant
<1> QED BY <1>1, InvStays, PTL

(* While interrupts are enabled, every interrupt that the 8259A lets       *)
(* through finds its handler and all that the handler uses.                *)
THEOREM InterruptsFindHandlers == TasksSpec => []ReadyForInterrupts
<1>1. Invariant => ReadyForInterrupts
  BY InvReady DEF Invariant
<1> QED BY <1>1, InvStays, PTL
-----------------------------------------------------------------------------
(* Threads sees nothing of the start, nor of what main does to a task that *)
(* is in no queue yet.                                                     *)
LEMMA MainUnseen ==
  ASSUME NEW Q, TasksInv(Q),
         Start \/ InitThread \/ InitRest \/ ThreadCreate \/ SetPgdir \/ FindFirst \/ FindNext \/ AppendAll
  PROVE  Unseen
<1>1. Types /\ MakeInv /\ Main \in Task /\ Born \subseteq Task
  BY BornIs, TaskAssumption DEF TasksInv
<1>2. TasksInv(Q)'
  BY StartStep, InitThreadStep, InitRestStep, ThreadCreateStep, SetPgdirStep, FindFirstStep, FindNextStep, AppendAllStep
<1>3. CASE Start
  <2>1. UNCHANGED <<pcb, current, resume, made>> /\ (pc'[Main] = "all" <=> pc[Main] = "all")
    BY <1>1, <1>3 DEF Start, taskVars, At, Goto, Types
  <2>2. Born' = Born
    BY <2>1, BornKept
  <2> QED BY <1>2, <2>1, <2>2, NotSeen
<1>4. ASSUME NEW label, NEW after, NEW p, PcbStep(label, after, p), label \in {"init", "pid", "create", "pgdir"}, after # "all"
      PROVE  Unseen
  <2>1. /\ pc[Main] = label /\ pc'[Main] = after /\ made' = made /\ UNCHANGED <<current, resume>>
        /\ pcb' = [pcb EXCEPT ![new] = p]
    BY <1>1, <1>4 DEF PcbStep, At, Goto, Types
  <2>2. Born' = Born
    BY <1>4, <2>1, BornKept
  <2>3. new \notin Born
    BY <1>1, <1>4, <2>1, BornIs DEF MakeInv
  <2>4. \A t \in Born : pcb'[t] = pcb[t]
    BY <1>1, <2>1, <2>3 DEF Types
  <2> QED BY <1>2, <2>1, <2>2, <2>4, NotSeen
<1>5. CASE InitThread \/ InitRest \/ ThreadCreate \/ SetPgdir
  BY <1>4, <1>5 DEF InitThread, InitRest, ThreadCreate, SetPgdir
<1>6. ASSUME NEW label, NEW after, ListStep(label, after), Born' = Born PROVE Unseen
  BY <1>2, <1>6, NotSeen DEF ListStep
<1>7. CASE FindFirst
  <2>1. ListStep("find", "walk") /\ made' = made
    BY <1>7 DEF FindFirst
  <2>2. Born' = Born
    BY <1>1, <2>1, BornKept DEF ListStep, At, Goto, Types
  <2> QED BY <1>6, <2>1, <2>2
<1>8. CASE FindNext
  <2>1. PICK after \in {"append", "lost", "walk"} : ListStep("walk", after) /\ made' = made
    BY <1>8 DEF FindNext
  <2>2. Born' = Born
    BY <1>1, <2>1, BornKept DEF ListStep, At, Goto, Types
  <2> QED BY <1>6, <2>1, <2>2
<1>9. CASE AppendAll
  BY <1>6, <1>9, AppendAllStep DEF AppendAll
<1> QED BY <1>3, <1>5, <1>7, <1>8, <1>9

(* Nor of the steps of a task that keeps the CPU and wakes nobody.         *)
LEMMA TaskUnseen ==
  ASSUME NEW Q, TasksInv(Q), NEW t \in Task,
         \/ Down(t) /\ holder[pool(t)] = NULL
         \/ kernel_thread(t) \/ start_process(t) \/ ToUser(t) \/ Getpid(t) \/ CallHeap(t)
  PROVE  Unseen
<1>1. Types /\ MakeInv /\ SchedInv(Q) /\ Main \in Task /\ Born \subseteq Task
  BY BornIs, TaskAssumption DEF TasksInv
<1>2. TasksInv(Q)'
  BY DownFreeStep, KernelThreadStep, StartProcessStep, ToUserStep, GetpidStep, CallHeapStep
<1>3. CASE Down(t) /\ holder[pool(t)] = NULL
  <2>1. UNCHANGED <<pcb, current, resume, pc, made>>
    BY <1>3 DEF Down
  <2>2. Born' = Born
    BY <2>1, BornKept
  <2> QED BY <1>2, <2>1, <2>2, NotSeen
<1>4. ASSUME NEW label, NEW after, TaskStep(t, label, after), label \notin MainLabel,
             \A u \in Born : pcb'[u].status = pcb[u].status /\ pcb'[u].ticks = pcb[u].ticks
      PROVE  Unseen
  <2>1. t # Main /\ pc'[Main] = pc[Main] /\ UNCHANGED <<current, resume, made>>
    BY <1>1, <1>4 DEF TaskStep, At, Goto, Types, Label
  <2>2. Born' = Born
    BY <2>1, BornKept
  <2> QED BY <1>2, <1>4, <2>1, <2>2, NotSeen
<1>5. \A label \in {"born", "fresh", "iret", "user", "work"} : label \notin MainLabel
  BY DEF MainLabel
<1>6. CASE start_process(t)
  <2>1. PICK k : pcb' = [pcb EXCEPT ![t].kstack = k]
    BY <1>6 DEF start_process
  <2>2. \A u \in Born : pcb'[u].status = pcb[u].status /\ pcb'[u].ticks = pcb[u].ticks
    <3>1. pcb \in [Task -> Pcb] /\ pcb[t] \in Pcb
      BY <1>1 DEF Types
    <3> QED BY <1>1, <2>1, <3>1 DEF Pcb
  <2>3. TaskStep(t, "fresh", "stack")
    BY <1>6 DEF start_process
  <2> QED BY <1>4, <1>5, <2>2, <2>3
<1>7. CASE kernel_thread(t)
  <2>1. PICK after : TaskStep(t, "born", after)
    BY <1>7 DEF kernel_thread
  <2>2. pcb' = pcb
    BY <1>7 DEF kernel_thread
  <2> QED BY <1>4, <1>5, <2>1, <2>2
<1>8. CASE ToUser(t) \/ Getpid(t) \/ CallHeap(t)
  <2>1. PICK label, after : label \in {"iret", "user", "work"} /\ TaskStep(t, label, after)
    BY <1>8 DEF ToUser, Getpid, CallHeap
  <2>2. pcb' = pcb
    BY <1>8 DEF ToUser, Getpid, CallHeap
  <2> QED BY <1>4, <1>5, <2>1, <2>2
<1> QED BY <1>3, <1>6, <1>7, <1>8

(* Every step is one of Threads, or not seen.                              *)
LEMMA NextScheduler ==
  ASSUME NEW Q, TasksInv(Q), Awaits, TasksNext
  PROVE  SchedulerStep
<1>1. CASE Start \/ InitThread \/ InitRest \/ ThreadCreate \/ SetPgdir \/ FindFirst \/ FindNext \/ AppendAll
  BY <1>1, MainUnseen DEF SchedulerStep, Unseen
<1>2. CASE InsertProcess \/ AppendReady
  <2>1. T!thread_start(new)
    BY <1>2, InsertProcessStep, AppendReadyStep
  <2>2. new \in Task
    <3>1. Types /\ MakeInv
      BY DEF TasksInv
    <3>2. pc[Main] \in {"insert", "append"}
      BY <1>2 DEF InsertProcess, AppendReady, ListStep, At
    <3> QED BY <3>1, <3>2, BornIs DEF MakeInv
  <2> HIDE DEF new
  <2> QED BY <2>1, <2>2 DEF SchedulerStep
<1>3. CASE Timer
  BY <1>3, TimerStep DEF SchedulerStep
<1>4. ASSUME NEW t \in Task, Run(t) PROVE SchedulerStep
  <2>1. CASE Down(t) /\ holder[pool(t)] # NULL
    BY <2>1, DownBlockStep DEF SchedulerStep
  <2>2. CASE Up(t)
    BY <2>2, UpStep
  <2>3. CASE \/ Down(t) /\ holder[pool(t)] = NULL
             \/ kernel_thread(t) \/ start_process(t) \/ ToUser(t) \/ Getpid(t) \/ CallHeap(t)
    BY <2>3, TaskUnseen DEF SchedulerStep, Unseen
  <2> QED BY <1>4, <2>1, <2>2, <2>3 DEF Run
<1> QED BY <1>1, <1>2, <1>3, <1>4 DEF TasksNext, Create

(* No task goes back to its first step.                                    *)
LEMMA AwaitsKept ==
  ASSUME Types, Awaits, NEW t \in Task, NEW after, after # "born", pc' = [pc EXCEPT ![t] = after], resume' = resume
  PROVE  Awaits'
<1>1. \A u \in Task : pc'[u] = "born" => pc[u] = "born"
  BY DEF Types
<1> QED BY <1>1 DEF Awaits

(* The saved flag changes for the task that leaves the CPU, which is past  *)
(* its first step.                                                         *)
LEMMA SwitchAwaits ==
  ASSUME Types, Awaits, NEW flag \in BOOLEAN, pc[current] # "born", pc' = pc,
         resume' \in {resume, [resume EXCEPT ![current] = flag]}
  PROVE  Awaits'
<1>1. \A u \in Task : pc[u] = "born" => resume'[u] = resume[u]
  BY DEF Types
<1> QED BY <1>1 DEF Awaits

(* Every new task keeps the flag it starts with until it starts.           *)
LEMMA NextAwaits ==
  ASSUME NEW Q, TasksInv(Q), Awaits, [TasksNext]_vars
  PROVE  Awaits'
<1>1. Types /\ FrameInv /\ Main \in Task /\ running_thread = current
  BY RunningThread, TaskAssumption DEF TasksInv
<1>2. CASE UNCHANGED <<pc, resume>>
  BY <1>2 DEF Awaits
<1>3. CASE Start
  <2>1. UNCHANGED <<pc, resume>> \/ (Goto(Main, "page") /\ resume' = resume)
    BY <1>3 DEF Start, taskVars
  <2> QED BY <1>1, <1>2, <2>1, AwaitsKept DEF Goto
<1>4. CASE Create
  <2>1. CASE InitThread \/ InitRest \/ ThreadCreate \/ SetPgdir
    <3>1. PICK after : after # "born" /\ Goto(Main, after) /\ resume' = resume
      BY <2>1 DEF InitThread, InitRest, ThreadCreate, SetPgdir, PcbStep
    <3> QED BY <1>1, <3>1, AwaitsKept DEF Goto
  <2>2. CASE InsertProcess \/ AppendAll
    <3>1. PICK after : after # "born" /\ Goto(Main, after) /\ resume' = resume
      BY <2>2 DEF InsertProcess, AppendAll, ListStep, AfterNew
    <3> QED BY <1>1, <3>1, AwaitsKept DEF Goto
  <2>3. CASE FindFirst \/ AppendReady
    <3>1. PICK after : after # "born" /\ Goto(Main, after) /\ resume' = resume
      BY <2>3 DEF FindFirst, AppendReady, ListStep
    <3> QED BY <1>1, <3>1, AwaitsKept DEF Goto
  <2>4. CASE FindNext
    <3>1. PICK after \in {"append", "lost", "walk"} : ListStep("walk", after)
      BY <2>4 DEF FindNext
    <3>2. after # "born" /\ Goto(Main, after) /\ resume' = resume
      BY <3>1 DEF ListStep
    <3> QED BY <1>1, <3>2, AwaitsKept DEF Goto
  <2> QED BY <1>4, <2>1, <2>2, <2>3, <2>4 DEF Create
<1>5. CASE Timer
  <2>1. pc' = pc /\ intr /\ resume' \in {resume, [resume EXCEPT ![current] = TRUE]}
    BY <1>1, <1>5 DEF Timer, schedule, Switch, panic_spin
  <2>2. pc[current] # "born"
    BY <1>1, <2>1 DEF FrameInv
  <2> QED BY <1>1, <2>1, <2>2, SwitchAwaits
<1>6. ASSUME NEW t \in Task, Run(t) PROVE Awaits'
  <2>1. CASE Down(t)
    <3>1. pc' = pc /\ current = t /\ pc[t] # "born" /\ resume' \in {resume, [resume EXCEPT ![t] = FALSE]}
      BY <2>1 DEF Down, schedule, Switch, panic_spin, Alloc
    <3> QED BY <1>1, <3>1, SwitchAwaits
  <2>2. CASE Up(t)
    <3>1. pc[t] \in Alloc /\ Goto(t, After(t)) /\ resume' = resume
      BY <2>2 DEF Up, thread_unblock, panic_spin
    <3>2. After(t) # "born"
      BY <1>1, <3>1, AfterIs
    <3> QED BY <1>1, <3>1, <3>2, AwaitsKept DEF Goto
  <2>3. CASE kernel_thread(t) \/ start_process(t) \/ ToUser(t) \/ Getpid(t) \/ CallHeap(t)
    <3>1. PICK label, after : after # "born" /\ TaskStep(t, label, after)
      BY <2>3 DEF kernel_thread, start_process, ToUser, Getpid, CallHeap
    <3> QED BY <1>1, <3>1, AwaitsKept DEF Goto, TaskStep
  <2> QED BY <1>6, <2>1, <2>2, <2>3 DEF Run
<1>7. CASE UNCHANGED vars
  BY <1>2, <1>7 DEF vars, taskVars
<1> QED BY <1>3, <1>4, <1>5, <1>6, <1>7 DEF TasksNext

(* The pointers, stacks and page directories implement the scheduler that  *)
(* Sync and IoQueue are built on: each step of Tasks is a step of Threads, *)
(* or changes at most the interrupt flag.                                  *)
THEOREM ImplementsScheduler == TasksSpec => IsScheduler
<1>1. TasksInit => Awaits
  BY DEF TasksInit, Awaits
<1>2. Invariant /\ Awaits /\ [TasksNext]_vars => Awaits'
  BY NextAwaits DEF Invariant
<1>3. Invariant /\ Awaits /\ [TasksNext]_vars => [SchedulerStep]_(T!schedVars)
  <2>1. CASE TasksNext
    BY <2>1, NextScheduler DEF Invariant
  <2>2. CASE UNCHANGED vars
    <3>1. UNCHANGED <<current, links, pcb, made, pc, intr, resume, halted>>
      BY <2>2 DEF vars, taskVars
    <3>2. Born' = Born
      BY <3>1, BornKept
    <3> QED BY <3>1, <3>2 DEF T!schedVars, readySeq, bornStatus, bornTicks, enabled
  <2> QED BY <2>1, <2>2
<1> QED BY <1>1, <1>2, <1>3, InvStays, PTL DEF TasksSpec, IsScheduler
=============================================================================
