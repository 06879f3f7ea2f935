----------------------------- MODULE HeapProofs ------------------------------
(***************************************************************************)
(* Proofs about sys_malloc and sys_free: for any size of a page, of the    *)
(* struct arena and of the heap, any descriptors and any sizes asked for,  *)
(* what is given out never overlaps, the counts of the arenas agree with   *)
(* the free lists, no page is kept for nothing, and the assertions about   *)
(* the lists do not fail.                                                  *)
(*                                                                         *)
(* The parts of the invariant are stated of values, not of variables, so   *)
(* that an action that does two things (a page becomes an arena, then a    *)
(* block is taken from it; a block is put back, then its arena is dropped) *)
(* is two steps through a state that is never seen.                        *)
(***************************************************************************)
EXTENDS Heap, BitmapProofs, FiniteSetTheorems

SmallArena == [desc : Desc, cnt : Nat, large : {FALSE}]
LargeArena == [desc : {NoDesc}, cnt : Nat \ {0}, large : {TRUE}]

(* The blocks of an arena as a set.                                        *)
BlockSet(a, d) == Range(Blocks(a, d))

IsSmall(ar, a) == ar[a] \in SmallArena
IsLarge(ar, a) == ar[a] \in LargeArena

(* The pages of an arena.                                                  *)
Span(ar, a) == IF ar[a] = NoArena THEN {}
               ELSE IF ar[a].large THEN a..(a + ar[a].cnt - 1) ELSE {a}

(* g was given out of the arena a.                                         *)
From(ar, g, a) ==
  \/ /\ IsLarge(ar, a)
     /\ g.ptr = a * PG_SIZE + ArenaSize
     /\ g.size + ArenaSize <= ar[a].cnt * PG_SIZE
  \/ /\ IsSmall(ar, a)
     /\ g.ptr \in BlockSet(a, ar[a].desc)
     /\ g.size <= block_size(ar[a].desc)
-----------------------------------------------------------------------------
(* The invariant.  fr[d] is the set of the free blocks of a descriptor.    *)
Types(ar, fr, gv) ==
  /\ ar \in [Page -> {NoArena} \cup SmallArena \cup LargeArena]
  /\ fr \in [Desc -> SUBSET Nat]
  /\ gv \subseteq [ptr : Nat, size : Sizes]
  /\ \A d \in Desc : \A b \in fr[d] : block2arena(b) \in Page
  /\ \A g \in gv : block2arena(g.ptr) \in Page

(* What is free in the page a are blocks of the arena there.               *)
FreeAt(ar, fr, a) ==
  \A d \in Desc : \A b \in fr[d] :
    block2arena(b) = a => IsSmall(ar, a) /\ ar[a].desc = d /\ b \in BlockSet(a, d)

(* What is given in the page a was given out of the arena there, once.     *)
GivenAt(ar, gv, a) ==
  /\ \A g \in gv : block2arena(g.ptr) = a => From(ar, g, a)
  /\ \A g, h \in gv : block2arena(g.ptr) = a /\ g.ptr = h.ptr => g = h

(* The blocks of the arena are counted while they are free, and given      *)
(* while they are not.                                                     *)
CountAt(ar, fr, gv, a) ==
  IsSmall(ar, a) =>
    /\ ar[a].cnt = Cardinality(BlockSet(a, ar[a].desc) \cap fr[ar[a].desc])
    /\ \A b \in BlockSet(a, ar[a].desc) :
         b \in fr[ar[a].desc] <=> ~ \E g \in gv : g.ptr = b

HeapOk(ar, fr, gv) ==
  /\ Types(ar, fr, gv)
  /\ \A a \in Page : FreeAt(ar, fr, a) /\ GivenAt(ar, gv, a) /\ CountAt(ar, fr, gv, a)

(* The arenas lie apart within the heap, and their pages are the ones that *)
(* are marked.                                                             *)
SpansOk(ar) ==
  /\ \A a \in Page : Span(ar, a) \subseteq Page
  /\ \A a, c \in Page : \A p \in Span(ar, a) : p \in Span(ar, c) => a = c

MapOk(ar, vm) ==
  /\ vm \in Bitmaps(PageBytes)
  /\ SpansOk(ar)
  /\ \A p \in Page : bitmap_scan_test(vm, p) <=> \E a \in Page : p \in Span(ar, a)

(* Every frame of the pool is free, somebody else's, or behind a page.     *)
Marked(vm) == {p \in Page : bitmap_scan_test(vm, p)}
FramesOk(vm, fm, ot) ==
  fm \in Nat /\ ot \in Nat /\ fm + ot + Cardinality(Marked(vm)) = PoolFrames

ListsOk(fl) ==
  /\ fl = [d \in Desc |-> fl[d]]
  /\ \A d \in Desc : fl[d] \in Seq(Nat) /\ IsInjective(fl[d])

UsedOk(ar, gv) == \A a \in Page : ar[a] # NoArena => \E g \in gv : block2arena(g.ptr) = a

FreeSets(fl) == [d \in Desc |-> Range(fl[d])]

(* The inductive invariant.  When frames run out, pages are left marked    *)
(* that no arena has.                                                      *)
HInv ==
  /\ HeapOk(arena, FreeSets(free_list), given)
  /\ SpansOk(arena) /\ vaddr \in Bitmaps(PageBytes) /\ frames \in Nat /\ others \in Nat
  /\ failed = "none" => MapOk(arena, vaddr) /\ FramesOk(vaddr, frames, others)
  /\ ListsOk(free_list)
  /\ UsedOk(arena, given)
  /\ ListsNeverPanic
  /\ failed \in {"none", "malloc_page", "bitmap_scan"}
-----------------------------------------------------------------------------
(* The constants.                                                          *)
LEMMA Consts ==
  /\ PG_SIZE \in Nat \ {0} /\ ArenaSize \in Nat \ {0} /\ ArenaSize < PG_SIZE
  /\ PageBytes \in Nat \ {0} /\ DescCnt \in Nat \ {0}
  /\ Page = BitIndex(PageBytes) /\ Page \subseteq Nat /\ 0 \in Desc /\ DescCnt - 1 \in Desc
  /\ NoDesc \notin Desc
<1>1. /\ PG_SIZE \in Nat \ {0} /\ ArenaSize \in Nat \ {0}
      /\ PageBytes \in Nat \ {0} /\ DescCnt \in Nat \ {0}
  BY HeapAssumption
<1>2. 0 \in Desc /\ DescCnt - 1 \in Desc /\ NoDesc \notin Desc
  BY <1>1 DEF Desc, NoDesc
<1>3. block_size(0) \in 1..(PG_SIZE - ArenaSize)
  BY <1>2, HeapAssumption
<1>4. ArenaSize < PG_SIZE
  BY <1>1, <1>3
<1> QED BY <1>1, <1>2, <1>4 DEF Page, BitIndex

(* A block is smaller than what an arena leaves of a page, so an arena has *)
(* blocks.                                                                 *)
LEMMA BlockSizes ==
  ASSUME NEW d \in Desc
  PROVE  /\ block_size(d) \in Nat \ {0}
         /\ blocks_per_arena(d) \in Nat \ {0}
         /\ ArenaSize + blocks_per_arena(d) * block_size(d) <= PG_SIZE
<1> DEFINE s == block_size(d)
           m == PG_SIZE - ArenaSize
<1>1. s \in 1..m /\ m \in Nat /\ s \in Nat \ {0}
  BY HeapAssumption, Consts
<1> HIDE DEF s
<1>2. m \div s \in Nat /\ (m \div s) * s <= m
  BY <1>1
<1>3. m \div s # 0
  BY <1>1
<1> QED BY <1>1, <1>2, <1>3, Consts DEF s, blocks_per_arena

(* The byte x of the n pages from a on is in the page x \div PG_SIZE.      *)
LEMMA PageOfByte ==
  ASSUME NEW a \in Nat, NEW r \in 0..(PG_SIZE - 1)
  PROVE  block2arena(a * PG_SIZE + r) = a
<1>1. PG_SIZE \in Nat \ {0}
  BY Consts
<1> QED BY <1>1 DEF block2arena

(* Where a block lies: in its page, behind the struct arena.               *)
LEMMA BlockLies ==
  ASSUME NEW a \in Nat, NEW d \in Desc, NEW b \in BlockSet(a, d)
  PROVE  /\ b \in Nat
         /\ a * PG_SIZE + ArenaSize <= b /\ b + block_size(d) <= a * PG_SIZE + PG_SIZE
         /\ block2arena(b) = a
<1> DEFINE n == blocks_per_arena(d)
           s == block_size(d)
<1>1. PICK i \in 1..n : b = a * PG_SIZE + ArenaSize + (i - 1) * s
  BY DEF BlockSet, Range, Blocks, arena2block
<1>2. /\ n \in Nat \ {0} /\ s \in Nat \ {0} /\ ArenaSize + n * s <= PG_SIZE
      /\ PG_SIZE \in Nat /\ ArenaSize \in Nat \ {0}
  BY BlockSizes, Consts
<1> HIDE DEF n, s
<1>3. i \in Nat /\ i - 1 \in Nat /\ (i - 1) * s \in Nat /\ (i - 1) * s + s <= n * s /\ n * s \in Nat
  BY <1>1, <1>2
<1>4. /\ a * PG_SIZE \in Nat
      /\ ArenaSize + (i - 1) * s + s <= PG_SIZE
      /\ ArenaSize + (i - 1) * s \in 0..(PG_SIZE - 1)
  BY <1>2, <1>3
<1>5. b = a * PG_SIZE + (ArenaSize + (i - 1) * s)
  BY <1>1, <1>2, <1>3, <1>4
<1>6. block2arena(b) = a
  BY <1>4, <1>5, PageOfByte
<1> QED BY <1>2, <1>3, <1>4, <1>5, <1>6 DEF s

(* Different blocks of an arena are apart.                                 *)
LEMMA BlocksOfOne ==
  ASSUME NEW a \in Nat, NEW d \in Desc, NEW b \in BlockSet(a, d), NEW c \in BlockSet(a, d)
  PROVE  b = c \/ b + block_size(d) <= c \/ c + block_size(d) <= b
<1> DEFINE n == blocks_per_arena(d)
           s == block_size(d)
           o == a * PG_SIZE + ArenaSize
<1>1. PICK i \in 1..n : b = o + (i - 1) * s
  BY DEF BlockSet, Range, Blocks, arena2block
<1>2. PICK j \in 1..n : c = o + (j - 1) * s
  BY DEF BlockSet, Range, Blocks, arena2block
<1>3. n \in Nat /\ s \in Nat \ {0} /\ o \in Nat
  BY BlockSizes, Consts
<1> HIDE DEF n, s, o
<1>4. CASE i < j
  <2>1. (i - 1) * s + s <= (j - 1) * s /\ (i - 1) * s \in Nat /\ (j - 1) * s \in Nat
    BY <1>3, <1>4
  <2> QED BY <1>1, <1>2, <1>3, <2>1 DEF s
<1>5. CASE j < i
  <2>1. (j - 1) * s + s <= (i - 1) * s /\ (i - 1) * s \in Nat /\ (j - 1) * s \in Nat
    BY <1>3, <1>5
  <2> QED BY <1>1, <1>2, <1>3, <2>1 DEF s
<1>6. CASE i = j
  BY <1>1, <1>2, <1>6
<1> QED BY <1>4, <1>5, <1>6

(* Blocks(a, d) lists the blocks of an arena, none twice.                  *)
LEMMA BlocksList ==
  ASSUME NEW a \in Nat, NEW d \in Desc
  PROVE  /\ Blocks(a, d) \in Seq(Nat) /\ Blocks(a, d) # <<>>
         /\ IsInjective(Blocks(a, d))
         /\ IsFiniteSet(BlockSet(a, d))
         /\ Cardinality(BlockSet(a, d)) = blocks_per_arena(d)
<1> DEFINE n == blocks_per_arena(d)
           s == block_size(d)
           o == a * PG_SIZE + ArenaSize
           f == Blocks(a, d)
<1>1. n \in Nat \ {0} /\ s \in Nat \ {0} /\ o \in Nat
  BY BlockSizes, Consts
<1>2. f = [i \in 1..n |-> o + (i - 1) * s]
  BY DEF Blocks, arena2block
<1>3. BlockSet(a, d) = {f[i] : i \in DOMAIN f}
  BY DEF BlockSet, Range
<1> HIDE DEF n, s, o, f
<1>4. \A i \in 1..n : o + (i - 1) * s \in Nat
  <2> SUFFICES ASSUME NEW i \in 1..n PROVE o + (i - 1) * s \in Nat
    OBVIOUS
  <2>1. i - 1 \in Nat /\ (i - 1) * s \in Nat
    BY <1>1
  <2> QED BY <1>1, <2>1
<1>5. f \in [1..n -> Nat] /\ DOMAIN f = 1..n
  BY <1>2, <1>4
<1>6. f \in Seq(Nat) /\ f # <<>>
  <2>1. f \in Seq(Nat)
    BY <1>1, <1>5
  <2>2. 1 \in DOMAIN f
    BY <1>1, <1>5
  <2> QED BY <2>1, <2>2
<1>7. ASSUME NEW i \in 1..n, NEW j \in 1..n, f[i] = f[j]
      PROVE  i = j
  <2>1. o + (i - 1) * s = o + (j - 1) * s
    BY <1>2, <1>7
  <2>2. CASE i < j
    <3>1. (i - 1) * s + s <= (j - 1) * s /\ (i - 1) * s \in Nat /\ (j - 1) * s \in Nat
      BY <1>1, <2>2
    <3> QED BY <1>1, <2>1, <3>1
  <2>3. CASE j < i
    <3>1. (j - 1) * s + s <= (i - 1) * s /\ (i - 1) * s \in Nat /\ (j - 1) * s \in Nat
      BY <1>1, <2>3
    <3> QED BY <1>1, <2>1, <3>1
  <2> QED BY <2>2, <2>3
<1>8. f \in Surjection(1..n, BlockSet(a, d)) /\ f \in Injection(1..n, BlockSet(a, d))
  BY <1>3, <1>5, <1>7 DEF Surjection, Injection, IsInjective
<1>9. IsFiniteSet(1..n) /\ Cardinality(1..n) = n
  BY <1>1, FS_Interval
<1>10. IsFiniteSet(BlockSet(a, d)) /\ Cardinality(BlockSet(a, d)) = n
  BY <1>8, <1>9, FS_Surjection
<1> QED BY <1>5, <1>6, <1>7, <1>10 DEF f, n, IsInjective
-----------------------------------------------------------------------------
(* Lists without a node twice: taking the head, appending a node, and      *)
(* removing the nodes of an arena.                                         *)
LEMMA TailList ==
  ASSUME NEW l \in Seq(Nat), l # <<>>, IsInjective(l)
  PROVE  /\ Tail(l) \in Seq(Nat) /\ IsInjective(Tail(l))
         /\ Head(l) \in Range(l) /\ Range(Tail(l)) = Range(l) \ {Head(l)}
<1>1. /\ Tail(l) \in Seq(Nat) /\ Len(l) \in Nat \ {0} /\ DOMAIN l = 1..Len(l) /\ Head(l) = l[1]
      /\ DOMAIN Tail(l) = 1..(Len(l) - 1) /\ \A i \in 1..(Len(l) - 1) : Tail(l)[i] = l[i + 1]
  OBVIOUS
<1>2. IsInjective(Tail(l))
  <2> SUFFICES ASSUME NEW i \in 1..(Len(l) - 1), NEW j \in 1..(Len(l) - 1), l[i + 1] = l[j + 1]
               PROVE  i = j
    BY <1>1 DEF IsInjective
  <2>1. i + 1 \in 1..Len(l) /\ j + 1 \in 1..Len(l)
    BY <1>1
  <2>2. i + 1 = j + 1
    BY <1>1, <2>1 DEF IsInjective
  <2> QED BY <1>1, <2>2
<1>3. ASSUME NEW x \in Range(Tail(l))
      PROVE  x \in Range(l) \ {Head(l)}
  <2>1. PICK i \in 1..(Len(l) - 1) : x = l[i + 1]
    BY <1>1 DEF Range
  <2>2. i + 1 \in 1..Len(l) /\ i + 1 # 1 /\ 1 \in 1..Len(l)
    BY <1>1
  <2> QED BY <1>1, <2>1, <2>2 DEF Range, IsInjective
<1>4. ASSUME NEW x \in Range(l) \ {Head(l)}
      PROVE  x \in Range(Tail(l))
  <2>1. PICK i \in 1..Len(l) : x = l[i]
    BY <1>1 DEF Range
  <2>2. i - 1 \in 1..(Len(l) - 1) /\ (i - 1) + 1 = i
    BY <1>1, <2>1
  <2> QED BY <1>1, <2>1, <2>2 DEF Range
<1>5. Head(l) \in Range(l)
  BY <1>1 DEF Range
<1> QED BY <1>1, <1>2, <1>3, <1>4, <1>5

(* list_append of a block that is not on a free list.                      *)
LEMMA AppendList ==
  ASSUME NEW l \in Seq(Nat), NEW x \in Nat
  PROVE  /\ Append(l, x) \in Seq(Nat) /\ Range(Append(l, x)) = Range(l) \cup {x}
         /\ IsInjective(l) /\ x \notin Range(l) => IsInjective(Append(l, x))
<1> DEFINE m == Append(l, x)
<1>1. /\ m \in Seq(Nat) /\ Len(l) \in Nat /\ DOMAIN l = 1..Len(l)
      /\ DOMAIN m = 1..(Len(l) + 1) /\ m[Len(l) + 1] = x
      /\ \A i \in 1..Len(l) : m[i] = l[i]
  OBVIOUS
<1> HIDE DEF m
<1>2. \A i \in 1..(Len(l) + 1) : i = Len(l) + 1 \/ i \in 1..Len(l)
  BY <1>1
<1>3. Len(l) + 1 \in 1..(Len(l) + 1) /\ \A i \in 1..Len(l) : i \in 1..(Len(l) + 1)
  BY <1>1
<1>4. Range(m) = Range(l) \cup {x}
  BY <1>1, <1>2, <1>3 DEF Range
<1>5. IsInjective(l) /\ x \notin Range(l) => IsInjective(m)
  BY <1>1, <1>2, <1>3 DEF Range, IsInjective
<1> QED BY <1>1, <1>4, <1>5 DEF m

(* The loop that list_without stands for has a meaning.                    *)
KeptOf(g, l, out, n) ==
  g = [i \in 0..n |-> IF i = 0 THEN <<>>
                      ELSE IF l[i] \in out THEN g[i - 1] ELSE Append(g[i - 1], l[i])]

(* A function that satisfies the recursion exists.                         *)
LEMMA KeptExists ==
  ASSUME NEW l, NEW out, NEW n \in Nat
  PROVE  \E g : KeptOf(g, l, out, n)
<1> DEFINE S == {c \in Nat : \E g : KeptOf(g, l, out, c)}
<1>1. 0 \in S
  <2>1. KeptOf([i \in 0..0 |-> <<>>], l, out, 0)
    BY DEF KeptOf
  <2> QED BY <2>1
<1>2. ASSUME NEW c \in 0..(n - 1), c \in S
      PROVE  c + 1 \in S
  <2>1. PICK g : KeptOf(g, l, out, c)
    BY <1>2
  <2> DEFINE step(f) == [i \in 0..(c + 1) |->
                           IF i = 0 THEN <<>>
                           ELSE IF l[i] \in out THEN f[i - 1] ELSE Append(f[i - 1], l[i])]
             h == step(g)
             k == step(h)
  <2>2. \A i \in 0..c : h[i] = g[i]
    <3>1. \A i \in 0..c : g[i] = IF i = 0 THEN <<>>
                                 ELSE IF l[i] \in out THEN g[i - 1] ELSE Append(g[i - 1], l[i])
      BY <2>1 DEF KeptOf
    <3>2. \A i \in 0..c : h[i] = IF i = 0 THEN <<>>
                                 ELSE IF l[i] \in out THEN g[i - 1] ELSE Append(g[i - 1], l[i])
      OBVIOUS
    <3> HIDE DEF h
    <3> QED BY <3>1, <3>2, Zenon
  <2>3. \A i \in 0..(c + 1) : i # 0 => i - 1 \in 0..c
    OBVIOUS
  <2>4. h = k
    BY <2>2, <2>3
  <2>5. KeptOf(h, l, out, c + 1)
    BY <2>4 DEF KeptOf
  <2> QED BY <2>5
<1> HIDE DEF S
<1>3. n \in S
  BY <1>1, <1>2, UpTo
<1> QED BY <1>3 DEF S

(* sys_free takes the blocks of an arena off the free list and no others.  *)
LEMMA WithoutList ==
  ASSUME NEW l \in Seq(Nat), IsInjective(l), NEW out
  PROVE  /\ list_without(l, out) \in Seq(Nat) /\ IsInjective(list_without(l, out))
         /\ Range(list_without(l, out)) = Range(l) \ out
<1> DEFINE n == Len(l)
           g == CHOOSE f : KeptOf(f, l, out, n)
<1>1. n \in Nat /\ DOMAIN l = 1..n /\ \A i \in 1..n : l[i] \in Nat
  OBVIOUS
<1>2. KeptOf(g, l, out, n)
  BY <1>1, KeptExists, Zenon
<1>3. list_without(l, out) = g[n]
  BY DEF list_without, KeptOf
<1> HIDE DEF g, n
<1> DEFINE Good(i) == /\ g[i] \in Seq(Nat) /\ IsInjective(g[i])
                      /\ Range(g[i]) = {l[j] : j \in 1..i} \ out
           S == {i \in 0..n : Good(i)}
<1>4. 0 \in S
  <2>1. g[0] = <<>>
    BY <1>1, <1>2 DEF KeptOf
  <2>2. {l[j] : j \in 1..0} \ out = {} /\ Range(<<>>) = {} /\ IsInjective(<<>>)
    BY DEF Range, IsInjective
  <2>3. <<>> \in Seq(Nat)
    OBVIOUS
  <2>4. Good(0)
    BY <2>1, <2>2, <2>3
  <2> QED BY <1>1, <2>4
<1>5. ASSUME NEW i \in 0..(n - 1), i \in S
      PROVE  i + 1 \in S
  <2>1. i + 1 \in 0..n /\ i + 1 # 0 /\ (i + 1) - 1 = i /\ i + 1 \in 1..n
    BY <1>1
  <2>2. g[i + 1] = IF l[i + 1] \in out THEN g[i] ELSE Append(g[i], l[i + 1])
    BY <1>2, <2>1 DEF KeptOf
  <2>3. \A j \in 1..(i + 1) : j = i + 1 \/ j \in 1..i
    OBVIOUS
  <2>4. i + 1 \in 1..(i + 1) /\ \A j \in 1..i : j \in 1..(i + 1)
    OBVIOUS
  <2>5. {l[j] : j \in 1..(i + 1)} = {l[j] : j \in 1..i} \cup {l[i + 1]}
    BY <2>3, <2>4
  <2>6. CASE l[i + 1] \in out
    <3>1. Good(i + 1)
      BY <1>5, <2>2, <2>5, <2>6
    <3> QED BY <2>1, <3>1
  <2>7. CASE l[i + 1] \notin out
    <3>1. \A j \in 1..i : j \in 1..n /\ j # i + 1
      BY <1>1, <2>1
    <3>2. \A j \in 1..i : l[j] # l[i + 1]
      BY <1>1, <2>1, <3>1 DEF IsInjective
    <3>3. l[i + 1] \notin Range(g[i]) /\ l[i + 1] \in Nat
      BY <1>1, <1>5, <2>1, <3>2
    <3>4. /\ Append(g[i], l[i + 1]) \in Seq(Nat) /\ IsInjective(Append(g[i], l[i + 1]))
          /\ Range(Append(g[i], l[i + 1])) = Range(g[i]) \cup {l[i + 1]}
      BY <1>5, <3>3, AppendList
    <3>5. Good(i + 1)
      BY <1>5, <2>2, <2>5, <2>7, <3>4
    <3> QED BY <2>1, <3>5
  <2> QED BY <2>6, <2>7
<1>6. Good(n)
  <2> HIDE DEF S
  <2>1. n \in S
    <3>1. \A i \in 0..(n - 1) : i \in S => i + 1 \in S
      BY <1>5
    <3>2. \A i \in 0..n : i \in S
      BY <1>1, <1>4, <3>1, UpTo
    <3> QED BY <1>1, <3>2
  <2> QED BY <2>1 DEF S
<1>7. Range(l) = {l[j] : j \in 1..n}
  BY <1>1 DEF Range
<1> QED BY <1>3, <1>6, <1>7
-----------------------------------------------------------------------------
(* An arena is of one kind.                                                *)
LEMMA Kinds ==
  ASSUME NEW r \in {NoArena} \cup SmallArena \cup LargeArena
  PROVE  /\ NoArena \notin SmallArena \cup LargeArena
         /\ r \in SmallArena => r.desc \in Desc /\ r.cnt \in Nat /\ ~ r.large /\ r \notin LargeArena
         /\ r \in LargeArena => /\ r.desc = NoDesc /\ r.cnt \in Nat \ {0} /\ r.large
                                /\ r \notin SmallArena
<1>1. \A x \in SmallArena : x.desc \in Desc /\ x.cnt \in Nat /\ x.large = FALSE
  BY DEF SmallArena
<1>2. \A x \in LargeArena : x.desc = NoDesc /\ x.cnt \in Nat \ {0} /\ x.large = TRUE
  BY DEF LargeArena
<1>3. \A x \in SmallArena \cup LargeArena : "desc" \in DOMAIN x
  BY DEF SmallArena, LargeArena
<1>4. NoArena \notin SmallArena \cup LargeArena
  <2>1. "desc" \notin DOMAIN NoArena
    BY DEF NoArena
  <2> QED BY <1>3, <2>1
<1> QED BY <1>1, <1>2, <1>4

(* What was given out of an arena lies in its first page.                  *)
LEMMA FromPage ==
  ASSUME NEW ar, NEW a \in Page, NEW g, From(ar, g, a)
  PROVE  block2arena(g.ptr) = a
<1>1. CASE g.ptr = a * PG_SIZE + ArenaSize
  <2>1. ArenaSize \in 0..(PG_SIZE - 1) /\ a \in Nat
    BY Consts
  <2> QED BY <1>1, <2>1, PageOfByte
<1>2. CASE IsSmall(ar, a) /\ g.ptr \in BlockSet(a, ar[a].desc)
  <2>1. ar[a].desc \in Desc /\ a \in Nat
    BY <1>2, Consts DEF IsSmall, SmallArena
  <2> QED BY <1>2, <2>1, BlockLies
<1> QED BY <1>1, <1>2 DEF From

(* What happens in one page leaves the others as they were: it is enough   *)
(* to look at the page a.                                                  *)
Agree(ar, ar2, fr, fr2, gv, gv2, a) ==
  /\ \A c \in Page \ {a} : ar2[c] = ar[c]
  /\ \A d \in Desc : \A b \in Nat : block2arena(b) # a => (b \in fr2[d] <=> b \in fr[d])
  /\ \A g \in [ptr : Nat, size : Sizes] : block2arena(g.ptr) # a => (g \in gv2 <=> g \in gv)

(* The parts of the invariant at other pages follow from what they were    *)
(* before.                                                                 *)
LEMMA Elsewhere ==
  ASSUME NEW ar, NEW fr, NEW gv, HeapOk(ar, fr, gv), NEW a \in Page,
         NEW ar2, NEW fr2, NEW gv2, Types(ar2, fr2, gv2),
         Agree(ar, ar2, fr, fr2, gv, gv2, a),
         FreeAt(ar2, fr2, a), GivenAt(ar2, gv2, a), CountAt(ar2, fr2, gv2, a)
  PROVE  HeapOk(ar2, fr2, gv2)
<1> SUFFICES ASSUME NEW c \in Page, c # a
             PROVE  FreeAt(ar2, fr2, c) /\ GivenAt(ar2, gv2, c) /\ CountAt(ar2, fr2, gv2, c)
  BY DEF HeapOk
<1>1. FreeAt(ar, fr, c) /\ GivenAt(ar, gv, c) /\ CountAt(ar, fr, gv, c) /\ Types(ar, fr, gv)
  BY DEF HeapOk
<1>2. ar2[c] = ar[c]
  BY DEF Agree
<1>3. \A d \in Desc : \A b \in Nat : block2arena(b) = c => (b \in fr2[d] <=> b \in fr[d])
  BY DEF Agree
<1>4. \A g \in [ptr : Nat, size : Sizes] : block2arena(g.ptr) = c => (g \in gv2 <=> g \in gv)
  BY DEF Agree
<1>5. \A g \in gv2 : g \in [ptr : Nat, size : Sizes]
  BY DEF Types
<1>6. \A g \in gv : g \in [ptr : Nat, size : Sizes]
  BY <1>1 DEF Types
<1>7. \A d \in Desc : \A b \in fr2[d] : b \in Nat
  BY DEF Types
<1>8. FreeAt(ar2, fr2, c)
  BY <1>1, <1>2, <1>3, <1>7 DEF FreeAt, IsSmall
<1>9. GivenAt(ar2, gv2, c)
  <2>1. \A g \in gv2 : block2arena(g.ptr) = c => g \in gv /\ From(ar, g, c)
    BY <1>1, <1>4, <1>5 DEF GivenAt
  <2>2. \A g \in gv2 : From(ar, g, c) => From(ar2, g, c)
    BY <1>2 DEF From, IsSmall, IsLarge
  <2> QED BY <1>1, <2>1, <2>2 DEF GivenAt
<1>10. CountAt(ar2, fr2, gv2, c)
  <2> SUFFICES ASSUME IsSmall(ar2, c)
               PROVE  /\ ar2[c].cnt = Cardinality(BlockSet(c, ar2[c].desc) \cap fr2[ar2[c].desc])
                      /\ \A b \in BlockSet(c, ar2[c].desc) :
                           b \in fr2[ar2[c].desc] <=> ~ \E g \in gv2 : g.ptr = b
    BY DEF CountAt
  <2> DEFINE d == ar[c].desc
  <2>1. d \in Desc /\ c \in Nat /\ IsSmall(ar, c)
    BY <1>2, Consts DEF IsSmall, SmallArena
  <2> HIDE DEF d
  <2>2. \A b \in BlockSet(c, d) : b \in Nat /\ block2arena(b) = c
    BY <2>1, BlockLies
  <2>3. BlockSet(c, d) \cap fr2[d] = BlockSet(c, d) \cap fr[d]
    BY <1>3, <2>1, <2>2
  <2>4. ASSUME NEW b \in BlockSet(c, d)
        PROVE  b \in fr2[d] <=> ~ \E g \in gv2 : g.ptr = b
    <3>1. b \in fr2[d] <=> b \in fr[d]
      BY <1>3, <2>1, <2>2
    <3>2. b \in fr[d] <=> ~ \E g \in gv : g.ptr = b
      BY <1>1, <2>1 DEF CountAt, d
    <3>3. (\E g \in gv : g.ptr = b) <=> (\E g \in gv2 : g.ptr = b)
      BY <1>4, <1>5, <1>6, <2>2
    <3> QED BY <3>1, <3>2, <3>3
  <2>5. ar[c].cnt = Cardinality(BlockSet(c, d) \cap fr[d])
    BY <1>1, <2>1 DEF CountAt, d
  <2> QED BY <1>2, <2>3, <2>4, <2>5 DEF d
<1> QED BY <1>8, <1>9, <1>10
-----------------------------------------------------------------------------
(* How the actions change the arenas and the lists.                        *)
CountUp(ar, ar2, a) == ar2 = [ar EXCEPT ![a].cnt = @ + 1]
CountDown(ar, ar2, a) == ar2 = [ar EXCEPT ![a].cnt = @ - 1]
Update(f, f2, x, v) == f2 = [f EXCEPT ![x] = v]
Popped(fl, fl2, d, b) == fl[d] # <<>> /\ b = Head(fl[d]) /\ Update(fl, fl2, d, Tail(fl[d]))
Pushed(fl, fl2, d, b) == Update(fl, fl2, d, Append(fl[d], b))
NewArena(d) == [desc |-> d, cnt |-> blocks_per_arena(d), large |-> FALSE]

(* Only the set of the descriptor d is another one, s.                     *)
Other(fr, fr2, d, s) == fr2[d] = s /\ \A e \in Desc \ {d} : fr2[e] = fr[e]

(* A page that is no arena has nothing in it.                              *)
LEMMA NothingThere ==
  ASSUME NEW ar, NEW fr, NEW gv, HeapOk(ar, fr, gv), NEW a \in Page, ar[a] = NoArena
  PROVE  /\ \A d \in Desc : \A b \in fr[d] : block2arena(b) # a
         /\ \A g \in gv : block2arena(g.ptr) # a
<1>1. ~ IsSmall(ar, a) /\ ~ IsLarge(ar, a)
  BY Kinds DEF IsSmall, IsLarge
<1> QED BY <1>1 DEF HeapOk, FreeAt, GivenAt, From

(* A page becomes an arena, and its blocks are free.                       *)
LEMMA OpenArena ==
  ASSUME NEW ar, NEW fr, NEW gv, HeapOk(ar, fr, gv), NEW a \in Page, ar[a] = NoArena,
         NEW d \in Desc,
         NEW ar2, Update(ar, ar2, a, NewArena(d)),
         NEW fr2 \in [Desc -> SUBSET Nat], Other(fr, fr2, d, fr[d] \cup BlockSet(a, d))
  PROVE  HeapOk(ar2, fr2, gv) /\ IsSmall(ar2, a) /\ ar2[a].desc = d
<1> DEFINE r == NewArena(d)
<1>1. r \in SmallArena /\ r.desc = d /\ r.cnt = blocks_per_arena(d)
  BY BlockSizes DEF SmallArena, NewArena
<1>2. Types(ar, fr, gv) /\ a \in Nat
  BY Consts DEF HeapOk
<1> HIDE DEF r
<1>3. ar2[a] = r /\ (\A c \in Page \ {a} : ar2[c] = ar[c]) /\ IsSmall(ar2, a)
  BY <1>1, <1>2 DEF Types, r, IsSmall, Update
<1>4. \A b \in BlockSet(a, d) : b \in Nat /\ block2arena(b) = a
  BY <1>2, BlockLies
<1>5. /\ \A e \in Desc : \A b \in fr[e] : block2arena(b) # a
      /\ \A g \in gv : block2arena(g.ptr) # a
  BY NothingThere
<1>6. \A e \in Desc : \A b \in fr2[e] : b \in fr[e] \/ (e = d /\ b \in BlockSet(a, d))
  BY DEF Other
<1>7. Types(ar2, fr2, gv)
  <2>1. ar2 \in [Page -> {NoArena} \cup SmallArena \cup LargeArena]
    BY <1>1, <1>2 DEF Types, r, Update
  <2>2. \A e \in Desc : \A b \in fr2[e] : block2arena(b) \in Page
    BY <1>2, <1>4, <1>6 DEF Types
  <2> QED BY <1>2, <2>1, <2>2 DEF Types
<1>8. Agree(ar, ar2, fr, fr2, gv, gv, a)
  <2>1. \A e \in Desc : \A b \in Nat : block2arena(b) # a => (b \in fr2[e] <=> b \in fr[e])
    BY <1>4 DEF Other
  <2> QED BY <1>3, <2>1 DEF Agree
<1>9. FreeAt(ar2, fr2, a)
  BY <1>1, <1>3, <1>5, <1>6 DEF FreeAt
<1>10. GivenAt(ar2, gv, a)
  BY <1>5 DEF GivenAt
<1>11. CountAt(ar2, fr2, gv, a)
  <2>1. BlockSet(a, d) \cap fr2[d] = BlockSet(a, d)
    BY DEF Other
  <2>2. Cardinality(BlockSet(a, d)) = blocks_per_arena(d)
    BY <1>2, BlocksList
  <2>3. \A b \in BlockSet(a, d) : b \in fr2[d] /\ ~ \E g \in gv : g.ptr = b
    BY <1>4, <1>5, <2>1
  <2> QED BY <1>1, <1>3, <2>1, <2>2, <2>3 DEF CountAt
<1>12. HeapOk(ar2, fr2, gv)
  BY <1>7, <1>8, <1>9, <1>10, <1>11, Elsewhere
<1> QED BY <1>1, <1>3, <1>12

(* The free blocks of an arena are finitely many.                          *)
LEMMA FreeFinite ==
  ASSUME NEW a \in Nat, NEW d \in Desc, NEW s
  PROVE  /\ IsFiniteSet(BlockSet(a, d) \cap s)
         /\ Cardinality(BlockSet(a, d) \cap s) \in 0..blocks_per_arena(d)
         /\ Cardinality(BlockSet(a, d) \cap s) = blocks_per_arena(d) => BlockSet(a, d) \subseteq s
<1>1. IsFiniteSet(BlockSet(a, d)) /\ Cardinality(BlockSet(a, d)) = blocks_per_arena(d)
  BY BlocksList
<1>2. BlockSet(a, d) \cap s \in SUBSET BlockSet(a, d)
  OBVIOUS
<1>3. /\ IsFiniteSet(BlockSet(a, d) \cap s)
      /\ Cardinality(BlockSet(a, d) \cap s) <= Cardinality(BlockSet(a, d))
      /\ Cardinality(BlockSet(a, d)) = Cardinality(BlockSet(a, d) \cap s) =>
           BlockSet(a, d) = BlockSet(a, d) \cap s
  BY <1>1, <1>2, FS_Subset
<1>4. Cardinality(BlockSet(a, d) \cap s) \in Nat /\ blocks_per_arena(d) \in Nat
  BY <1>3, FS_CardinalityType, BlockSizes
<1> QED BY <1>1, <1>3, <1>4

(* A free block is given out.                                              *)
LEMMA TakeOne ==
  ASSUME NEW ar, NEW fr, NEW gv, HeapOk(ar, fr, gv), NEW a \in Page, NEW d \in Desc,
         IsSmall(ar, a), ar[a].desc = d, NEW g0 \in [ptr : Nat, size : Sizes],
         g0.ptr \in BlockSet(a, d), g0.ptr \in fr[d], g0.size <= block_size(d),
         NEW ar2, CountDown(ar, ar2, a),
         NEW fr2 \in [Desc -> SUBSET Nat], Other(fr, fr2, d, fr[d] \ {g0.ptr})
  PROVE  HeapOk(ar2, fr2, gv \cup {g0}) /\ IsSmall(ar2, a)
<1> DEFINE b == g0.ptr
           gv2 == gv \cup {g0}
           free == BlockSet(a, d) \cap fr[d]
<1>1. Types(ar, fr, gv) /\ FreeAt(ar, fr, a) /\ GivenAt(ar, gv, a) /\ CountAt(ar, fr, gv, a) /\ a \in Nat
  BY Consts DEF HeapOk
<1>2. b \in Nat /\ block2arena(b) = a
  BY <1>1, BlockLies
<1>3. /\ IsFiniteSet(free) /\ ar[a].cnt = Cardinality(free)
      /\ \A x \in BlockSet(a, d) : x \in fr[d] <=> ~ \E g \in gv : g.ptr = x
  BY <1>1, FreeFinite DEF CountAt
<1>4. IsFiniteSet(free \ {b}) /\ Cardinality(free \ {b}) = Cardinality(free) - 1
  <2>1. b \in free
    OBVIOUS
  <2> HIDE DEF b, free
  <2> QED BY <1>3, <2>1, FS_RemoveElement
<1>5. ar[a].cnt - 1 \in Nat
  BY <1>3, <1>4, FS_CardinalityType
<1>6. /\ ar2[a] \in SmallArena /\ ar2[a].desc = d /\ ar2[a].cnt = ar[a].cnt - 1
      /\ \A c \in Page \ {a} : ar2[c] = ar[c]
  <2>1. ar2[a] = [ar[a] EXCEPT !.cnt = ar[a].cnt - 1]
    BY <1>1 DEF Types, CountDown
  <2>2. ar[a] \in SmallArena
    BY DEF IsSmall
  <2>3. ar2[a] \in SmallArena /\ ar2[a].desc = d /\ ar2[a].cnt = ar[a].cnt - 1
    BY <1>5, <2>1, <2>2 DEF SmallArena
  <2> QED BY <1>1, <2>3 DEF Types, CountDown
<1>7. Types(ar2, fr2, gv2)
  <2>1. ar2 \in [Page -> {NoArena} \cup SmallArena \cup LargeArena]
    BY <1>1, <1>6 DEF Types, CountDown
  <2>2. \A e \in Desc : \A x \in fr2[e] : x \in fr[e]
    BY DEF Other
  <2> QED BY <1>1, <1>2, <2>1, <2>2 DEF Types
<1>8. Agree(ar, ar2, fr, fr2, gv, gv2, a)
  <2>1. \A e \in Desc : \A x \in Nat : block2arena(x) # a => (x \in fr2[e] <=> x \in fr[e])
    BY <1>2 DEF Other
  <2>2. \A g \in [ptr : Nat, size : Sizes] : block2arena(g.ptr) # a => (g \in gv2 <=> g \in gv)
    BY <1>2
  <2> QED BY <1>6, <2>1, <2>2 DEF Agree
<1>9. FreeAt(ar2, fr2, a)
  BY <1>1, <1>6 DEF FreeAt, Other, IsSmall
<1>10. GivenAt(ar2, gv2, a)
  <2>1. From(ar2, g0, a)
    BY <1>6 DEF From, IsSmall
  <2>2. \A g \in gv : block2arena(g.ptr) = a => From(ar2, g, a)
    <3>1. ~ IsLarge(ar, a)
      BY Kinds DEF IsSmall, IsLarge
    <3> QED BY <1>1, <1>6, <3>1 DEF GivenAt, From, IsSmall
  <2>3. \A g \in gv : g.ptr # b
    BY <1>3
  <2> QED BY <1>1, <2>1, <2>2, <2>3 DEF GivenAt
<1>11. CountAt(ar2, fr2, gv2, a)
  <2>1. BlockSet(a, d) \cap fr2[d] = free \ {b}
    BY DEF Other
  <2>2. \A x \in BlockSet(a, d) : x \in fr2[d] <=> ~ \E g \in gv2 : g.ptr = x
    BY <1>3 DEF Other
  <2>3. ar2[a].cnt = Cardinality(BlockSet(a, d) \cap fr2[d])
    BY <1>3, <1>4, <1>6, <2>1
  <2> QED BY <1>6, <2>2, <2>3 DEF CountAt
<1>12. HeapOk(ar2, fr2, gv2)
  BY <1>7, <1>8, <1>9, <1>10, <1>11, Elsewhere
<1> QED BY <1>6, <1>12 DEF IsSmall

(* What sys_free reads in the arena of g.                                  *)
Belongs(ar, g, a, d) == block2arena(g.ptr) = a /\ ~ IsLarge(ar, a) /\ ar[a].desc = d

(* b is added to the set of the descriptor d.                              *)
Added(fr, fr2, d, b) == Other(fr, fr2, d, fr[d] \cup {b})

(* A block that was given out becomes free again.                          *)
LEMMA GiveBack ==
  ASSUME NEW ar, NEW fr, NEW gv, HeapOk(ar, fr, gv),
         NEW g0 \in gv, NEW a \in Page, NEW d \in Desc, Belongs(ar, g0, a, d), IsSmall(ar, a),
         NEW ar2, CountUp(ar, ar2, a),
         NEW fr2 \in [Desc -> SUBSET Nat], Added(fr, fr2, d, g0.ptr)
  PROVE  HeapOk(ar2, fr2, gv \ {g0}) /\ IsSmall(ar2, a) /\ ar2[a].desc = d
<1> DEFINE b == g0.ptr
           gv2 == gv \ {g0}
           free == BlockSet(a, d) \cap fr[d]
<1> USE DEF Belongs, Added
<1>1. Types(ar, fr, gv) /\ FreeAt(ar, fr, a) /\ GivenAt(ar, gv, a) /\ CountAt(ar, fr, gv, a) /\ a \in Nat
  BY Consts DEF HeapOk
<1>2. ~ IsLarge(ar, a)
  BY DEF Belongs
<1>3. b \in BlockSet(a, d) /\ b \in Nat
  <2>1. From(ar, g0, a)
    BY <1>1 DEF GivenAt
  <2> QED BY <1>1, <1>2, <2>1, BlockLies DEF From
<1>4. /\ IsFiniteSet(free) /\ ar[a].cnt = Cardinality(free)
      /\ \A x \in BlockSet(a, d) : x \in fr[d] <=> ~ \E g \in gv : g.ptr = x
  BY <1>1, FreeFinite DEF CountAt
<1>5. b \notin fr[d]
  BY <1>3, <1>4
<1>6. Cardinality(free \cup {b}) = Cardinality(free) + 1 /\ Cardinality(free) \in Nat
  <2>1. b \notin free
    BY <1>5, Zenon
  <2> HIDE DEF free
  <2>2. Cardinality(free) \in Nat
    BY <1>4, FS_CardinalityType, Zenon
  <2>3. Cardinality(free \cup {b}) = Cardinality(free) + 1
    BY <1>4, <2>1, FS_AddElement
  <2> QED BY <2>2, <2>3
<1>7. /\ ar2[a] \in SmallArena /\ ar2[a].desc = d /\ ar2[a].cnt = ar[a].cnt + 1
      /\ \A c \in Page \ {a} : ar2[c] = ar[c]
  <2>1. ar2[a] = [ar[a] EXCEPT !.cnt = ar[a].cnt + 1]
    BY <1>1 DEF Types, CountUp
  <2>2. ar[a] \in SmallArena /\ ar[a].cnt + 1 \in Nat
    BY <1>4, <1>6 DEF IsSmall
  <2>3. ar2[a] \in SmallArena /\ ar2[a].desc = d /\ ar2[a].cnt = ar[a].cnt + 1
    BY <2>1, <2>2 DEF SmallArena
  <2> QED BY <1>1, <2>3 DEF Types, CountUp
<1>8. Types(ar2, fr2, gv2)
  <2>1. ar2 \in [Page -> {NoArena} \cup SmallArena \cup LargeArena]
    BY <1>1, <1>7 DEF Types, CountUp
  <2>2. \A e \in Desc : \A x \in fr2[e] : x \in fr[e] \/ x = b
    BY DEF Other
  <2> QED BY <1>1, <2>1, <2>2 DEF Types
<1>9. Agree(ar, ar2, fr, fr2, gv, gv2, a)
  <2>1. \A e \in Desc : \A x \in Nat : block2arena(x) # a => (x \in fr2[e] <=> x \in fr[e])
    BY DEF Other
  <2>2. \A g \in [ptr : Nat, size : Sizes] : block2arena(g.ptr) # a => (g \in gv2 <=> g \in gv)
    OBVIOUS
  <2> QED BY <1>7, <2>1, <2>2 DEF Agree
<1>10. FreeAt(ar2, fr2, a)
  <2>1. \A e \in Desc : \A x \in fr2[e] : x \in fr[e] \/ (e = d /\ x = b)
    BY DEF Other
  <2> QED BY <1>1, <1>3, <1>7, <2>1 DEF FreeAt, IsSmall
<1>11. GivenAt(ar2, gv2, a)
  BY <1>1, <1>2, <1>7 DEF GivenAt, From, IsSmall
<1>12. CountAt(ar2, fr2, gv2, a)
  <2>1. BlockSet(a, d) \cap fr2[d] = free \cup {b}
    BY <1>3 DEF Other
  <2>2. ASSUME NEW x \in BlockSet(a, d)
        PROVE  x \in fr2[d] <=> ~ \E g \in gv2 : g.ptr = x
    <3>1. CASE x = b
      <4>1. \A g \in gv : g.ptr = b => g = g0
        BY <1>1 DEF GivenAt
      <4> QED BY <3>1, <4>1 DEF Other
    <3>2. CASE x # b
      BY <1>4, <3>2 DEF Other
    <3> QED BY <3>1, <3>2
  <2>3. ar2[a].cnt = Cardinality(BlockSet(a, d) \cap fr2[d])
    BY <1>4, <1>6, <1>7, <2>1
  <2> QED BY <1>7, <2>2, <2>3 DEF CountAt
<1>13. HeapOk(ar2, fr2, gv2)
  BY <1>8, <1>9, <1>10, <1>11, <1>12, Elsewhere
<1> QED BY <1>7, <1>13 DEF IsSmall

(* An arena of which all blocks are free is dropped.                       *)
LEMMA CloseArena ==
  ASSUME NEW ar, NEW fr, NEW gv, HeapOk(ar, fr, gv), NEW a \in Page, NEW d \in Desc,
         IsSmall(ar, a), ar[a].desc = d, BlockSet(a, d) \subseteq fr[d],
         NEW ar2, Update(ar, ar2, a, NoArena),
         NEW fr2 \in [Desc -> SUBSET Nat], Other(fr, fr2, d, fr[d] \ BlockSet(a, d))
  PROVE  HeapOk(ar2, fr2, gv) /\ \A g \in gv : block2arena(g.ptr) # a
<1>1. Types(ar, fr, gv) /\ FreeAt(ar, fr, a) /\ GivenAt(ar, gv, a) /\ CountAt(ar, fr, gv, a) /\ a \in Nat
  BY Consts DEF HeapOk
<1>2. ~ IsLarge(ar, a)
  BY Kinds DEF IsSmall, IsLarge
<1>3. ar2[a] = NoArena /\ (\A c \in Page \ {a} : ar2[c] = ar[c]) /\ ~ IsSmall(ar2, a)
  <2>1. ar2[a] = NoArena /\ \A c \in Page \ {a} : ar2[c] = ar[c]
    BY <1>1 DEF Types, Update
  <2> QED BY <2>1, Kinds DEF IsSmall
<1>4. \A g \in gv : block2arena(g.ptr) # a
  <2> SUFFICES ASSUME NEW g \in gv, block2arena(g.ptr) = a
               PROVE  FALSE
    OBVIOUS
  <2>1. g.ptr \in BlockSet(a, d)
    BY <1>1, <1>2 DEF GivenAt, From
  <2> QED BY <1>1, <2>1 DEF CountAt
<1>5. \A b \in BlockSet(a, d) : b \in Nat /\ block2arena(b) = a
  BY <1>1, BlockLies
<1>6. \A e \in Desc : \A b \in fr2[e] : b \in fr[e] /\ block2arena(b) # a
  <2>1. \A e \in Desc : \A b \in fr[e] : block2arena(b) = a => e = d /\ b \in BlockSet(a, d)
    BY <1>1 DEF FreeAt
  <2> QED BY <2>1 DEF Other
<1>7. Types(ar2, fr2, gv)
  <2>1. ar2 \in [Page -> {NoArena} \cup SmallArena \cup LargeArena]
    BY <1>1 DEF Types, Update
  <2> QED BY <1>1, <1>6, <2>1 DEF Types
<1>8. Agree(ar, ar2, fr, fr2, gv, gv, a)
  <2>1. \A e \in Desc : \A x \in Nat : block2arena(x) # a => (x \in fr2[e] <=> x \in fr[e])
    BY <1>5 DEF Other
  <2> QED BY <1>3, <2>1 DEF Agree
<1>9. FreeAt(ar2, fr2, a) /\ GivenAt(ar2, gv, a) /\ CountAt(ar2, fr2, gv, a)
  BY <1>3, <1>4, <1>6 DEF FreeAt, GivenAt, CountAt
<1> QED BY <1>4, <1>7, <1>8, <1>9, Elsewhere

(* A request for pages is rounded up.                                      *)
LEMMA RoundedUp ==
  ASSUME NEW size \in Nat
  PROVE  LET n == DIV_ROUND_UP(size + ArenaSize, PG_SIZE)
         IN  n \in Nat \ {0} /\ size + ArenaSize <= n * PG_SIZE
<1> DEFINE x == size + ArenaSize
<1>1. x \in Nat \ {0} /\ PG_SIZE \in Nat \ {0}
  BY Consts
<1> HIDE DEF x
<1>2. (x + PG_SIZE - 1) \div PG_SIZE \in Nat \ {0}
  BY <1>1
<1>3. x <= ((x + PG_SIZE - 1) \div PG_SIZE) * PG_SIZE
  BY <1>1
<1> QED BY <1>2, <1>3 DEF x, DIV_ROUND_UP

(* Whole pages are given out.                                              *)
LEMMA OpenPages ==
  ASSUME NEW ar, NEW fr, NEW gv, HeapOk(ar, fr, gv), NEW a \in Page, ar[a] = NoArena,
         NEW ar2 \in [Page -> {NoArena} \cup SmallArena \cup LargeArena],
         \A c \in Page \ {a} : ar2[c] = ar[c],
         NEW g0 \in [ptr : Nat, size : Sizes], IsLarge(ar2, a), From(ar2, g0, a)
  PROVE  HeapOk(ar2, fr, gv \cup {g0})
<1> DEFINE gv2 == gv \cup {g0}
<1>1. Types(ar, fr, gv)
  BY DEF HeapOk
<1>2. ~ IsSmall(ar2, a)
  BY Kinds DEF IsLarge, IsSmall
<1>3. block2arena(g0.ptr) = a
  BY FromPage
<1>4. /\ \A e \in Desc : \A b \in fr[e] : block2arena(b) # a
      /\ \A g \in gv : block2arena(g.ptr) # a
  BY NothingThere
<1>5. Types(ar2, fr, gv2)
  BY <1>1, <1>3 DEF Types
<1>6. Agree(ar, ar2, fr, fr, gv, gv2, a)
  BY <1>3 DEF Agree
<1>7. FreeAt(ar2, fr, a) /\ CountAt(ar2, fr, gv2, a)
  BY <1>2, <1>4 DEF FreeAt, CountAt
<1>8. GivenAt(ar2, gv2, a)
  BY <1>3, <1>4 DEF GivenAt
<1> QED BY <1>5, <1>6, <1>7, <1>8, Elsewhere

(* Whole pages are given back: nothing else was given out of them.         *)
LEMMA ClosePages ==
  ASSUME NEW ar, NEW fr, NEW gv, HeapOk(ar, fr, gv), NEW a \in Page, IsLarge(ar, a),
         NEW g0 \in gv, block2arena(g0.ptr) = a,
         NEW ar2, Update(ar, ar2, a, NoArena)
  PROVE  HeapOk(ar2, fr, gv \ {g0})
<1> DEFINE gv2 == gv \ {g0}
<1>1. Types(ar, fr, gv) /\ FreeAt(ar, fr, a) /\ GivenAt(ar, gv, a)
  BY DEF HeapOk
<1>2. ~ IsSmall(ar, a)
  BY Kinds DEF IsSmall, IsLarge
<1>3. ar2[a] = NoArena /\ (\A c \in Page \ {a} : ar2[c] = ar[c]) /\ ~ IsSmall(ar2, a)
  <2>1. ar2[a] = NoArena /\ \A c \in Page \ {a} : ar2[c] = ar[c]
    BY <1>1 DEF Types, Update
  <2> QED BY <2>1, Kinds DEF IsSmall
<1>4. \A g \in gv2 : block2arena(g.ptr) # a
  <2> SUFFICES ASSUME NEW g \in gv, block2arena(g.ptr) = a
               PROVE  g = g0
    OBVIOUS
  <2>1. g.ptr = a * PG_SIZE + ArenaSize /\ g0.ptr = a * PG_SIZE + ArenaSize
    BY <1>1, <1>2 DEF GivenAt, From
  <2> QED BY <1>1, <2>1 DEF GivenAt
<1>5. \A e \in Desc : \A b \in fr[e] : block2arena(b) # a
  BY <1>1, <1>2 DEF FreeAt
<1>6. Types(ar2, fr, gv2)
  <2>1. ar2 \in [Page -> {NoArena} \cup SmallArena \cup LargeArena]
    BY <1>1 DEF Types, Update
  <2> QED BY <1>1, <2>1 DEF Types
<1>7. Agree(ar, ar2, fr, fr, gv, gv2, a)
  BY <1>3 DEF Agree
<1>8. FreeAt(ar2, fr, a) /\ GivenAt(ar2, gv2, a) /\ CountAt(ar2, fr, gv2, a)
  BY <1>3, <1>4, <1>5 DEF FreeAt, GivenAt, CountAt
<1> QED BY <1>6, <1>7, <1>8, Elsewhere
-----------------------------------------------------------------------------
(* The pages of an arena.                                                  *)
LEMMA Spans ==
  ASSUME NEW ar \in [Page -> {NoArena} \cup SmallArena \cup LargeArena], NEW a \in Page
  PROVE  /\ ar[a] = NoArena => Span(ar, a) = {}
         /\ ar[a] # NoArena => a \in Span(ar, a)
         /\ IsSmall(ar, a) => Span(ar, a) = {a}
         /\ IsLarge(ar, a) => Span(ar, a) = a..(a + ar[a].cnt - 1)
<1>1. a \in Nat
  BY Consts
<1>2. ar[a] = NoArena \/ IsSmall(ar, a) \/ IsLarge(ar, a)
  BY DEF IsSmall, IsLarge
<1>3. CASE IsSmall(ar, a)
  BY <1>1, <1>3, Kinds DEF IsSmall, IsLarge, Span
<1>4. CASE IsLarge(ar, a)
  <2>1. ar[a].cnt \in Nat \ {0} /\ ar[a].large /\ ar[a] # NoArena /\ ~ IsSmall(ar, a)
    BY <1>4, Kinds DEF IsSmall, IsLarge
  <2> QED BY <1>1, <2>1 DEF Span
<1>5. CASE ar[a] = NoArena
  BY <1>5, Kinds DEF Span, IsSmall, IsLarge
<1> QED BY <1>2, <1>3, <1>4, <1>5

(* A page that is free is no arena.                                        *)
LEMMA FreeIsNone ==
  ASSUME NEW ar \in [Page -> {NoArena} \cup SmallArena \cup LargeArena], NEW vm, MapOk(ar, vm),
         NEW a \in Page, ~ bitmap_scan_test(vm, a)
  PROVE  ar[a] = NoArena
<1>1. a \notin Span(ar, a)
  BY DEF MapOk, SpansOk
<1> QED BY <1>1, Spans

(* Free pages are taken for an arena.                                      *)
LEMMA MapAdd ==
  ASSUME NEW ar, NEW vm, MapOk(ar, vm), NEW a \in Page, Span(ar, a) = {},
         NEW ar2, \A c \in Page \ {a} : Span(ar2, c) = Span(ar, c),
         Span(ar2, a) \subseteq Page, \A p \in Span(ar2, a) : ~ bitmap_scan_test(vm, p),
         NEW vm2 \in Bitmaps(PageBytes),
         \A p \in Page : bitmap_scan_test(vm2, p)
                           <=> IF p \in Span(ar2, a) THEN TRUE ELSE bitmap_scan_test(vm, p)
  PROVE  MapOk(ar2, vm2)
<1>1. \A c \in Page : Span(ar2, c) \subseteq Page
  BY DEF MapOk, SpansOk
<1>2. \A c \in Page \ {a} : \A p \in Span(ar2, a) : p \notin Span(ar2, c)
  BY DEF MapOk, SpansOk
<1>3. \A c, e \in Page : \A p \in Span(ar2, c) : p \in Span(ar2, e) => c = e
  BY <1>2 DEF MapOk, SpansOk
<1>4. \A p \in Page : bitmap_scan_test(vm2, p) <=> \E c \in Page : p \in Span(ar2, c)
  BY DEF MapOk, SpansOk
<1> QED BY <1>1, <1>3, <1>4 DEF MapOk, SpansOk

(* The pages of an arena are given back.                                   *)
LEMMA MapRemove ==
  ASSUME NEW ar, NEW vm, MapOk(ar, vm), NEW a \in Page,
         NEW ar2, \A c \in Page \ {a} : Span(ar2, c) = Span(ar, c), Span(ar2, a) = {},
         NEW vm2 \in Bitmaps(PageBytes),
         \A p \in Page : bitmap_scan_test(vm2, p)
                           <=> IF p \in Span(ar, a) THEN FALSE ELSE bitmap_scan_test(vm, p)
  PROVE  MapOk(ar2, vm2)
<1>1. /\ \A c \in Page : Span(ar2, c) \subseteq Page
      /\ \A c, e \in Page : \A p \in Span(ar2, c) : p \in Span(ar2, e) => c = e
  BY DEF MapOk, SpansOk
<1>2. ASSUME NEW p \in Page
      PROVE  bitmap_scan_test(vm2, p) <=> \E c \in Page : p \in Span(ar2, c)
  <2>1. bitmap_scan_test(vm, p) <=> \E c \in Page : p \in Span(ar, c)
    BY DEF MapOk, SpansOk
  <2>2. p \in Span(ar, a) => \A c \in Page \ {a} : p \notin Span(ar, c)
    BY DEF MapOk, SpansOk
  <2> QED BY <2>1, <2>2
<1> QED BY <1>1, <1>2 DEF MapOk, SpansOk

(* The count of an arena changes: its pages do not.                        *)
LEMMA MapSame ==
  ASSUME NEW ar, NEW vm, MapOk(ar, vm),
         NEW ar2, \A c \in Page : Span(ar2, c) = Span(ar, c)
  PROVE  MapOk(ar2, vm)
  BY DEF MapOk, SpansOk

(* The pages of the heap are finitely many.                                *)
LEMMA MarkedFinite ==
  ASSUME NEW vm
  PROVE  /\ IsFiniteSet(Page) /\ Marked(vm) \subseteq Page
         /\ IsFiniteSet(Marked(vm)) /\ Cardinality(Marked(vm)) \in Nat
<1>1. IsFiniteSet(Page)
  <2>1. ByteBits * PageBytes - 1 \in Int
    BY Consts, ByteAssumption
  <2> QED BY <2>1, FS_Interval DEF Page
<1>2. Marked(vm) \subseteq Page
  BY DEF Marked
<1>3. IsFiniteSet(Marked(vm))
  BY <1>1, <1>2, FS_Subset
<1> QED BY <1>1, <1>2, <1>3, FS_CardinalityType

(* The number of pages of a run.                                           *)
LEMMA RunLength ==
  ASSUME NEW a \in Nat, NEW n \in Nat \ {0}
  PROVE  IsFiniteSet(a..(a + n - 1)) /\ Cardinality(a..(a + n - 1)) = n
<1> DEFINE b == a + n - 1
<1>1. b \in Int /\ ~ (a > b) /\ b - a + 1 = n
  OBVIOUS
<1> HIDE DEF b
<1>2. IsFiniteSet(a..b) /\ Cardinality(a..b) = n
  BY <1>1, FS_Interval
<1> QED BY <1>2 DEF b

(* Frames are taken for free pages.                                        *)
LEMMA FramesTaken ==
  ASSUME NEW vm, NEW fm, NEW ot, FramesOk(vm, fm, ot),
         NEW a \in Nat, NEW n \in Nat \ {0}, n <= fm, a..(a + n - 1) \subseteq Page,
         \A p \in a..(a + n - 1) : ~ bitmap_scan_test(vm, p),
         NEW vm2, \A p \in Page : bitmap_scan_test(vm2, p)
                    <=> IF p \in a..(a + n - 1) THEN TRUE ELSE bitmap_scan_test(vm, p)
  PROVE  FramesOk(vm2, fm - n, ot)
<1> DEFINE r == a..(a + n - 1)
<1>1. IsFiniteSet(r) /\ Cardinality(r) = n
  BY RunLength
<1>2. r \subseteq Page /\ r \cap Marked(vm) = {} /\ Marked(vm2) = Marked(vm) \cup r
  BY DEF Marked
<1> HIDE DEF r
<1>3. Cardinality(Marked(vm2)) = Cardinality(Marked(vm)) + n
  <2>1. IsFiniteSet(Marked(vm)) /\ Cardinality(Marked(vm)) \in Nat
    BY MarkedFinite
  <2>2. /\ Cardinality(Marked(vm) \cup r)
             = Cardinality(Marked(vm)) + Cardinality(r) - Cardinality(Marked(vm) \cap r)
    BY <1>1, <2>1, FS_Union
  <2>3. Marked(vm) \cap r = {} /\ Cardinality({}) = 0
    BY <1>2, FS_EmptySet
  <2>4. Cardinality(Marked(vm) \cap r) = 0
    BY <2>3
  <2> QED BY <1>1, <1>2, <2>1, <2>2, <2>4
<1>4. Cardinality(Marked(vm)) \in Nat
  BY MarkedFinite
<1>5. fm \in Nat /\ ot \in Nat /\ fm + ot + Cardinality(Marked(vm)) = PoolFrames
  BY DEF FramesOk
<1>6. fm - n \in Nat /\ fm - n + ot + Cardinality(Marked(vm2)) = PoolFrames
  BY <1>3, <1>4, <1>5
<1> QED BY <1>5, <1>6 DEF FramesOk

(* The frames of marked pages are given back.                              *)
LEMMA FramesBack ==
  ASSUME NEW vm, NEW fm, NEW ot, FramesOk(vm, fm, ot),
         NEW a \in Nat, NEW n \in Nat \ {0}, a..(a + n - 1) \subseteq Page,
         \A p \in a..(a + n - 1) : bitmap_scan_test(vm, p),
         NEW vm2, \A p \in Page : bitmap_scan_test(vm2, p)
                    <=> IF p \in a..(a + n - 1) THEN FALSE ELSE bitmap_scan_test(vm, p)
  PROVE  FramesOk(vm2, fm + n, ot)
<1> DEFINE r == a..(a + n - 1)
<1>1. Cardinality(r) = n
  BY RunLength
<1>2. Marked(vm) \cap r = r /\ Marked(vm2) = Marked(vm) \ r
  BY DEF Marked
<1> HIDE DEF r
<1>3. Cardinality(Marked(vm2)) = Cardinality(Marked(vm)) - n
  <2>1. IsFiniteSet(Marked(vm))
    BY MarkedFinite
  <2>2. Cardinality(Marked(vm) \ r) = Cardinality(Marked(vm)) - Cardinality(Marked(vm) \cap r)
    BY <2>1, FS_Difference
  <2> QED BY <1>1, <1>2, <2>2
<1>4. Cardinality(Marked(vm)) \in Nat
  BY MarkedFinite
<1>5. fm \in Nat /\ ot \in Nat /\ fm + ot + Cardinality(Marked(vm)) = PoolFrames
  BY DEF FramesOk
<1>6. fm + n \in Nat /\ fm + n + ot + Cardinality(Marked(vm2)) = PoolFrames
  BY <1>3, <1>4, <1>5
<1> QED BY <1>5, <1>6 DEF FramesOk
-----------------------------------------------------------------------------
(* The heap starts empty.                                                  *)
LEMMA HInvInit == HeapInit => HInv
<1> SUFFICES ASSUME HeapInit PROVE HInv
  OBVIOUS
<1>1. /\ arena = [a \in Page |-> NoArena] /\ free_list = [d \in Desc |-> <<>>] /\ given = {}
      /\ vaddr = bitmap_init(PageBytes) /\ failed = "none" /\ frames = PoolFrames /\ others = 0
  BY DEF HeapInit, block_desc_init
<1>2. FreeSets(free_list) = [d \in Desc |-> {}]
  BY <1>1 DEF FreeSets, Range
<1>3. \A a \in Page : arena[a] = NoArena /\ ~ IsSmall(arena, a) /\ Span(arena, a) = {}
  <2>1. \A a \in Page : arena[a] = NoArena
    BY <1>1
  <2> QED BY <2>1, Kinds DEF IsSmall, Span
<1>4. HeapOk(arena, FreeSets(free_list), given)
  BY <1>1, <1>2, <1>3 DEF HeapOk, Types, FreeAt, GivenAt, CountAt
<1>5. MapOk(arena, vaddr)
  <2>1. vaddr \in Bitmaps(PageBytes) /\ \A p \in Page : ~ bitmap_scan_test(vaddr, p)
    BY <1>1, Consts, InitBits
  <2> QED BY <1>3, <2>1 DEF MapOk, SpansOk
<1>6. ListsOk(free_list)
  BY <1>1 DEF ListsOk, IsInjective
<1>7. FramesOk(vaddr, frames, others)
  <2>1. PoolFrames \in Nat
    <3>1. PoolPages \in Nat \ {0} /\ ByteBits \in Nat \ {0}
      BY HeapAssumption, ByteAssumption
    <3>2. PoolPages \div ByteBits \in Nat
      BY <3>1
    <3> QED BY <3>1, <3>2 DEF PoolFrames
  <2>2. Marked(vaddr) = {}
    BY <1>1, Consts, InitBits DEF Marked
  <2>3. Cardinality(Marked(vaddr)) = 0
    BY <2>2, FS_EmptySet
  <2> QED BY <1>1, <2>1, <2>3 DEF FramesOk
<1>8. SpansOk(arena) /\ vaddr \in Bitmaps(PageBytes) /\ frames \in Nat /\ others \in Nat
  BY <1>5, <1>7 DEF MapOk, FramesOk
<1> QED BY <1>1, <1>3, <1>4, <1>5, <1>6, <1>7, <1>8 DEF HInv, UsedOk, ListsNeverPanic

(* The parts of the invariant that do not speak of the pages.              *)
Rest(ar, fl, gv) == HeapOk(ar, FreeSets(fl), gv) /\ ListsOk(fl) /\ UsedOk(ar, gv) /\ SpansOk(ar)

(* An assertion fails: nothing but failed changes.                         *)
LEMMA PanicStep ==
  ASSUME HInv, NEW f \in {"malloc_page", "bitmap_scan"}, Panic(f),
         f = "bitmap_scan" => \A p \in Page : bitmap_scan_test(vaddr, p)
  PROVE  HInv'
<1>1. /\ vaddr' = vaddr /\ frames' = frames /\ others' = others /\ failed' = f
      /\ arena' = arena /\ free_list' = free_list /\ given' = given
  BY DEF Panic
<1>2. ListsNeverPanic'
  <2>1. f = "bitmap_scan" => Taken = Page
    BY DEF Taken
  <2>2. Taken' = Taken
    BY <1>1 DEF Taken
  <2> QED BY <1>1, <2>1, <2>2 DEF ListsNeverPanic
<1>3. Rest(arena, free_list, given)'
  <2>1. Rest(arena, free_list, given)
    BY DEF HInv, Rest
  <2> QED BY <1>1, <2>1
<1>4. vaddr' \in Bitmaps(PageBytes) /\ frames' \in Nat /\ others' \in Nat /\ failed' # "none"
  BY <1>1 DEF HInv
<1> QED BY <1>1, <1>2, <1>3, <1>4 DEF HInv, Rest

(* The frames run out: pages stay marked that have none.                   *)
LEMMA FramesGoneStep ==
  ASSUME HInv, NEW a \in Nat, NEW n \in Nat \ {0}, a..(a + n - 1) \subseteq Page, FramesGone(a, n)
  PROVE  HInv'
<1>1. /\ vaddr' = bitmap_set_run(vaddr, a, n, 1) /\ frames' = 0 /\ others' = others
      /\ failed' = "bitmap_scan"
      /\ arena' = arena /\ free_list' = free_list /\ given' = given
  BY DEF FramesGone
<1>2. vaddr' \in Bitmaps(PageBytes)
  <2>1. vaddr \in Bitmaps(PageBytes)
    BY DEF HInv
  <2>2. bitmap_set_run(vaddr, a, n, 1) \in Bitmaps(PageBytes)
    BY <2>1, Consts, SetRun
  <2> QED BY <1>1, <2>2
<1>3. Rest(arena, free_list, given)'
  <2>1. Rest(arena, free_list, given)
    BY DEF HInv, Rest
  <2> QED BY <1>1, <2>1
<1>4. frames' \in Nat /\ others' \in Nat /\ ListsNeverPanic' /\ failed' # "none"
  BY <1>1 DEF HInv, ListsNeverPanic
<1> QED BY <1>1, <1>2, <1>3, <1>4 DEF HInv, Rest

(* The rest of the invariant when no assertion fails.                      *)
LEMMA NoPanicStep ==
  ASSUME HeapOk(arena', FreeSets(free_list'), given'), MapOk(arena', vaddr'),
         FramesOk(vaddr', frames', others'),
         ListsOk(free_list'), UsedOk(arena', given'), failed' = "none"
  PROVE  HInv'
<1>1. /\ SpansOk(arena') /\ vaddr' \in Bitmaps(PageBytes) /\ frames' \in Nat /\ others' \in Nat
  BY DEF MapOk, FramesOk
<1> QED BY <1>1 DEF HInv, ListsNeverPanic

(* sys_malloc of pages.                                                    *)
LEMMA MallocPagesStep ==
  ASSUME HInv, NEW size \in Sizes, MallocPages(size)
  PROVE  HInv'
<1> DEFINE n == DIV_ROUND_UP(size + ArenaSize, PG_SIZE)
           a == bitmap_scan(vaddr, n)
           fr == FreeSets(free_list)
<1>1. /\ HeapOk(arena, fr, given) /\ MapOk(arena, vaddr) /\ ListsOk(free_list)
      /\ UsedOk(arena, given) /\ Types(arena, fr, given)
      /\ arena \in [Page -> {NoArena} \cup SmallArena \cup LargeArena]
      /\ vaddr \in Bitmaps(PageBytes) /\ FramesOk(vaddr, frames, others)
  BY DEF HInv, HeapOk, Types, MallocPages
<1>2. n \in Nat \ {0} /\ size + ArenaSize <= n * PG_SIZE
  <2>1. size \in Nat
    BY HeapAssumption
  <2> QED BY <2>1, RoundedUp
<1>3. /\ failed = "none"
      /\ \/ Panic("malloc_page")
         \/ a = Panics /\ Panic("bitmap_scan")
         \/ UNCHANGED heapVars
         \/ a # Panics /\ a # NotFound /\ FramesGone(a, n)
         \/ /\ a # Panics /\ a # NotFound /\ ~ (frames < n)
            /\ vaddr' = bitmap_set_run(vaddr, a, n, 1) /\ frames' = frames - n
            /\ arena' = [arena EXCEPT ![a] = [desc |-> NoDesc, cnt |-> n, large |-> TRUE]]
            /\ given' = given \cup {[ptr |-> a * PG_SIZE + ArenaSize, size |-> size]}
            /\ UNCHANGED <<free_list, others, failed>>
  BY DEF MallocPages, MapPages
<1> HIDE DEF n
<1>4. \/ a = Panics /\ \A i \in Page : bitmap_scan_test(vaddr, i)
      \/ a = NotFound
      \/ /\ a \in Nat /\ a \in Page /\ a..(a + n - 1) \subseteq Page
         /\ \A i \in a..(a + n - 1) : ~ bitmap_scan_test(vaddr, i)
  BY <1>1, <1>2, Consts, ScanResult
<1> HIDE DEF a
<1>5. Panics # NotFound /\ Panics \notin Nat
  BY DEF Panics, NotFound
<1>6. CASE Panic("malloc_page")
  BY <1>6, PanicStep
<1>7. CASE a = Panics /\ Panic("bitmap_scan")
  <2>1. \A i \in Page : bitmap_scan_test(vaddr, i)
    BY <1>4, <1>5, <1>7
  <2> QED BY <1>7, <2>1, PanicStep
<1>8. CASE UNCHANGED heapVars
  <2>1. /\ vaddr' = vaddr /\ arena' = arena /\ free_list' = free_list /\ given' = given
        /\ frames' = frames /\ others' = others /\ failed' = failed
    BY <1>8 DEF heapVars
  <2> QED BY <1>1, <1>3, <2>1, NoPanicStep
<1>10. CASE a # Panics /\ a # NotFound /\ FramesGone(a, n)
  BY <1>2, <1>4, <1>10, FramesGoneStep
<1>9. CASE /\ a # Panics /\ a # NotFound /\ ~ (frames < n)
           /\ vaddr' = bitmap_set_run(vaddr, a, n, 1) /\ frames' = frames - n
           /\ arena' = [arena EXCEPT ![a] = [desc |-> NoDesc, cnt |-> n, large |-> TRUE]]
           /\ given' = given \cup {[ptr |-> a * PG_SIZE + ArenaSize, size |-> size]}
           /\ UNCHANGED <<free_list, others, failed>>
  <2> DEFINE s == a..(a + n - 1)
             g0 == [ptr |-> a * PG_SIZE + ArenaSize, size |-> size]
  <2>0. /\ g0 \in [ptr : Nat, size : Sizes] /\ g0.ptr = a * PG_SIZE + ArenaSize
        /\ g0.size + ArenaSize <= n * PG_SIZE /\ given' = given \cup {g0}
    <3>1. a \in Nat
      BY <1>4, <1>9
    <3>2. a * PG_SIZE + ArenaSize \in Nat
      BY <3>1, Consts
    <3> QED BY <1>2, <1>9, <3>2
  <2>1. a \in Nat /\ a \in Page /\ s \subseteq Page /\ \A i \in s : ~ bitmap_scan_test(vaddr, i)
    BY <1>4, <1>9
  <2>2. a \in s
    BY <1>2, <2>1
  <2>3. arena[a] = NoArena
    BY <1>1, <2>1, <2>2, FreeIsNone
  <2>4. IsLarge(arena', a) /\ arena'[a].cnt = n /\ From(arena', g0, a)
    <3> DEFINE r == [desc |-> NoDesc, cnt |-> n, large |-> TRUE]
    <3>1. r \in LargeArena /\ r.cnt = n
      BY <1>2 DEF LargeArena
    <3>2. arena'[a] = r
      BY <1>1, <1>9, <2>1
    <3> HIDE DEF r, g0
    <3> QED BY <2>0, <3>1, <3>2 DEF From, IsLarge
  <2>5. \A c \in Page \ {a} : arena'[c] = arena[c]
    BY <1>1, <1>9
  <2>6. arena' \in [Page -> {NoArena} \cup SmallArena \cup LargeArena]
    BY <1>1, <1>9, <2>1, <2>4 DEF IsLarge
  <2>7. Span(arena', a) = s /\ Span(arena, a) = {} /\ \A c \in Page \ {a} : Span(arena', c) = Span(arena, c)
    <3>1. Span(arena', a) = s
      BY <2>1, <2>4, <2>6, Spans
    <3>2. Span(arena, a) = {}
      BY <1>1, <2>1, <2>3, Spans
    <3> QED BY <2>5, <3>1, <3>2 DEF Span
  <2>8. /\ vaddr' \in Bitmaps(PageBytes)
        /\ \A p \in Page : bitmap_scan_test(vaddr', p)
                             <=> IF p \in s THEN TRUE ELSE bitmap_scan_test(vaddr, p)
    <3>1. /\ bitmap_set_run(vaddr, a, n, 1) \in Bitmaps(PageBytes)
          /\ \A j \in BitIndex(PageBytes) :
               bitmap_scan_test(bitmap_set_run(vaddr, a, n, 1), j)
                 <=> IF j \in a..(a + n - 1) THEN 1 = 1 ELSE bitmap_scan_test(vaddr, j)
      BY <1>1, <1>2, <2>1, Consts, SetRun
    <3> QED BY <1>9, <3>1, Consts
  <2>9. MapOk(arena', vaddr')
    <3> HIDE DEF s
    <3> QED BY <1>1, <2>1, <2>7, <2>8, MapAdd
  <2>10. UsedOk(arena', given')
    <3>1. \E g \in given' : block2arena(g.ptr) = a
      <4> HIDE DEF g0
      <4> QED BY <2>0, <2>1, <2>4, FromPage
    <3>2. \A c \in Page \ {a} : arena'[c] # NoArena => \E g \in given' : block2arena(g.ptr) = c
      BY <1>1, <1>9, <2>5 DEF UsedOk
    <3> QED BY <3>1, <3>2 DEF UsedOk
  <2>11. free_list' = free_list /\ failed' = "none"
    BY <1>3, <1>9
  <2>12. HeapOk(arena', fr, given')
    <3> HIDE DEF fr, g0, s
    <3> QED BY <1>1, <2>0, <2>1, <2>3, <2>4, <2>5, <2>6, OpenPages
  <2>13. FramesOk(vaddr', frames', others')
    <3>1. n <= frames
      BY <1>1, <1>2, <1>9 DEF FramesOk
    <3>2. FramesOk(vaddr', frames - n, others)
      BY <1>1, <1>2, <2>1, <2>8, <3>1, FramesTaken
    <3> QED BY <1>9, <3>2
  <2> QED BY <2>12, <2>13, <1>1, <2>9, <2>10, <2>11, NoPanicStep
<1> QED BY <1>3, <1>6, <1>7, <1>8, <1>9, <1>10

(* sys_free of pages.                                                      *)
LEMMA FreePagesStep ==
  ASSUME HInv, NEW g \in given, FreePages(g)
  PROVE  HInv'
<1> DEFINE a == block2arena(g.ptr)
           n == arena[a].cnt
           fr == FreeSets(free_list)
<1>1. /\ HeapOk(arena, fr, given) /\ MapOk(arena, vaddr) /\ ListsOk(free_list)
      /\ UsedOk(arena, given) /\ Types(arena, fr, given)
      /\ arena \in [Page -> {NoArena} \cup SmallArena \cup LargeArena]
      /\ vaddr \in Bitmaps(PageBytes) /\ FramesOk(vaddr, frames, others)
  BY DEF HInv, HeapOk, Types, FreePages
<1>2. /\ failed = "none" /\ arena[a].large
      /\ vaddr' = bitmap_set_run(vaddr, a, n, 0) /\ frames' = frames + n /\ others' = others
      /\ arena' = [arena EXCEPT ![a] = NoArena]
      /\ given' = given \ {g}
      /\ free_list' = free_list /\ failed' = failed
  BY DEF FreePages, mfree_page
<1>3. a \in Page /\ From(arena, g, a)
  BY <1>1 DEF Types, HeapOk, GivenAt
<1> HIDE DEF a
<1>4. IsLarge(arena, a) /\ n \in Nat \ {0}
  <2>1. IsLarge(arena, a)
    BY <1>2, <1>3, Kinds DEF From, IsSmall
  <2> QED BY <2>1, Kinds DEF IsLarge
<1> HIDE DEF n
<1>5. HeapOk(arena', fr, given')
  BY <1>1, <1>2, <1>3, <1>4, ClosePages DEF a, Update
<1>6. arena'[a] = NoArena /\ \A c \in Page \ {a} : arena'[c] = arena[c]
  BY <1>1, <1>2, <1>3
<1>7. /\ Span(arena, a) = a..(a + n - 1) /\ Span(arena', a) = {} /\ a \in Nat
      /\ Span(arena, a) \subseteq Page
      /\ \A c \in Page \ {a} : Span(arena', c) = Span(arena, c)
  <2>1. Span(arena, a) = a..(a + n - 1)
    BY <1>1, <1>3, <1>4, Spans DEF n
  <2>2. Span(arena', a) = {} /\ \A c \in Page \ {a} : Span(arena', c) = Span(arena, c)
    BY <1>6 DEF Span
  <2> QED BY <1>1, <1>3, <2>1, <2>2, Consts DEF MapOk, SpansOk
<1>8. /\ vaddr' \in Bitmaps(PageBytes)
      /\ \A p \in Page : bitmap_scan_test(vaddr', p)
                           <=> IF p \in Span(arena, a) THEN FALSE ELSE bitmap_scan_test(vaddr, p)
  <2>1. /\ bitmap_set_run(vaddr, a, n, 0) \in Bitmaps(PageBytes)
        /\ \A j \in BitIndex(PageBytes) :
             bitmap_scan_test(bitmap_set_run(vaddr, a, n, 0), j)
               <=> IF j \in a..(a + n - 1) THEN 0 = 1 ELSE bitmap_scan_test(vaddr, j)
    BY <1>1, <1>4, <1>7, Consts, SetRun
  <2> QED BY <1>2, <1>7, <2>1, Consts
<1>9. MapOk(arena', vaddr')
  BY <1>1, <1>3, <1>7, <1>8, MapRemove
<1>10. UsedOk(arena', given')
  BY <1>1, <1>2, <1>6 DEF UsedOk, a
<1>11. FramesOk(vaddr', frames', others')
  <2>1. \A p \in a..(a + n - 1) : bitmap_scan_test(vaddr, p)
    BY <1>1, <1>3, <1>7 DEF MapOk
  <2>2. \A p \in Page : bitmap_scan_test(vaddr', p)
                        <=> IF p \in a..(a + n - 1) THEN FALSE ELSE bitmap_scan_test(vaddr, p)
    BY <1>7, <1>8
  <2>3. FramesOk(vaddr', frames + n, others)
    BY <1>1, <1>4, <1>7, <2>1, <2>2, FramesBack
  <2> QED BY <1>2, <2>3
<1> QED BY <1>1, <1>2, <1>5, <1>9, <1>10, <1>11, NoPanicStep
-----------------------------------------------------------------------------
(* The free lists and the sets of their blocks change together.            *)
LEMMA ListChanged ==
  ASSUME NEW fl, ListsOk(fl), NEW d \in Desc, NEW l \in Seq(Nat), IsInjective(l),
         NEW fl2, Update(fl, fl2, d, l)
  PROVE  /\ ListsOk(fl2)
         /\ FreeSets(fl2) \in [Desc -> SUBSET Nat]
         /\ Other(FreeSets(fl), FreeSets(fl2), d, Range(l))
<1>1. fl2[d] = l /\ (\A e \in Desc \ {d} : fl2[e] = fl[e]) /\ fl2 = [e \in Desc |-> fl2[e]]
  BY DEF ListsOk, Update
<1>2. \A e \in Desc : fl2[e] \in Seq(Nat) /\ IsInjective(fl2[e])
  BY <1>1 DEF ListsOk
<1>3. \A e \in Desc : Range(fl2[e]) \subseteq Nat
  BY <1>2 DEF Range
<1> QED BY <1>1, <1>2, <1>3 DEF ListsOk, FreeSets, Other

(* The step of TakeBlock: the head of a free list is given out.            *)
LEMMA TakeStep ==
  ASSUME NEW ar, NEW fl, NEW gv, NEW vm, HeapOk(ar, FreeSets(fl), gv), ListsOk(fl), MapOk(ar, vm),
         NEW d \in Desc, NEW g0 \in [ptr : Nat, size : Sizes], g0.size <= block_size(d),
         NEW ar2, CountDown(ar, ar2, block2arena(g0.ptr)),
         NEW fl2, Popped(fl, fl2, d, g0.ptr)
  PROVE  /\ HeapOk(ar2, FreeSets(fl2), gv \cup {g0}) /\ ListsOk(fl2) /\ MapOk(ar2, vm)
         /\ block2arena(g0.ptr) \in Page /\ ar[block2arena(g0.ptr)] # NoArena
         /\ \A c \in Page \ {block2arena(g0.ptr)} : ar2[c] = ar[c]
<1> DEFINE b == g0.ptr
           a == block2arena(b)
           fr == FreeSets(fl)
           fr2 == FreeSets(fl2)
<1>1. /\ fl[d] \in Seq(Nat) /\ IsInjective(fl[d]) /\ fl[d] # <<>> /\ b = Head(fl[d])
      /\ Update(fl, fl2, d, Tail(fl[d]))
  BY DEF ListsOk, Popped
<1>2. /\ Tail(fl[d]) \in Seq(Nat) /\ IsInjective(Tail(fl[d]))
      /\ b \in Range(fl[d]) /\ Range(Tail(fl[d])) = Range(fl[d]) \ {b}
  BY <1>1, TailList
<1>3. fr[d] = Range(fl[d])
  BY DEF FreeSets
<1>4. ListsOk(fl2) /\ fr2 \in [Desc -> SUBSET Nat] /\ Other(fr, fr2, d, fr[d] \ {b})
  <2> DEFINE l == Tail(fl[d])
  <2>1. l \in Seq(Nat) /\ IsInjective(l) /\ Update(fl, fl2, d, l) /\ Range(l) = fr[d] \ {b}
    BY <1>1, <1>2, <1>3
  <2> HIDE DEF l, fr, fr2
  <2>2. ListsOk(fl2) /\ fr2 \in [Desc -> SUBSET Nat] /\ Other(fr, fr2, d, Range(l))
    BY <2>1, ListChanged DEF fr, fr2
  <2> QED BY <2>1, <2>2
<1>5. /\ Types(ar, fr, gv) /\ b \in fr[d] /\ a \in Page
      /\ ar \in [Page -> {NoArena} \cup SmallArena \cup LargeArena]
  BY <1>2, <1>3 DEF HeapOk, Types
<1>6. IsSmall(ar, a) /\ ar[a].desc = d /\ b \in BlockSet(a, d)
  BY <1>5 DEF HeapOk, FreeAt
<1>7. CountDown(ar, ar2, a)
  OBVIOUS
<1> HIDE DEF a, fr, fr2
<1>8. HeapOk(ar, fr, gv)
  BY DEF fr
<1>9. HeapOk(ar2, fr2, gv \cup {g0}) /\ IsSmall(ar2, a)
  BY <1>4, <1>5, <1>6, <1>7, <1>8, TakeOne
<1>10. \A c \in Page \ {a} : ar2[c] = ar[c]
  BY <1>5, <1>7 DEF CountDown
<1>11. \A c \in Page : Span(ar2, c) = Span(ar, c)
  <2>1. Span(ar2, a) = {a} /\ Span(ar, a) = {a}
    BY <1>5, <1>6, <1>9, Spans DEF HeapOk, Types
  <2>2. \A c \in Page \ {a} : Span(ar2, c) = Span(ar, c)
    BY <1>10 DEF Span
  <2> QED BY <2>1, <2>2
<1>12. MapOk(ar2, vm)
  BY <1>11, MapSame
<1>13. ar[a] # NoArena
  BY <1>6, Kinds DEF IsSmall
<1> QED BY <1>4, <1>5, <1>9, <1>10, <1>12, <1>13 DEF a, fr2

(* The first descriptor that is large enough exists and is large enough.   *)
LEMMA DescFound ==
  ASSUME NEW size \in Sizes, size <= block_size(DescCnt - 1)
  PROVE  desc_idx(size) \in Desc /\ size <= block_size(desc_idx(size))
<1> DEFINE T == {d \in Desc : size <= block_size(d)}
<1>1. T \in SUBSET Nat /\ T # {}
  <2>1. DescCnt - 1 \in T
    BY Consts
  <2>2. Desc \subseteq Nat
    BY DEF Desc
  <2> QED BY <2>1, <2>2
<1>2. desc_idx(size) = Min(T)
  BY DEF desc_idx
<1> HIDE DEF T
<1>3. Min(T) \in T
  BY <1>1, MinIsLeast
<1> QED BY <1>2, <1>3 DEF T

(* The changes of TakeBlock.                                               *)
LEMMA TakeWrites ==
  ASSUME NEW size, NEW d, NEW list, NEW arenas, TakeBlock(size, d, list, arenas)
  PROVE  /\ Update(free_list, free_list', d, Tail(list))
         /\ CountDown(arenas, arena', block2arena(Head(list)))
         /\ given' = given \cup {[ptr |-> Head(list), size |-> size]}
  BY DEF TakeBlock, Update, CountDown

(* sys_malloc of a block.                                                  *)
LEMMA MallocBlockStep ==
  ASSUME HInv, NEW size \in Sizes, MallocBlock(size)
  PROVE  HInv'
<1> DEFINE d == desc_idx(size)
           a == bitmap_scan(vaddr, 1)
           fr == FreeSets(free_list)
           ar1 == [arena EXCEPT ![a] = [desc |-> d, cnt |-> blocks_per_arena(d), large |-> FALSE]]
<1>1. /\ HeapOk(arena, fr, given) /\ MapOk(arena, vaddr) /\ ListsOk(free_list)
      /\ UsedOk(arena, given) /\ Types(arena, fr, given)
      /\ arena \in [Page -> {NoArena} \cup SmallArena \cup LargeArena]
      /\ vaddr \in Bitmaps(PageBytes) /\ FramesOk(vaddr, frames, others)
  BY DEF HInv, HeapOk, Types, MallocBlock
<1>2. failed = "none" /\ d \in Desc /\ size <= block_size(d)
  BY DescFound DEF MallocBlock
<1>3. \/ /\ free_list[d] # <<>> /\ TakeBlock(size, d, free_list[d], arena)
         /\ UNCHANGED <<vaddr, frames, others, failed>>
      \/ free_list[d] = <<>> /\ a = Panics /\ Panic("bitmap_scan")
      \/ a # Panics /\ FramesGone(a, 1)
      \/ a # Panics /\ ~ IsInjective(Blocks(a, d))
      \/ /\ free_list[d] = <<>> /\ a # Panics /\ frames # 0
         /\ MapPages(a, 1) /\ TakeBlock(size, d, Blocks(a, d), ar1)
  BY DEF MallocBlock
<1>4. \/ a = Panics /\ \A i \in Page : bitmap_scan_test(vaddr, i)
      \/ a \in Nat /\ a \in Page /\ ~ bitmap_scan_test(vaddr, a) /\ a # Panics
  <2>1. \/ a = Panics /\ \A i \in Page : bitmap_scan_test(vaddr, i)
        \/ a = NotFound /\ 1 # 1
        \/ /\ a \in Nat /\ a \in Page /\ a..(a + 1 - 1) \subseteq Page
           /\ \A i \in a..(a + 1 - 1) : ~ bitmap_scan_test(vaddr, i)
    BY <1>1, Consts, ScanResult
  <2> HIDE DEF a
  <2> QED BY <2>1 DEF Panics
<1> HIDE DEF d, a, ar1
<1>8. CASE a # Panics /\ FramesGone(a, 1)
  <2>1. a \in Nat /\ a..(a + 1 - 1) \subseteq Page
    BY <1>4, <1>8
  <2>2. 1 \in Nat \ {0} /\ FramesGone(a, 1)
    BY <1>8
  <2> HIDE DEF fr
  <2> QED BY <2>1, <2>2, FramesGoneStep
<1>9. CASE a # Panics /\ ~ IsInjective(Blocks(a, d))
  BY <1>2, <1>4, <1>9, BlocksList
<1>5. CASE /\ free_list[d] # <<>> /\ TakeBlock(size, d, free_list[d], arena)
           /\ UNCHANGED <<vaddr, frames, others, failed>>
  <2> DEFINE b == Head(free_list[d])
             g0 == [ptr |-> b, size |-> size]
  <2>1. /\ Update(free_list, free_list', d, Tail(free_list[d])) /\ CountDown(arena, arena', block2arena(b))
        /\ given' = given \cup {g0} /\ failed' = failed
        /\ vaddr' = vaddr /\ frames' = frames /\ others' = others
    BY <1>5, TakeWrites
  <2>2. /\ HeapOk(arena', FreeSets(free_list'), given \cup {g0}) /\ ListsOk(free_list') /\ MapOk(arena', vaddr)
        /\ block2arena(g0.ptr) \in Page /\ arena[block2arena(g0.ptr)] # NoArena
        /\ \A c \in Page \ {block2arena(g0.ptr)} : arena'[c] = arena[c]
    <3>1. g0 \in [ptr : Nat, size : Sizes] /\ g0.ptr = Head(free_list[d]) /\ g0.size = size
      BY <1>1, <1>2, <1>5 DEF ListsOk
    <3> HIDE DEF g0
    <3>2. Popped(free_list, free_list', d, g0.ptr)
      BY <1>5, <2>1, <3>1 DEF Popped
    <3>3. CountDown(arena, arena', block2arena(g0.ptr)) /\ g0.size <= block_size(d)
      BY <1>2, <2>1, <3>1
    <3>4. HeapOk(arena, FreeSets(free_list), given) /\ ListsOk(free_list) /\ MapOk(arena, vaddr) /\ d \in Desc
      BY <1>1, <1>2
    <3> HIDE DEF fr
    <3> QED BY <3>1, <3>2, <3>3, <3>4, TakeStep
  <2>3. UsedOk(arena', given')
    <3> HIDE DEF b, g0
    <3> QED BY <1>1, <2>1, <2>2 DEF UsedOk
  <2> QED BY <1>1, <1>2, <2>1, <2>2, <2>3, NoPanicStep
<1>6. CASE a = Panics /\ Panic("bitmap_scan")
  <2>1. \A i \in Page : bitmap_scan_test(vaddr, i)
    BY <1>4, <1>6
  <2> QED BY <1>6, <2>1, PanicStep
<1>7. CASE /\ free_list[d] = <<>> /\ a # Panics /\ frames # 0
           /\ MapPages(a, 1) /\ TakeBlock(size, d, Blocks(a, d), ar1)
  <2> DEFINE list == Blocks(a, d)
             fl1 == [free_list EXCEPT ![d] = list]
             fr1 == FreeSets(fl1)
             b == Head(list)
             g0 == [ptr |-> b, size |-> size]
  <2>1. a \in Nat /\ a \in Page /\ ~ bitmap_scan_test(vaddr, a)
    BY <1>4, <1>7
  <2>2. arena[a] = NoArena
    BY <1>1, <2>1, FreeIsNone
  <2>3. list \in Seq(Nat) /\ list # <<>> /\ IsInjective(list) /\ Range(list) = BlockSet(a, d)
    BY <1>2, <2>1, BlocksList DEF BlockSet
  <2>4. Update(free_list, fl1, d, list) /\ Update(arena, ar1, a, NewArena(d))
    BY DEF Update, ar1, NewArena
  <2>5. fl1[d] = list /\ Update(fl1, free_list', d, Tail(list))
    <3>1. free_list' = [free_list EXCEPT ![d] = Tail(list)]
      BY <1>7 DEF TakeBlock
    <3>2. free_list = [e \in Desc |-> free_list[e]]
      BY <1>1 DEF ListsOk
    <3> HIDE DEF list
    <3>3. DOMAIN free_list = Desc
      BY <3>2
    <3> QED BY <1>2, <3>1, <3>3 DEF Update
  <2>6. /\ CountDown(ar1, arena', block2arena(b))
        /\ given' = given \cup {g0}
    BY <1>7, TakeWrites
  <2>13. /\ vaddr' = bitmap_set_run(vaddr, a, 1, 1) /\ frames' = frames - 1 /\ others' = others
         /\ failed' = failed
    BY <1>7 DEF MapPages
  <2>14. /\ vaddr' \in Bitmaps(PageBytes)
         /\ \A p \in Page : bitmap_scan_test(vaddr', p)
                              <=> IF p \in a..(a + 1 - 1) THEN TRUE ELSE bitmap_scan_test(vaddr, p)
    <3>1. a..(a + 1 - 1) \subseteq BitIndex(PageBytes)
      BY <2>1, Consts
    <3>2. /\ bitmap_set_run(vaddr, a, 1, 1) \in Bitmaps(PageBytes)
          /\ \A j \in BitIndex(PageBytes) :
               bitmap_scan_test(bitmap_set_run(vaddr, a, 1, 1), j)
                 <=> IF j \in a..(a + 1 - 1) THEN 1 = 1 ELSE bitmap_scan_test(vaddr, j)
      BY <1>1, <2>1, <3>1, Consts, SetRun
    <3> QED BY <2>13, <3>2, Consts
  <2>15. FramesOk(vaddr', frames', others')
    <3>1. 1 <= frames
      BY <1>1, <1>7 DEF FramesOk
    <3>2. a..(a + 1 - 1) \subseteq Page /\ \A p \in a..(a + 1 - 1) : ~ bitmap_scan_test(vaddr, p)
      BY <2>1
    <3>3. FramesOk(vaddr', frames - 1, others)
      BY <1>1, <2>1, <2>14, <3>1, <3>2, FramesTaken
    <3> QED BY <2>13, <3>3
  <2> HIDE DEF list, fl1, fr1, b, g0, fr
  <2>7. ListsOk(fl1) /\ fr1 \in [Desc -> SUBSET Nat] /\ Other(fr, fr1, d, fr[d] \cup BlockSet(a, d))
    <3>1. ListsOk(fl1) /\ fr1 \in [Desc -> SUBSET Nat] /\ Other(fr, fr1, d, Range(list))
      BY <1>1, <1>2, <2>3, <2>4, ListChanged DEF fr, fr1
    <3>2. fr[d] = {}
      BY <1>2, <1>7 DEF fr, FreeSets, Range
    <3>3. fr[d] \cup BlockSet(a, d) = Range(list)
      BY <2>3, <3>2
    <3> QED BY <3>1, <3>3
  <2>8. HeapOk(ar1, fr1, given) /\ IsSmall(ar1, a) /\ ar1[a].desc = d
    BY <1>1, <1>2, <2>1, <2>2, <2>4, <2>7, OpenArena
  <2>9. MapOk(ar1, vaddr')
    <3>1. ar1[a] = NewArena(d) /\ \A c \in Page \ {a} : ar1[c] = arena[c]
      BY <1>1, <2>1, <2>4 DEF Update
    <3>2. ar1 \in [Page -> {NoArena} \cup SmallArena \cup LargeArena]
      BY <2>8 DEF HeapOk, Types
    <3>3. Span(ar1, a) = {a} /\ Span(arena, a) = {}
      BY <1>1, <2>1, <2>2, <2>8, <3>2, Spans
    <3>4. \A c \in Page \ {a} : Span(ar1, c) = Span(arena, c)
      BY <3>1 DEF Span
    <3>5. /\ vaddr' \in Bitmaps(PageBytes)
          /\ \A p \in Page : bitmap_scan_test(vaddr', p)
                               <=> IF p \in Span(ar1, a) THEN TRUE ELSE bitmap_scan_test(vaddr, p)
      <4>1. a..(a + 1 - 1) = {a}
        BY <2>1
      <4> QED BY <2>14, <3>3, <4>1
    <3> QED BY <1>1, <2>1, <3>3, <3>4, <3>5, MapAdd
  <2>10. /\ HeapOk(arena', FreeSets(free_list'), given \cup {g0}) /\ ListsOk(free_list')
         /\ MapOk(arena', vaddr') /\ g0.ptr = b
         /\ \A c \in Page \ {block2arena(b)} : arena'[c] = ar1[c]
    <3>1. g0 \in [ptr : Nat, size : Sizes] /\ g0.ptr = Head(fl1[d]) /\ g0.size = size /\ g0.ptr = b
      BY <2>3, <2>5 DEF g0, b
    <3>2. Popped(fl1, free_list', d, g0.ptr)
      BY <2>3, <2>5, <3>1 DEF Popped
    <3>3. CountDown(ar1, arena', block2arena(g0.ptr)) /\ g0.size <= block_size(d)
      BY <1>2, <2>6, <3>1
    <3>4. HeapOk(ar1, FreeSets(fl1), given)
      BY <2>8 DEF fr1
    <3>5. /\ HeapOk(arena', FreeSets(free_list'), given \cup {g0}) /\ ListsOk(free_list')
          /\ MapOk(arena', vaddr')
          /\ \A c \in Page \ {block2arena(g0.ptr)} : arena'[c] = ar1[c]
      <4>1. ListsOk(fl1) /\ d \in Desc /\ g0 \in [ptr : Nat, size : Sizes]
        BY <1>2, <2>7, <3>1
      <4> QED BY <2>9, <3>2, <3>3, <3>4, <4>1, TakeStep
    <3> QED BY <3>1, <3>5
  <2>11. block2arena(b) = a
    <3>1. b \in BlockSet(a, d)
      BY <2>3, TailList DEF b
    <3> QED BY <1>2, <2>1, <3>1, BlockLies
  <2>12. UsedOk(arena', given')
    <3>1. \A c \in Page \ {a} : arena'[c] = arena[c]
      BY <1>1, <2>4, <2>10, <2>11 DEF Update
    <3> QED BY <1>1, <2>6, <2>10, <2>11, <3>1 DEF UsedOk
  <2> QED BY <1>2, <2>6, <2>10, <2>12, <2>13, <2>15, NoPanicStep
<1> QED BY <1>3, <1>5, <1>6, <1>7, <1>8, <1>9

(* What holds after the first half of sys_free of a block.                 *)
AfterPut(ar, ar1, fl1, gv1, vm, a, d) ==
  /\ HeapOk(ar1, FreeSets(fl1), gv1) /\ ListsOk(fl1) /\ MapOk(ar1, vm)
  /\ a \in Page /\ IsSmall(ar1, a) /\ ar1[a].desc = d /\ d \in Desc
  /\ IsSmall(ar, a) /\ \A c \in Page \ {a} : ar1[c] = ar[c]

(* The first half of sys_free of a block: the block is appended to its     *)
(* free list and counted.                                                  *)
LEMMA PutStep ==
  ASSUME NEW ar, NEW fl, NEW gv, NEW vm, HeapOk(ar, FreeSets(fl), gv), ListsOk(fl), MapOk(ar, vm),
         NEW g \in gv, NEW a, NEW d, Belongs(ar, g, a, d),
         NEW ar1, CountUp(ar, ar1, a),
         NEW fl1, Pushed(fl, fl1, d, g.ptr)
  PROVE  AfterPut(ar, ar1, fl1, gv \ {g}, vm, a, d)
<1> DEFINE fr == FreeSets(fl)
           fr1 == FreeSets(fl1)
           l == Append(fl[d], g.ptr)
<1>1. block2arena(g.ptr) = a /\ ~ IsLarge(ar, a) /\ ar[a].desc = d
  BY DEF Belongs
<1>2. /\ Types(ar, fr, gv) /\ a \in Page /\ a \in Nat
      /\ ar \in [Page -> {NoArena} \cup SmallArena \cup LargeArena]
      /\ g \in [ptr : Nat, size : Sizes]
  BY <1>1, Consts DEF HeapOk, Types
<1>3. FreeAt(ar, fr, a) /\ GivenAt(ar, gv, a) /\ CountAt(ar, fr, gv, a)
  BY <1>2 DEF HeapOk
<1>4. From(ar, g, a)
  BY <1>1, <1>3 DEF GivenAt
<1>5. IsSmall(ar, a) /\ d \in Desc /\ g.ptr \in BlockSet(a, d)
  BY <1>1, <1>4 DEF From, IsSmall, SmallArena
<1>6. g.ptr \notin fr[d]
  BY <1>1, <1>3, <1>5 DEF CountAt
<1>7. /\ l \in Seq(Nat) /\ IsInjective(l) /\ Range(l) = fr[d] \cup {g.ptr}
      /\ Update(fl, fl1, d, l)
  <2>1. fl[d] \in Seq(Nat) /\ IsInjective(fl[d]) /\ fr[d] = Range(fl[d]) /\ g.ptr \in Nat
    BY <1>2, <1>5 DEF ListsOk, FreeSets
  <2>2. Update(fl, fl1, d, l)
    BY DEF Pushed
  <2> HIDE DEF fr
  <2> QED BY <1>6, <2>1, <2>2, AppendList
<1> HIDE DEF l, fr, fr1
<1>8. ListsOk(fl1) /\ fr1 \in [Desc -> SUBSET Nat] /\ Other(fr, fr1, d, Range(l))
  BY <1>5, <1>7, ListChanged DEF fr, fr1
<1>9. Added(fr, fr1, d, g.ptr)
  BY <1>7, <1>8 DEF Added
<1>10. /\ HeapOk(ar1, fr1, gv \ {g}) /\ IsSmall(ar1, a) /\ ar1[a].desc = d
  <2>1. HeapOk(ar, fr, gv)
    BY <1>1 DEF fr
  <2>2. a \in Page /\ d \in Desc /\ IsSmall(ar, a) /\ fr1 \in [Desc -> SUBSET Nat]
    BY <1>2, <1>5, <1>8
  <2> QED BY <1>9, <2>1, <2>2, GiveBack
<1>11. \A c \in Page \ {a} : ar1[c] = ar[c]
  BY <1>2 DEF CountUp
<1>12. \A c \in Page : Span(ar1, c) = Span(ar, c)
  <2>1. Span(ar1, a) = {a} /\ Span(ar, a) = {a}
    BY <1>2, <1>5, <1>10, Spans DEF HeapOk, Types
  <2>2. \A c \in Page \ {a} : Span(ar1, c) = Span(ar, c)
    BY <1>11 DEF Span
  <2> QED BY <2>1, <2>2
<1>13. MapOk(ar1, vm)
  BY <1>12, MapSame
<1> QED BY <1>2, <1>5, <1>8, <1>10, <1>11, <1>13 DEF fr1, AfterPut

(* An arena with a block that is not free has something given out.         *)
LEMMA SomethingGiven ==
  ASSUME NEW ar, NEW fr, NEW gv, HeapOk(ar, fr, gv), NEW a \in Page, IsSmall(ar, a),
         ar[a].cnt # blocks_per_arena(ar[a].desc)
  PROVE  \E g \in gv : block2arena(g.ptr) = a
<1> DEFINE d == ar[a].desc
<1>1. d \in Desc /\ a \in Nat /\ CountAt(ar, fr, gv, a)
  BY Consts DEF IsSmall, SmallArena, HeapOk
<1>2. PICK b \in BlockSet(a, d) : b \notin fr[d]
  <2> SUFFICES ASSUME \A b \in BlockSet(a, d) : b \in fr[d]
               PROVE  FALSE
    OBVIOUS
  <2>1. BlockSet(a, d) \cap fr[d] = BlockSet(a, d)
    OBVIOUS
  <2>2. Cardinality(BlockSet(a, d)) = blocks_per_arena(d)
    BY <1>1, BlocksList
  <2> QED BY <1>1, <2>1, <2>2 DEF CountAt
<1>3. PICK g \in gv : g.ptr = b
  BY <1>1, <1>2 DEF CountAt
<1>4. block2arena(b) = a
  <2> HIDE DEF d
  <2> QED BY <1>1, <1>2, BlockLies
<1> QED BY <1>3, <1>4

(* sys_free of a block.                                                    *)
LEMMA FreeBlockStep ==
  ASSUME HInv, NEW g \in given, FreeBlock(g)
  PROVE  HInv'
<1> DEFINE a == block2arena(g.ptr)
           d == arena[a].desc
           list == Append(free_list[d], g.ptr)
           ar1 == [arena EXCEPT ![a].cnt = @ + 1]
           fl1 == [free_list EXCEPT ![d] = list]
           fr1 == FreeSets(fl1)
           gv2 == given \ {g}
<1>1. /\ HeapOk(arena, FreeSets(free_list), given) /\ MapOk(arena, vaddr) /\ ListsOk(free_list)
      /\ UsedOk(arena, given)
      /\ arena \in [Page -> {NoArena} \cup SmallArena \cup LargeArena]
      /\ vaddr \in Bitmaps(PageBytes) /\ FramesOk(vaddr, frames, others)
  BY DEF HInv, HeapOk, Types, FreeBlock
<1>2. /\ failed = "none" /\ ~ arena[a].large
      /\ \/ arena[a].cnt + 1 = blocks_per_arena(d) /\ DropArena(g, a, d, list)
         \/ /\ arena[a].cnt + 1 # blocks_per_arena(d)
            /\ free_list' = fl1 /\ arena' = ar1 /\ given' = gv2
            /\ vaddr' = vaddr /\ frames' = frames /\ others' = others /\ failed' = failed
  BY DEF FreeBlock
<1>3. CountUp(arena, ar1, a) /\ Pushed(free_list, fl1, d, g.ptr)
  BY DEF CountUp, Pushed, Update
<1> HIDE DEF ar1, fl1
<1>4. /\ HeapOk(ar1, FreeSets(fl1), gv2) /\ ListsOk(fl1) /\ MapOk(ar1, vaddr)
      /\ a \in Page /\ IsSmall(ar1, a) /\ ar1[a].desc = d /\ d \in Desc /\ ar1[a].cnt = arena[a].cnt + 1
      /\ IsSmall(arena, a) /\ \A c \in Page \ {a} : ar1[c] = arena[c]
  <2>1. Belongs(arena, g, a, d)
    <3>1. \A r \in LargeArena : r.large = TRUE
      BY DEF LargeArena
    <3> QED BY <1>2, <3>1 DEF IsLarge, Belongs
  <2> HIDE DEF a, d
  <2>2. /\ HeapOk(ar1, FreeSets(fl1), gv2) /\ ListsOk(fl1) /\ MapOk(ar1, vaddr)
        /\ a \in Page /\ IsSmall(ar1, a) /\ ar1[a].desc = d /\ d \in Desc
        /\ IsSmall(arena, a) /\ \A c \in Page \ {a} : ar1[c] = arena[c]
    <3>1. HeapOk(arena, FreeSets(free_list), given) /\ ListsOk(free_list) /\ MapOk(arena, vaddr)
      BY <1>1
    <3>2. AfterPut(arena, ar1, fl1, gv2, vaddr, a, d)
      BY <1>3, <2>1, <3>1, PutStep
    <3> QED BY <3>2 DEF AfterPut
  <2>3. ar1[a].cnt = arena[a].cnt + 1
    <3>1. ar1[a] = [arena[a] EXCEPT !.cnt = arena[a].cnt + 1]
      BY <1>1, <2>2 DEF ar1
    <3>2. arena[a] \in SmallArena
      BY <2>2 DEF IsSmall
    <3> QED BY <3>1, <3>2 DEF SmallArena
  <2> QED BY <2>2, <2>3
<1>5. d \in Desc
  BY <1>4
<1>6. \A c \in Page \ {a} : arena[c] # NoArena => \E h \in gv2 : block2arena(h.ptr) = c
  BY <1>1 DEF UsedOk
<1>7. CASE /\ arena[a].cnt + 1 # blocks_per_arena(d)
           /\ free_list' = fl1 /\ arena' = ar1 /\ given' = gv2
           /\ vaddr' = vaddr /\ frames' = frames /\ others' = others /\ failed' = failed
  <2>1. \E h \in gv2 : block2arena(h.ptr) = a
    <3>1. ar1[a].cnt # blocks_per_arena(ar1[a].desc)
      BY <1>4, <1>7
    <3> HIDE DEF a, d, gv2
    <3> QED BY <1>4, <3>1, SomethingGiven
  <2>2. UsedOk(ar1, gv2)
    BY <1>4, <1>6, <2>1 DEF UsedOk
  <2> QED BY <1>1, <1>2, <1>4, <1>7, <2>2, NoPanicStep
<1>8. CASE arena[a].cnt + 1 = blocks_per_arena(d) /\ DropArena(g, a, d, list)
  <2>1. list \in Seq(Nat) /\ IsInjective(list) /\ fl1[d] = list /\ Range(list) = fr1[d]
    <3>1. fl1[d] = list
      BY <1>1, <1>5 DEF fl1, ListsOk
    <3> HIDE DEF list, d
    <3> QED BY <1>4, <1>5, <3>1 DEF ListsOk, FreeSets
  <2>2. BlockSet(a, d) \subseteq fr1[d]
    <3>1. ar1[a].cnt = Cardinality(BlockSet(a, d) \cap fr1[d])
      BY <1>4 DEF HeapOk, CountAt
    <3>2. Cardinality(BlockSet(a, d) \cap fr1[d]) = blocks_per_arena(d)
      BY <1>4, <1>8, <3>1
    <3>3. a \in Nat
      BY <1>4, Consts
    <3> HIDE DEF a, d, fr1
    <3> QED BY <1>5, <3>2, <3>3, FreeFinite
  <2>3. /\ free_list' = [free_list EXCEPT ![d] = list_without(list, BlockSet(a, d))]
        /\ vaddr' = bitmap_set_run(vaddr, a, 1, 0) /\ frames' = frames + 1 /\ others' = others
        /\ arena' = [arena EXCEPT ![a] = NoArena] /\ given' = gv2 /\ failed' = failed
    <3>1. \A i \in DOMAIN Blocks(a, d) : Blocks(a, d)[i] \in Range(list)
      <4> HIDE DEF list, fr1
      <4> QED BY <2>1, <2>2 DEF BlockSet, Range
    <3> HIDE DEF list
    <3> QED BY <1>8, <3>1 DEF DropArena, BlockSet, mfree_page
  <2> DEFINE l2 == list_without(list, BlockSet(a, d))
  <2>4. l2 \in Seq(Nat) /\ IsInjective(l2) /\ Range(l2) = fr1[d] \ BlockSet(a, d)
    <3> HIDE DEF list, fr1
    <3> QED BY <2>1, WithoutList
  <2>5. Update(fl1, free_list', d, l2) /\ Update(ar1, arena', a, NoArena)
    <3>1. DOMAIN free_list = Desc
      <4>1. free_list = [e \in Desc |-> free_list[e]]
        BY <1>1 DEF ListsOk
      <4> QED BY <4>1
    <3>2. Update(ar1, arena', a, NoArena)
      <4> HIDE DEF a
      <4> QED BY <1>1, <1>4, <2>3 DEF Update, ar1
    <3> HIDE DEF l2, list, a, d
    <3>3. Update(fl1, free_list', d, l2)
      BY <1>5, <2>3, <3>1 DEF Update, fl1, l2
    <3> QED BY <3>2, <3>3
  <2> HIDE DEF l2, list, a, d, gv2
  <2>6. /\ ListsOk(free_list') /\ FreeSets(free_list') \in [Desc -> SUBSET Nat]
        /\ Other(fr1, FreeSets(free_list'), d, Range(l2))
    BY <1>4, <1>5, <2>4, <2>5, ListChanged
  <2>7. Other(fr1, FreeSets(free_list'), d, fr1[d] \ BlockSet(a, d))
    BY <2>4, <2>6
  <2>8. HeapOk(ar1, fr1, gv2) /\ a \in Page /\ IsSmall(ar1, a) /\ ar1[a].desc = d
    BY <1>4 DEF d
  <2> HIDE DEF fr1
  <2>9. HeapOk(arena', FreeSets(free_list'), gv2)
    BY <1>5, <2>2, <2>5, <2>6, <2>7, <2>8, CloseArena
  <2>10. /\ ar1 \in [Page -> {NoArena} \cup SmallArena \cup LargeArena]
         /\ arena'[a] = NoArena /\ (\A c \in Page \ {a} : arena'[c] = ar1[c])
    BY <2>5, <2>8 DEF HeapOk, Types, Update
  <2>11. Span(ar1, a) = {a} /\ Span(arena', a) = {} /\ \A c \in Page \ {a} : Span(arena', c) = Span(ar1, c)
    <3>1. Span(ar1, a) = {a}
      BY <2>8, <2>10, Spans
    <3> QED BY <2>10, <3>1 DEF Span
  <2>12. /\ vaddr' \in Bitmaps(PageBytes)
         /\ \A p \in Page : bitmap_scan_test(vaddr', p)
                              <=> IF p \in Span(ar1, a) THEN FALSE ELSE bitmap_scan_test(vaddr, p)
    <3>1. a \in Nat /\ a..(a + 1 - 1) = {a} /\ a..(a + 1 - 1) \subseteq BitIndex(PageBytes)
      BY <2>8, Consts
    <3>2. /\ bitmap_set_run(vaddr, a, 1, 0) \in Bitmaps(PageBytes)
          /\ \A j \in BitIndex(PageBytes) :
               bitmap_scan_test(bitmap_set_run(vaddr, a, 1, 0), j)
                 <=> IF j \in a..(a + 1 - 1) THEN 0 = 1 ELSE bitmap_scan_test(vaddr, j)
      BY <1>1, <3>1, Consts, SetRun
    <3> QED BY <2>3, <2>11, <3>1, <3>2, Consts
  <2>13. MapOk(arena', vaddr')
    BY <1>4, <2>8, <2>11, <2>12, MapRemove
  <2>14. UsedOk(arena', given')
    BY <1>4, <1>6, <2>3, <2>10 DEF UsedOk
  <2>15. FramesOk(vaddr', frames', others')
    <3>1. a \in Nat /\ a..(a + 1 - 1) = {a} /\ a..(a + 1 - 1) \subseteq Page
      BY <2>8, Consts
    <3>2. bitmap_scan_test(vaddr, a)
      BY <1>4, <2>8, <2>11 DEF MapOk
    <3>3. \A p \in Page : bitmap_scan_test(vaddr', p)
                          <=> IF p \in a..(a + 1 - 1) THEN FALSE ELSE bitmap_scan_test(vaddr, p)
      BY <2>11, <2>12, <3>1
    <3>4. \A p \in a..(a + 1 - 1) : bitmap_scan_test(vaddr, p)
      BY <3>1, <3>2
    <3>5. FramesOk(vaddr', frames + 1, others)
      <4>1. FramesOk(vaddr, frames, others) /\ a \in Nat /\ a..(a + 1 - 1) \subseteq Page /\ 1 \in Nat \ {0}
        BY <1>1, <3>1
      <4> HIDE DEF fr1
      <4> QED BY <3>3, <3>4, <4>1, FramesBack
    <3> QED BY <2>3, <3>5
  <2> QED BY <1>2, <2>3, <2>6, <2>9, <2>13, <2>14, <2>15, NoPanicStep
<1> QED BY <1>2, <1>7, <1>8

(* Every step of sys_malloc and sys_free, and of the others that use the   *)
(* pool, keeps the invariant.                                              *)
LEMMA HInvNext == HInv /\ [HeapNext]_heapVars => HInv'
<1> SUFFICES ASSUME HInv, [HeapNext]_heapVars PROVE HInv'
  OBVIOUS
<1>1. CASE UNCHANGED heapVars
  <2>1. /\ vaddr' = vaddr /\ arena' = arena /\ free_list' = free_list /\ given' = given
        /\ frames' = frames /\ others' = others /\ failed' = failed
    BY <1>1 DEF heapVars
  <2>2. Rest(arena, free_list, given)'
    <3>1. Rest(arena, free_list, given)
      BY DEF HInv, Rest
    <3> QED BY <2>1, <3>1
  <2>3. /\ vaddr' \in Bitmaps(PageBytes) /\ frames' \in Nat /\ others' \in Nat
        /\ failed' = "none" => MapOk(arena', vaddr') /\ FramesOk(vaddr', frames', others')
    BY <2>1 DEF HInv
  <2>4. ListsNeverPanic'
    BY <2>1 DEF HInv, ListsNeverPanic, Taken
  <2> QED BY <2>1, <2>2, <2>3, <2>4 DEF HInv, Rest
<1>2. ASSUME NEW size \in Sizes, sys_malloc(size)
      PROVE  HInv'
  <2>1. CASE MallocTooMuch(size)
    BY <1>1, <2>1 DEF MallocTooMuch
  <2> QED BY <1>2, <2>1, MallocPagesStep, MallocBlockStep DEF sys_malloc
<1>3. ASSUME NEW g \in given, sys_free(g)
      PROVE  HInv'
  BY <1>3, FreePagesStep, FreeBlockStep DEF sys_free
<1>4. CASE OthersTake \/ OthersGiveBack
  <2>1. /\ failed = "none" /\ failed' = failed /\ vaddr' = vaddr
        /\ arena' = arena /\ free_list' = free_list /\ given' = given
    BY <1>4 DEF OthersTake, OthersGiveBack
  <2>2. /\ HeapOk(arena, FreeSets(free_list), given) /\ MapOk(arena, vaddr) /\ ListsOk(free_list)
        /\ UsedOk(arena, given) /\ FramesOk(vaddr, frames, others)
    BY <2>1 DEF HInv
  <2> DEFINE c == Cardinality(Marked(vaddr))
  <2>3. c \in Nat /\ frames \in Nat /\ others \in Nat /\ frames + others + c = PoolFrames
    BY <2>2, MarkedFinite DEF FramesOk
  <2>4. \/ frames > 0 /\ frames' = frames - 1 /\ others' = others + 1
        \/ others > 0 /\ frames' = frames + 1 /\ others' = others - 1
    BY <1>4 DEF OthersTake, OthersGiveBack
  <2> HIDE DEF c
  <2>5. frames' \in Nat /\ others' \in Nat /\ frames' + others' + c = PoolFrames
    BY <2>3, <2>4
  <2>6. FramesOk(vaddr', frames', others')
    BY <2>1, <2>5 DEF FramesOk, c
  <2> QED BY <2>1, <2>2, <2>6, NoPanicStep
<1> QED BY <1>1, <1>2, <1>3, <1>4 DEF HeapNext

(* Every reachable state satisfies the invariant.                          *)
THEOREM HeapInvariance == HeapSpec => []HInv
<1>1. HeapInit => HInv
  BY HInvInit
<1>2. HInv /\ [HeapNext]_heapVars => HInv'
  BY HInvNext
<1> QED BY <1>1, <1>2, PTL DEF HeapSpec
-----------------------------------------------------------------------------
(* The page behind the last one of an arena.                               *)
Top(ar, a) == IF ar[a].large THEN a + ar[a].cnt ELSE a + 1

(* The arenas follow each other, and none reaches past the heap.           *)
LEMMA Arenas ==
  ASSUME NEW ar \in [Page -> {NoArena} \cup SmallArena \cup LargeArena], SpansOk(ar),
         NEW a \in Page, ar[a] # NoArena
  PROVE  /\ Top(ar, a) \in Nat /\ a < Top(ar, a) /\ Top(ar, a) * PG_SIZE <= HeapBytes
         /\ Span(ar, a) = a..(Top(ar, a) - 1)
         /\ \A c \in Page : ar[c] # NoArena /\ a < c => Top(ar, a) <= c
<1> DEFINE t == Top(ar, a)
<1>1. a \in Nat /\ PG_SIZE \in Nat \ {0} /\ PageBytes \in Nat \ {0} /\ ByteBits \in Nat \ {0}
  BY Consts, ByteAssumption
<1>2. IsSmall(ar, a) \/ IsLarge(ar, a)
  BY DEF IsSmall, IsLarge
<1>3. t \in Nat /\ a < t /\ Span(ar, a) = a..(t - 1)
  <2>1. CASE IsSmall(ar, a)
    <3>1. t = a + 1 /\ Span(ar, a) = {a}
      BY <2>1, Kinds, Spans DEF Top, IsSmall
    <3> QED BY <1>1, <3>1
  <2>2. CASE IsLarge(ar, a)
    <3>1. t = a + ar[a].cnt /\ ar[a].cnt \in Nat \ {0} /\ Span(ar, a) = a..(a + ar[a].cnt - 1)
      BY <2>2, Kinds, Spans DEF Top, IsLarge
    <3> QED BY <1>1, <3>1
  <2> QED BY <1>2, <2>1, <2>2
<1> HIDE DEF t
<1>4. t - 1 \in Page
  BY <1>1, <1>3 DEF MapOk, SpansOk
<1>5. t * PG_SIZE <= HeapBytes
  <2> DEFINE m == ByteBits * PageBytes
  <2>1. m \in Nat /\ HeapBytes = m * PG_SIZE
    BY <1>1 DEF HeapBytes
  <2>2. t <= m
    BY <1>3, <1>4, <2>1 DEF Page
  <2> HIDE DEF m
  <2>3. t * PG_SIZE <= m * PG_SIZE
    BY <1>1, <1>3, <2>1, <2>2
  <2> QED BY <2>1, <2>3
<1>6. ASSUME NEW c \in Page, ar[c] # NoArena, a < c
      PROVE  t <= c
  <2>1. c \in Span(ar, c) /\ c \in Nat
    BY <1>6, Spans, Consts
  <2>2. c \notin a..(t - 1)
    BY <1>1, <1>3, <1>6, <2>1 DEF MapOk, SpansOk
  <2> QED BY <1>1, <1>3, <1>6, <2>1, <2>2
<1> QED BY <1>3, <1>5, <1>6 DEF t

(* Where what was given out of an arena lies: behind its struct arena and  *)
(* within its pages.                                                       *)
LEMMA GivenLies ==
  ASSUME NEW ar \in [Page -> {NoArena} \cup SmallArena \cup LargeArena], NEW a \in Page,
         NEW g \in [ptr : Nat, size : Sizes], From(ar, g, a)
  PROVE  /\ ar[a] # NoArena
         /\ a * PG_SIZE + ArenaSize <= g.ptr
         /\ g.ptr + g.size <= Top(ar, a) * PG_SIZE
<1>1. /\ a \in Nat /\ PG_SIZE \in Nat \ {0} /\ ArenaSize \in Nat /\ g.ptr \in Nat /\ g.size \in Nat
      /\ a * PG_SIZE \in Nat
  <2>1. a \in Nat /\ PG_SIZE \in Nat \ {0} /\ ArenaSize \in Nat
    BY Consts
  <2>2. Sizes \subseteq Nat
    BY HeapAssumption
  <2>3. g.ptr \in Nat /\ g.size \in Nat
    BY <2>2
  <2>4. a * PG_SIZE \in Nat
    BY <2>1
  <2> QED BY <2>1, <2>3, <2>4
<1>2. CASE /\ IsLarge(ar, a) /\ g.ptr = a * PG_SIZE + ArenaSize
           /\ g.size + ArenaSize <= ar[a].cnt * PG_SIZE
  <2> DEFINE n == ar[a].cnt
  <2>1. n \in Nat /\ Top(ar, a) = a + n /\ ar[a] # NoArena
    BY <1>2, Kinds DEF IsLarge, Top
  <2> HIDE DEF n
  <2>2. (a + n) * PG_SIZE = a * PG_SIZE + n * PG_SIZE /\ n * PG_SIZE \in Nat
    BY <1>1, <2>1
  <2>3. g.ptr + g.size <= a * PG_SIZE + n * PG_SIZE
    BY <1>1, <1>2, <2>1, <2>2 DEF n
  <2> QED BY <1>1, <1>2, <2>1, <2>2, <2>3
<1>3. CASE /\ IsSmall(ar, a) /\ g.ptr \in BlockSet(a, ar[a].desc)
           /\ g.size <= block_size(ar[a].desc)
  <2> DEFINE d == ar[a].desc
  <2>1. d \in Desc /\ Top(ar, a) = a + 1 /\ ar[a] # NoArena
    BY <1>3, Kinds DEF IsSmall, Top
  <2> HIDE DEF d
  <2>2. /\ a * PG_SIZE + ArenaSize <= g.ptr /\ g.ptr + block_size(d) <= a * PG_SIZE + PG_SIZE
        /\ block_size(d) \in Nat
    BY <1>1, <1>3, <2>1, BlockLies, BlockSizes DEF d
  <2>3. g.size <= block_size(d)
    BY <1>3 DEF d
  <2>4. (a + 1) * PG_SIZE = a * PG_SIZE + PG_SIZE
    BY <1>1
  <2> QED BY <1>1, <2>1, <2>2, <2>3, <2>4
<1> QED BY <1>2, <1>3 DEF From

(* Ranges of bytes that follow each other have no byte in common.          *)
LEMMA ExtentsApart ==
  ASSUME NEW p \in Nat, NEW n \in Nat, NEW q \in Nat, NEW m \in Nat, p + n <= q \/ q + m <= p
  PROVE  Extent(p, n) \cap Extent(q, m) = {}
  BY DEF Extent

(* Two arenas: what lies in one lies before or behind what lies in the     *)
(* other.                                                                  *)
LEMMA TwoArenas ==
  ASSUME NEW ar \in [Page -> {NoArena} \cup SmallArena \cup LargeArena], SpansOk(ar),
         NEW a \in Page, ar[a] # NoArena, NEW c \in Page, ar[c] # NoArena, a # c,
         NEW p \in Nat, NEW n \in Nat, a * PG_SIZE <= p, p + n <= Top(ar, a) * PG_SIZE,
         NEW q \in Nat, NEW m \in Nat, c * PG_SIZE <= q, q + m <= Top(ar, c) * PG_SIZE
  PROVE  Extent(p, n) \cap Extent(q, m) = {}
<1>1. a \in Nat /\ c \in Nat /\ PG_SIZE \in Nat \ {0} /\ Top(ar, a) \in Nat /\ Top(ar, c) \in Nat
  BY Consts, Arenas
<1>2. Top(ar, a) <= c \/ Top(ar, c) <= a
  <2>1. a < c \/ c < a
    BY <1>1
  <2> QED BY <2>1, Arenas
<1>3. CASE Top(ar, a) <= c
  <2> DEFINE t == Top(ar, a)
  <2>1. t \in Nat /\ t <= c /\ p + n <= t * PG_SIZE
    BY <1>1, <1>3
  <2> HIDE DEF t
  <2>2. t * PG_SIZE <= c * PG_SIZE /\ t * PG_SIZE \in Nat /\ c * PG_SIZE \in Nat
    BY <1>1, <2>1
  <2>3. p + n <= q
    BY <2>1, <2>2
  <2> QED BY <2>3, ExtentsApart
<1>4. CASE Top(ar, c) <= a
  <2> DEFINE t == Top(ar, c)
  <2>1. t \in Nat /\ t <= a /\ q + m <= t * PG_SIZE
    BY <1>1, <1>4
  <2> HIDE DEF t
  <2>2. t * PG_SIZE <= a * PG_SIZE /\ t * PG_SIZE \in Nat /\ a * PG_SIZE \in Nat
    BY <1>1, <2>1
  <2>3. q + m <= p
    BY <2>1, <2>2
  <2> QED BY <2>3, ExtentsApart
<1> QED BY <1>2, <1>3, <1>4

(* What HInv says of something that was given out.                         *)
LEMMA GivenFacts ==
  ASSUME HInv, NEW g \in given
  PROVE  LET a == block2arena(g.ptr)
         IN  /\ g \in [ptr : Nat, size : Sizes] /\ g.ptr \in Nat /\ g.size \in Nat
             /\ a \in Page /\ a \in Nat /\ arena[a] # NoArena /\ From(arena, g, a)
             /\ a * PG_SIZE \in Nat /\ a * PG_SIZE <= g.ptr
             /\ a * PG_SIZE + ArenaSize <= g.ptr
             /\ Top(arena, a) \in Nat
             /\ g.ptr + g.size <= Top(arena, a) * PG_SIZE /\ Top(arena, a) * PG_SIZE <= HeapBytes
<1> DEFINE a == block2arena(g.ptr)
<1>1. /\ HeapOk(arena, FreeSets(free_list), given) /\ SpansOk(arena)
      /\ arena \in [Page -> {NoArena} \cup SmallArena \cup LargeArena]
      /\ g \in [ptr : Nat, size : Sizes] /\ a \in Page
  BY DEF HInv, HeapOk, Types
<1>2. From(arena, g, a)
  BY <1>1 DEF HeapOk, GivenAt
<1>3. Sizes \subseteq Nat
  BY HeapAssumption
<1>4. g.ptr \in Nat /\ g.size \in Nat
  BY <1>1, <1>3
<1> HIDE DEF a
<1>5. a \in Nat /\ PG_SIZE \in Nat /\ ArenaSize \in Nat
  BY <1>1, Consts
<1>6. a * PG_SIZE \in Nat
  BY <1>5
<1>7. /\ arena[a] # NoArena /\ a * PG_SIZE + ArenaSize <= g.ptr
      /\ g.ptr + g.size <= Top(arena, a) * PG_SIZE
  BY <1>1, <1>2, GivenLies
<1>8. Top(arena, a) \in Nat /\ Top(arena, a) * PG_SIZE <= HeapBytes
  BY <1>1, <1>7, Arenas
<1>9. a * PG_SIZE <= g.ptr
  BY <1>4, <1>5, <1>6, <1>7
<1> QED BY <1>1, <1>2, <1>4, <1>5, <1>6, <1>7, <1>8, <1>9 DEF a

(* What HInv says of a block that is free.                                 *)
LEMMA FreeFacts ==
  ASSUME HInv, NEW d \in Desc, NEW b \in FreeBlocks(d)
  PROVE  LET a == block2arena(b)
         IN  /\ b \in Nat /\ a \in Page /\ a \in Nat /\ IsSmall(arena, a) /\ arena[a] # NoArena
             /\ arena[a].desc = d /\ b \in BlockSet(a, d) /\ block_size(d) \in Nat \ {0}
             /\ a * PG_SIZE <= b /\ Top(arena, a) \in Nat
             /\ b + block_size(d) <= Top(arena, a) * PG_SIZE /\ Top(arena, a) * PG_SIZE <= HeapBytes
<1> DEFINE a == block2arena(b)
           fr == FreeSets(free_list)
<1>1. /\ HeapOk(arena, fr, given) /\ SpansOk(arena) /\ b \in fr[d]
      /\ arena \in [Page -> {NoArena} \cup SmallArena \cup LargeArena]
      /\ b \in Nat /\ a \in Page
  <2>1. HeapOk(arena, fr, given) /\ SpansOk(arena) /\ b \in fr[d]
    BY DEF HInv, FreeSets, FreeBlocks
  <2> HIDE DEF fr
  <2> QED BY <2>1 DEF HeapOk, Types
<1>2. IsSmall(arena, a) /\ arena[a].desc = d /\ b \in BlockSet(a, d)
  <2> HIDE DEF fr
  <2> QED BY <1>1 DEF HeapOk, FreeAt
<1> HIDE DEF a, fr
<1>3. a \in Nat /\ PG_SIZE \in Nat /\ ArenaSize \in Nat /\ block_size(d) \in Nat \ {0}
  BY <1>1, Consts, BlockSizes
<1>4. a * PG_SIZE \in Nat /\ (a + 1) * PG_SIZE = a * PG_SIZE + PG_SIZE
  BY <1>3
<1>5. a * PG_SIZE + ArenaSize <= b /\ b + block_size(d) <= a * PG_SIZE + PG_SIZE
  BY <1>2, <1>3, BlockLies
<1>6. a * PG_SIZE <= b
  BY <1>1, <1>3, <1>4, <1>5
<1>7. arena[a] # NoArena /\ Top(arena, a) = a + 1
  BY <1>2, Kinds DEF IsSmall, Top
<1>8. Top(arena, a) \in Nat /\ Top(arena, a) * PG_SIZE <= HeapBytes
  BY <1>1, <1>7, Arenas
<1>9. b + block_size(d) <= Top(arena, a) * PG_SIZE
  BY <1>4, <1>5, <1>7
<1> QED BY <1>1, <1>2, <1>3, <1>6, <1>7, <1>8, <1>9 DEF a

(* Two allocations.                                                        *)
LEMMA GivenApart ==
  ASSUME HInv, NEW g \in given, NEW h \in given, g # h
  PROVE  Extent(g.ptr, g.size) \cap Extent(h.ptr, h.size) = {}
<1> DEFINE a == block2arena(g.ptr)
           c == block2arena(h.ptr)
           d == arena[a].desc
<1>1. /\ SpansOk(arena) /\ arena \in [Page -> {NoArena} \cup SmallArena \cup LargeArena]
      /\ \A p \in Page : GivenAt(arena, given, p)
  BY DEF HInv, HeapOk, Types
<1>2. /\ g.ptr \in Nat /\ g.size \in Nat /\ a \in Page /\ a \in Nat /\ arena[a] # NoArena
      /\ From(arena, g, a) /\ a * PG_SIZE <= g.ptr /\ g.ptr + g.size <= Top(arena, a) * PG_SIZE
  BY GivenFacts
<1>3. /\ h.ptr \in Nat /\ h.size \in Nat /\ c \in Page /\ c \in Nat /\ arena[c] # NoArena
      /\ From(arena, h, c) /\ c * PG_SIZE <= h.ptr /\ h.ptr + h.size <= Top(arena, c) * PG_SIZE
  BY GivenFacts
<1>4. g.ptr # h.ptr
  BY <1>1, <1>2 DEF GivenAt
<1> HIDE DEF a, c
<1>5. CASE a # c
  BY <1>1, <1>2, <1>3, <1>5, TwoArenas
<1>6. CASE a = c /\ IsLarge(arena, a)
  <2>1. ~ IsSmall(arena, a)
    BY <1>6, Kinds DEF IsLarge, IsSmall
  <2> QED BY <1>2, <1>3, <1>4, <1>6, <2>1 DEF From
<1>7. CASE a = c /\ IsSmall(arena, a)
  <2>1. ~ IsLarge(arena, a) /\ d \in Desc
    BY <1>7, Kinds DEF IsLarge, IsSmall
  <2>2. /\ g.ptr \in BlockSet(a, d) /\ h.ptr \in BlockSet(a, d)
        /\ g.size <= block_size(d) /\ h.size <= block_size(d)
    BY <1>2, <1>3, <1>7, <2>1 DEF From
  <2> HIDE DEF d
  <2>3. block_size(d) \in Nat
    BY <2>1, BlockSizes
  <2>4. g.ptr + block_size(d) <= h.ptr \/ h.ptr + block_size(d) <= g.ptr
    BY <1>2, <1>4, <2>1, <2>2, BlocksOfOne
  <2>5. g.ptr + g.size <= h.ptr \/ h.ptr + h.size <= g.ptr
    BY <1>2, <1>3, <2>2, <2>3, <2>4
  <2> QED BY <1>2, <1>3, <2>5, ExtentsApart
<1> QED BY <1>2, <1>5, <1>6, <1>7 DEF From

(* An allocation and a struct arena.                                       *)
LEMMA HeadersApart ==
  ASSUME HInv, NEW g \in given, NEW c \in Page, arena[c] # NoArena
  PROVE  Extent(g.ptr, g.size) \cap Extent(c * PG_SIZE, ArenaSize) = {}
<1> DEFINE a == block2arena(g.ptr)
<1>1. SpansOk(arena) /\ arena \in [Page -> {NoArena} \cup SmallArena \cup LargeArena]
  BY DEF HInv, HeapOk, Types
<1>2. /\ g.ptr \in Nat /\ g.size \in Nat /\ a \in Page /\ a \in Nat /\ arena[a] # NoArena
      /\ a * PG_SIZE \in Nat /\ a * PG_SIZE <= g.ptr /\ g.ptr + g.size <= Top(arena, a) * PG_SIZE
      /\ a * PG_SIZE + ArenaSize <= g.ptr
  BY GivenFacts
<1> HIDE DEF a
<1>3. c \in Nat /\ PG_SIZE \in Nat \ {0} /\ ArenaSize \in Nat /\ ArenaSize < PG_SIZE
  BY Consts
<1>4. c * PG_SIZE \in Nat
  BY <1>3
<1>5. CASE a = c
  BY <1>2, <1>3, <1>5, ExtentsApart
<1>6. CASE a # c
  <2> DEFINE t == Top(arena, c)
  <2>1. t \in Nat /\ c < t
    BY <1>1, Arenas
  <2> HIDE DEF t
  <2>2. (c + 1) * PG_SIZE <= t * PG_SIZE /\ (c + 1) * PG_SIZE = c * PG_SIZE + PG_SIZE /\ t * PG_SIZE \in Nat
    BY <1>3, <2>1
  <2>3. c * PG_SIZE + ArenaSize <= t * PG_SIZE
    BY <1>3, <1>4, <2>2
  <2>4. c * PG_SIZE <= c * PG_SIZE
    BY <1>4
  <2> DEFINE q == c * PG_SIZE
  <2>5. q \in Nat /\ c * PG_SIZE <= q /\ q + ArenaSize <= Top(arena, c) * PG_SIZE
    BY <1>4, <2>3, <2>4 DEF t
  <2> HIDE DEF q
  <2>6. Extent(g.ptr, g.size) \cap Extent(q, ArenaSize) = {}
    BY <1>1, <1>2, <1>3, <1>6, <2>5, TwoArenas
  <2> QED BY <2>6 DEF q
<1> QED BY <1>5, <1>6

(* An allocation and a block that is free.                                 *)
LEMMA FreeApart ==
  ASSUME HInv, NEW g \in given, NEW d \in Desc, NEW b \in FreeBlocks(d)
  PROVE  Extent(g.ptr, g.size) \cap Extent(b, block_size(d)) = {}
<1> DEFINE a == block2arena(g.ptr)
           c == block2arena(b)
<1>1. SpansOk(arena) /\ arena \in [Page -> {NoArena} \cup SmallArena \cup LargeArena]
  BY DEF HInv, HeapOk, Types
<1>2. /\ g.ptr \in Nat /\ g.size \in Nat /\ a \in Page /\ a \in Nat /\ arena[a] # NoArena
      /\ From(arena, g, a) /\ a * PG_SIZE <= g.ptr /\ g.ptr + g.size <= Top(arena, a) * PG_SIZE
  BY GivenFacts
<1>3. /\ b \in Nat /\ c \in Page /\ IsSmall(arena, c) /\ arena[c] # NoArena
      /\ arena[c].desc = d /\ b \in BlockSet(c, d) /\ block_size(d) \in Nat
      /\ c * PG_SIZE <= b /\ b + block_size(d) <= Top(arena, c) * PG_SIZE
  BY FreeFacts
<1>4. CountAt(arena, FreeSets(free_list), given, c)
  BY <1>3 DEF HInv, HeapOk
<1>5. b \in FreeSets(free_list)[d]
  BY DEF FreeSets, FreeBlocks
<1>6. g.ptr # b
  BY <1>3, <1>4, <1>5 DEF CountAt
<1> HIDE DEF a, c
<1>7. CASE a # c
  BY <1>1, <1>2, <1>3, <1>7, TwoArenas
<1>8. CASE a = c
  <2>1. ~ IsLarge(arena, a)
    BY <1>3, <1>8, Kinds DEF IsLarge, IsSmall
  <2>2. g.ptr \in BlockSet(a, d) /\ g.size <= block_size(d) /\ b \in BlockSet(a, d)
    BY <1>2, <1>3, <1>8, <2>1 DEF From
  <2>3. g.ptr + block_size(d) <= b \/ b + block_size(d) <= g.ptr
    BY <1>2, <1>6, <2>2, BlocksOfOne
  <2>4. g.ptr + g.size <= b \/ b + block_size(d) <= g.ptr
    BY <1>2, <1>3, <2>2, <2>3
  <2> QED BY <1>2, <1>3, <2>4, ExtentsApart
<1> QED BY <1>7, <1>8

(* The bytes of what callers hold never overlap each other, a struct arena *)
(* or a free block, and are within the heap (sys_malloc and sys_free).     *)
THEOREM AllocationsApart == HeapSpec => []BlocksApart
<1>1. HInv => BlocksApart
  <2> SUFFICES ASSUME HInv, NEW g \in given
               PROVE  /\ Extent(g.ptr, g.size) \subseteq 0..(HeapBytes - 1)
                      /\ \A h \in given \ {g} : Extent(g.ptr, g.size) \cap Extent(h.ptr, h.size) = {}
                      /\ \A a \in Page : arena[a] # NoArena =>
                           Extent(g.ptr, g.size) \cap Extent(a * PG_SIZE, ArenaSize) = {}
                      /\ \A d \in Desc : \A b \in FreeBlocks(d) :
                           Extent(g.ptr, g.size) \cap Extent(b, block_size(d)) = {}
    BY DEF BlocksApart
  <2>1. Extent(g.ptr, g.size) \subseteq 0..(HeapBytes - 1)
    <3> DEFINE t == Top(arena, block2arena(g.ptr)) * PG_SIZE
    <3>1. g.ptr \in Nat /\ g.size \in Nat /\ g.ptr + g.size <= t /\ t <= HeapBytes /\ t \in Nat
      <4>1. PG_SIZE \in Nat
        BY Consts
      <4> QED BY <4>1, GivenFacts
    <3>2. HeapBytes \in Nat
      BY Consts, ByteAssumption DEF HeapBytes
    <3> HIDE DEF t
    <3> QED BY <3>1, <3>2 DEF Extent
  <2>2. \A h \in given \ {g} : Extent(g.ptr, g.size) \cap Extent(h.ptr, h.size) = {}
    BY GivenApart
  <2>3. \A a \in Page : arena[a] # NoArena =>
          Extent(g.ptr, g.size) \cap Extent(a * PG_SIZE, ArenaSize) = {}
    BY HeadersApart
  <2>4. \A d \in Desc : \A b \in FreeBlocks(d) :
          Extent(g.ptr, g.size) \cap Extent(b, block_size(d)) = {}
    BY FreeApart
  <2> QED BY <2>1, <2>2, <2>3, <2>4
<1> QED BY <1>1, HeapInvariance, PTL

(* The assertions of sys_malloc and sys_free about the free lists never    *)
(* fail, and that of bitmap_scan fails only when every page of the heap is *)
(* taken or the pool has no frame left.                                    *)
THEOREM FreeNeverPanics == HeapSpec => []ListsNeverPanic
<1>1. HInv => ListsNeverPanic
  BY DEF HInv
<1> QED BY <1>1, HeapInvariance, PTL

(* What CountsAgree says of an arena.                                      *)
LEMMA ArenaCounts ==
  ASSUME HInv, NEW d \in Desc, NEW a \in Page, Small(a), arena[a].desc = d
  PROVE  LET free == BlockSet(a, d) \cap FreeBlocks(d)
         IN  /\ arena[a].cnt = Cardinality(free)
             /\ BlockSet(a, d) \ free = {g.ptr : g \in given} \cap Extent(a * PG_SIZE, PG_SIZE)
<1> DEFINE fr == FreeSets(free_list)
           free == BlockSet(a, d) \cap FreeBlocks(d)
           o == a * PG_SIZE
<1>1. /\ HeapOk(arena, fr, given)
      /\ arena \in [Page -> {NoArena} \cup SmallArena \cup LargeArena]
      /\ fr[d] = FreeBlocks(d)
  BY DEF HInv, HeapOk, Types, FreeSets, FreeBlocks
<1> HIDE DEF fr
<1>2. IsSmall(arena, a) /\ ~ IsLarge(arena, a)
  <2>1. arena[a] \in SmallArena \/ arena[a] \in LargeArena
    BY <1>1 DEF Small
  <2> QED BY <2>1, Kinds DEF Small, IsSmall, IsLarge
<1>3. /\ arena[a].cnt = Cardinality(free)
      /\ \A b \in BlockSet(a, d) : b \in FreeBlocks(d) <=> ~ \E g \in given : g.ptr = b
  <2>1. CountAt(arena, fr, given, a)
    BY <1>1 DEF HeapOk
  <2>2. /\ arena[a].cnt = Cardinality(BlockSet(a, d) \cap fr[d])
        /\ \A b \in BlockSet(a, d) : b \in fr[d] <=> ~ \E g \in given : g.ptr = b
    BY <1>2, <2>1 DEF CountAt
  <2> QED BY <1>1, <2>2
<1>4. a \in Nat /\ PG_SIZE \in Nat \ {0} /\ ArenaSize \in Nat /\ o \in Nat /\ block_size(d) \in Nat \ {0}
  BY Consts, BlockSizes
<1>5. ASSUME NEW b \in BlockSet(a, d) \ free
      PROVE  b \in {g.ptr : g \in given} \cap Extent(o, PG_SIZE)
  <2>1. b \in Nat /\ o + ArenaSize <= b /\ b + block_size(d) <= o + PG_SIZE
    BY <1>4, BlockLies
  <2> HIDE DEF o
  <2>2. b \in Extent(o, PG_SIZE)
    BY <1>4, <2>1 DEF Extent
  <2> QED BY <1>3, <2>2
<1>6. ASSUME NEW g \in given, g.ptr \in Extent(o, PG_SIZE)
      PROVE  g.ptr \in BlockSet(a, d) \ free
  <2> DEFINE r == g.ptr - o
  <2>1. r \in 0..(PG_SIZE - 1) /\ g.ptr = a * PG_SIZE + r
    BY <1>4, <1>6 DEF Extent
  <2> HIDE DEF r
  <2>2. block2arena(g.ptr) = a
    BY <1>4, <2>1, PageOfByte
  <2>3. g.ptr \in BlockSet(a, d)
    BY <1>1, <1>2, <2>2 DEF HeapOk, GivenAt, From
  <2> QED BY <1>3, <2>3
<1> QED BY <1>3, <1>5, <1>6

(* The free lists hold the blocks of live arenas, none twice, and an arena *)
(* counts those of its blocks that are there (sys_malloc and sys_free).    *)
THEOREM CountsStayRight == HeapSpec => []CountsAgree
<1>1. HInv => CountsAgree
  <2> SUFFICES ASSUME HInv, NEW d \in Desc
               PROVE  /\ IsInjective(free_list[d])
                      /\ \A b \in FreeBlocks(d) :
                           LET a == block2arena(b)
                           IN  Small(a) /\ arena[a].desc = d /\ b \in Range(Blocks(a, d))
                      /\ \A a \in Page : Small(a) /\ arena[a].desc = d =>
                           LET free == Range(Blocks(a, d)) \cap FreeBlocks(d)
                           IN  /\ arena[a].cnt = Cardinality(free)
                               /\ Range(Blocks(a, d)) \ free =
                                    {g.ptr : g \in given} \cap Extent(a * PG_SIZE, PG_SIZE)
    BY DEF CountsAgree
  <2>1. IsInjective(free_list[d])
    BY DEF HInv, ListsOk
  <2>2. ASSUME NEW b \in FreeBlocks(d)
        PROVE  /\ Small(block2arena(b)) /\ arena[block2arena(b)].desc = d
               /\ b \in Range(Blocks(block2arena(b), d))
    <3>1. /\ IsSmall(arena, block2arena(b)) /\ arena[block2arena(b)] # NoArena
          /\ arena[block2arena(b)].desc = d /\ b \in BlockSet(block2arena(b), d)
      BY FreeFacts
    <3>2. ~ arena[block2arena(b)].large
      BY <3>1, Kinds DEF IsSmall
    <3> QED BY <3>1, <3>2 DEF Small, BlockSet
  <2>3. ASSUME NEW a \in Page, Small(a), arena[a].desc = d
        PROVE  /\ arena[a].cnt = Cardinality(Range(Blocks(a, d)) \cap FreeBlocks(d))
               /\ Range(Blocks(a, d)) \ (Range(Blocks(a, d)) \cap FreeBlocks(d)) =
                    {g.ptr : g \in given} \cap Extent(a * PG_SIZE, PG_SIZE)
    BY <2>3, ArenaCounts, Zenon DEF BlockSet
  <2> QED BY <2>1, <2>2, <2>3, Zenon
<1> QED BY <1>1, HeapInvariance, PTL

(* No page and no frame is kept for nothing: the pages that are marked are *)
(* those of the arenas, every frame of the pool is free, somebody else's   *)
(* or behind one of them, and every arena has something in use (sys_free,  *)
(* mfree_page).                                                            *)
THEOREM PagesComeBack == HeapSpec => []NoPageKept
<1>1. HInv => NoPageKept
  <2> SUFFICES ASSUME HInv, failed = "none" PROVE NoPageKept
    BY DEF NoPageKept
  <2>1. /\ MapOk(arena, vaddr) /\ UsedOk(arena, given) /\ FramesOk(vaddr, frames, others)
        /\ arena \in [Page -> {NoArena} \cup SmallArena \cup LargeArena]
    BY DEF HInv, HeapOk, Types
  <2> DEFINE pages(a) == Extent(a, IF arena[a].large THEN arena[a].cnt ELSE 1)
             live == {p \in Page : arena[p] # NoArena}
  <2>2. ASSUME NEW a \in live
        PROVE  pages(a) = Span(arena, a)
    <3>1. a \in Nat /\ (IsSmall(arena, a) \/ IsLarge(arena, a))
      BY <2>1, Consts DEF IsSmall, IsLarge
    <3>2. CASE IsLarge(arena, a)
      <4> DEFINE n == arena[a].cnt
      <4>1. arena[a].large /\ n \in Nat
        BY <3>2, Kinds DEF IsLarge
      <4>2. Span(arena, a) = a..(a + n - 1)
        BY <2>1, <3>2, Spans
      <4>3. pages(a) = Extent(a, n)
        BY <4>1
      <4> HIDE DEF n, pages
      <4> QED BY <3>1, <4>1, <4>2, <4>3 DEF Extent
    <3>3. CASE IsSmall(arena, a)
      <4>1. ~ arena[a].large
        BY <3>3, Kinds DEF IsSmall
      <4>2. Span(arena, a) = {a}
        BY <2>1, <3>3, Spans
      <4>3. pages(a) = Extent(a, 1)
        BY <4>1
      <4> HIDE DEF pages
      <4> QED BY <3>1, <4>2, <4>3 DEF Extent
    <3> QED BY <3>1, <3>2, <3>3
  <2> HIDE DEF pages
  <2>3. \A a \in Page \ live : Span(arena, a) = {}
    BY DEF Span
  <2>4. {p \in Page : bitmap_scan_test(vaddr, p)} = UNION {pages(a) : a \in live}
    <3>1. ASSUME NEW p \in Page, bitmap_scan_test(vaddr, p)
          PROVE  \E a \in live : p \in pages(a)
      BY <2>1, <2>2, <2>3, <3>1 DEF MapOk, SpansOk
    <3>2. ASSUME NEW a \in live, NEW p \in pages(a)
          PROVE  p \in Page /\ bitmap_scan_test(vaddr, p)
      BY <2>1, <2>2 DEF MapOk, SpansOk
    <3> QED BY <3>1, <3>2
  <2>5. \A a \in Page : arena[a] # NoArena => \E g \in given : block2arena(g.ptr) = a
    BY <2>1 DEF UsedOk
  <2>6. Taken = UNION {pages(a) : a \in live}
    BY <2>4 DEF Taken
  <2>7. frames + others + Cardinality(Taken) = PoolFrames
    BY <2>1 DEF FramesOk, Marked, Taken
  <2> QED BY <2>5, <2>6, <2>7 DEF NoPageKept, pages
<1> QED BY <1>1, HeapInvariance, PTL

(* The type invariant: counts are within their bounds and every address is *)
(* one of the heap.                                                        *)
THEOREM HeapTypeCorrect == HeapSpec => []HeapTypeOK
<1>1. HInv => HeapTypeOK
  <2> SUFFICES ASSUME HInv PROVE HeapTypeOK
    OBVIOUS
  <2>1. /\ HeapOk(arena, FreeSets(free_list), given) /\ SpansOk(arena)
        /\ vaddr \in Bitmaps(PageBytes) /\ frames \in Nat /\ others \in Nat
        /\ arena \in [Page -> {NoArena} \cup SmallArena \cup LargeArena]
        /\ failed \in {"none", "malloc_page", "bitmap_scan"}
    BY DEF HInv, HeapOk, Types, MapOk
  <2>2. HeapBytes \in Nat /\ PG_SIZE \in Nat \ {0} /\ ByteBits * PageBytes \in Nat
    BY Consts, ByteAssumption DEF HeapBytes
  <2>3. ASSUME NEW a \in Page, arena[a] # NoArena
        PROVE  IF arena[a].large
               THEN arena[a].desc = NoDesc /\ arena[a].cnt \in 1..(ByteBits * PageBytes)
               ELSE arena[a].desc \in Desc /\ arena[a].cnt \in 0..blocks_per_arena(arena[a].desc)
    <3>1. CASE IsLarge(arena, a)
      <4>1. arena[a].large /\ arena[a].desc = NoDesc /\ arena[a].cnt \in Nat \ {0}
        BY <3>1, Kinds DEF IsLarge
      <4> DEFINE n == arena[a].cnt
      <4>2. a \in Nat /\ n \in Nat \ {0} /\ Span(arena, a) = a..(a + n - 1)
        BY <2>1, <3>1, <4>1, Spans, Consts
      <4> HIDE DEF n
      <4>3. a + n - 1 \in Page
        BY <2>1, <4>2 DEF MapOk, SpansOk
      <4>4. n <= ByteBits * PageBytes
        BY <2>2, <4>2, <4>3 DEF Page
      <4> QED BY <2>2, <4>1, <4>2, <4>4 DEF n
    <3>2. CASE IsSmall(arena, a)
      <4> DEFINE d == arena[a].desc
      <4>1. ~ arena[a].large /\ d \in Desc /\ a \in Nat
        BY <3>2, Kinds, Consts DEF IsSmall
      <4>2. arena[a].cnt = Cardinality(BlockSet(a, d) \cap FreeSets(free_list)[d])
        BY <2>1, <3>2 DEF HeapOk, CountAt
      <4> HIDE DEF d
      <4>3. Cardinality(BlockSet(a, d) \cap FreeSets(free_list)[d]) \in 0..blocks_per_arena(d)
        BY <4>1, FreeFinite
      <4> QED BY <4>1, <4>2, <4>3 DEF d
    <3> QED BY <2>1, <2>3, <3>1, <3>2 DEF IsSmall, IsLarge
  <2>4. ASSUME NEW d \in Desc, NEW i \in DOMAIN free_list[d]
        PROVE  free_list[d][i] \in 0..(HeapBytes - 1)
    <3> DEFINE b == free_list[d][i]
               t == Top(arena, block2arena(b)) * PG_SIZE
    <3>1. b \in FreeBlocks(d)
      BY DEF FreeBlocks, Range
    <3> HIDE DEF b
    <3>2. b \in Nat /\ block_size(d) \in Nat \ {0} /\ b + block_size(d) <= t /\ t <= HeapBytes /\ t \in Nat
      BY <2>2, <3>1, FreeFacts
    <3> HIDE DEF t
    <3>3. b \in 0..(HeapBytes - 1)
      BY <2>2, <3>2
    <3> QED BY <3>3 DEF b
  <2>5. ASSUME NEW g \in given
        PROVE  g.ptr \in 0..(HeapBytes - 1) /\ g.size \in Sizes
    <3> DEFINE a == block2arena(g.ptr)
    <3>1. /\ g.ptr \in Nat /\ a \in Page /\ a \in Nat /\ g \in [ptr : Nat, size : Sizes]
          /\ g.ptr < a * PG_SIZE + PG_SIZE
      <4>1. g.ptr \in Nat /\ a \in Page /\ a \in Nat /\ g \in [ptr : Nat, size : Sizes]
        BY GivenFacts
      <4> DEFINE x == g.ptr
      <4>2. x < (x \div PG_SIZE) * PG_SIZE + PG_SIZE
        <5>1. x \in Nat
          BY <4>1
        <5> HIDE DEF x
        <5> QED BY <2>2, <5>1
      <4> QED BY <4>1, <4>2 DEF block2arena
    <3> DEFINE m == ByteBits * PageBytes
    <3> HIDE DEF a
    <3>2. a + 1 <= m /\ m \in Nat /\ HeapBytes = m * PG_SIZE
      BY <2>2, <3>1 DEF Page, HeapBytes
    <3> HIDE DEF m
    <3>3. (a + 1) * PG_SIZE <= m * PG_SIZE /\ (a + 1) * PG_SIZE = a * PG_SIZE + PG_SIZE
      BY <2>2, <3>1, <3>2
    <3>4. g.ptr < HeapBytes
      BY <2>2, <3>1, <3>2, <3>3
    <3> QED BY <2>2, <3>1, <3>4
  <2> QED BY <2>1, <2>3, <2>4, <2>5 DEF HeapTypeOK
<1> QED BY <1>1, HeapInvariance, PTL
=============================================================================
