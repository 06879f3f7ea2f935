-------------------------------- MODULE Heap ---------------------------------
(***************************************************************************)
(* sys_malloc and sys_free of kernel/memory.c over one heap: that of the   *)
(* kernel, with k_block_descs, or that of a process, with its              *)
(* u_block_descs.  Everything but the test of the size happens while the   *)
(* lock of the pool is held, so a call is one step here.  The pages come   *)
(* from malloc_page and go back through mfree_page, of which the bitmap of *)
(* virtual pages is kept and, of the pool behind them, how many frames are *)
(* free (module Pages has the rest).  The pool is not the heap's own: page *)
(* tables and other heaps take frames from it and give them back.          *)
(*                                                                         *)
(* Addresses are numbers, in bytes, from the start of the heap.            *)
(***************************************************************************)
EXTENDS BitmapOps, Sequences

CONSTANTS PG_SIZE,        \* 4096
          ArenaSize,      \* sizeof(struct arena), 12
          MinBlock,       \* 16
          DescCnt,        \* MEM_BLOCK_DESC_CNT, 7
          PgCntLimit,     \* 3840 in malloc_page
          PageBytes,      \* bytes of vaddr_bitmap
          PoolPages,      \* pages of the pool of frames
          Sizes           \* the sizes that are asked for

VARIABLES vaddr,       \* the pages that are taken
          frames,      \* how many frames of the pool are free
          others,      \* how many frames others have
          arena,       \* the struct arenas, by the page they are at the start of
          free_list,   \* of each mem_block_desc
          given,       \* what the callers hold: address and size asked for
          failed       \* the function whose assertion has failed, if any

heapVars == <<vaddr, frames, others, arena, free_list, given, failed>>

Desc == 0..(DescCnt - 1)
Page == 0..(ByteBits * PageBytes - 1)
HeapBytes == ByteBits * PageBytes * PG_SIZE

(* The bitmap of the pool has whole bytes; its pool_size does not lose the *)
(* pages of the remainder.                                                 *)
pool_size == PoolPages * PG_SIZE
PoolFrames == ByteBits * (PoolPages \div ByteBits)

NoArena == <<>>
NoDesc == -1
-----------------------------------------------------------------------------
block_size(d) == MinBlock * 2^d

(* A block of every descriptor fits in a page behind the struct arena.     *)
ASSUME HeapAssumption ==
  /\ {PG_SIZE, ArenaSize, MinBlock, DescCnt, PgCntLimit, PageBytes, PoolPages} \subseteq Nat \ {0}
  /\ \A d \in Desc : block_size(d) \in 1..(PG_SIZE - ArenaSize)
  /\ Sizes \subseteq Nat

blocks_per_arena(d) == (PG_SIZE - ArenaSize) \div block_size(d)

(* Mutant: the header of the arena is forgotten.                           *)
arena2block_flat(a, d, idx) == a * PG_SIZE + idx * block_size(d)

arena2block(a, d, idx) == a * PG_SIZE + ArenaSize + idx * block_size(d)
block2arena(b) == b \div PG_SIZE

Blocks(a, d) == [i \in 1..blocks_per_arena(d) |-> arena2block(a, d, i - 1)]

block_desc_init == free_list = [d \in Desc |-> <<>>]

HeapInit ==
  /\ vaddr = bitmap_init(PageBytes)
  /\ frames = PoolFrames /\ others = 0
  /\ arena = [a \in Page |-> NoArena]
  /\ block_desc_init
  /\ given = {}
  /\ failed = "none"

(* The type invariant.                                                     *)
HeapTypeOK ==
  /\ vaddr \in Bitmaps(PageBytes) /\ frames \in Nat /\ others \in Nat
  /\ \A a \in Page : arena[a] # NoArena =>
       IF arena[a].large
       THEN arena[a].desc = NoDesc /\ arena[a].cnt \in 1..(ByteBits * PageBytes)
       ELSE arena[a].desc \in Desc /\ arena[a].cnt \in 0..blocks_per_arena(arena[a].desc)
  /\ \A d \in Desc : \A i \in DOMAIN free_list[d] : free_list[d][i] \in 0..(HeapBytes - 1)
  /\ \A g \in given : g.ptr \in 0..(HeapBytes - 1) /\ g.size \in Sizes
  /\ failed \in {"none", "malloc_page", "bitmap_scan", "node_find"}
-----------------------------------------------------------------------------
Panic(f) == failed' = f /\ UNCHANGED <<vaddr, frames, others, arena, free_list, given>>

(* malloc_page marks cnt pages from a on, then takes a frame for one after *)
(* the other.  The assertion of bitmap_scan fails if the last frame of the *)
(* pool is gone before each has one.                                       *)
MapPages(a, cnt) ==
  /\ vaddr' = bitmap_set_run(vaddr, a, cnt, 1)
  /\ frames' = frames - cnt
  /\ UNCHANGED <<others, failed>>

FramesGone(a, cnt) ==
  /\ vaddr' = bitmap_set_run(vaddr, a, cnt, 1)
  /\ frames' = 0
  /\ failed' = "bitmap_scan"
  /\ UNCHANGED <<others, arena, free_list, given>>

DIV_ROUND_UP(x, step) == (x + step - 1) \div step

(* sys_malloc of more than the largest block: whole pages, of which the    *)
(* first starts with the arena.  malloc_page returns NULL without enough   *)
(* pages in a row, and fails an assertion without any, or without enough   *)
(* frames.                                                                 *)
MallocPages(size) ==
  LET pg_cnt == DIV_ROUND_UP(size + ArenaSize, PG_SIZE)
      a == bitmap_scan(vaddr, pg_cnt)
  IN  /\ failed = "none"
      /\ size > block_size(DescCnt - 1) /\ size <= pool_size
      /\ IF pg_cnt >= PgCntLimit THEN Panic("malloc_page")
         ELSE IF a = Panics THEN Panic("bitmap_scan")
         ELSE IF a = NotFound THEN UNCHANGED heapVars
         ELSE IF frames < pg_cnt THEN FramesGone(a, pg_cnt)
         ELSE /\ MapPages(a, pg_cnt)
              /\ arena' = [arena EXCEPT ![a] = [desc |-> NoDesc, cnt |-> pg_cnt, large |-> TRUE]]
              /\ given' = given \cup {[ptr |-> a * PG_SIZE + ArenaSize, size |-> size]}
              /\ UNCHANGED free_list

(* The first descriptor whose blocks are large enough.                     *)
desc_idx(size) == Min({d \in Desc : size <= block_size(d)})

(* The first block of the free list is given out.                          *)
TakeBlock(size, d, list, arenas) ==
  /\ free_list' = [free_list EXCEPT ![d] = Tail(list)]
  /\ arena' = [arenas EXCEPT ![block2arena(Head(list))].cnt = @ - 1]
  /\ given' = given \cup {[ptr |-> Head(list), size |-> size]}

(* sys_malloc of at most the largest block.  Without a free block a page   *)
(* becomes an arena and all its blocks are appended to the free list; none *)
(* may be there already.                                                   *)
MallocBlock(size) ==
  LET d == desc_idx(size)
      a == bitmap_scan(vaddr, 1)
  IN  /\ failed = "none"
      /\ size <= block_size(DescCnt - 1)
      /\ IF free_list[d] # <<>>
         THEN TakeBlock(size, d, free_list[d], arena) /\ UNCHANGED <<vaddr, frames, others, failed>>
         ELSE IF a = Panics THEN Panic("bitmap_scan")
         ELSE IF frames = 0 THEN FramesGone(a, 1)
         ELSE IF ~ IsInjective(Blocks(a, d)) THEN Panic("node_find")
         ELSE /\ MapPages(a, 1)
              /\ TakeBlock(size, d, Blocks(a, d),
                           [arena EXCEPT ![a] = [desc |-> d, cnt |-> blocks_per_arena(d),
                                                 large |-> FALSE]])

(* A request for more than the pool holds gets NULL before any lock.       *)
MallocTooMuch(size) == failed = "none" /\ size > pool_size /\ UNCHANGED heapVars

sys_malloc(size) == MallocPages(size) \/ MallocBlock(size) \/ MallocTooMuch(size)
-----------------------------------------------------------------------------
(* mfree_page.                                                             *)
mfree_page(a, cnt) ==
  /\ vaddr' = bitmap_set_run(vaddr, a, cnt, 0)
  /\ frames' = frames + cnt
  /\ UNCHANGED others

(* sys_free of whole pages.                                                *)
FreePages(g) ==
  LET a == block2arena(g.ptr)
  IN  /\ failed = "none"
      /\ arena[a].large
      /\ mfree_page(a, arena[a].cnt)
      /\ arena' = [arena EXCEPT ![a] = NoArena]
      /\ given' = given \ {g}
      /\ UNCHANGED <<free_list, failed>>

(* The nodes of list that are not in out, in their order.                  *)
list_without(list, out) ==
  LET kept[i \in 0..Len(list)] ==
        IF i = 0 THEN <<>>
        ELSE IF list[i] \in out THEN kept[i - 1] ELSE Append(kept[i - 1], list[i])
  IN  kept[Len(list)]

(* The arena a is empty: its blocks leave the free list one after the      *)
(* other, each of which must be there, and its page is given back.         *)
DropArena(g, a, d, list) ==
  IF \E i \in DOMAIN Blocks(a, d) : Blocks(a, d)[i] \notin Range(list)
  THEN Panic("node_find")
  ELSE /\ free_list' = [free_list EXCEPT ![d] = list_without(list, Range(Blocks(a, d)))]
       /\ mfree_page(a, 1)
       /\ arena' = [arena EXCEPT ![a] = NoArena]
       /\ given' = given \ {g}
       /\ UNCHANGED failed

(* Mutants of FreeBlock: the blocks of an arena that is dropped stay in    *)
(* the list; an arena is never dropped; the block is appended only after   *)
(* the test for an empty arena.                                            *)
FreeBlock_stay(g) ==
  LET a == block2arena(g.ptr)
      d == arena[a].desc
  IN  /\ failed = "none"
      /\ ~ arena[a].large
      /\ free_list' = [free_list EXCEPT ![d] = Append(@, g.ptr)]
      /\ IF arena[a].cnt + 1 = blocks_per_arena(d)
         THEN mfree_page(a, 1) /\ arena' = [arena EXCEPT ![a] = NoArena]
         ELSE arena' = [arena EXCEPT ![a].cnt = @ + 1] /\ UNCHANGED <<vaddr, frames, others>>
      /\ given' = given \ {g}
      /\ UNCHANGED failed

FreeBlock_keep(g) ==
  LET a == block2arena(g.ptr)
  IN  /\ failed = "none"
      /\ ~ arena[a].large
      /\ free_list' = [free_list EXCEPT ![arena[a].desc] = Append(@, g.ptr)]
      /\ arena' = [arena EXCEPT ![a].cnt = @ + 1]
      /\ given' = given \ {g}
      /\ UNCHANGED <<vaddr, frames, others, failed>>

FreeBlock_late(g) ==
  LET a == block2arena(g.ptr)
      d == arena[a].desc
  IN  /\ failed = "none"
      /\ ~ arena[a].large
      /\ IF arena[a].cnt + 1 = blocks_per_arena(d)
         THEN DropArena(g, a, d, free_list[d])
         ELSE /\ free_list' = [free_list EXCEPT ![d] = Append(@, g.ptr)]
              /\ arena' = [arena EXCEPT ![a].cnt = @ + 1]
              /\ given' = given \ {g}
              /\ UNCHANGED <<vaddr, frames, others, failed>>

(* sys_free of a block: it is appended to the free list of its descriptor  *)
(* and counted; an arena of which no block is in use is dropped.           *)
FreeBlock(g) ==
  LET a == block2arena(g.ptr)
      d == arena[a].desc
      list == Append(free_list[d], g.ptr)
  IN  /\ failed = "none"
      /\ ~ arena[a].large
      /\ IF arena[a].cnt + 1 = blocks_per_arena(d)
         THEN DropArena(g, a, d, list)
         ELSE /\ free_list' = [free_list EXCEPT ![d] = list]
              /\ arena' = [arena EXCEPT ![a].cnt = @ + 1]
              /\ given' = given \ {g}
              /\ UNCHANGED <<vaddr, frames, others, failed>>

(* A block is freed by the caller it was given to, once.                   *)
sys_free(g) == FreePages(g) \/ FreeBlock(g)

(* The rest of the system takes frames from the pool and gives back what   *)
(* it has.                                                                 *)
OthersTake ==
  /\ failed = "none" /\ frames > 0
  /\ frames' = frames - 1 /\ others' = others + 1
  /\ UNCHANGED <<vaddr, arena, free_list, given, failed>>

OthersGiveBack ==
  /\ failed = "none" /\ others > 0
  /\ frames' = frames + 1 /\ others' = others - 1
  /\ UNCHANGED <<vaddr, arena, free_list, given, failed>>

HeapNext ==
  \/ \E size \in Sizes : sys_malloc(size)
  \/ \E g \in given : sys_free(g)
  \/ OthersTake \/ OthersGiveBack

HeapSpec == HeapInit /\ [][HeapNext]_heapVars
-----------------------------------------------------------------------------
Extent(from, len) == from..(from + len - 1)
FreeBlocks(d) == Range(free_list[d])
Small(a) == arena[a] # NoArena /\ ~ arena[a].large

(* What callers hold is theirs: the bytes of two allocations never         *)
(* overlap, nor do they reach into an arena header, into a block on a free *)
(* list, where the next list_append would write, or past the heap.         *)
BlocksApart ==
  \A g \in given :
    /\ Extent(g.ptr, g.size) \subseteq 0..(HeapBytes - 1)
    /\ \A h \in given \ {g} : Extent(g.ptr, g.size) \cap Extent(h.ptr, h.size) = {}
    /\ \A a \in Page : arena[a] # NoArena =>
         Extent(g.ptr, g.size) \cap Extent(a * PG_SIZE, ArenaSize) = {}
    /\ \A d \in Desc : \A b \in FreeBlocks(d) :
         Extent(g.ptr, g.size) \cap Extent(b, block_size(d)) = {}

(* The free list of a descriptor holds blocks of its live arenas, none     *)
(* twice, and the cnt of an arena is the number of its blocks that are     *)
(* there; the others are held by callers.                                  *)
CountsAgree ==
  \A d \in Desc :
    /\ IsInjective(free_list[d])
    /\ \A b \in FreeBlocks(d) : LET a == block2arena(b)
                                IN  Small(a) /\ arena[a].desc = d /\ b \in Range(Blocks(a, d))
    /\ \A a \in Page : Small(a) /\ arena[a].desc = d =>
         LET free == Range(Blocks(a, d)) \cap FreeBlocks(d)
         IN  /\ arena[a].cnt = Cardinality(free)
             /\ Range(Blocks(a, d)) \ free = {g.ptr : g \in given} \cap Extent(a * PG_SIZE, PG_SIZE)

(* No page and no frame is kept for nothing: the pages that are taken are  *)
(* those of the arenas, each has one frame of the pool, and every arena    *)
(* has something in use, so that when everything has been freed every page *)
(* is free again.                                                          *)
Taken == {p \in Page : bitmap_scan_test(vaddr, p)}

NoPageKept ==
  failed = "none" =>
    /\ Taken = UNION {Extent(a, IF arena[a].large THEN arena[a].cnt ELSE 1) :
                        a \in {p \in Page : arena[p] # NoArena}}
    /\ frames + others + Cardinality(Taken) = PoolFrames
    /\ \A a \in Page : arena[a] # NoArena => \E g \in given : block2arena(g.ptr) = a

(* The assertions about the free lists never fail, and bitmap_scan's fails *)
(* only when every page is taken or the pool has no frame left.            *)
ListsNeverPanic ==
  /\ failed # "node_find"
  /\ failed = "bitmap_scan" => Taken = Page \/ frames = 0
=============================================================================
