-------------------------------- MODULE Pages --------------------------------
(***************************************************************************)
(* The page allocator of kernel/memory.c: the two pools of physical        *)
(* frames, the pools of virtual pages (one of the kernel, one of each      *)
(* process), the page tables and the TLB, used by kernel threads with      *)
(* interrupts on and by processes.                                         *)
(*                                                                         *)
(* Each pool has a lock.  A lock is taken in one step here: module Sync    *)
(* shows that lock_acquire and lock_release amount to that (IsMutex).      *)
(* Between lock_acquire and lock_release the thread may be preempted       *)
(* between any two of the steps below, except in a system call, which runs *)
(* with interrupts off: cli is the thread that does.                       *)
(*                                                                         *)
(* Page tables for kernel addresses all exist from the start (the loader   *)
(* has made them); the one for a user page is made when it is first        *)
(* needed, from a frame of the KERNEL pool, by a process that has the lock *)
(* of the USER pool.  The bitmap of the kernel pool is therefore shared by *)
(* threads that do not exclude each other, and every access to a byte of a *)
(* bitmap of frames is a step of its own: bitmap_scan reads byte by byte,  *)
(* then bit by bit, and bitmap_set loads the byte and stores it again.     *)
(* The bitmaps of virtual pages are touched under a lock, or by their own  *)
(* process only; a loop over one of those is one step.                     *)
(***************************************************************************)
EXTENDS BitmapOps, Sequences

CONSTANTS Kernel, Process,          \* threads without and with a pgdir
          NoThread,
          KernelFrames, UserFrames, \* bytes of the bitmaps of the pools of frames
          KernelPages, UserPages,   \* bytes of the bitmaps of virtual pages
          TableSize,                \* pages that one page table maps (1024)
          MaxCnt                    \* the largest request that is made

ASSUME PagesAssumption ==
  /\ NoThread \notin Kernel \cup Process
  /\ Kernel \cap Process = {} /\ "kernel" \notin Process
  /\ {KernelFrames, UserFrames, KernelPages, UserPages, TableSize, MaxCnt} \subseteq Nat \ {0}

VARIABLES frames,    \* mem_pool_bitmap of the two pools
          vaddr,     \* vaddr_bitmap of each address space
          pte,       \* the page table entries: the frame a page is mapped to
          pde,       \* the page directory of a process: the frame of a table
          lock,      \* which thread holds the lock of a pool
          cli,       \* the thread that runs with interrupts off
          cpu, tlb,  \* the thread that ran last, and the translations cached since
          th,        \* the local variables of a thread in the allocator
          regions,   \* what a thread has been given and has not freed
          raced,     \* whether two uses of a bitmap have got in each other's way
          halted     \* panic_spin

tables == <<pte, pde>>
pageVars == <<frames, vaddr, tables, lock, cli, cpu, tlb, th, regions, raced, halted>>

Task == Kernel \cup Process
Pool(t) == IF t \in Kernel THEN "K" ELSE "U"
Space(t) == IF t \in Kernel THEN "kernel" ELSE t
Spaces == {"kernel"} \cup Process
PoolOf(s) == IF s = "kernel" THEN "K" ELSE "U"

FrameLen(p) == IF p = "K" THEN KernelFrames ELSE UserFrames
PageLen(s) == IF s = "kernel" THEN KernelPages ELSE UserPages
Page(s) == 0..(ByteBits * PageLen(s) - 1)
Frame(p) == {p} \X (0..(ByteBits * FrameLen(p) - 1))
Bits(p) == ByteBits * FrameLen(p)        \* btmp_bits_len
NoFrame == <<>>
NullFrame == <<"null", 0>>               \* physical address 0, in neither pool

StackPage == ByteBits * UserPages - 1    \* USER_STACK3_VADDR, the last user page
Table(v) == v \div TableSize             \* PDE_IDX

(* Client code; pages are asked for; a frame of the pool th[t].pool is     *)
(* looked for byte by byte, then bit by bit, and marked; it is mapped, or  *)
(* becomes a page table; pages are given back one after the other, then    *)
(* their addresses.                                                        *)
Label == {"new", "idle", "virt", "scan", "bit", "load", "store", "map", "table",
          "done", "pfree", "clear", "unmap", "vremove", "unlock"}

Idle(label) == [pc |-> label, start |-> 0, cnt |-> 0, page |-> 0,
                pool |-> "K", idx |-> 0, byte |-> {}, frame |-> 0]

(* The type invariant.                                                     *)
PagesTypeOK ==
  /\ \A p \in {"K", "U"} : frames[p] \in Bitmaps(FrameLen(p))
  /\ \A s \in Spaces :
       /\ vaddr[s] \in Bitmaps(PageLen(s))
       /\ pte[s] \in [Page(s) -> Frame(PoolOf(s)) \cup {NoFrame}]
  /\ pde \in [Process -> [0..Table(StackPage) -> Frame("K") \cup {NoFrame, NullFrame}]]
  /\ lock \in [{"K", "U"} -> Task \cup {NoThread}]
  /\ {cli, cpu} \subseteq Task \cup {NoThread}
  /\ th \in [Task -> [pc : Label, start : Nat, cnt : 0..MaxCnt, page : Nat, pool : {"K", "U"},
                      idx : Nat, byte : SUBSET Offsets, frame : Nat]]
  /\ \A t \in Task : \A r \in regions[t] :
       r[1]..(r[1] + r[2] - 1) \subseteq Page(Space(t))
  /\ {raced, halted} \subseteq BOOLEAN

(* mem_pool_init has left both pools free; create_page_dir has given every *)
(* process a page directory without user pages.                            *)
PagesInit ==
  /\ frames = [p \in {"K", "U"} |-> bitmap_init(FrameLen(p))]
  /\ vaddr = [s \in Spaces |-> bitmap_init(PageLen(s))]
  /\ pte = [s \in Spaces |-> [v \in Page(s) |-> NoFrame]]
  /\ pde = [p \in Process |-> [d \in 0..Table(StackPage) |-> NoFrame]]
  /\ lock = [p \in {"K", "U"} |-> NoThread]
  /\ cli = NoThread /\ cpu = NoThread /\ tlb = {}
  /\ th = [t \in Task |-> Idle(IF t \in Kernel THEN "idle" ELSE "new")]
  /\ regions = [t \in Task |-> {}]
  /\ raced = FALSE /\ halted = FALSE
-----------------------------------------------------------------------------
(* t makes a step at label.  If another thread ran before, schedule has    *)
(* loaded cr3 since (page_dir_activate), which empties the TLB.            *)
At(t, label) == ~ halted /\ cli \in {NoThread, t} /\ th[t].pc = label
Cached(t) == IF cpu = t THEN tlb ELSE {}
Runs(t) == cpu' = t /\ tlb' = Cached(t)
Goto(t, label) == th' = [th EXCEPT ![t].pc = label]

panic_spin == /\ halted' = TRUE
              /\ UNCHANGED <<frames, vaddr, tables, lock, cli, th, regions, raced>>

(* The page after this one, or the end of the loop.                        *)
NextPage(t, again, end) ==
  LET last == th[t].page = th[t].start + th[t].cnt - 1
  IN  th' = [th EXCEPT ![t].pc = IF last THEN end ELSE again,
                       ![t].page = IF last THEN @ ELSE @ + 1,
                       ![t].pool = Pool(t), ![t].idx = 0]

(* lock_acquire at the start of a call, with interrupts off or not.        *)
Enter(t, masked) ==
  /\ lock[Pool(t)] = NoThread
  /\ lock' = [lock EXCEPT ![Pool(t)] = t]
  /\ cli' = IF masked THEN t ELSE NoThread
  /\ Runs(t)

(* get_kernel_pages(cnt), or the malloc_page of a sys_malloc: a kernel     *)
(* thread with interrupts on, a process in a system call.                  *)
CallAlloc(t, cnt) ==
  /\ At(t, "idle")
  /\ Enter(t, t \in Process)
  /\ th' = [th EXCEPT ![t].pc = "virt", ![t].cnt = cnt]
  /\ UNCHANGED <<frames, vaddr, tables, regions, raced, halted>>

(* start_process calls get_a_page for the stack, with interrupts on; the   *)
(* page is given, and is marked.                                           *)
get_a_page(t) ==
  /\ At(t, "new")
  /\ Enter(t, FALSE)
  /\ vaddr' = [vaddr EXCEPT ![t] = bitmap_set(@, StackPage, 1)]
  /\ th' = [th EXCEPT ![t].pc = "scan", ![t].start = StackPage, ![t].cnt = 1,
                      ![t].page = StackPage, ![t].pool = "U"]
  /\ UNCHANGED <<frames, tables, regions, raced, halted>>

(* get_virtual_addr: find cnt pages in a row and mark them.  Without       *)
(* enough free pages in a row malloc_page returns NULL; without any the    *)
(* assertion in bitmap_scan fails.                                         *)
get_virtual_addr(t) ==
  LET s == Space(t)
      start == bitmap_scan(vaddr[s], th[t].cnt)
  IN  /\ At(t, "virt")
      /\ Runs(t)
      /\ IF start = Panics \/ (t \in Process /\ start >= StackPage)
         THEN panic_spin
         ELSE /\ IF start = NotFound
                 THEN Goto(t, "unlock") /\ UNCHANGED vaddr
                 ELSE /\ vaddr' = [vaddr EXCEPT ![s] = bitmap_set_run(@, start, th[t].cnt, 1)]
                      /\ th' = [th EXCEPT ![t].pc = "scan", ![t].start = start,
                                          ![t].page = start, ![t].pool = Pool(t)]
              /\ UNCHANGED <<frames, tables, lock, cli, regions, raced, halted>>

(* palloc(p), p the pool th[t].pool, for a page or for a page table.       *)
(* bitmap_scan first looks for a byte that is not full; its assertion      *)
(* fails if there is none.                                                 *)
ScanByte(t) ==
  LET p == th[t].pool
      b == th[t].idx
  IN  /\ At(t, "scan")
      /\ Runs(t)
      /\ IF frames[p][b] = Offsets /\ b = FrameLen(p) - 1
         THEN panic_spin
         ELSE /\ th' = IF frames[p][b] = Offsets
                       THEN [th EXCEPT ![t].idx = b + 1]
                       ELSE [th EXCEPT ![t].pc = "bit", ![t].idx = b * ByteBits]
              /\ UNCHANGED <<frames, vaddr, tables, lock, cli, regions, raced, halted>>

(* Then it tests one bit after the other, from that byte on.  (The two     *)
(* loops that do are one here: the second starts with the test that the    *)
(* first ended with.)  Past the last bit it returns -1 and palloc NULL:    *)
(* malloc_page returns NULL too and keeps the pages and frames it has; as  *)
(* the address of a page table NULL is not noticed.                        *)
ScanBit(t) ==
  LET p == th[t].pool
      i == th[t].idx
      null == i = Bits(p)
  IN  /\ At(t, "bit")
      /\ Runs(t)
      /\ th' = IF null
               THEN [th EXCEPT ![t].pc = IF p = Pool(t) THEN "unlock" ELSE "table"]
               ELSE IF bitmap_scan_test(frames[p], i)
                    THEN [th EXCEPT ![t].idx = i + 1]
                    ELSE [th EXCEPT ![t].pc = "load"]
      /\ raced' = (raced \/ null)
      /\ UNCHANGED <<frames, vaddr, tables, lock, cli, regions, halted>>

(* bitmap_set(i, 1) loads the byte of bit i ...                            *)
SetLoad(t) ==
  /\ At(t, "load")
  /\ Runs(t)
  /\ th' = [th EXCEPT ![t].pc = "store",
                      ![t].byte = frames[th[t].pool][th[t].idx \div ByteBits]]
  /\ UNCHANGED <<frames, vaddr, tables, lock, cli, regions, raced, halted>>

(* ... and stores it with the bit set; palloc returns the frame.           *)
Marks(t) == IF th[t].pool = Pool(t)
            THEN th' = [th EXCEPT ![t].pc = "map", ![t].frame = th[t].idx, ![t].byte = {}]
            ELSE th' = [th EXCEPT ![t].pc = "table", ![t].byte = {}]

(* Mutant: the frame is found but not marked.                              *)
SetStore_not(t) ==
  /\ At(t, "store")
  /\ Runs(t)
  /\ Marks(t)
  /\ UNCHANGED <<frames, vaddr, tables, lock, cli, regions, raced, halted>>

SetStore(t) ==
  LET p == th[t].pool
      i == th[t].idx
  IN  /\ At(t, "store")
      /\ Runs(t)
      /\ frames' = [frames EXCEPT ![p][i \div ByteBits] = th[t].byte \cup {i % ByteBits}]
      /\ raced' = (raced \/ frames[p][i \div ByteBits] # th[t].byte
                         \/ i % ByteBits \in th[t].byte)
      /\ Marks(t)
      /\ UNCHANGED <<vaddr, tables, lock, cli, regions, halted>>

(* The entry of the page, at the end of both branches of page_table_map.   *)
SetEntry(t) ==
  /\ pte' = [pte EXCEPT ![Space(t)][th[t].page] = <<Pool(t), th[t].frame>>]
  /\ NextPage(t, "scan", "done")

(* page_table_map: with a page table the entry must be free and is set;    *)
(* without one palloc is called for it, on the kernel pool, while the lock *)
(* that the process holds is that of the user pool.                        *)
page_table_map(t) ==
  /\ At(t, "map")
  /\ Runs(t)
  /\ IF t \in Process /\ pde[t][Table(th[t].page)] = NoFrame
     THEN /\ th' = [th EXCEPT ![t].pc = "scan", ![t].pool = "K", ![t].idx = 0]
          /\ UNCHANGED <<frames, vaddr, tables, lock, cli, regions, raced, halted>>
     ELSE IF pte[Space(t)][th[t].page] # NoFrame
     THEN panic_spin
     ELSE /\ SetEntry(t)
          /\ UNCHANGED <<frames, vaddr, pde, lock, cli, regions, raced, halted>>

(* Mutant of NewTable: the frame of the page is taken for that of the      *)
(* table.                                                                  *)
NewTable_page(t) ==
  /\ At(t, "table")
  /\ Runs(t)
  /\ pde' = [pde EXCEPT ![t][Table(th[t].page)] = <<"K", th[t].frame>>]
  /\ SetEntry(t)
  /\ UNCHANGED <<frames, vaddr, lock, cli, regions, raced, halted>>

(* The new table is put into the directory of the process and cleared, and *)
(* the page is entered: nobody else has to do with either.                 *)
NewTable(t) ==
  /\ At(t, "table")
  /\ Runs(t)
  /\ pde' = [pde EXCEPT ![t][Table(th[t].page)] =
               IF th[t].idx = Bits("K") THEN NullFrame ELSE <<"K", th[t].idx>>]
  /\ SetEntry(t)
  /\ UNCHANGED <<frames, vaddr, lock, cli, regions, raced, halted>>

(* The pages are cleared (memset), which brings their translations into    *)
(* the TLB unless the TLB has one already, and handed out.                 *)
Region(t) == th[t].start..(th[t].start + th[t].cnt - 1)
Finish(t) ==
  /\ At(t, "done")
  /\ cpu' = t
  /\ tlb' = Cached(t) \cup {<<v, pte[Space(t)][v]>> :
                              v \in {u \in Region(t) : \A e \in Cached(t) : e[1] # u}}
  /\ regions' = [regions EXCEPT ![t] = @ \cup {<<th[t].start, th[t].cnt>>}]
  /\ Goto(t, "unlock")
  /\ UNCHANGED <<frames, vaddr, tables, lock, cli, raced, halted>>

(* lock_release, and the return from the system call.                      *)
Unlock(t) ==
  /\ At(t, "unlock")
  /\ Runs(t)
  /\ lock' = [lock EXCEPT ![Pool(t)] = NoThread]
  /\ cli' = NoThread
  /\ th' = [th EXCEPT ![t] = Idle("idle")]
  /\ UNCHANGED <<frames, vaddr, tables, regions, raced, halted>>
-----------------------------------------------------------------------------
(* sys_free calls mfree_page for a region that the thread was given.  (The *)
(* stack of a process is never freed.)                                     *)
CallFree(t, r) ==
  /\ At(t, "idle")
  /\ Enter(t, t \in Process)
  /\ t \in Process => r[1] # StackPage
  /\ th' = [th EXCEPT ![t].pc = "pfree", ![t].start = r[1], ![t].cnt = r[2], ![t].page = r[1]]
  /\ regions' = [regions EXCEPT ![t] = @ \ {r}]
  /\ UNCHANGED <<frames, vaddr, tables, raced, halted>>

(* addr_v2p and pfree: the frame goes back to the pool its address is in.  *)
(* bitmap_set(i, 0) loads the byte ...                                     *)
pfree(t) ==
  LET f == pte[Space(t)][th[t].page]
  IN  /\ At(t, "pfree")
      /\ Runs(t)
      /\ th' = [th EXCEPT ![t].pc = "clear", ![t].pool = f[1], ![t].idx = f[2],
                          ![t].byte = frames[f[1]][f[2] \div ByteBits]]
      /\ UNCHANGED <<frames, vaddr, tables, lock, cli, regions, raced, halted>>

(* ... and stores it without the bit.  A search that has passed this byte  *)
(* as full may then come to a wrong end.                                   *)
ClearStore(t) ==
  LET p == th[t].pool
      i == th[t].idx
      passed == \E u \in Task : /\ th[u].pc = "scan" /\ th[u].pool = p
                                /\ th[u].idx > i \div ByteBits
  IN  /\ At(t, "clear")
      /\ Runs(t)
      /\ frames' = [frames EXCEPT ![p][i \div ByteBits] = th[t].byte \ {i % ByteBits}]
      /\ raced' = (raced \/ frames[p][i \div ByteBits] # th[t].byte \/ passed)
      /\ th' = [th EXCEPT ![t].pc = "unmap", ![t].byte = {}]
      /\ UNCHANGED <<vaddr, tables, lock, cli, regions, halted>>

(* Mutant of page_table_pte_remove: the entry stays.                       *)
page_table_pte_remove_not(t) ==
  /\ At(t, "unmap")
  /\ Runs(t)
  /\ NextPage(t, "pfree", "vremove")
  /\ UNCHANGED <<frames, vaddr, tables, lock, cli, regions, raced, halted>>

(* page_table_pte_remove clears the present bit.  The operand of its       *)
(* invlpg is the variable vaddr, not the page whose address it holds, so   *)
(* the instruction drops the translation of a page of the stack.           *)
page_table_pte_remove(t) ==
  /\ At(t, "unmap")
  /\ Runs(t)
  /\ pte' = [pte EXCEPT ![Space(t)][th[t].page] = NoFrame]
  /\ NextPage(t, "pfree", "vremove")
  /\ UNCHANGED <<frames, vaddr, pde, lock, cli, regions, raced, halted>>

(* Mutant of vaddr_remove: only the first page is given back.              *)
vaddr_remove_first(t) ==
  /\ At(t, "vremove")
  /\ Runs(t)
  /\ vaddr' = [vaddr EXCEPT ![Space(t)] = bitmap_set(@, th[t].start, 0)]
  /\ Goto(t, "unlock")
  /\ UNCHANGED <<frames, tables, lock, cli, regions, raced, halted>>

(* Mutant of vaddr_remove: the loop makes one step too many.               *)
vaddr_remove_more(t) ==
  /\ At(t, "vremove")
  /\ Runs(t)
  /\ vaddr' = [vaddr EXCEPT ![Space(t)] = bitmap_set_run(@, th[t].start, th[t].cnt + 1, 0)]
  /\ Goto(t, "unlock")
  /\ UNCHANGED <<frames, tables, lock, cli, regions, raced, halted>>

vaddr_remove(t) ==
  /\ At(t, "vremove")
  /\ Runs(t)
  /\ vaddr' = [vaddr EXCEPT ![Space(t)] = bitmap_set_run(@, th[t].start, th[t].cnt, 0)]
  /\ Goto(t, "unlock")
  /\ UNCHANGED <<frames, tables, lock, cli, regions, raced, halted>>

(* After a panic the kernel spins for ever.                                *)
Spin == halted /\ UNCHANGED pageVars

PagesNext ==
  \/ Spin
  \/ \E t \in Task :
       \/ \E cnt \in 1..MaxCnt : CallAlloc(t, cnt)
       \/ get_a_page(t) \/ get_virtual_addr(t)
       \/ ScanByte(t) \/ ScanBit(t) \/ SetLoad(t) \/ SetStore(t)
       \/ page_table_map(t) \/ NewTable(t) \/ Finish(t) \/ Unlock(t)
       \/ \E r \in regions[t] : CallFree(t, r)
       \/ pfree(t) \/ ClearStore(t) \/ page_table_pte_remove(t) \/ vaddr_remove(t)

PagesSpec == PagesInit /\ [][PagesNext]_pageVars
-----------------------------------------------------------------------------
Marked(p) == {f \in Frame(p) : bitmap_scan_test(frames[p], f[2])}
TableFrames == {pde[p][d] : p \in Process, d \in 0..Table(StackPage)} \ {NoFrame}
Busy(s) == UNION {Region(t) : t \in {u \in Task : /\ Space(u) = s
                                                  /\ th[u].pc \notin {"new", "idle", "virt", "unlock"}}}
Given(s) == UNION {r[1]..(r[1] + r[2] - 1) :
                     r \in UNION {regions[t] : t \in {u \in Task : Space(u) = s}}}

(* t looks for the frame of a page table; and the frames that it has       *)
(* marked and not entered into a table yet.                                *)
Tabling(t) == th[t].pc \in {"scan", "bit", "load", "store"} /\ th[t].pool # Pool(t)
InHand(t) == (IF th[t].pc \in {"map", "table"} \/ Tabling(t) THEN {<<Pool(t), th[t].frame>>} ELSE {})
               \cup (IF th[t].pc = "table" THEN {<<"K", th[t].idx>>} ELSE {})

(* The mapping of page v of s is being removed: its frame is free already. *)
Leaving(s, v) == \E t \in Task : Space(t) = s /\ th[t].pc = "unmap" /\ th[t].page = v

(* The bitmap of the user pool is used under its lock and can be trusted.  *)
(* That of the kernel pool can as long as the palloc of page_table_map,    *)
(* which does without the lock, has not got in the way of another palloc   *)
(* or pfree: raced is set when a byte is stored that is not the one loaded *)
(* any more, when a frame is marked that is marked already, when a frame   *)
(* is freed in a byte that a search has passed, and when a search that has *)
(* seen a free frame comes to the end without one.                         *)
Sound(p) == p = "U" \/ ~ raced

(* No frame of a pool that can be trusted is mapped at two virtual pages,  *)
(* of one address space or of two.                                         *)
MappedOnce ==
  \A s, u \in Spaces : \A v \in Page(s), w \in Page(u) :
    pte[s][v] # NoFrame /\ pte[s][v] = pte[u][w] /\ Sound(PoolOf(s)) => s = u /\ v = w

(* What a thread was given stays given: every page of it is mapped, and    *)
(* its page and its frame are marked as taken, whatever other threads      *)
(* allocate and free at the same time.  (After a race the page stays       *)
(* marked and mapped; the frame of a kernel page need not stay marked.)    *)
GivenIsKept ==
  \A s \in Spaces : \A v \in Given(s) :
    /\ bitmap_scan_test(vaddr[s], v)
    /\ pte[s][v] # NoFrame
    /\ Sound(PoolOf(s)) => pte[s][v] \in Marked(PoolOf(s))

(* Nothing is lost: a page that is marked is given or in the hands of a    *)
(* call, and a frame that is marked is mapped, is a page table, or has     *)
(* just been marked.                                                       *)
NothingLost ==
  \A s \in Spaces : Sound(PoolOf(s)) =>
    /\ {v \in Page(s) : bitmap_scan_test(vaddr[s], v)} \subseteq Given(s) \cup Busy(s)
    /\ \A f \in Marked(PoolOf(s)) :
         \/ f \in TableFrames
         \/ \E u \in Spaces : \E v \in Page(u) : pte[u][v] = f
         \/ \E t \in Task : f \in InHand(t)

(* The only way into a panic is a bitmap without a free bit: no entry is   *)
(* found mapped already, no user address reaches the stack.                *)
PanicsOnlyWhenFull ==
  halted /\ ~ raced =>
    \/ \E p \in {"K", "U"} : Marked(p) = Frame(p)
    \/ \E s \in Spaces : \A v \in Page(s) : bitmap_scan_test(vaddr[s], v)

(* A page table's frame is marked, belongs to one directory entry, and is  *)
(* mapped nowhere, but for a page that is just being unmapped.             *)
TablesOnce ==
  \A p, q \in Process : \A d, e \in 0..Table(StackPage) :
    pde[p][d] # NoFrame /\ pde[p][d] = pde[q][e] => p = q /\ d = e

TablesApart ==
  ~ raced =>
    /\ TableFrames \subseteq Marked("K")
    /\ TablesOnce
    /\ \A s \in Spaces : \A v \in Page(s) : pte[s][v] \in TableFrames => Leaving(s, v)

(* A frame has one use, race or not: it is behind one page that is given,  *)
(* or is the page table of one directory entry.  "Mutual exclusion when    *)
(* memory is allocated" is what kernel/memory.h says the lock of a pool is *)
(* for.                                                                    *)
OneUse ==
  /\ TablesOnce
  /\ \A s \in Spaces : \A v \in Given(s) :
       /\ pte[s][v] \notin TableFrames
       /\ \A u \in Spaces : \A w \in Given(u) : pte[s][v] = pte[u][w] => s = u /\ v = w

(* The TLB never translates a page that is mapped to another frame than    *)
(* its entry says: page_table_pte_remove announces "update the TLB".       *)
TlbRight ==
  cpu # NoThread =>
    \A e \in tlb : LET f == pte[Space(cpu)][e[1]] IN f = NoFrame \/ f = e[2]

(* The allocator hands out frames of one's own: the frames behind a region *)
(* that malloc_page returns are behind no other, of whichever thread, and  *)
(* page by page they stay the same until the thread calls mfree_page; for  *)
(* processes in any case, with kernel threads as long as there is no race. *)
Behind(t, r) == [v \in r[1]..(r[1] + r[2] - 1) |-> pte[Space(t)][v]]
Owned == [t \in Task |-> {Behind(t, r) : r \in regions[t]}]

P == INSTANCE Allocator WITH Client <- Task, held <- Owned
User == INSTANCE Allocator WITH Client <- Process, held <- [t \in Process |-> Owned[t]]

IsAllocator ==
  /\ User!AllocatorSpec
  /\ P!AllocatorInit /\ [][~ raced => P!AllocatorNext]_Owned
=============================================================================
