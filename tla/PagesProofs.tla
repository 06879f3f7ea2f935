----------------------------- MODULE PagesProofs -----------------------------
(***************************************************************************)
(* Proofs about the page allocator, for any threads, any size of the       *)
(* pools, of the address spaces and of a page table.                       *)
(*                                                                         *)
(* PagesInv is what holds whatever becomes of the bitmap of the kernel     *)
(* pool.  It says who holds what.  A thread holds the regions it was given *)
(* and, in the middle of a call, the one it works on; regions that are     *)
(* held are apart, and their pages are marked.  A thread in the allocator  *)
(* has the lock of its pool, so what it has done half way to its address   *)
(* space is disturbed by nobody.                                           *)
(*                                                                         *)
(* FrameInv says of one frame that it has one use: it is in the hands of   *)
(* one thread, or is one page table, or is mapped at one page.  It holds   *)
(* of the frames of the user pool, because a byte of that pool's bitmap is *)
(* only changed by the thread that has the lock; of the frames of the      *)
(* kernel pool it holds as long as no process that takes one for a page    *)
(* table, without the lock, has got in the way of another thread.          *)
(***************************************************************************)
EXTENDS Pages, BitmapProofs

InCall(t) == th[t].pc \notin {"new", "idle"}
Searching == {"scan", "bit", "load", "store"}
Giving == Searching \cup {"map", "table"}
Taking == {"pfree", "clear", "unmap", "vremove"}
Working(t) == th[t].pc \in Giving \cup Taking \cup {"done"}

(* The pages of a region, and the regions that a thread holds.             *)
PagesOf(r) == r[1]..(r[1] + r[2] - 1)
Current(t) == <<th[t].start, th[t].cnt>>
Held(t) == regions[t] \cup (IF Working(t) THEN {Current(t)} ELSE {})

(* The pages that are marked, and whether a page of Current(t) is mapped.  *)
MarkedPages(s) == {v \in Page(s) : bitmap_scan_test(vaddr[s], v)}
HasFrame(t, v) == \/ th[t].pc \in Giving /\ v < th[t].page
                  \/ th[t].pc = "done"
                  \/ th[t].pc \in {"pfree", "clear", "unmap"} /\ v >= th[t].page

Locals == [pc : Label, start : Nat, cnt : 0..MaxCnt, page : Nat, pool : {"K", "U"},
           idx : Nat, byte : SUBSET Offsets, frame : Nat]

Shape ==
  /\ frames = [p \in {"K", "U"} |-> frames[p]]
  /\ vaddr = [s \in Spaces |-> vaddr[s]]
  /\ pte = [s \in Spaces |-> pte[s]]
  /\ regions \in [Task -> SUBSET (Nat \X (1..MaxCnt))]

LockOk(t) ==
  /\ InCall(t) <=> lock[Pool(t)] = t
  /\ th[t].pc = "new" => t \in Process /\ regions[t] = {}
  /\ InCall(t) => th[t].cnt # 0

CallOk(t) ==
  Working(t) => /\ Current(t) \notin regions[t]
                /\ th[t].page \in PagesOf(Current(t))
                /\ \A v \in PagesOf(Current(t)) :
                     pte[Space(t)][v] # NoFrame <=> HasFrame(t, v)

(* The frame of the page, where a frame has been found for it; the table   *)
(* that is missing, where a frame is looked for or found for it; and the   *)
(* place in a bitmap.                                                      *)
FrameOk(t) ==
  Tabling(t) \/ th[t].pc \in {"map", "table"} => <<Pool(t), th[t].frame>> \in Frame(Pool(t))

TableOk(t) ==
  Tabling(t) \/ th[t].pc = "table" =>
    t \in Process /\ th[t].pool = "K" /\ pde[t][Table(th[t].page)] = NoFrame

IdxOk(t) ==
  /\ th[t].pc \in {"new", "idle", "virt"} => th[t].idx = 0
  /\ th[t].pc = "scan" => th[t].idx \in 0..(FrameLen(th[t].pool) - 1)
  /\ th[t].pc = "bit" => th[t].idx \in 0..Bits(th[t].pool)
  /\ th[t].pc \in {"load", "store"} => th[t].idx \in BitIndex(FrameLen(th[t].pool))
  /\ th[t].pc = "table" => th[t].idx \in 0..Bits("K")
  /\ th[t].pc = "clear" => /\ th[t].pool = Pool(t)
                           /\ pte[Space(t)][th[t].page] = <<Pool(t), th[t].idx>>

(* The stack of a process is a region of its own, which is not given back. *)
StackOk(t) ==
  t \in Process /\ th[t].pc # "new" =>
    /\ \A r \in Held(t) : StackPage \in PagesOf(r) => r[1] = StackPage
    /\ StackPage \in MarkedPages(Space(t))
    /\ th[t].pc \in Taking => th[t].start # StackPage

GivenOk(t) ==
  \A r \in regions[t] : \A v \in PagesOf(r) : pte[Space(t)][v] # NoFrame

(* What the thread that has the lock of the user pool knows of a byte of   *)
(* its bitmap.                                                             *)
UserByteOk(t) ==
  th[t].pool = "U" =>
    /\ th[t].pc = "bit" =>
         \E i \in BitIndex(UserFrames) : i >= th[t].idx /\ ~ bitmap_scan_test(frames["U"], i)
    /\ th[t].pc \in {"load", "store"} => ~ bitmap_scan_test(frames["U"], th[t].idx)
    /\ th[t].pc \in {"store", "clear"} => th[t].byte = frames["U"][th[t].idx \div ByteBits]

Local(t) == /\ LockOk(t) /\ CallOk(t) /\ StackOk(t) /\ GivenOk(t)
            /\ FrameOk(t) /\ TableOk(t) /\ IdxOk(t) /\ UserByteOk(t)

HeldApart ==
  /\ \A t \in Task : \A r \in Held(t) : PagesOf(r) \subseteq Page(Space(t))
  /\ \A t, u \in Task : Space(t) = Space(u) =>
       \A r \in Held(t), q \in Held(u) :
         (\E v \in PagesOf(r) : v \in PagesOf(q)) => t = u /\ r = q

(* A page is marked exactly if it is held, but that palloc may return NULL *)
(* to a kernel thread, after a race, and the pages are lost.               *)
Holds(s, v) == \E t \in Task : Space(t) = s /\ \E r \in Held(t) : v \in PagesOf(r)
HeldIsMarked == \A s \in Spaces : \A v \in Page(s) : Holds(s, v) => v \in MarkedPages(s)
MarkedIsHeld ==
  \A s \in Spaces : Sound(PoolOf(s)) => \A v \in Page(s) : v \in MarkedPages(s) => Holds(s, v)

MappedIsMarked == \A s \in Spaces : \A v \in Page(s) : pte[s][v] # NoFrame => v \in MarkedPages(s)

(* The inductive invariant that does not depend on the kernel pool.        *)
PagesInv ==
  /\ PagesTypeOK /\ Shape
  /\ \A t \in Task : Local(t)
  /\ HeldApart /\ HeldIsMarked /\ MarkedIsHeld /\ MappedIsMarked
-----------------------------------------------------------------------------
(* Threads, their pools and their address spaces; the bits of a bitmap are *)
(* the pages or frames it stands for.                                      *)
LEMMA Places ==
  /\ \A t \in Task : Pool(t) \in {"K", "U"} /\ Space(t) \in Spaces
  /\ \A t \in Kernel : Pool(t) = "K" /\ Space(t) = "kernel"
  /\ \A t \in Process : Pool(t) = "U" /\ Space(t) = t
  /\ \A t, u \in Task : Space(t) = Space(u) => Pool(t) = Pool(u)
  /\ \A t \in Task : Pool(t) = PoolOf(Space(t))
  /\ NoThread \notin Task
  BY PagesAssumption DEF Pool, Space, Spaces, Task, PoolOf

(* Pools and address spaces have at least one bit.                         *)
LEMMA Sizes ==
  /\ \A p : FrameLen(p) \in Nat \ {0} /\ Frame(p) = {p} \X BitIndex(FrameLen(p))
  /\ \A p : Bits(p) \in Nat \ {0} /\ BitIndex(FrameLen(p)) = 0..(Bits(p) - 1)
  /\ \A s : PageLen(s) \in Nat \ {0} /\ Page(s) = BitIndex(PageLen(s))
  /\ MaxCnt \in Nat \ {0} /\ TableSize \in Nat \ {0}
<1>1. \A p : FrameLen(p) \in Nat \ {0}
  BY PagesAssumption DEF FrameLen
<1>2. \A p : Bits(p) \in Nat \ {0} /\ Bits(p) = ByteBits * FrameLen(p)
  BY <1>1, ByteAssumption DEF Bits
<1> QED BY <1>1, <1>2, PagesAssumption DEF PageLen, Frame, Page, BitIndex

(* A frame is a pair and not NoFrame.                                      *)
LEMMA FrameIsSome ==
  \A p : NoFrame \notin Frame(p) /\ \A f \in Frame(p) : f[1] = p /\ f = <<p, f[2]>> /\ f[2] \in BitIndex(FrameLen(p))
<1>1. \A p, T : <<>> \notin {p} \X T /\ \A f \in {p} \X T : f[1] = p /\ f = <<p, f[2]>> /\ f[2] \in T
  OBVIOUS
<1>2. \A p : Frame(p) = {p} \X BitIndex(FrameLen(p))
  BY Sizes
<1> QED BY <1>1, <1>2 DEF NoFrame

(* The page of the stack is the last of an address space.                  *)
LEMMA StackIsPage ==
  \A t \in Process : StackPage \in Page(t) /\ StackPage \in Nat /\ Page(t) = 0..StackPage
<1>1. ByteBits \in Nat \ {0} /\ UserPages \in Nat \ {0} /\ "kernel" \notin Process
  BY ByteAssumption, PagesAssumption
<1>2. ByteBits * UserPages \in Nat \ {0}
  BY <1>1
<1> QED BY <1>1, <1>2 DEF StackPage, Page, PageLen

(* Every page of a process has a page table that a directory entry can     *)
(* name.                                                                   *)
LEMMA TableOf ==
  \A t \in Process : \A v \in Page(t) : Table(v) \in 0..Table(StackPage)
<1> SUFFICES ASSUME NEW t \in Process, NEW v \in Page(t) PROVE Table(v) \in 0..Table(StackPage)
  OBVIOUS
<1>1. TableSize \in Nat \ {0} /\ v \in 0..StackPage /\ StackPage \in Nat
  BY Sizes, StackIsPage
<1>2. /\ v \div TableSize \in Nat /\ StackPage \div TableSize \in Nat
      /\ v \div TableSize <= StackPage \div TableSize
  BY <1>1
<1> QED BY <1>2 DEF Table
-----------------------------------------------------------------------------
(* What marking a frame, or a run of pages, does to the sets of marked     *)
(* frames and pages.                                                       *)
LEMMA MarkFrame ==
  ASSUME PagesTypeOK, Shape, NEW p \in {"K", "U"}, NEW i \in BitIndex(FrameLen(p)), NEW v \in {0, 1},
         frames' = [frames EXCEPT ![p] = bitmap_set(@, i, v)]
  PROVE  /\ \A q \in {"K", "U"} : frames'[q] \in Bitmaps(FrameLen(q))
         /\ frames' = [q \in {"K", "U"} |-> frames'[q]]
         /\ \A q \in {"K", "U"} : q # p => Marked(q)' = Marked(q)
         /\ Marked(p)' = IF v = 1 THEN Marked(p) \cup {<<p, i>>} ELSE Marked(p) \ {<<p, i>>}
<1>1. /\ frames' = [q \in {"K", "U"} |-> IF q = p THEN bitmap_set(frames[p], i, v) ELSE frames[q]]
      /\ \A q \in {"K", "U"} : frames[q] \in Bitmaps(FrameLen(q)) /\ FrameLen(q) \in Nat
  BY Sizes DEF Shape, PagesTypeOK
<1>2. /\ bitmap_set(frames[p], i, v) \in Bitmaps(FrameLen(p))
      /\ \A j \in BitIndex(FrameLen(p)) :
           bitmap_scan_test(bitmap_set(frames[p], i, v), j)
             <=> IF j = i THEN v = 1 ELSE bitmap_scan_test(frames[p], j)
  BY <1>1, SetBit
<1>3. Marked(p)' = IF v = 1 THEN Marked(p) \cup {<<p, i>>} ELSE Marked(p) \ {<<p, i>>}
  BY <1>1, <1>2, Sizes DEF Marked
<1>4. \A q \in {"K", "U"} : q # p => Marked(q)' = Marked(q)
  BY <1>1 DEF Marked
<1> QED BY <1>1, <1>2, <1>3, <1>4

(* A byte of a bitmap of frames is stored.                                 *)
LEMMA StoreByte ==
  ASSUME PagesTypeOK, Shape, NEW p \in {"K", "U"}, NEW b \in 0..(FrameLen(p) - 1),
         NEW x \in SUBSET Offsets, frames' = [frames EXCEPT ![p][b] = x]
  PROVE  /\ \A q \in {"K", "U"} : frames'[q] \in Bitmaps(FrameLen(q))
         /\ frames' = [q \in {"K", "U"} |-> frames'[q]]
         /\ \A q \in {"K", "U"} : q # p => frames'[q] = frames[q]
         /\ frames'[p] = [frames[p] EXCEPT ![b] = x]
<1>1. /\ frames' = [q \in {"K", "U"} |-> IF q = p THEN [frames[p] EXCEPT ![b] = x] ELSE frames[q]]
      /\ \A q \in {"K", "U"} : frames[q] \in Bitmaps(FrameLen(q))
  BY DEF Shape, PagesTypeOK
<1>2. [frames[p] EXCEPT ![b] = x] \in Bitmaps(FrameLen(p))
  BY <1>1 DEF Bitmaps
<1> QED BY <1>1, <1>2

(* The same for a run of pages.                                            *)
LEMMA MarkPages ==
  ASSUME PagesTypeOK, Shape, NEW s \in Spaces, NEW i \in Nat, NEW cnt \in Nat,
         i..(i + cnt - 1) \subseteq Page(s), NEW v \in {0, 1},
         vaddr' = [vaddr EXCEPT ![s] = bitmap_set_run(@, i, cnt, v)]
  PROVE  /\ \A z \in Spaces : vaddr'[z] \in Bitmaps(PageLen(z))
         /\ vaddr' = [z \in Spaces |-> vaddr'[z]]
         /\ \A z \in Spaces : z # s => MarkedPages(z)' = MarkedPages(z)
         /\ MarkedPages(s)' = IF v = 1 THEN MarkedPages(s) \cup (i..(i + cnt - 1))
                                       ELSE MarkedPages(s) \ (i..(i + cnt - 1))
<1>1. /\ vaddr' = [z \in Spaces |-> IF z = s THEN bitmap_set_run(vaddr[s], i, cnt, v) ELSE vaddr[z]]
      /\ \A z \in Spaces : vaddr[z] \in Bitmaps(PageLen(z)) /\ PageLen(z) \in Nat
  BY Sizes DEF Shape, PagesTypeOK
<1>2. /\ bitmap_set_run(vaddr[s], i, cnt, v) \in Bitmaps(PageLen(s))
      /\ \A j \in BitIndex(PageLen(s)) :
           bitmap_scan_test(bitmap_set_run(vaddr[s], i, cnt, v), j)
             <=> IF j \in i..(i + cnt - 1) THEN v = 1 ELSE bitmap_scan_test(vaddr[s], j)
  BY <1>1, SetRun, Sizes
<1>3. MarkedPages(s)' = IF v = 1 THEN MarkedPages(s) \cup (i..(i + cnt - 1))
                                 ELSE MarkedPages(s) \ (i..(i + cnt - 1))
  BY <1>1, <1>2, Sizes DEF MarkedPages
<1>4. \A z \in Spaces : z # s => MarkedPages(z)' = MarkedPages(z)
  BY <1>1 DEF MarkedPages
<1> QED BY <1>1, <1>2, <1>3, <1>4
-----------------------------------------------------------------------------
(* The invariant holds when every bitmap is empty and nobody is in a call. *)
LEMMA PagesInvInit == PagesInit => PagesInv
<1> SUFFICES ASSUME PagesInit PROVE PagesInv
  OBVIOUS
<1>1. /\ \A p \in {"K", "U"} : frames[p] = bitmap_init(FrameLen(p))
      /\ \A s \in Spaces : vaddr[s] = bitmap_init(PageLen(s)) /\ MarkedPages(s) = {}
  <2>1. \A len \in Nat : \A i \in BitIndex(len) : ~ bitmap_scan_test(bitmap_init(len), i)
    BY InitBits
  <2>2. /\ \A p \in {"K", "U"} : frames[p] = bitmap_init(FrameLen(p))
        /\ \A s \in Spaces : vaddr[s] = bitmap_init(PageLen(s))
    BY DEF PagesInit
  <2> QED BY <2>1, <2>2, Sizes DEF MarkedPages
<1>2. /\ \A t \in Task : /\ th[t].pc = IF t \in Kernel THEN "idle" ELSE "new"
                         /\ th[t].idx = 0 /\ th[t] \in Locals
      /\ th = [t \in Task |-> th[t]]
  <2>1. \A t \in Task : th[t] = Idle(IF t \in Kernel THEN "idle" ELSE "new")
    BY DEF PagesInit
  <2>2. \A l \in Label : Idle(l) \in Locals /\ Idle(l).pc = l /\ Idle(l).idx = 0
    BY Sizes DEF Idle, Locals
  <2> QED BY <2>1, <2>2 DEF PagesInit, Label
<1>3. /\ \A t \in Task : regions[t] = {} /\ Held(t) = {}
      /\ \A s \in Spaces : pte[s] = [v \in Page(s) |-> NoFrame]
      /\ \A p \in {"K", "U"} : lock[p] = NoThread
  BY <1>2 DEF PagesInit, Held, Working, Giving, Taking, Searching
<1>4. PagesTypeOK
  <2>1. /\ \A p \in {"K", "U"} : frames[p] \in Bitmaps(FrameLen(p))
        /\ \A s \in Spaces : vaddr[s] \in Bitmaps(PageLen(s))
    BY <1>1, InitBits, Sizes
  <2>2. th \in [Task -> Locals]
    BY <1>2
  <2>3. /\ pde \in [Process -> [0..Table(StackPage) -> Frame("K") \cup {NoFrame, NullFrame}]]
        /\ lock \in [{"K", "U"} -> Task \cup {NoThread}]
        /\ {cli, cpu} \subseteq Task \cup {NoThread} /\ {raced, halted} \subseteq BOOLEAN
    BY DEF PagesInit
  <2> QED BY <2>1, <2>2, <2>3, <1>3 DEF PagesTypeOK, Locals
<1>5. Shape
  BY <1>3 DEF PagesInit, Shape
<1>6. ASSUME NEW t \in Task PROVE Local(t)
  <2>1. th[t].pc = IF t \in Kernel THEN "idle" ELSE "new"
    BY <1>2
  <2>2. LockOk(t)
    BY <1>3, <2>1, Places DEF LockOk, InCall, Task
  <2>3. CallOk(t) /\ GivenOk(t)
    BY <1>3, <2>1 DEF CallOk, GivenOk, Working, Giving, Taking, Searching
  <2>4. StackOk(t)
    BY <2>1, PagesAssumption DEF StackOk
  <2>5. FrameOk(t) /\ TableOk(t) /\ IdxOk(t) /\ UserByteOk(t)
    BY <1>2, <2>1 DEF FrameOk, TableOk, IdxOk, UserByteOk, Tabling
  <2> QED BY <2>2, <2>3, <2>4, <2>5 DEF Local
<1>7. HeldApart /\ HeldIsMarked /\ MarkedIsHeld /\ MappedIsMarked
  BY <1>1, <1>3 DEF HeldApart, HeldIsMarked, MarkedIsHeld, Holds, MappedIsMarked
<1> QED BY <1>4, <1>5, <1>6, <1>7 DEF PagesInv
-----------------------------------------------------------------------------
(* What a step of t leaves to the other threads: their variables, their    *)
(* address spaces, and, in a pool that t has not locked, the bitmap of the *)
(* user pool.                                                              *)
Keeps(t) ==
  /\ InCall(t) \/ lock[Pool(t)] = NoThread
  /\ lock' = [lock EXCEPT ![Pool(t)] = lock'[Pool(t)]] /\ lock'[Pool(t)] \in {t, NoThread}
  /\ \A u \in Task : u # t => th'[u] = th[u] /\ regions'[u] = regions[u]
  /\ \A s \in Spaces : s # Space(t) => pte'[s] = pte[s] /\ MarkedPages(s)' = MarkedPages(s)
  /\ \A q \in Process : q # t => pde'[q] = pde[q]
  /\ Pool(t) = "U" \/ frames'["U"] = frames["U"]
  /\ \A v \in Page(Space(t)) : pte'[Space(t)][v] # pte[Space(t)][v] =>
       \/ pte'[Space(t)][v] # NoFrame
       \/ Working(t) /\ v \in PagesOf(Current(t))

(* In a pool at most one thread is in a call.                              *)
LEMMA Alone ==
  ASSUME PagesInv, NEW t \in Task, NEW u \in Task, t # u, Pool(t) = Pool(u),
         InCall(t) \/ lock[Pool(t)] = NoThread
  PROVE  ~ InCall(u)
  BY Places DEF PagesInv, Local, LockOk

(* What t guarantees (Keeps) is what the local invariant of another thread *)
(* relies on.                                                              *)
LEMMA OthersKeep ==
  ASSUME PagesInv, NEW t \in Task, Keeps(t), NEW u \in Task, u # t
  PROVE  Local(u)'
<1>1. th'[u] = th[u] /\ regions'[u] = regions[u]
  BY DEF Keeps
<1>2. Local(u) /\ Pool(u) \in {"K", "U"} /\ Pool(t) \in {"K", "U"} /\ Space(u) \in Spaces
  BY Places DEF PagesInv
<1>3. Held(u)' = Held(u) /\ Current(u)' = Current(u) /\ (Working(u)' <=> Working(u)) /\ (InCall(u)' <=> InCall(u))
  BY <1>1 DEF Held, Current, Working, InCall
<1>4. LockOk(u)'
  <2>1. DOMAIN lock = {"K", "U"} /\ NoThread # u
    BY Places DEF PagesInv, PagesTypeOK
  <2>2. InCall(u) <=> lock'[Pool(u)] = u
    <3>1. CASE Pool(u) = Pool(t)
      BY <3>1, <2>1, <1>2, Alone DEF Keeps
    <3>2. CASE Pool(u) # Pool(t)
      BY <3>2, <2>1, <1>2 DEF Keeps, Local, LockOk
    <3> QED BY <3>1, <3>2
  <2> QED BY <2>2, <1>1, <1>2, <1>3 DEF Local, LockOk
<1>5. CallOk(u)' /\ FrameOk(u)' /\ TableOk(u)' /\ IdxOk(u)' /\ UserByteOk(u)'
  <2>1. CASE Pool(u) = Pool(t)
    <3>1. th[u].pc \in {"new", "idle"}
      BY <2>1, Alone DEF Keeps, InCall
    <3> QED BY <3>1, <1>1, <1>2 DEF Local, CallOk, FrameOk, TableOk, IdxOk, UserByteOk, Tabling, Working, Giving, Taking, Searching
  <2>2. CASE Pool(u) # Pool(t)
    <3>1. pte'[Space(u)] = pte[Space(u)] /\ (u \in Process => pde'[u] = pde[u])
      BY <2>2, <1>2, Places DEF Keeps
    <3>2. CallOk(u)'
      BY <3>1, <1>1, <1>2, <1>3 DEF Local, CallOk, HasFrame
    <3>3. FrameOk(u)' /\ TableOk(u)' /\ IdxOk(u)'
      BY <3>1, <1>1, <1>2 DEF Local, FrameOk, TableOk, IdxOk, Tabling
    <3>4. UserByteOk(u)'
      <4>1. CASE Pool(u) = "U"
        BY <4>1, <2>2, <1>1, <1>2 DEF Keeps, Local, UserByteOk
      <4>2. CASE Pool(u) = "K"
        BY <4>2, <1>1, <1>2 DEF Local, UserByteOk, TableOk, IdxOk, Tabling
      <4> QED BY <1>2, <4>1, <4>2
    <3> QED BY <3>2, <3>3, <3>4
  <2> QED BY <2>1, <2>2
<1>6. StackOk(u)'
  <2>1. u \in Process => Space(u) # Space(t)
    BY PagesAssumption DEF Space, Task
  <2> QED BY <1>1, <1>2, <1>3, <2>1 DEF Local, StackOk, Keeps
<1>7. GivenOk(u)'
  <2> SUFFICES ASSUME NEW r \in regions[u], NEW v \in PagesOf(r)
               PROVE  pte'[Space(u)][v] # NoFrame
    BY <1>1 DEF GivenOk
  <2>1. r \in Held(u) /\ v \in Page(Space(u)) /\ pte[Space(u)][v] # NoFrame
    BY <1>2 DEF Held, PagesInv, HeldApart, Local, GivenOk
  <2>2. CASE Space(u) = Space(t)
    <3>1. Working(t) => v \notin PagesOf(Current(t))
      BY <2>1, <2>2 DEF Held, PagesInv, HeldApart
    <3> QED BY <3>1, <2>1, <2>2 DEF Keeps
  <2>3. CASE Space(u) # Space(t)
    BY <2>1, <2>3, <1>2 DEF Keeps
  <2> QED BY <2>2, <2>3
<1> QED BY <1>4, <1>5, <1>6, <1>7 DEF Local

(* A step of t: its new local variables, who has its lock, its regions.    *)
Moves(t, rec, l, g) ==
  /\ InCall(t) \/ lock[Pool(t)] = NoThread
  /\ th' = [th EXCEPT ![t] = rec] /\ rec \in Locals
  /\ lock' = [lock EXCEPT ![Pool(t)] = l] /\ l \in {t, NoThread}
  /\ regions' = [regions EXCEPT ![t] = g] /\ g \in SUBSET (Nat \X (1..MaxCnt))
  /\ \A r \in g : PagesOf(r) \subseteq Page(Space(t))
  /\ cli' \in {cli, t, NoThread} /\ cpu' = t /\ ~ halted /\ halted' = halted
  /\ raced' \in BOOLEAN /\ (raced => raced')

MapsTyped ==
  /\ \A p \in {"K", "U"} : frames[p] \in Bitmaps(FrameLen(p))
  /\ \A s \in Spaces :
       /\ vaddr[s] \in Bitmaps(PageLen(s))
       /\ pte[s] \in [Page(s) -> Frame(PoolOf(s)) \cup {NoFrame}]
  /\ pde \in [Process -> [0..Table(StackPage) -> Frame("K") \cup {NoFrame, NullFrame}]]

(* What every step starts from.                                            *)
LEMMA Before ==
  ASSUME PagesInv, NEW t \in Task
  PROVE  /\ th \in [Task -> Locals] /\ th[t] \in Locals /\ Local(t) /\ MapsTyped
         /\ Pool(t) \in {"K", "U"} /\ Space(t) \in Spaces
         /\ lock \in [{"K", "U"} -> Task \cup {NoThread}] /\ NoThread \notin Task
         /\ regions \in [Task -> SUBSET (Nat \X (1..MaxCnt))] /\ regions[t] \in SUBSET (Nat \X (1..MaxCnt))
         /\ \A r \in regions[t] : PagesOf(r) \subseteq Page(Space(t))
         /\ InCall(t) => lock = [lock EXCEPT ![Pool(t)] = t] /\ lock[Pool(t)] = t
         /\ regions = [regions EXCEPT ![t] = regions[t]]
         /\ raced \in BOOLEAN /\ halted \in BOOLEAN
<1>1. /\ th \in [Task -> Locals] /\ Local(t)
      /\ Pool(t) \in {"K", "U"} /\ Space(t) \in Spaces
      /\ lock \in [{"K", "U"} -> Task \cup {NoThread}] /\ NoThread \notin Task
      /\ regions \in [Task -> SUBSET (Nat \X (1..MaxCnt))]
      /\ \A r \in regions[t] : PagesOf(r) \subseteq Page(Space(t))
  BY Places DEF PagesInv, PagesTypeOK, Shape, Locals, PagesOf
<1>2. MapsTyped
  BY DEF PagesInv, PagesTypeOK, MapsTyped
<1>3. InCall(t) => lock = [lock EXCEPT ![Pool(t)] = t] /\ lock[Pool(t)] = t
  BY <1>1 DEF Local, LockOk
<1>4. raced \in BOOLEAN /\ halted \in BOOLEAN
  BY Zenon DEF PagesInv, PagesTypeOK
<1> QED BY <1>1, <1>2, <1>3, <1>4

(* What a step has done to the variables of one thread.                    *)
LEMMA After ==
  ASSUME PagesInv, NEW t \in Task, NEW rec, NEW l, NEW g, Moves(t, rec, l, g)
  PROVE  /\ th'[t] = rec /\ lock'[Pool(t)] = l /\ regions'[t] = g
         /\ \A u \in Task : u # t => th'[u] = th[u] /\ regions'[u] = regions[u]
         /\ lock' = [lock EXCEPT ![Pool(t)] = lock'[Pool(t)]]
  BY Before DEF Moves

(* The types of what a step of t may change besides bitmaps and tables.    *)
LEMMA TypeStep ==
  ASSUME PagesInv, NEW t \in Task, NEW rec, NEW l, NEW g, Moves(t, rec, l, g), MapsTyped'
  PROVE  PagesTypeOK' /\ regions' \in [Task -> SUBSET (Nat \X (1..MaxCnt))]
<1>1. /\ lock \in [{"K", "U"} -> Task \cup {NoThread}] /\ {cli, cpu} \subseteq Task \cup {NoThread}
      /\ th \in [Task -> Locals]
      /\ regions \in [Task -> SUBSET (Nat \X (1..MaxCnt))]
      /\ \A u \in Task : \A r \in regions[u] : PagesOf(r) \subseteq Page(Space(u))
  BY DEF PagesInv, PagesTypeOK, Shape, Locals, PagesOf
<1>2. lock' \in [{"K", "U"} -> Task \cup {NoThread}] /\ {cli', cpu'} \subseteq Task \cup {NoThread}
  BY <1>1 DEF Moves
<1>3. th' \in [Task -> Locals]
  BY <1>1 DEF Moves
<1>4. regions' \in [Task -> SUBSET (Nat \X (1..MaxCnt))]
  BY <1>1 DEF Moves
<1>5. \A u \in Task : \A r \in regions'[u] : PagesOf(r) \subseteq Page(Space(u))
  BY <1>1 DEF Moves
<1>6. {raced', halted'} \subseteq BOOLEAN
  BY Before, Zenon DEF Moves
<1> QED BY <1>2, <1>3, <1>4, <1>5, <1>6 DEF PagesTypeOK, MapsTyped, Locals, PagesOf

(* A step that moves no region in or out of what is held.                  *)
LEMMA HeldSame ==
  ASSUME HeldApart, HeldIsMarked, MarkedIsHeld, \A t \in Task : Held(t)' = Held(t),
         \A s \in Spaces : MarkedPages(s)' = MarkedPages(s), raced => raced'
  PROVE  HeldApart' /\ HeldIsMarked' /\ MarkedIsHeld'
<1>1. \A s \in Spaces : \A v : Holds(s, v)' <=> Holds(s, v)
  BY DEF Holds
<1>2. \A p : Sound(p)' => Sound(p)
  BY DEF Sound
<1>3. HeldApart'
  BY DEF HeldApart
<1>4. HeldIsMarked' /\ MarkedIsHeld'
  BY <1>1, <1>2 DEF HeldIsMarked, MarkedIsHeld
<1> QED BY <1>3, <1>4

(* A step of t that changes frames or tables, and moves no region.         *)
LEMMA WorkStep ==
  ASSUME PagesInv, NEW t \in Task, NEW rec, NEW l, NEW g, Moves(t, rec, l, g), UNCHANGED vaddr, MapsTyped',
         frames' = [p \in {"K", "U"} |-> frames'[p]], pte' = [s \in Spaces |-> pte'[s]],
         Keeps(t), Held(t)' = Held(t), Local(t)', MappedIsMarked'
  PROVE  PagesInv'
<1>1. PagesTypeOK' /\ regions' \in [Task -> SUBSET (Nat \X (1..MaxCnt))]
  BY TypeStep
<1>2. \A u \in Task : Local(u)'
  BY OthersKeep
<1>3. \A u \in Task : Held(u)' = Held(u)
  BY DEF Keeps, Held, Working, Current
<1>4. HeldApart' /\ HeldIsMarked' /\ MarkedIsHeld'
  <2>1. \A s \in Spaces : MarkedPages(s)' = MarkedPages(s)
    BY DEF MarkedPages
  <2>2. raced => raced'
    BY DEF Moves
  <2> QED BY <1>3, <2>1, <2>2, HeldSame DEF PagesInv
<1>5. Shape'
  BY <1>1 DEF PagesInv, Shape
<1> QED BY <1>1, <1>2, <1>4, <1>5 DEF PagesInv

(* A step that keeps the tables leaves the other threads alone.            *)
LEMMA KeepsTables ==
  ASSUME PagesInv, NEW t \in Task, NEW rec, NEW l, NEW g, Moves(t, rec, l, g), UNCHANGED tables,
         Pool(t) = "U" \/ frames'["U"] = frames["U"],
         \A s \in Spaces : s # Space(t) => MarkedPages(s)' = MarkedPages(s)
  PROVE  Keeps(t)
<1>1. pte' = pte /\ pde' = pde
  BY DEF tables
<1>2. /\ \A u \in Task : u # t => th'[u] = th[u] /\ regions'[u] = regions[u]
      /\ lock' = [lock EXCEPT ![Pool(t)] = lock'[Pool(t)]] /\ lock'[Pool(t)] = l
  BY After
<1>3. (InCall(t) \/ lock[Pool(t)] = NoThread) /\ l \in {t, NoThread}
  BY DEF Moves
<1> QED BY <1>1, <1>2, <1>3 DEF Keeps

(* A step of t that keeps the tables and moves no region.                  *)
LEMMA BitsStep ==
  ASSUME PagesInv, NEW t \in Task, NEW rec, NEW l, NEW g, Moves(t, rec, l, g),
         UNCHANGED <<vaddr, tables>>, Held(t)' = Held(t), Local(t)',
         \A p \in {"K", "U"} : frames'[p] \in Bitmaps(FrameLen(p)),
         frames' = [p \in {"K", "U"} |-> frames'[p]],
         Pool(t) = "U" \/ frames'["U"] = frames["U"]
  PROVE  PagesInv'
<1>1. pte' = pte /\ pde' = pde /\ vaddr' = vaddr
  BY DEF tables
<1>2. MapsTyped'
  BY <1>1, Before DEF MapsTyped
<1>3. \A s \in Spaces : MarkedPages(s)' = MarkedPages(s)
  BY <1>1 DEF MarkedPages
<1>4. Keeps(t)
  BY <1>3, KeepsTables
<1>5. MappedIsMarked'
  BY <1>1, <1>3 DEF PagesInv, MappedIsMarked
<1> QED BY <1>1, <1>2, <1>4, <1>5, WorkStep DEF PagesInv, Shape

(* A step of t that keeps bitmaps and tables, and moves no region.         *)
LEMMA QuietStep ==
  ASSUME PagesInv, NEW t \in Task, NEW rec, NEW l, NEW g, Moves(t, rec, l, g),
         UNCHANGED <<frames, vaddr, tables>>, Held(t)' = Held(t), Local(t)'
  PROVE  PagesInv'
<1>1. /\ \A p \in {"K", "U"} : frames'[p] \in Bitmaps(FrameLen(p))
      /\ frames' = [p \in {"K", "U"} |-> frames'[p]]
  BY DEF PagesInv, PagesTypeOK, Shape
<1> QED BY <1>1, BitsStep

(* Where a thread looks at no bitmap and has no frame in hand.             *)
LEMMA NoPlace ==
  ASSUME NEW t \in Task, th'[t].pc \notin Giving \cup {"clear"},
         th'[t].pc \in {"new", "idle", "virt"} => th'[t].idx = 0
  PROVE  FrameOk(t)' /\ TableOk(t)' /\ IdxOk(t)' /\ UserByteOk(t)'
  BY DEF FrameOk, TableOk, IdxOk, UserByteOk, Tabling, Giving, Searching
-----------------------------------------------------------------------------
(* A thread calls the allocator and takes the lock of its pool.            *)
LEMMA CallAllocStep ==
  ASSUME PagesInv, NEW t \in Task, NEW cnt \in 1..MaxCnt, CallAlloc(t, cnt)
  PROVE  PagesInv'
<1> DEFINE rec == [th[t] EXCEPT !.pc = "virt", !.cnt = cnt]
<1>1. rec \in Locals /\ rec.pc = "virt" /\ rec.cnt = cnt /\ rec.idx = th[t].idx
  <2>1. th[t] \in Locals /\ cnt \in 0..MaxCnt
    BY Before, Sizes
  <2> QED BY <2>1 DEF Locals, Label
<1>2. /\ th[t].pc = "idle" /\ th' = [th EXCEPT ![t] = rec]
      /\ UNCHANGED <<frames, vaddr, tables>> /\ pte' = pte /\ pde' = pde /\ vaddr' = vaddr
  BY Before DEF CallAlloc, At, tables
<1> HIDE DEF rec
<1>3. Moves(t, rec, t, regions[t])
  BY <1>1, <1>2, Before DEF CallAlloc, At, Enter, Runs, Moves
<1>4. th'[t] = rec /\ regions'[t] = regions[t] /\ lock'[Pool(t)] = t
  BY <1>3, After
<1>5. Held(t)' = Held(t)
  BY <1>1, <1>2, <1>4 DEF Held, Working, Giving, Taking, Searching
<1>6. Local(t)'
  <2>1. Local(t)
    BY Before
  <2>2. LockOk(t)' /\ CallOk(t)' /\ GivenOk(t)'
    BY <1>1, <1>2, <1>4, <2>1 DEF Local, LockOk, CallOk, GivenOk, InCall, Working, Giving, Taking, Searching
  <2>3. StackOk(t)'
    BY <1>1, <1>2, <1>4, <1>5, <2>1 DEF Local, StackOk, Taking, MarkedPages
  <2>4. FrameOk(t)' /\ TableOk(t)' /\ IdxOk(t)' /\ UserByteOk(t)'
    BY <1>1, <1>2, <1>4, <2>1, NoPlace DEF Local, IdxOk, Giving, Searching
  <2> QED BY <2>2, <2>3, <2>4 DEF Local
<1> QED BY <1>2, <1>3, <1>5, <1>6, QuietStep

(* A failed assertion stops everything.                                    *)
LEMMA PanicStep ==
  ASSUME PagesInv, NEW t \in Task, cpu' = t, panic_spin
  PROVE  PagesInv'
<1>1. /\ UNCHANGED <<frames, vaddr, pte, pde, lock, cli, th, regions, raced>> /\ halted' = TRUE
  BY DEF panic_spin, tables
<1>2. PagesTypeOK' /\ Shape'
  <2>1. {raced', halted'} \subseteq BOOLEAN
    BY <1>1, Before, Zenon
  <2>2. {cli', cpu'} \subseteq Task \cup {NoThread}
    BY <1>1 DEF PagesInv, PagesTypeOK
  <2> QED BY <1>1, <2>1, <2>2 DEF PagesInv, PagesTypeOK, Shape
<1>3. \A u \in Task : Local(u)'
  <2> TAKE u \in Task
  <2>1. Local(u)
    BY DEF PagesInv
  <2>2. LockOk(u)' /\ GivenOk(u)'
    BY <1>1, <2>1 DEF Local, LockOk, GivenOk, InCall
  <2>3. CallOk(u)'
    BY <1>1, <2>1 DEF Local, CallOk, Working, Current, HasFrame
  <2>4. FrameOk(u)' /\ TableOk(u)' /\ IdxOk(u)' /\ UserByteOk(u)'
    BY <1>1, <2>1 DEF Local, FrameOk, TableOk, IdxOk, UserByteOk, Tabling
  <2>5. StackOk(u)'
    BY <1>1, <2>1 DEF Local, StackOk, Held, Current, Working, MarkedPages
  <2> QED BY <2>2, <2>3, <2>4, <2>5 DEF Local
<1>4. /\ \A u \in Task : Held(u)' = Held(u)
      /\ \A s \in Spaces : MarkedPages(s)' = MarkedPages(s)
  BY <1>1 DEF Held, Working, Current, MarkedPages
<1>5. HeldApart' /\ HeldIsMarked' /\ MarkedIsHeld'
  BY <1>1, <1>4, HeldSame DEF PagesInv
<1>6. MappedIsMarked'
  BY <1>1, <1>4 DEF PagesInv, MappedIsMarked
<1> QED BY <1>2, <1>3, <1>5, <1>6 DEF PagesInv

(* A step inside the loops that does not go on to the next page.           *)
LEMMA SamePage ==
  ASSUME PagesInv, NEW t \in Task, NEW rec, Moves(t, rec, t, regions[t]), pte' = pte, vaddr' = vaddr,
         {th[t].pc, rec.pc} \subseteq Giving \/ {th[t].pc, rec.pc} \subseteq {"pfree", "clear", "unmap"},
         rec.start = th[t].start, rec.cnt = th[t].cnt, rec.page = th[t].page
  PROVE  /\ Held(t)' = Held(t) /\ Current(t)' = Current(t)
         /\ LockOk(t)' /\ CallOk(t)' /\ StackOk(t)' /\ GivenOk(t)'
<1>1. th'[t] = rec /\ regions'[t] = regions[t] /\ lock'[Pool(t)] = t
  BY After
<1>2. Local(t) /\ Working(t) /\ InCall(t) /\ Working(t)' /\ InCall(t)'
  BY <1>1, Before DEF Working, InCall, Giving, Taking, Searching
<1>3. Held(t)' = Held(t) /\ Current(t)' = Current(t)
  BY <1>1, <1>2 DEF Held, Current
<1>4. LockOk(t)' /\ GivenOk(t)'
  BY <1>1, <1>2 DEF Local, LockOk, GivenOk, InCall, Giving, Searching
<1>5. CallOk(t)'
  BY <1>1, <1>2, <1>3 DEF Local, CallOk, HasFrame, Giving, Searching
<1>6. StackOk(t)'
  BY <1>1, <1>2, <1>3 DEF Local, StackOk, Taking, Giving, Searching, MarkedPages
<1> QED BY <1>3, <1>4, <1>5, <1>6

(* A step inside the loops that keeps the tables.                          *)
LEMMA InLoop ==
  ASSUME PagesInv, NEW t \in Task, NEW rec \in Locals, ~ halted, cpu' = t,
         {th[t].pc, rec.pc} \subseteq Giving \/ {th[t].pc, rec.pc} \subseteq {"pfree", "clear", "unmap"},
         rec.start = th[t].start, rec.cnt = th[t].cnt, rec.page = th[t].page,
         th' = [th EXCEPT ![t] = rec], UNCHANGED <<vaddr, tables, lock, cli, regions, halted>>,
         raced' \in BOOLEAN, raced => raced',
         \A p \in {"K", "U"} : frames'[p] \in Bitmaps(FrameLen(p)),
         frames' = [p \in {"K", "U"} |-> frames'[p]],
         Pool(t) = "U" \/ frames'["U"] = frames["U"],
         FrameOk(t)', TableOk(t)', IdxOk(t)', UserByteOk(t)'
  PROVE  PagesInv' /\ Moves(t, rec, t, regions[t])
<1>1. InCall(t) /\ pte' = pte /\ vaddr' = vaddr
  BY DEF InCall, Giving, Searching, tables
<1>2. Moves(t, rec, t, regions[t])
  BY <1>1, Before DEF Moves
<1>3. Held(t)' = Held(t) /\ LockOk(t)' /\ CallOk(t)' /\ StackOk(t)' /\ GivenOk(t)'
  BY <1>1, <1>2, SamePage
<1>4. Local(t)'
  BY <1>3 DEF Local
<1> QED BY <1>2, <1>3, <1>4, BitsStep

(* A search, of whichever pool, and its place in the bitmap.               *)
LEMMA SearchAt ==
  ASSUME PagesInv, NEW t \in Task, th[t].pc \in Searching
  PROVE  /\ th[t] \in Locals /\ Local(t) /\ th[t].pool \in {"K", "U"} /\ th[t].idx \in Nat
         /\ frames[th[t].pool] \in Bitmaps(FrameLen(th[t].pool))
         /\ th[t].pool = "U" => Pool(t) = "U"
         /\ ~ Tabling(t) => th[t].pool = Pool(t)
         /\ Tabling(t) => t \in Process /\ th[t].pool = "K"
<1>1. /\ th[t] \in Locals /\ Local(t) /\ MapsTyped
  BY Before
<1>2. th[t].pool \in {"K", "U"} /\ th[t].idx \in Nat
  BY <1>1 DEF Locals
<1>3. ~ Tabling(t) => th[t].pool = Pool(t)
  BY DEF Tabling, Searching
<1>4. Tabling(t) => t \in Process /\ th[t].pool = "K"
  BY <1>1 DEF Local, TableOk
<1> QED BY <1>1, <1>2, <1>3, <1>4 DEF MapsTyped

(* A search goes on: the place in the bitmap changes.                      *)
LEMMA SearchOn ==
  ASSUME PagesInv, NEW t \in Task, th[t].pc \in Searching, NEW rec \in Locals, rec.pc \in Searching,
         rec.start = th[t].start, rec.cnt = th[t].cnt, rec.page = th[t].page,
         rec.pool = th[t].pool, rec.frame = th[t].frame,
         ~ halted, cpu' = t, th' = [th EXCEPT ![t] = rec],
         UNCHANGED <<frames, vaddr, tables, lock, cli, regions, raced, halted>>,
         IdxOk(t)', UserByteOk(t)'
  PROVE  PagesInv' /\ Moves(t, rec, t, regions[t])
<1>1. Local(t) /\ th'[t] = rec /\ pde' = pde /\ raced' \in BOOLEAN /\ (raced => raced')
  BY Before DEF tables
<1>2. FrameOk(t)' /\ TableOk(t)'
  BY <1>1 DEF Local, FrameOk, TableOk, Tabling, Searching
<1>3. /\ \A p \in {"K", "U"} : frames'[p] \in Bitmaps(FrameLen(p))
      /\ frames' = [p \in {"K", "U"} |-> frames'[p]] /\ frames'["U"] = frames["U"]
  BY DEF PagesInv, PagesTypeOK, Shape
<1> QED BY <1>1, <1>2, <1>3, InLoop DEF Giving

(* bitmap_scan looks for a byte that is not full.                          *)
LEMMA ScanByteStep ==
  ASSUME PagesInv, NEW t \in Task, ScanByte(t)
  PROVE  PagesInv'
<1> DEFINE p == th[t].pool
           b == th[t].idx
<1>1. th[t].pc = "scan" /\ ~ halted /\ cpu' = t
  BY DEF ScanByte, At, Runs
<1>2. /\ th[t] \in Locals /\ Local(t) /\ p \in {"K", "U"} /\ b \in 0..(FrameLen(p) - 1)
      /\ frames[p] \in Bitmaps(FrameLen(p)) /\ FrameLen(p) \in Nat \ {0} /\ th \in [Task -> Locals]
      /\ ByteBits \in Nat \ {0}
  BY <1>1, SearchAt, Sizes, Before, ByteAssumption DEF Searching, Local, IdxOk
<1>3. CASE frames[p][b] = Offsets /\ b = FrameLen(p) - 1
  BY <1>1, <1>3, PanicStep DEF ScanByte
<1>4. CASE frames[p][b] = Offsets /\ b # FrameLen(p) - 1
  <2> DEFINE rec == [th[t] EXCEPT !.idx = b + 1]
  <2>1. /\ th' = [th EXCEPT ![t].idx = b + 1]
        /\ UNCHANGED <<frames, vaddr, tables, lock, cli, regions, raced, halted>>
    BY <1>4 DEF ScanByte
  <2>2. /\ rec \in Locals /\ rec.pc = "scan" /\ rec.idx = b + 1 /\ rec.start = th[t].start
        /\ rec.cnt = th[t].cnt /\ rec.page = th[t].page /\ rec.pool = p /\ rec.frame = th[t].frame
    BY <1>1, <1>2 DEF Locals, Label
  <2>3. th' = [th EXCEPT ![t] = rec] /\ th'[t] = rec
    BY <1>2, <2>1
  <2> HIDE DEF rec
  <2>4. IdxOk(t)' /\ UserByteOk(t)'
    BY <1>2, <1>4, <2>2, <2>3 DEF IdxOk, UserByteOk
  <2> QED BY <1>1, <2>1, <2>2, <2>3, <2>4, SearchOn DEF Searching
<1>5. CASE frames[p][b] # Offsets
  <2> DEFINE i == b * ByteBits
             rec == [th[t] EXCEPT !.pc = "bit", !.idx = i]
  <2>1. /\ th' = [th EXCEPT ![t].pc = "bit", ![t].idx = i]
        /\ UNCHANGED <<frames, vaddr, tables, lock, cli, regions, raced, halted>>
    BY <1>5 DEF ScanByte
  <2>2. PICK o \in Offsets : o \notin frames[p][b]
    <3>1. frames[p][b] \in SUBSET Offsets
      BY <1>2 DEF Bitmaps
    <3> QED BY <1>5, <3>1
  <2>3. /\ i + o \in BitIndex(FrameLen(p)) /\ ~ bitmap_scan_test(frames[p], i + o)
        /\ i \in Nat /\ i <= i + o /\ o \in Nat
    <3>1. i + o \in BitIndex(FrameLen(p)) /\ (i + o) \div ByteBits = b /\ (i + o) % ByteBits = o
      BY <1>2, PlaceOf
    <3>2. i \in Nat /\ o \in Nat
      BY <1>2 DEF Offsets
    <3> QED BY <2>2, <3>1, <3>2 DEF bitmap_scan_test
  <2>4. i \in 0..Bits(p)
    BY <2>3, Sizes
  <2> HIDE DEF i
  <2>5. /\ rec \in Locals /\ rec.pc = "bit" /\ rec.idx = i /\ rec.start = th[t].start
        /\ rec.cnt = th[t].cnt /\ rec.page = th[t].page /\ rec.pool = p /\ rec.frame = th[t].frame
    BY <1>2, <2>3 DEF Locals, Label
  <2>6. th' = [th EXCEPT ![t] = rec] /\ th'[t] = rec
    BY <1>2, <2>1
  <2> HIDE DEF rec
  <2>7. IdxOk(t)'
    BY <2>4, <2>5, <2>6 DEF IdxOk
  <2>8. UserByteOk(t)'
    <3>1. p = "U" => i + o \in BitIndex(UserFrames) /\ ~ bitmap_scan_test(frames'["U"], i + o)
      BY <2>1, <2>3 DEF FrameLen
    <3> QED BY <2>3, <2>5, <2>6, <3>1 DEF UserByteOk
  <2> QED BY <1>1, <2>1, <2>5, <2>6, <2>7, <2>8, SearchOn DEF Searching
<1> QED BY <1>3, <1>4, <1>5

(* bitmap_set loads the byte.                                              *)
LEMMA SetLoadStep ==
  ASSUME PagesInv, NEW t \in Task, SetLoad(t)
  PROVE  PagesInv'
<1> DEFINE p == th[t].pool
           x == frames[p][th[t].idx \div ByteBits]
           rec == [th[t] EXCEPT !.pc = "store", !.byte = x]
<1>1. /\ th[t].pc = "load" /\ ~ halted /\ cpu' = t
      /\ th' = [th EXCEPT ![t].pc = "store", ![t].byte = x]
      /\ UNCHANGED <<frames, vaddr, tables, lock, cli, regions, raced, halted>>
  BY DEF SetLoad, At, Runs
<1>2. /\ th[t] \in Locals /\ Local(t) /\ p \in {"K", "U"} /\ th[t].idx \in BitIndex(FrameLen(p))
      /\ frames[p] \in Bitmaps(FrameLen(p)) /\ FrameLen(p) \in Nat \ {0} /\ th \in [Task -> Locals]
  BY <1>1, SearchAt, Sizes, Before DEF Searching, Local, IdxOk
<1>3. x \in SUBSET Offsets
  BY <1>2, Place DEF Bitmaps
<1> HIDE DEF x
<1>4. /\ rec \in Locals /\ rec.pc = "store" /\ rec.idx = th[t].idx /\ rec.start = th[t].start
      /\ rec.cnt = th[t].cnt /\ rec.page = th[t].page /\ rec.pool = p /\ rec.frame = th[t].frame
      /\ rec.byte = x
  BY <1>2, <1>3 DEF Locals, Label
<1>5. th' = [th EXCEPT ![t] = rec] /\ th'[t] = rec
  BY <1>1, <1>2
<1> HIDE DEF rec
<1>6. IdxOk(t)' /\ UserByteOk(t)'
  BY <1>1, <1>2, <1>4, <1>5 DEF Local, IdxOk, UserByteOk, x
<1> QED BY <1>1, <1>4, <1>5, <1>6, SearchOn DEF Searching

(* bitmap_set stores the byte, and palloc returns the frame.               *)
LEMMA SetStoreStep ==
  ASSUME PagesInv, NEW t \in Task, SetStore(t)
  PROVE  PagesInv'
<1> DEFINE p == th[t].pool
           i == th[t].idx
           x == th[t].byte \cup {i % ByteBits}
           rec == IF p = Pool(t) THEN [th[t] EXCEPT !.pc = "map", !.frame = i, !.byte = {}]
                                 ELSE [th[t] EXCEPT !.pc = "table", !.byte = {}]
<1>1. /\ th[t].pc = "store" /\ ~ halted /\ cpu' = t
      /\ Marks(t) /\ frames' = [frames EXCEPT ![p][i \div ByteBits] = x]
      /\ UNCHANGED <<vaddr, tables, lock, cli, regions, halted>>
      /\ raced' = (raced \/ frames[p][i \div ByteBits] # th[t].byte \/ i % ByteBits \in th[t].byte)
  BY DEF SetStore, At, Runs
<1>2. /\ th[t] \in Locals /\ Local(t) /\ p \in {"K", "U"} /\ i \in BitIndex(FrameLen(p))
      /\ FrameLen(p) \in Nat \ {0} /\ th \in [Task -> Locals]
      /\ p = "U" => Pool(t) = "U"
      /\ p # Pool(t) => Tabling(t)
  BY <1>1, SearchAt, Sizes, Before DEF Searching, Local, IdxOk
<1>3. /\ x \in SUBSET Offsets /\ i \div ByteBits \in 0..(FrameLen(p) - 1)
  BY <1>2, Place DEF Locals
<1>4. /\ \A q \in {"K", "U"} : frames'[q] \in Bitmaps(FrameLen(q))
      /\ frames' = [q \in {"K", "U"} |-> frames'[q]]
      /\ Pool(t) = "U" \/ frames'["U"] = frames["U"]
  <2> HIDE DEF x, i, p
  <2>1. /\ \A q \in {"K", "U"} : frames'[q] \in Bitmaps(FrameLen(q))
        /\ frames' = [q \in {"K", "U"} |-> frames'[q]]
        /\ \A q \in {"K", "U"} : q # p => frames'[q] = frames[q]
    BY <1>1, <1>2, <1>3, StoreByte DEF PagesInv
  <2> QED BY <1>2, <2>1
<1>5. /\ rec \in Locals /\ rec.pc = (IF p = Pool(t) THEN "map" ELSE "table") /\ rec.start = th[t].start
      /\ rec.cnt = th[t].cnt /\ rec.page = th[t].page /\ rec.pool = p /\ rec.idx = i
      /\ rec.frame = IF p = Pool(t) THEN i ELSE th[t].frame
  <2>1. i \in Nat
    BY <1>2 DEF Locals
  <2> HIDE DEF i
  <2> DEFINE y == [th[t] EXCEPT !.pc = "map", !.frame = i, !.byte = {}]
             z == [th[t] EXCEPT !.pc = "table", !.byte = {}]
  <2>2. /\ y \in Locals /\ y.pc = "map" /\ y.start = th[t].start /\ y.cnt = th[t].cnt
        /\ y.page = th[t].page /\ y.pool = th[t].pool /\ y.idx = th[t].idx /\ y.frame = i
    BY <1>2, <2>1 DEF Locals, Label
  <2>3. /\ z \in Locals /\ z.pc = "table" /\ z.start = th[t].start /\ z.cnt = th[t].cnt
        /\ z.page = th[t].page /\ z.pool = th[t].pool /\ z.idx = th[t].idx /\ z.frame = th[t].frame
    BY <1>2 DEF Locals, Label
  <2> HIDE DEF y, z
  <2>4. rec = IF p = Pool(t) THEN y ELSE z
    BY DEF y, z
  <2> HIDE DEF rec
  <2>5. CASE p = Pool(t)
    BY <2>2, <2>4, <2>5 DEF i
  <2>6. CASE p # Pool(t)
    BY <2>3, <2>4, <2>6 DEF i
  <2> QED BY <2>5, <2>6
<1>6. th' = [th EXCEPT ![t] = rec] /\ th'[t] = rec
  <2>1. th' = [th EXCEPT ![t] = rec]
    BY <1>1, <1>2 DEF Marks
  <2> QED BY <1>2, <2>1
<1>7. raced' \in BOOLEAN /\ (raced => raced')
  BY <1>1, Zenon
<1> HIDE DEF rec
<1>8. FrameOk(t)'
  <2>1. CASE p = Pool(t)
    BY <1>2, <1>5, <1>6, <2>1, Sizes DEF FrameOk
  <2>2. CASE p # Pool(t)
    BY <1>2, <1>5, <1>6, <2>2 DEF Local, FrameOk
  <2> QED BY <2>1, <2>2
<1>9. TableOk(t)' /\ UserByteOk(t)'
  BY <1>1, <1>2, <1>5, <1>6 DEF Local, TableOk, UserByteOk, Tabling, tables
<1>10. IdxOk(t)'
  <2>1. p # Pool(t) => p = "K" /\ i \in 0..Bits("K")
    <3>1. p # Pool(t) => p = "K"
      BY <1>2 DEF Local, TableOk
    <3>2. i \in 0..(Bits(p) - 1) /\ Bits(p) \in Nat
      BY <1>2, Sizes
    <3> HIDE DEF i, p
    <3> QED BY <3>1, <3>2
  <2> QED BY <1>5, <1>6, <2>1 DEF IdxOk
<1> QED BY <1>1, <1>4, <1>5, <1>6, <1>7, <1>8, <1>9, <1>10, InLoop DEF Giving, Searching

(* bitmap_scan tests one bit after the other.  Where palloc returns NULL,  *)
(* the thread is of the kernel, and its pages are not held any more.       *)
LEMMA ScanBitStep ==
  ASSUME PagesInv, NEW t \in Task, ScanBit(t)
  PROVE  PagesInv'
<1> DEFINE p == th[t].pool
           i == th[t].idx
<1>1. /\ th[t].pc = "bit" /\ ~ halted /\ cpu' = t /\ InCall(t)
      /\ UNCHANGED <<frames, vaddr, tables, lock, cli, regions, halted>>
      /\ raced' = (raced \/ i = Bits(p))
  BY DEF ScanBit, At, Runs, InCall
<1>2. /\ th[t] \in Locals /\ Local(t) /\ p \in {"K", "U"} /\ i \in 0..Bits(p) /\ i \in Nat
      /\ th \in [Task -> Locals] /\ Bits(p) \in Nat \ {0} /\ BitIndex(FrameLen(p)) = 0..(Bits(p) - 1)
      /\ p = "U" => Pool(t) = "U"
      /\ ~ Tabling(t) => p = Pool(t)
      /\ Tabling(t) => t \in Process /\ p = "K"
  BY <1>1, SearchAt, Sizes, Before DEF Searching, Local, IdxOk
<1>3. p = "U" => \E j \in BitIndex(FrameLen(p)) : j >= i /\ ~ bitmap_scan_test(frames[p], j)
  BY <1>1, <1>2 DEF Local, UserByteOk, FrameLen
<1>4. CASE i = Bits(p) /\ p = Pool(t)
  <2> DEFINE rec == [th[t] EXCEPT !.pc = "unlock"]
  <2>1. p = "K" /\ t \in Kernel /\ Space(t) = "kernel" /\ raced' = TRUE
    <3>1. p # "U"
      BY <1>2, <1>3, <1>4
    <3> QED BY <1>1, <1>2, <1>4, <3>1, Places DEF Task
  <2>2. th' = [th EXCEPT ![t].pc = "unlock"]
    BY <1>4 DEF ScanBit
  <2>3. rec \in Locals /\ rec.pc = "unlock" /\ rec.cnt = th[t].cnt
    BY <1>2 DEF Locals, Label
  <2>4. th' = [th EXCEPT ![t] = rec]
    BY <1>2, <2>2
  <2> HIDE DEF rec
  <2>5. Moves(t, rec, t, regions[t])
    BY <1>1, <2>1, <2>3, <2>4, Before DEF Moves
  <2>6. th'[t] = rec /\ regions'[t] = regions[t] /\ lock'[Pool(t)] = t /\ pte' = pte /\ pde' = pde /\ vaddr' = vaddr
    BY <1>1, <2>5, After DEF tables
  <2>7. /\ Held(t)' = regions[t] /\ ~ Working(t)' /\ \A u \in Task : u # t => Held(u)' = Held(u)
        /\ \A u \in Task : Held(u)' \subseteq Held(u)
    BY <2>3, <2>5, <2>6, After DEF Held, Working, Current, Giving, Taking, Searching
  <2>8. \A s \in Spaces : MarkedPages(s)' = MarkedPages(s)
    BY <2>6 DEF MarkedPages
  <2>9. Local(t)'
    <3>1. LockOk(t)' /\ CallOk(t)' /\ GivenOk(t)'
      BY <1>1, <1>2, <2>3, <2>6, <2>7 DEF Local, LockOk, CallOk, InCall, GivenOk
    <3>2. StackOk(t)'
      BY <2>1, PagesAssumption DEF StackOk
    <3>3. FrameOk(t)' /\ TableOk(t)' /\ IdxOk(t)' /\ UserByteOk(t)'
      BY <2>3, <2>6, NoPlace DEF Giving, Searching
    <3> QED BY <3>1, <3>2, <3>3 DEF Local
  <2>10. Keeps(t)
    BY <1>1, <2>5, <2>8, KeepsTables
  <2>11. PagesTypeOK' /\ Shape' /\ MappedIsMarked'
    <3>1. MapsTyped'
      BY <1>1, <2>6, Before DEF MapsTyped
    <3>2. PagesTypeOK' /\ regions' \in [Task -> SUBSET (Nat \X (1..MaxCnt))]
      BY <2>5, <3>1, TypeStep
    <3> QED BY <1>1, <2>6, <2>8, <3>2 DEF PagesInv, Shape, MappedIsMarked
  <2>12. HeldApart'
    BY <2>7 DEF PagesInv, HeldApart
  <2>13. HeldIsMarked'
    BY <2>7, <2>8 DEF PagesInv, HeldIsMarked, Holds
  <2>14. MarkedIsHeld'
    <3> SUFFICES ASSUME NEW s \in Spaces, s # "kernel", NEW v \in Page(s), v \in MarkedPages(s)
                 PROVE  \E u \in Task : Space(u) = s /\ \E r \in Held(u)' : v \in PagesOf(r)
      BY <2>1, <2>8 DEF MarkedIsHeld, Holds, Sound, PoolOf
    <3>1. PICK u \in Task : Space(u) = s /\ \E r \in Held(u) : v \in PagesOf(r)
      BY DEF PagesInv, MarkedIsHeld, Holds, Sound, PoolOf
    <3> QED BY <2>1, <2>7, <3>1
  <2>15. \A u \in Task : Local(u)'
    BY <2>9, <2>10, OthersKeep
  <2> QED BY <2>11, <2>12, <2>13, <2>14, <2>15 DEF PagesInv
<1>5. CASE i = Bits(p) /\ p # Pool(t)
  <2> DEFINE rec == [th[t] EXCEPT !.pc = "table"]
  <2>1. th' = [th EXCEPT ![t].pc = "table"]
    BY <1>5 DEF ScanBit
  <2>2. /\ rec \in Locals /\ rec.pc = "table" /\ rec.idx = i /\ rec.start = th[t].start
        /\ rec.cnt = th[t].cnt /\ rec.page = th[t].page /\ rec.pool = p /\ rec.frame = th[t].frame
    BY <1>2 DEF Locals, Label
  <2>3. th' = [th EXCEPT ![t] = rec] /\ th'[t] = rec
    BY <1>2, <2>1
  <2> HIDE DEF rec
  <2>4. FrameOk(t)' /\ TableOk(t)' /\ IdxOk(t)' /\ UserByteOk(t)'
    BY <1>1, <1>2, <1>5, <2>2, <2>3 DEF Local, FrameOk, TableOk, IdxOk, UserByteOk, Tabling, Searching, tables
  <2>5. /\ \A q \in {"K", "U"} : frames'[q] \in Bitmaps(FrameLen(q))
        /\ frames' = [q \in {"K", "U"} |-> frames'[q]] /\ frames'["U"] = frames["U"]
    BY <1>1 DEF PagesInv, PagesTypeOK, Shape
  <2>6. raced' \in BOOLEAN /\ (raced => raced')
    BY <1>1, Zenon
  <2> QED BY <1>1, <2>2, <2>3, <2>4, <2>5, <2>6, InLoop DEF Giving, Searching
<1>6. CASE i # Bits(p)
  <2> DEFINE set == bitmap_scan_test(frames[p], i)
             rec == IF set THEN [th[t] EXCEPT !.idx = i + 1] ELSE [th[t] EXCEPT !.pc = "load"]
  <2>1. /\ th' = IF set THEN [th EXCEPT ![t].idx = i + 1] ELSE [th EXCEPT ![t].pc = "load"]
        /\ raced' = raced
    <3>1. raced' = raced
      BY <1>1, <1>6, Before, Zenon
    <3> QED BY <1>6, <3>1 DEF ScanBit
  <2>2. i \in BitIndex(FrameLen(p))
    BY <1>2, <1>6
  <2>3. /\ rec \in Locals /\ rec.pc = (IF set THEN "bit" ELSE "load") /\ rec.start = th[t].start
        /\ rec.cnt = th[t].cnt /\ rec.page = th[t].page /\ rec.pool = p /\ rec.frame = th[t].frame
        /\ rec.idx = IF set THEN i + 1 ELSE i
    <3> DEFINE n == i + 1
               y == [th[t] EXCEPT !.idx = n]
               z == [th[t] EXCEPT !.pc = "load"]
    <3>0. n \in Nat /\ th[t] \in Locals /\ th[t].pc = "bit"
      BY <1>1, <1>2
    <3> HIDE DEF n
    <3>1. /\ y \in Locals /\ y.pc = "bit" /\ y.start = th[t].start /\ y.cnt = th[t].cnt
          /\ y.page = th[t].page /\ y.pool = th[t].pool /\ y.idx = n /\ y.frame = th[t].frame
      BY <3>0 DEF Locals, Label
    <3>2. /\ z \in Locals /\ z.pc = "load" /\ z.start = th[t].start /\ z.cnt = th[t].cnt
          /\ z.page = th[t].page /\ z.pool = th[t].pool /\ z.idx = th[t].idx /\ z.frame = th[t].frame
      BY <1>2 DEF Locals, Label
    <3> HIDE DEF y, z, set
    <3>3. rec = IF set THEN y ELSE z
      BY DEF y, z, n
    <3> HIDE DEF rec
    <3>4. CASE set
      BY <3>1, <3>3, <3>4 DEF n
    <3>5. CASE ~ set
      BY <3>2, <3>3, <3>5
    <3> QED BY <3>4, <3>5
  <2>4. th' = [th EXCEPT ![t] = rec] /\ th'[t] = rec
    BY <1>2, <2>1
  <2> HIDE DEF rec
  <2>5. IdxOk(t)'
    BY <1>2, <2>2, <2>3, <2>4 DEF IdxOk
  <2>6. UserByteOk(t)'
    <3> SUFFICES ASSUME p = "U"
                 PROVE  /\ set => \E j \in BitIndex(UserFrames) : j >= i + 1 /\ ~ bitmap_scan_test(frames["U"], j)
                        /\ ~ set => ~ bitmap_scan_test(frames["U"], i)
      BY <1>1, <2>3, <2>4 DEF UserByteOk
    <3>1. PICK j \in BitIndex(UserFrames) : j >= i /\ ~ bitmap_scan_test(frames["U"], j)
      BY <1>3 DEF FrameLen
    <3>2. set => j # i
      BY <3>1
    <3>3. j \in Int
      BY DEF BitIndex
    <3> QED BY <1>2, <3>1, <3>2, <3>3
  <2> QED BY <1>1, <2>1, <2>3, <2>4, <2>5, <2>6, SearchOn DEF Searching
<1> QED BY <1>4, <1>5, <1>6

(* page_table_map finds no page table.                                     *)
LEMMA NoTableStep ==
  ASSUME PagesInv, NEW t \in Task, page_table_map(t),
         t \in Process, pde[t][Table(th[t].page)] = NoFrame
  PROVE  PagesInv'
<1> DEFINE rec == [th[t] EXCEPT !.pc = "scan", !.pool = "K", !.idx = 0]
<1>1. /\ th[t].pc = "map" /\ ~ halted /\ cpu' = t
      /\ th' = [th EXCEPT ![t].pc = "scan", ![t].pool = "K", ![t].idx = 0]
      /\ UNCHANGED <<frames, vaddr, tables, lock, cli, regions, raced, halted>> /\ pte' = pte /\ pde' = pde
  BY DEF page_table_map, At, Runs, tables
<1>2. th[t] \in Locals /\ th \in [Task -> Locals] /\ Local(t) /\ raced' \in BOOLEAN /\ (raced => raced')
  BY <1>1, Before
<1>3. /\ rec \in Locals /\ rec.pc = "scan" /\ rec.frame = th[t].frame /\ rec.start = th[t].start
      /\ rec.cnt = th[t].cnt /\ rec.page = th[t].page /\ rec.pool = "K" /\ rec.idx = 0
  BY <1>2 DEF Locals, Label
<1>4. th' = [th EXCEPT ![t] = rec] /\ th'[t] = rec
  BY <1>1, <1>2
<1> HIDE DEF rec
<1>5. FrameOk(t)' /\ TableOk(t)' /\ UserByteOk(t)'
  BY <1>1, <1>2, <1>3, <1>4 DEF Local, FrameOk, TableOk, UserByteOk
<1>6. IdxOk(t)'
  <2>1. 0 \in 0..(FrameLen("K") - 1)
    BY Sizes
  <2> QED BY <1>3, <1>4, <2>1 DEF IdxOk
<1>7. /\ \A q \in {"K", "U"} : frames'[q] \in Bitmaps(FrameLen(q))
      /\ frames' = [q \in {"K", "U"} |-> frames'[q]] /\ frames'["U"] = frames["U"]
  BY <1>1 DEF PagesInv, PagesTypeOK, Shape
<1>8. {th[t].pc, rec.pc} \subseteq Giving
  BY <1>1, <1>3 DEF Giving, Searching
<1>9. UNCHANGED <<vaddr, tables, lock, cli, regions, halted>>
  BY <1>1
<1> QED BY <1>1, <1>2, <1>3, <1>4, <1>5, <1>6, <1>7, <1>8, <1>9, InLoop

(* The pages of an allocation are mapped and handed out.                   *)
LEMMA FinishStep ==
  ASSUME PagesInv, NEW t \in Task, Finish(t)
  PROVE  PagesInv'
<1> DEFINE rec == [th[t] EXCEPT !.pc = "unlock"]
           g == regions[t] \cup {Current(t)}
<1>1. /\ th[t].pc = "done" /\ ~ halted /\ cpu' = t /\ InCall(t) /\ Working(t)
      /\ th' = [th EXCEPT ![t].pc = "unlock"] /\ regions' = [regions EXCEPT ![t] = g]
      /\ UNCHANGED <<frames, vaddr, tables, lock, cli, raced, halted>> /\ pte' = pte /\ vaddr' = vaddr
  BY DEF Finish, At, InCall, Goto, tables, Current, Working
<1>2. /\ rec \in Locals /\ rec.pc = "unlock" /\ rec.cnt = th[t].cnt
  <2>1. th[t] \in Locals
    BY Before
  <2> QED BY <2>1 DEF Locals, Label
<1>3. th' = [th EXCEPT ![t] = rec]
  BY <1>1, Before DEF Locals
<1>4. Current(t) \in Held(t) /\ Held(t) = g
  BY <1>1 DEF Held
<1>5. g \in SUBSET (Nat \X (1..MaxCnt)) /\ \A r \in g : PagesOf(r) \subseteq Page(Space(t))
  <2>1. th[t] \in Locals /\ Local(t) /\ regions[t] \in SUBSET (Nat \X (1..MaxCnt)) /\ MaxCnt \in Nat
    BY Before, Sizes
  <2>2. Current(t) \in Nat \X (1..MaxCnt)
    BY <1>1, <2>1 DEF Locals, Local, LockOk, Current
  <2> QED BY <2>1, <2>2, <1>4 DEF PagesInv, HeldApart
<1> HIDE DEF rec, g
<1>6. Moves(t, rec, t, g)
  BY <1>1, <1>2, <1>3, <1>5, Before DEF Moves
<1>7. th'[t] = rec /\ regions'[t] = g /\ lock'[Pool(t)] = t
  BY <1>6, After
<1>8. Held(t)' = Held(t) /\ ~ Working(t)'
  BY <1>2, <1>4, <1>7 DEF Held, Working, Giving, Taking, Searching
<1>9. Local(t)'
  <2>1. Local(t)
    BY Before
  <2>2. LockOk(t)' /\ CallOk(t)'
    BY <1>1, <1>2, <1>7, <1>8, <2>1 DEF Local, LockOk, CallOk, InCall
  <2>3. FrameOk(t)' /\ TableOk(t)' /\ IdxOk(t)' /\ UserByteOk(t)'
    BY <1>2, <1>7, NoPlace DEF Giving, Searching
  <2>4. StackOk(t)'
    BY <1>1, <1>2, <1>7, <1>8, <2>1 DEF Local, StackOk, Taking, MarkedPages
  <2>5. GivenOk(t)'
    BY <1>1, <1>7, <2>1 DEF g, Local, GivenOk, CallOk, HasFrame
  <2> QED BY <2>2, <2>3, <2>4, <2>5 DEF Local
<1> QED BY <1>1, <1>6, <1>8, <1>9, QuietStep

(* The lock of the pool is released.                                       *)
LEMMA UnlockStep ==
  ASSUME PagesInv, NEW t \in Task, Unlock(t)
  PROVE  PagesInv'
<1> DEFINE rec == Idle("idle")
<1>1. /\ th[t].pc = "unlock" /\ ~ halted /\ cpu' = t /\ InCall(t) /\ cli' = NoThread
      /\ th' = [th EXCEPT ![t] = rec] /\ lock' = [lock EXCEPT ![Pool(t)] = NoThread]
      /\ UNCHANGED <<frames, vaddr, tables, regions, raced, halted>> /\ pte' = pte /\ vaddr' = vaddr
  BY DEF Unlock, At, Runs, InCall, tables
<1>2. /\ rec \in Locals /\ rec.pc = "idle" /\ rec.idx = 0
  BY Sizes DEF Locals, Label, Idle
<1> HIDE DEF rec
<1>3. Moves(t, rec, NoThread, regions[t])
  BY <1>1, <1>2, Before DEF Moves
<1>4. th'[t] = rec /\ regions'[t] = regions[t] /\ lock'[Pool(t)] = NoThread
  BY <1>3, After
<1>5. Held(t)' = Held(t) /\ ~ Working(t)'
  BY <1>1, <1>2, <1>4 DEF Held, Working, Giving, Taking, Searching
<1>6. Local(t)'
  <2>1. Local(t) /\ t # NoThread
    BY Before
  <2>2. LockOk(t)' /\ CallOk(t)' /\ GivenOk(t)'
    BY <1>1, <1>2, <1>4, <1>5, <2>1 DEF Local, LockOk, CallOk, InCall, GivenOk
  <2>3. FrameOk(t)' /\ TableOk(t)' /\ IdxOk(t)' /\ UserByteOk(t)'
    BY <1>2, <1>4, NoPlace DEF Giving, Searching
  <2>4. StackOk(t)'
    BY <1>1, <1>2, <1>4, <1>5, <2>1 DEF Local, StackOk, Taking, MarkedPages
  <2> QED BY <2>2, <2>3, <2>4 DEF Local
<1> QED BY <1>1, <1>3, <1>5, <1>6, QuietStep

(* The local variables at the start of a loop over the pages of a region.  *)
Begin(x, label, a, c) == [[x EXCEPT !.pc = label, !.start = a] EXCEPT !.cnt = c, !.page = a]

(* Its fields.                                                             *)
LEMMA BeginIs ==
  ASSUME NEW x \in Locals, NEW label \in Label, NEW a \in Nat, NEW c \in 0..MaxCnt
  PROVE  /\ Begin(x, label, a, c) \in Locals /\ Begin(x, label, a, c).pc = label
         /\ Begin(x, label, a, c).start = a /\ Begin(x, label, a, c).cnt = c
         /\ Begin(x, label, a, c).page = a /\ Begin(x, label, a, c).idx = x.idx
<1> DEFINE y == [x EXCEPT !.pc = label, !.start = a]
<1>1. y \in Locals /\ y.pc = label /\ y.start = a /\ y.idx = x.idx
  BY DEF Locals
<1> HIDE DEF y
<1>2. LET z == [y EXCEPT !.cnt = c, !.page = a]
      IN  z \in Locals /\ z.pc = y.pc /\ z.start = y.start /\ z.cnt = c /\ z.page = a /\ z.idx = y.idx
  BY <1>1 DEF Locals
<1> QED BY <1>1, <1>2 DEF Begin, y

(* A thread frees a region it was given.                                   *)
LEMMA CallFreeStep ==
  ASSUME PagesInv, NEW t \in Task, NEW r \in regions[t], CallFree(t, r)
  PROVE  PagesInv'
<1> DEFINE rec == Begin(th[t], "pfree", r[1], r[2])
           g == regions[t] \ {r}
<1>1. r \in Nat \X (1..MaxCnt) /\ r = <<r[1], r[2]>> /\ r[1] \in Nat /\ r[2] \in 1..MaxCnt /\ MaxCnt \in Nat
  BY Before, Sizes
<1>2. /\ th[t].pc = "idle" /\ ~ halted /\ ~ Working(t) /\ (t \in Process => r[1] # StackPage)
      /\ regions' = [regions EXCEPT ![t] = g]
      /\ UNCHANGED <<frames, vaddr, tables, raced, halted>> /\ pte' = pte /\ vaddr' = vaddr
  BY DEF CallFree, At, tables, Working, Giving, Taking, Searching
<1>3. /\ rec \in Locals /\ rec.pc = "pfree" /\ rec.start = r[1] /\ rec.cnt = r[2] /\ rec.page = r[1]
  <2>1. th[t] \in Locals /\ "pfree" \in Label /\ r[1] \in Nat /\ r[2] \in 0..MaxCnt
    BY <1>1, Before DEF Label
  <2> QED BY <2>1, BeginIs
<1>4. th' = [th EXCEPT ![t] = rec]
  <2>1. th[t] \in Locals /\ th \in [Task -> Locals]
    BY Before
  <2>2. th' = [th EXCEPT ![t].pc = "pfree", ![t].start = r[1], ![t].cnt = r[2], ![t].page = r[1]]
    BY DEF CallFree
  <2> QED BY <2>1, <2>2 DEF Locals, Begin
<1> HIDE DEF rec
<1>5. Moves(t, rec, t, g)
  <2>1. /\ lock[Pool(t)] = NoThread /\ lock' = [lock EXCEPT ![Pool(t)] = t]
        /\ cli' \in {t, NoThread} /\ cpu' = t
    BY DEF CallFree, Enter, Runs
  <2>2. g \in SUBSET (Nat \X (1..MaxCnt)) /\ \A q \in g : PagesOf(q) \subseteq Page(Space(t))
    BY Before
  <2>3. raced' \in BOOLEAN /\ (raced => raced')
    BY <1>2, Before
  <2> QED BY <1>2, <1>3, <1>4, <2>1, <2>2, <2>3 DEF Moves
<1>6. th'[t] = rec /\ regions'[t] = g /\ lock'[Pool(t)] = t
  BY <1>5, After
<1>7. Working(t)' /\ Current(t)' = r /\ Held(t)' = Held(t)
  BY <1>1, <1>2, <1>3, <1>6 DEF Held, Working, Current, Giving, Taking, Searching
<1>8. Local(t)'
  <2>1. Local(t)
    BY Before
  <2>2. LockOk(t)' /\ GivenOk(t)'
    BY <1>1, <1>2, <1>3, <1>6, <2>1 DEF Local, LockOk, InCall, GivenOk
  <2>3. CallOk(t)'
    BY <1>1, <1>2, <1>3, <1>6, <1>7, <2>1 DEF Local, CallOk, GivenOk, HasFrame, PagesOf, Giving, Searching
  <2>4. StackOk(t)'
    BY <1>1, <1>2, <1>3, <1>6, <1>7, <2>1 DEF Local, StackOk, Taking, MarkedPages
  <2>5. FrameOk(t)' /\ TableOk(t)' /\ IdxOk(t)' /\ UserByteOk(t)'
    BY <1>3, <1>6, NoPlace DEF Giving, Searching
  <2> QED BY <2>2, <2>3, <2>4, <2>5 DEF Local
<1> QED BY <1>2, <1>5, <1>7, <1>8, QuietStep

(* The page that a loop has come to, and in free the frame behind it.      *)
LEMMA PageAt ==
  ASSUME PagesInv, NEW t \in Task, Working(t)
  PROVE  /\ th[t].page \in PagesOf(Current(t)) /\ PagesOf(Current(t)) \subseteq Page(Space(t))
         /\ th[t].page \in Page(Space(t)) /\ Space(t) \in Spaces /\ Pool(t) \in {"K", "U"}
         /\ Current(t) \in Held(t) /\ Current(t) \notin regions[t]
         /\ pte[Space(t)][th[t].page] \in Frame(Pool(t)) \cup {NoFrame}
         /\ th[t].pc \in {"pfree", "clear", "unmap"} => pte[Space(t)][th[t].page] # NoFrame
<1>1. Local(t) /\ Space(t) \in Spaces /\ Pool(t) \in {"K", "U"} /\ th[t] \in Locals /\ MapsTyped
  BY Before
<1>2. Current(t) \in Held(t) /\ th[t].page \in PagesOf(Current(t)) /\ th[t].page \in Nat
  BY <1>1 DEF Held, Local, CallOk, Locals
<1>3. PagesOf(Current(t)) \subseteq Page(Space(t)) /\ th[t].page \in Page(Space(t))
  BY <1>2 DEF PagesInv, HeldApart
<1>4. pte[Space(t)][th[t].page] \in Frame(Pool(t)) \cup {NoFrame}
  BY <1>1, <1>3, Places DEF MapsTyped
<1>5. th[t].pc \in {"pfree", "clear", "unmap"} => pte[Space(t)][th[t].page] # NoFrame
  BY <1>1, <1>2 DEF Local, CallOk, HasFrame
<1>6. Current(t) \notin regions[t]
  BY <1>1 DEF Local, CallOk
<1> QED BY <1>1, <1>2, <1>3, <1>4, <1>5, <1>6

(* pfree loads the byte of the frame of the page.                          *)
LEMMA PfreeStep ==
  ASSUME PagesInv, NEW t \in Task, pfree(t)
  PROVE  PagesInv'
<1> DEFINE f == pte[Space(t)][th[t].page]
           i == f[2]
           x == frames[Pool(t)][i \div ByteBits]
           y == [th[t] EXCEPT !.pc = "clear", !.pool = Pool(t)]
           rec == [y EXCEPT !.idx = i, !.byte = x]
<1>1. /\ th[t].pc = "pfree" /\ ~ halted /\ cpu' = t /\ Working(t)
      /\ th' = [th EXCEPT ![t].pc = "clear", ![t].pool = f[1], ![t].idx = f[2],
                          ![t].byte = frames[f[1]][f[2] \div ByteBits]]
      /\ UNCHANGED <<frames, vaddr, tables, lock, cli, regions, raced, halted>> /\ pte' = pte
  BY DEF pfree, At, Runs, tables, Working, Taking
<1>2. /\ f \in Frame(Pool(t)) /\ f[1] = Pool(t) /\ f = <<Pool(t), i>> /\ i \in BitIndex(FrameLen(Pool(t)))
      /\ Pool(t) \in {"K", "U"}
  BY <1>1, PageAt, FrameIsSome
<1>3. /\ th[t] \in Locals /\ th \in [Task -> Locals] /\ raced' \in BOOLEAN /\ (raced => raced') /\ i \in Nat
      /\ frames[Pool(t)] \in Bitmaps(FrameLen(Pool(t))) /\ FrameLen(Pool(t)) \in Nat
  <2>1. /\ th[t] \in Locals /\ th \in [Task -> Locals] /\ raced' \in BOOLEAN
        /\ frames[Pool(t)] \in Bitmaps(FrameLen(Pool(t)))
    BY <1>1, <1>2, Before DEF MapsTyped
  <2>2. i \in Nat /\ FrameLen(Pool(t)) \in Nat
    BY <1>2, Sizes DEF BitIndex
  <2> QED BY <1>1, <2>1, <2>2
<1>4. x \in SUBSET Offsets
  BY <1>2, <1>3, Place DEF Bitmaps
<1>5. th' = [th EXCEPT ![t].pc = "clear", ![t].pool = Pool(t), ![t].idx = i, ![t].byte = x]
  BY <1>1, <1>2
<1> HIDE DEF i, x, f
<1>6. /\ y \in Locals /\ y.pc = "clear" /\ y.pool = Pool(t) /\ y.start = th[t].start /\ y.cnt = th[t].cnt
      /\ y.page = th[t].page
  BY <1>2, <1>3 DEF Locals, Label
<1>7. th' = [th EXCEPT ![t] = rec]
  BY <1>3, <1>5
<1> HIDE DEF y
<1>8. /\ rec \in Locals /\ rec.pc = "clear" /\ rec.pool = Pool(t) /\ rec.start = th[t].start
      /\ rec.cnt = th[t].cnt /\ rec.page = th[t].page /\ rec.idx = i /\ rec.byte = x
  BY <1>3, <1>4, <1>6 DEF Locals
<1> HIDE DEF rec
<1>9. th'[t] = rec
  BY <1>3, <1>7
<1>10. FrameOk(t)' /\ TableOk(t)' /\ IdxOk(t)' /\ UserByteOk(t)'
  <2>1. FrameOk(t)' /\ TableOk(t)'
    BY <1>8, <1>9 DEF FrameOk, TableOk, Tabling
  <2>2. IdxOk(t)'
    BY <1>1, <1>2, <1>8, <1>9 DEF IdxOk, f
  <2>3. UserByteOk(t)'
    BY <1>1, <1>8, <1>9 DEF UserByteOk, x
  <2> QED BY <2>1, <2>2, <2>3
<1>11. /\ \A q \in {"K", "U"} : frames'[q] \in Bitmaps(FrameLen(q))
       /\ frames' = [q \in {"K", "U"} |-> frames'[q]] /\ frames'["U"] = frames["U"]
  BY <1>1 DEF PagesInv, PagesTypeOK, Shape
<1>12. {th[t].pc, rec.pc} \subseteq {"pfree", "clear", "unmap"}
  BY <1>1, <1>8
<1>13. ~ halted /\ cpu' = t /\ UNCHANGED <<vaddr, tables, lock, cli, regions, halted>>
  BY <1>1
<1> QED BY <1>3, <1>7, <1>8, <1>10, <1>11, <1>12, <1>13, InLoop

(* pfree stores the byte without the bit.                                  *)
LEMMA ClearStoreStep ==
  ASSUME PagesInv, NEW t \in Task, ClearStore(t)
  PROVE  PagesInv'
<1> DEFINE p == th[t].pool
           i == th[t].idx
           x == th[t].byte \ {i % ByteBits}
           passed == \E u \in Task : /\ th[u].pc = "scan" /\ th[u].pool = p
                                     /\ th[u].idx > i \div ByteBits
           rec == [th[t] EXCEPT !.pc = "unmap", !.byte = {}]
<1>1. /\ th[t].pc = "clear" /\ ~ halted /\ cpu' = t /\ Working(t)
      /\ frames' = [frames EXCEPT ![p][i \div ByteBits] = x]
      /\ raced' = (raced \/ frames[p][i \div ByteBits] # th[t].byte \/ passed)
      /\ th' = [th EXCEPT ![t].pc = "unmap", ![t].byte = {}]
      /\ UNCHANGED <<vaddr, tables, lock, cli, regions, halted>>
  BY DEF ClearStore, At, Runs, Working, Taking
<1>2. /\ th[t] \in Locals /\ th \in [Task -> Locals] /\ p = Pool(t) /\ p \in {"K", "U"}
      /\ pte[Space(t)][th[t].page] = <<p, i>>
  BY <1>1, Before DEF Local, IdxOk
<1>3. i \in BitIndex(FrameLen(p)) /\ FrameLen(p) \in Nat \ {0}
  <2>1. <<p, i>> \in Frame(p)
    BY <1>1, <1>2, PageAt
  <2> QED BY <2>1, Sizes
<1>4. x \in SUBSET Offsets /\ i \div ByteBits \in 0..(FrameLen(p) - 1)
  BY <1>2, <1>3, Place DEF Locals
<1>5. raced' \in BOOLEAN /\ (raced => raced')
  <2> HIDE DEF passed
  <2> QED BY <1>1, Zenon
<1>6. /\ \A q \in {"K", "U"} : frames'[q] \in Bitmaps(FrameLen(q))
      /\ frames' = [q \in {"K", "U"} |-> frames'[q]]
      /\ Pool(t) = "U" \/ frames'["U"] = frames["U"]
  <2> HIDE DEF x, i, p
  <2>1. /\ \A q \in {"K", "U"} : frames'[q] \in Bitmaps(FrameLen(q))
        /\ frames' = [q \in {"K", "U"} |-> frames'[q]]
        /\ \A q \in {"K", "U"} : q # p => frames'[q] = frames[q]
    BY <1>1, <1>2, <1>3, <1>4, StoreByte DEF PagesInv
  <2> QED BY <1>2, <2>1
<1>7. /\ rec \in Locals /\ rec.pc = "unmap" /\ rec.start = th[t].start
      /\ rec.cnt = th[t].cnt /\ rec.page = th[t].page
  BY <1>2 DEF Locals, Label
<1>8. th' = [th EXCEPT ![t] = rec] /\ th'[t] = rec
  BY <1>1, <1>2
<1> HIDE DEF rec
<1>9. FrameOk(t)' /\ TableOk(t)' /\ IdxOk(t)' /\ UserByteOk(t)'
  BY <1>7, <1>8, NoPlace DEF Giving, Searching
<1>10. {th[t].pc, rec.pc} \subseteq {"pfree", "clear", "unmap"}
  BY <1>1, <1>7
<1>11. ~ halted /\ cpu' = t /\ UNCHANGED <<vaddr, tables, lock, cli, regions, halted>>
  BY <1>1
<1> QED BY <1>5, <1>6, <1>7, <1>8, <1>9, <1>10, <1>11, InLoop
-----------------------------------------------------------------------------
(* A step of t that changes the pages it holds, and no frame or table.     *)
LEMMA HoldingStep ==
  ASSUME PagesInv, NEW t \in Task, NEW rec, Moves(t, rec, t, regions[t]), UNCHANGED <<frames, tables>>,
         \A z \in Spaces : vaddr'[z] \in Bitmaps(PageLen(z)), vaddr' = [z \in Spaces |-> vaddr'[z]],
         \A z \in Spaces : z # Space(t) => MarkedPages(z)' = MarkedPages(z),
         \A s \in Spaces : \A v \in MarkedPages(s) : pte[s][v] # NoFrame => v \in MarkedPages(s)',
         Local(t)', HeldApart', HeldIsMarked', MarkedIsHeld'
  PROVE  PagesInv'
<1>1. MapsTyped' /\ pte' = pte /\ pde' = pde
  BY Before DEF MapsTyped, tables
<1>2. PagesTypeOK' /\ regions' \in [Task -> SUBSET (Nat \X (1..MaxCnt))]
  BY <1>1, TypeStep
<1>3. Keeps(t)
  BY KeepsTables
<1>4. \A u \in Task : Local(u)'
  BY <1>3, OthersKeep
<1>5. MappedIsMarked'
  BY <1>1 DEF PagesInv, MappedIsMarked
<1>6. Shape'
  BY <1>1, <1>2 DEF PagesInv, Shape
<1> QED BY <1>2, <1>4, <1>5, <1>6 DEF PagesInv

(* Pages that were free are marked for t.                                  *)
LEMMA TakePages ==
  ASSUME PagesInv, NEW t \in Task, NEW rec, Moves(t, rec, t, regions[t]), UNCHANGED <<frames, tables>>,
         th[t].pc = IF rec.start = StackPage /\ t \in Process THEN "new" ELSE "virt",
         rec.pc = "scan", rec.cnt # 0, rec.page = rec.start, rec.pool = Pool(t), rec.idx = 0,
         NEW c, c = <<rec.start, rec.cnt>>, PagesOf(c) \subseteq Page(Space(t)),
         \A v \in PagesOf(c) : v \notin MarkedPages(Space(t)),
         \A z \in Spaces : vaddr'[z] \in Bitmaps(PageLen(z)), vaddr' = [z \in Spaces |-> vaddr'[z]],
         \A z \in Spaces : z # Space(t) => MarkedPages(z)' = MarkedPages(z),
         MarkedPages(Space(t))' = MarkedPages(Space(t)) \cup PagesOf(c), raced' = raced
  PROVE  PagesInv'
<1>1. th'[t] = rec /\ regions'[t] = regions[t] /\ lock'[Pool(t)] = t
  BY After
<1>2. /\ Local(t) /\ rec.start \in Nat /\ rec.cnt \in Nat \ {0} /\ pte' = pte /\ Space(t) \in Spaces
      /\ MappedIsMarked
  BY Before DEF tables, Moves, Locals, PagesInv
<1>3. Working(t)' /\ Current(t)' = c /\ ~ Working(t) /\ Held(t)' = Held(t) \cup {c} /\ Held(t) = regions[t]
  BY <1>1 DEF Working, Current, Held, Giving, Taking, Searching
<1>4. rec.start \in PagesOf(c)
  BY <1>2 DEF PagesOf
<1>5. ASSUME NEW u \in Task, Space(u) = Space(t), NEW r \in Held(u), NEW v \in PagesOf(r)
      PROVE  v \notin PagesOf(c)
  <2>1. v \in MarkedPages(Space(t))
    <3>1. v \in Page(Space(t)) /\ Holds(Space(t), v)
      BY <1>2, <1>5 DEF PagesInv, HeldApart, Holds
    <3> QED BY <1>2, <3>1 DEF PagesInv, HeldIsMarked
  <2> QED BY <2>1
<1>6. c \notin regions[t]
  BY <1>3, <1>4, <1>5
<1>7. Local(t)'
  <2>1. LockOk(t)' /\ GivenOk(t)'
    BY <1>1, <1>2 DEF Local, LockOk, GivenOk, InCall
  <2>2. CallOk(t)'
    <3>1. \A v \in PagesOf(c) : v \in Page(Space(t)) /\ pte[Space(t)][v] = NoFrame /\ ~ HasFrame(t, v)'
      BY <1>1, <1>2 DEF MappedIsMarked, PagesOf, HasFrame, Giving, Searching
    <3> QED BY <1>1, <1>2, <1>3, <1>4, <1>6, <3>1 DEF CallOk
  <2>3. StackOk(t)'
    <3> SUFFICES ASSUME t \in Process
                 PROVE  /\ \A r \in Held(t)' : StackPage \in PagesOf(r) => r[1] = StackPage
                        /\ StackPage \in MarkedPages(Space(t))'
      BY <1>1 DEF StackOk, Taking
    <3>1. CASE th[t].pc = "new"
      <4>1. rec.start = StackPage /\ Held(t)' = {c} /\ c[1] = StackPage
        BY <1>2, <1>3, <3>1 DEF Local, LockOk
      <4> QED BY <1>4, <4>1
    <3>2. CASE th[t].pc = "virt"
      <4>1. StackPage \in MarkedPages(Space(t)) /\ StackPage \notin PagesOf(c)
        BY <1>2, <3>2 DEF Local, StackOk
      <4> QED BY <1>2, <1>3, <3>2, <4>1 DEF Local, StackOk
    <3> QED BY <3>1, <3>2
  <2>4. FrameOk(t)' /\ TableOk(t)' /\ IdxOk(t)' /\ UserByteOk(t)'
    <3>1. 0 \in 0..(FrameLen(Pool(t)) - 1)
      BY Sizes
    <3> QED BY <1>1, <3>1 DEF FrameOk, TableOk, IdxOk, UserByteOk, Tabling
  <2> QED BY <2>1, <2>2, <2>3, <2>4 DEF Local
<1>8. \A u \in Task : u # t => Held(u)' = Held(u)
  BY After DEF Held, Working, Current
<1>9. HeldApart'
  <2>1. ASSUME NEW u \in Task, NEW r \in Held(u)' PROVE PagesOf(r) \subseteq Page(Space(u))
    BY <1>3, <1>8 DEF PagesInv, HeldApart
  <2>2. ASSUME NEW u \in Task, NEW w \in Task, Space(u) = Space(w), NEW r \in Held(u)', NEW q \in Held(w)',
               NEW v \in PagesOf(r), v \in PagesOf(q)
        PROVE  u = w /\ r = q
    <3>1. CASE r \in Held(u) /\ q \in Held(w)
      BY <2>2, <3>1 DEF PagesInv, HeldApart
    <3>2. CASE r \notin Held(u) \/ q \notin Held(w)
      BY <1>3, <1>5, <1>8, <2>2, <3>2
    <3> QED BY <3>1, <3>2
  <2> QED BY <2>1, <2>2 DEF HeldApart
<1>10. ASSUME NEW s \in Spaces, NEW v \in Page(s)
       PROVE  Holds(s, v)' <=> Holds(s, v) \/ (s = Space(t) /\ v \in PagesOf(c))
  <2>1. ASSUME NEW u \in Task
        PROVE  (\E r \in Held(u)' : v \in PagesOf(r))
                 <=> (\E r \in Held(u) : v \in PagesOf(r)) \/ (u = t /\ v \in PagesOf(c))
    BY <1>3, <1>8
  <2> QED BY <2>1 DEF Holds
<1>11. HeldIsMarked' /\ MarkedIsHeld'
  <2>1. \A s \in Spaces : \A v \in Page(s) :
          v \in MarkedPages(s)' <=> v \in MarkedPages(s) \/ (s = Space(t) /\ v \in PagesOf(c))
    OBVIOUS
  <2>2. \A p : Sound(p)' => Sound(p)
    BY DEF Sound
  <2> QED BY <1>10, <2>1, <2>2 DEF PagesInv, HeldIsMarked, MarkedIsHeld
<1>12. \A s \in Spaces : \A v \in MarkedPages(s) : v \in MarkedPages(s)'
  OBVIOUS
<1> QED BY <1>7, <1>9, <1>11, <1>12, HoldingStep

(* get_a_page marks the page of the stack.                                 *)
LEMMA GetAPageStep ==
  ASSUME PagesInv, NEW t \in Task, get_a_page(t)
  PROVE  PagesInv'
<1> DEFINE y == Begin(th[t], "scan", StackPage, 1)
           rec == [y EXCEPT !.pool = "U"]
           c == <<StackPage, 1>>
<1>1. /\ th[t].pc = "new" /\ ~ halted /\ lock[Pool(t)] = NoThread
      /\ UNCHANGED <<frames, tables, regions, raced, halted>>
      /\ vaddr' = [vaddr EXCEPT ![t] = bitmap_set(@, StackPage, 1)]
  BY DEF get_a_page, At, Enter
<1>2. /\ t \in Process /\ regions[t] = {} /\ Space(t) = t /\ t \in Spaces /\ Pool(t) = "U"
      /\ th[t].idx = 0 /\ raced' \in BOOLEAN
  BY <1>1, Before, Places DEF Local, LockOk, IdxOk
<1>3. StackPage \in Page(t) /\ StackPage \in Nat /\ PagesOf(c) = {StackPage}
  BY <1>2, StackIsPage DEF PagesOf
<1>4. /\ y \in Locals /\ y.pc = "scan" /\ y.start = StackPage
      /\ y.cnt = 1 /\ y.page = StackPage /\ y.idx = 0
  <2>1. th[t] \in Locals /\ "scan" \in Label /\ 1 \in 0..MaxCnt
    BY Before, Sizes DEF Label
  <2> QED BY <1>2, <1>3, <2>1, BeginIs
<1>5. th' = [th EXCEPT ![t] = rec]
  <2>1. th[t] \in Locals /\ th \in [Task -> Locals]
    BY Before
  <2>2. th' = [th EXCEPT ![t].pc = "scan", ![t].start = StackPage, ![t].cnt = 1,
                         ![t].page = StackPage, ![t].pool = "U"]
    BY DEF get_a_page
  <2> QED BY <2>1, <2>2 DEF Locals, Begin
<1> HIDE DEF y
<1>6. /\ rec \in Locals /\ rec.pc = "scan" /\ rec.start = StackPage
      /\ rec.cnt = 1 /\ rec.page = StackPage /\ rec.idx = 0 /\ rec.pool = "U"
  BY <1>4 DEF Locals
<1> HIDE DEF rec
<1>7. Moves(t, rec, t, regions[t])
  <2>1. /\ lock' = [lock EXCEPT ![Pool(t)] = t] /\ cli' = NoThread /\ cpu' = t
    BY DEF get_a_page, Enter, Runs
  <2> QED BY <1>1, <1>2, <1>5, <1>6, <2>1, Before DEF Moves
<1>8. StackPage \notin MarkedPages(t)
  <2>1. \A u \in Task : Space(u) = t => u = t
    BY <1>2, PagesAssumption DEF Space, Task
  <2>2. Held(t) = {}
    BY <1>1, <1>2 DEF Held, Working, Giving, Taking, Searching
  <2>3. ~ Holds(t, StackPage)
    BY <2>1, <2>2 DEF Holds
  <2>4. Sound(PoolOf(t))
    BY <1>2, PagesAssumption DEF Sound, PoolOf
  <2> QED BY <1>2, <1>3, <2>3, <2>4 DEF PagesInv, MarkedIsHeld
<1>9. /\ \A z \in Spaces : vaddr'[z] \in Bitmaps(PageLen(z))
      /\ vaddr' = [z \in Spaces |-> vaddr'[z]]
      /\ \A z \in Spaces : z # t => MarkedPages(z)' = MarkedPages(z)
      /\ MarkedPages(t)' = MarkedPages(t) \cup {StackPage}
  <2>1. /\ vaddr' = [z \in Spaces |-> IF z = t THEN bitmap_set(vaddr[t], StackPage, 1) ELSE vaddr[z]]
        /\ \A z \in Spaces : vaddr[z] \in Bitmaps(PageLen(z)) /\ PageLen(z) \in Nat
    BY <1>1, Sizes DEF PagesInv, Shape, PagesTypeOK
  <2>2. /\ bitmap_set(vaddr[t], StackPage, 1) \in Bitmaps(PageLen(t))
        /\ \A j \in BitIndex(PageLen(t)) :
             bitmap_scan_test(bitmap_set(vaddr[t], StackPage, 1), j)
               <=> IF j = StackPage THEN TRUE ELSE bitmap_scan_test(vaddr[t], j)
    BY <1>2, <1>3, <2>1, SetBit, Sizes
  <2>3. MarkedPages(t)' = MarkedPages(t) \cup {StackPage}
    BY <1>2, <1>3, <2>1, <2>2, Sizes DEF MarkedPages
  <2>4. \A z \in Spaces : z # t => MarkedPages(z)' = MarkedPages(z)
    BY <2>1 DEF MarkedPages
  <2> QED BY <1>2, <2>1, <2>2, <2>3, <2>4
<1> HIDE DEF c
<1>10. /\ c = <<rec.start, rec.cnt>> /\ rec.cnt # 0 /\ rec.page = rec.start /\ rec.pool = Pool(t)
       /\ PagesOf(c) \subseteq Page(Space(t))
       /\ \A v \in PagesOf(c) : v \notin MarkedPages(Space(t))
       /\ \A z \in Spaces : z # Space(t) => MarkedPages(z)' = MarkedPages(z)
       /\ th[t].pc = IF rec.start = StackPage /\ t \in Process THEN "new" ELSE "virt"
       /\ UNCHANGED <<frames, tables>> /\ raced' = raced
  BY <1>1, <1>2, <1>3, <1>6, <1>8, <1>9 DEF c
<1>11. MarkedPages(Space(t))' = MarkedPages(Space(t)) \cup PagesOf(c)
  BY <1>2, <1>3, <1>9
<1> QED BY <1>6, <1>7, <1>9, <1>10, <1>11, TakePages

(* get_virtual_addr marks a run of free pages.                             *)
LEMMA GetVirtualAddrStep ==
  ASSUME PagesInv, NEW t \in Task, get_virtual_addr(t)
  PROVE  PagesInv'
<1> DEFINE s == Space(t)
           cnt == th[t].cnt
           start == bitmap_scan(vaddr[s], cnt)
           run == start..(start + cnt - 1)
<1>1. /\ th[t].pc = "virt" /\ ~ halted /\ cpu' = t /\ InCall(t) /\ ~ Working(t)
  BY DEF get_virtual_addr, At, Runs, InCall, Working, Giving, Taking, Searching
<1>2. /\ s \in Spaces /\ th[t] \in Locals /\ cnt \in Nat \ {0} /\ cnt \in 1..MaxCnt /\ Local(t)
      /\ th[t].idx = 0 /\ th \in [Task -> Locals] /\ Pool(t) \in {"K", "U"} /\ raced \in BOOLEAN
  <2>1. th[t] \in Locals /\ Local(t) /\ MaxCnt \in Nat /\ s \in Spaces
    BY Before, Sizes
  <2> QED BY <1>1, <2>1, Before DEF Locals, Local, LockOk, IdxOk
<1>3. \/ start = Panics /\ \A v \in Page(s) : bitmap_scan_test(vaddr[s], v)
      \/ start = NotFound
      \/ /\ start \in Nat /\ start \in Page(s) /\ run \subseteq Page(s)
         /\ \A v \in run : ~ bitmap_scan_test(vaddr[s], v)
  <2>1. PageLen(s) \in Nat \ {0} /\ vaddr[s] \in Bitmaps(PageLen(s)) /\ Page(s) = BitIndex(PageLen(s))
    BY <1>2, Sizes DEF PagesInv, PagesTypeOK
  <2> HIDE DEF s, cnt
  <2> QED BY <1>2, <2>1, ScanResult
<1> HIDE DEF start
<1>4. CASE start = Panics
  <2>1. panic_spin
    BY <1>4 DEF get_virtual_addr, start
  <2> QED BY <1>1, <2>1, PanicStep
<1>5. CASE start = NotFound
  <2> DEFINE rec == [th[t] EXCEPT !.pc = "unlock"]
  <2>1. start # Panics /\ ~ (t \in Process /\ start >= StackPage)
    BY <1>5, StackIsPage DEF NotFound, Panics
  <2>2. /\ th' = [th EXCEPT ![t].pc = "unlock"]
        /\ UNCHANGED <<frames, vaddr, tables, lock, cli, regions, raced, halted>> /\ pte' = pte /\ vaddr' = vaddr
    BY <1>5, <2>1 DEF get_virtual_addr, start, Goto, tables
  <2>3. rec \in Locals /\ rec.pc = "unlock" /\ rec.cnt = cnt
    BY <1>2 DEF Locals, Label
  <2>4. th' = [th EXCEPT ![t] = rec]
    BY <1>2, <2>2
  <2> HIDE DEF rec
  <2>5. Moves(t, rec, t, regions[t])
    BY <1>1, <2>2, <2>3, <2>4, Before DEF Moves
  <2>6. th'[t] = rec /\ regions'[t] = regions[t] /\ lock'[Pool(t)] = t
    BY <2>5, After
  <2>7. Held(t)' = Held(t) /\ ~ Working(t)'
    BY <1>1, <2>3, <2>6 DEF Held, Working, Giving, Taking, Searching
  <2>8. Local(t)'
    <3>1. LockOk(t)' /\ CallOk(t)' /\ GivenOk(t)'
      BY <1>1, <1>2, <2>2, <2>3, <2>6, <2>7 DEF Local, LockOk, CallOk, InCall, GivenOk
    <3>2. StackOk(t)'
      BY <1>1, <1>2, <2>2, <2>3, <2>6, <2>7 DEF Local, StackOk, Taking, MarkedPages
    <3>3. FrameOk(t)' /\ TableOk(t)' /\ IdxOk(t)' /\ UserByteOk(t)'
      BY <2>3, <2>6, NoPlace DEF Giving, Searching
    <3> QED BY <3>1, <3>2, <3>3 DEF Local
  <2> QED BY <2>2, <2>5, <2>7, <2>8, QuietStep
<1>6. CASE /\ start \in Nat /\ start \in Page(s) /\ run \subseteq Page(s)
           /\ \A v \in run : ~ bitmap_scan_test(vaddr[s], v)
  <2> DEFINE y == Begin(th[t], "scan", start, cnt)
             rec == [y EXCEPT !.pool = Pool(t)]
             c == <<start, cnt>>
  <2>1. PagesOf(c) = run /\ start \in run
    BY <1>2, <1>6 DEF PagesOf
  <2>2. \A v \in run : v \notin MarkedPages(s)
    BY <1>6 DEF MarkedPages
  <2>3. t \in Process => start < StackPage
    <3> SUFFICES ASSUME t \in Process PROVE start < StackPage
      OBVIOUS
    <3>1. s = t /\ Page(t) = 0..StackPage /\ StackPage \in Nat
      BY Places, StackIsPage
    <3>2. StackPage \in MarkedPages(s)
      BY <1>1, <1>2 DEF Local, StackOk
    <3> QED BY <1>6, <2>1, <2>2, <3>1, <3>2
  <2>4. start # Panics /\ start # NotFound /\ ~ (t \in Process /\ start >= StackPage)
    BY <1>6, <2>3, StackIsPage DEF NotFound, Panics
  <2>5. /\ vaddr' = [vaddr EXCEPT ![s] = bitmap_set_run(@, start, cnt, 1)]
        /\ th' = [th EXCEPT ![t].pc = "scan", ![t].start = start, ![t].page = start, ![t].pool = Pool(t)]
        /\ UNCHANGED <<frames, tables, lock, cli, regions, raced, halted>>
    BY <2>4 DEF get_virtual_addr, start
  <2>6. y \in Locals /\ y.pc = "scan" /\ y.start = start /\ y.cnt = cnt /\ y.page = start /\ y.idx = 0
    <3>1. "scan" \in Label /\ cnt \in 0..MaxCnt
      BY <1>2, Sizes DEF Label
    <3> QED BY <1>2, <1>6, <3>1, BeginIs
  <2>7. th' = [th EXCEPT ![t] = rec]
    <3> DEFINE z == [th[t] EXCEPT !.pc = "scan", !.start = start, !.page = start, !.pool = Pool(t)]
    <3>1. z = rec
      BY <1>2 DEF Locals, Begin
    <3>2. th' = [th EXCEPT ![t] = z]
      BY <1>2, <2>5
    <3> QED BY <3>1, <3>2
  <2> HIDE DEF y
  <2>8. /\ rec \in Locals /\ rec.pc = "scan" /\ rec.start = start /\ rec.cnt = cnt /\ rec.page = start
        /\ rec.idx = 0 /\ rec.pool = Pool(t)
    BY <1>2, <2>6 DEF Locals
  <2> HIDE DEF rec, cnt
  <2>9. Moves(t, rec, t, regions[t])
    BY <1>1, <2>5, <2>7, <2>8, Before DEF Moves
  <2>10. /\ \A z \in Spaces : vaddr'[z] \in Bitmaps(PageLen(z))
         /\ vaddr' = [z \in Spaces |-> vaddr'[z]]
         /\ \A z \in Spaces : z # s => MarkedPages(z)' = MarkedPages(z)
         /\ MarkedPages(s)' = MarkedPages(s) \cup run
    <3> HIDE DEF s
    <3>1. PagesTypeOK /\ Shape /\ cnt \in Nat /\ 1 \in {0, 1}
      BY <1>2 DEF PagesInv
    <3>2. vaddr' = [vaddr EXCEPT ![s] = bitmap_set_run(@, start, cnt, 1)]
      BY <2>5
    <3>3. start \in Nat /\ s \in Spaces /\ run = start..(start + cnt - 1) /\ run \subseteq Page(s)
      BY <1>2, <1>6
    <3> HIDE DEF start, run
    <3> QED BY <3>1, <3>2, <3>3, MarkPages
  <2>11. /\ c = <<rec.start, rec.cnt>> /\ rec.cnt # 0 /\ rec.page = rec.start
         /\ PagesOf(c) \subseteq Page(Space(t))
         /\ \A v \in PagesOf(c) : v \notin MarkedPages(Space(t))
         /\ th[t].pc = IF rec.start = StackPage /\ t \in Process THEN "new" ELSE "virt"
         /\ UNCHANGED <<frames, tables>> /\ raced' = raced
    BY <1>1, <1>2, <1>6, <2>1, <2>2, <2>4, <2>5, <2>8, StackIsPage
  <2> HIDE DEF c
  <2> QED BY <2>1, <2>8, <2>9, <2>10, <2>11, TakePages
<1> QED BY <1>3, <1>4, <1>5, <1>6

(* vaddr_remove clears the marks of a region, the last step of freeing it. *)
LEMMA VaddrRemoveStep ==
  ASSUME PagesInv, NEW t \in Task, vaddr_remove(t)
  PROVE  PagesInv'
<1> DEFINE s == Space(t)
           c == Current(t)
           rec == [th[t] EXCEPT !.pc = "unlock"]
<1>1. /\ th[t].pc = "vremove" /\ ~ halted /\ cpu' = t /\ InCall(t) /\ Working(t)
      /\ th' = [th EXCEPT ![t].pc = "unlock"]
      /\ UNCHANGED <<frames, tables, lock, cli, regions, raced, halted>> /\ pte' = pte
      /\ vaddr' = [vaddr EXCEPT ![s] = bitmap_set_run(@, th[t].start, th[t].cnt, 0)]
  BY DEF vaddr_remove, At, Runs, InCall, Goto, tables, Working, Taking
<1>2. /\ rec \in Locals /\ rec.pc = "unlock" /\ rec.cnt = th[t].cnt
      /\ th[t].start \in Nat /\ th[t].cnt \in Nat /\ Local(t) /\ s \in Spaces
  <2>1. th[t] \in Locals
    BY Before
  <2> QED BY <2>1, Before DEF Locals, Label
<1>3. th' = [th EXCEPT ![t] = rec]
  BY <1>1, Before DEF Locals
<1>4. c \in Held(t) /\ c \notin regions[t] /\ Held(t) = regions[t] \cup {c} /\ PagesOf(c) \subseteq Page(s)
  BY <1>1, <1>2 DEF Held, Local, CallOk, PagesInv, HeldApart
<1> HIDE DEF rec
<1>5. Moves(t, rec, t, regions[t])
  BY <1>1, <1>2, <1>3, Before DEF Moves
<1>6. th'[t] = rec /\ regions'[t] = regions[t] /\ lock'[Pool(t)] = t
  BY <1>5, After
<1>7. /\ \A z \in Spaces : vaddr'[z] \in Bitmaps(PageLen(z))
      /\ vaddr' = [z \in Spaces |-> vaddr'[z]]
      /\ \A z \in Spaces : z # s => MarkedPages(z)' = MarkedPages(z)
      /\ MarkedPages(s)' = MarkedPages(s) \ PagesOf(c)
  <2>1. PagesOf(c) = th[t].start..(th[t].start + th[t].cnt - 1)
    BY DEF PagesOf, Current
  <2> DEFINE i == th[t].start
             cnt == th[t].cnt
  <2>2. /\ PagesTypeOK /\ Shape /\ 0 \in {0, 1} /\ i..(i + cnt - 1) \subseteq Page(s) /\ i \in Nat /\ cnt \in Nat
        /\ vaddr' = [vaddr EXCEPT ![s] = bitmap_set_run(@, i, cnt, 0)] /\ s \in Spaces
        /\ PagesOf(c) = i..(i + cnt - 1)
    BY <1>1, <1>2, <1>4, <2>1 DEF PagesInv
  <2> HIDE DEF s, c, i, cnt
  <2>3. /\ \A z \in Spaces : vaddr'[z] \in Bitmaps(PageLen(z))
        /\ vaddr' = [z \in Spaces |-> vaddr'[z]]
        /\ \A z \in Spaces : z # s => MarkedPages(z)' = MarkedPages(z)
        /\ MarkedPages(s)' = IF 0 = 1 THEN MarkedPages(s) \cup (i..(i + cnt - 1))
                                      ELSE MarkedPages(s) \ (i..(i + cnt - 1))
    BY <2>2, MarkPages
  <2> QED BY <2>2, <2>3
<1> HIDE DEF c
<1>8. Held(t)' = regions[t] /\ ~ Working(t)' /\ \A u \in Task : u # t => Held(u)' = Held(u)
  BY <1>2, <1>5, <1>6, After DEF Held, Working, Current, Giving, Taking, Searching
<1>9. \A v \in PagesOf(c) : pte[s][v] = NoFrame
  BY <1>1, <1>2 DEF c, Local, CallOk, HasFrame, Giving, Searching
<1>10. Local(t)'
  <2>1. LockOk(t)' /\ CallOk(t)' /\ GivenOk(t)'
    BY <1>1, <1>2, <1>6, <1>8 DEF Local, LockOk, CallOk, InCall, GivenOk
  <2>2. StackOk(t)'
    <3> SUFFICES ASSUME t \in Process PROVE StackOk(t)'
      BY DEF StackOk
    <3>1. th[t].start # StackPage /\ c[1] = th[t].start
      BY <1>1, <1>2 DEF Local, StackOk, Taking, c, Current
    <3>2. StackPage \notin PagesOf(c) /\ StackPage \in MarkedPages(s)
      BY <1>1, <1>2, <1>4, <3>1 DEF Local, StackOk
    <3> QED BY <1>1, <1>2, <1>4, <1>6, <1>7, <1>8, <3>1, <3>2 DEF Local, StackOk, Taking
  <2>3. FrameOk(t)' /\ TableOk(t)' /\ IdxOk(t)' /\ UserByteOk(t)'
    BY <1>2, <1>6, NoPlace DEF Giving, Searching
  <2> QED BY <2>1, <2>2, <2>3 DEF Local
<1>11. HeldApart'
  <2>1. \A u \in Task : Held(u)' \subseteq Held(u)
    BY <1>4, <1>8
  <2> QED BY <2>1 DEF PagesInv, HeldApart
<1>12. ASSUME NEW z \in Spaces, NEW v \in Page(z)
       PROVE  Holds(z, v)' <=> Holds(z, v) /\ ~ (z = s /\ v \in PagesOf(c))
  <2>1. ASSUME NEW u \in Task, Space(u) = z
        PROVE  (\E r \in Held(u)' : v \in PagesOf(r))
                 <=> (\E r \in Held(u) : v \in PagesOf(r)) /\ ~ (z = s /\ v \in PagesOf(c))
    <3>1. ASSUME NEW r \in Held(u), v \in PagesOf(r), z = s, v \in PagesOf(c)
          PROVE  u = t /\ r = c
      BY <1>4, <2>1, <3>1 DEF PagesInv, HeldApart
    <3>2. Held(u)' = Held(u) \ (IF u = t THEN {c} ELSE {})
      BY <1>4, <1>8
    <3> QED BY <1>4, <2>1, <3>1, <3>2
  <2> QED BY <2>1 DEF Holds
<1>13. HeldIsMarked' /\ MarkedIsHeld'
  <2>1. \A z \in Spaces : \A v \in Page(z) :
          v \in MarkedPages(z)' <=> v \in MarkedPages(z) /\ ~ (z = s /\ v \in PagesOf(c))
    BY <1>7
  <2>2. \A p : Sound(p)' => Sound(p)
    BY <1>1 DEF Sound
  <2> QED BY <1>12, <2>1, <2>2 DEF PagesInv, HeldIsMarked, MarkedIsHeld
<1>14. \A z \in Spaces : \A v \in MarkedPages(z) : pte[z][v] # NoFrame => v \in MarkedPages(z)'
  BY <1>7, <1>9
<1> QED BY <1>1, <1>5, <1>7, <1>10, <1>11, <1>13, <1>14, HoldingStep
-----------------------------------------------------------------------------
(* The end of a loop, or its next page.                                    *)
LEMMA NextPageIs ==
  ASSUME NEW t \in Task, th \in [Task -> Locals], NEW again \in Label, NEW end \in Label,
         NextPage(t, again, end)
  PROVE  LET last == th[t].page = th[t].start + th[t].cnt - 1
             rec == th'[t]
         IN  /\ th' = [th EXCEPT ![t] = rec]
             /\ rec \in Locals /\ rec.start = th[t].start /\ rec.cnt = th[t].cnt /\ rec.frame = th[t].frame
             /\ rec.pc = IF last THEN end ELSE again
             /\ rec.page = IF last THEN th[t].page ELSE th[t].page + 1
             /\ rec.pool = Pool(t) /\ rec.idx = 0
<1> DEFINE last == th[t].page = th[t].start + th[t].cnt - 1
           l == IF last THEN end ELSE again
           n == IF last THEN th[t].page ELSE th[t].page + 1
           y == [th[t] EXCEPT !.pc = l, !.page = n]
           z == [y EXCEPT !.pool = Pool(t), !.idx = 0]
<1>1. th[t] \in Locals /\ n \in Nat /\ l \in Label /\ Pool(t) \in {"K", "U"}
  BY Places DEF Locals
<1>2. th' = [th EXCEPT ![t] = z]
  BY DEF NextPage
<1> HIDE DEF l, n
<1>3. /\ y \in Locals /\ y.start = th[t].start /\ y.cnt = th[t].cnt /\ y.frame = th[t].frame
      /\ y.pc = l /\ y.page = n
  BY <1>1 DEF Locals
<1> HIDE DEF y
<1>4. /\ z \in Locals /\ z.start = y.start /\ z.cnt = y.cnt /\ z.frame = y.frame
      /\ z.pc = l /\ z.page = n /\ z.pool = Pool(t) /\ z.idx = 0
  BY <1>1, <1>3 DEF Locals
<1> HIDE DEF z
<1>5. th'[t] = z /\ th' = [th EXCEPT ![t] = th'[t]]
  BY <1>2
<1> QED BY <1>3, <1>4, <1>5 DEF l, n

(* The place of a search that has not begun.                               *)
LEMMA SearchBegins ==
  ASSUME NEW t \in Task, th'[t].pc \in {"scan", "done"}, th'[t].pool = Pool(t), th'[t].idx = 0
  PROVE  FrameOk(t)' /\ TableOk(t)' /\ IdxOk(t)' /\ UserByteOk(t)'
<1>1. 0 \in 0..(FrameLen(Pool(t)) - 1)
  BY Sizes
<1> QED BY <1>1 DEF FrameOk, TableOk, IdxOk, UserByteOk, Tabling

(* What setting an entry does to the tables.                               *)
LEMMA EntryIs ==
  ASSUME PagesInv, NEW t \in Task, Working(t), NEW f \in Frame(Pool(t)) \cup {NoFrame},
         pte' = [pte EXCEPT ![Space(t)][th[t].page] = f]
  PROVE  /\ \A z \in Spaces : \A v \in Page(z) :
              pte'[z][v] = IF z = Space(t) /\ v = th[t].page THEN f ELSE pte[z][v]
         /\ \A z \in Spaces : pte'[z] \in [Page(z) -> Frame(PoolOf(z)) \cup {NoFrame}]
         /\ \A z \in Spaces : z # Space(t) => pte'[z] = pte[z]
         /\ pte' = [z \in Spaces |-> pte'[z]]
<1> DEFINE s == Space(t)
           page == th[t].page
<1>1. page \in Page(s) /\ s \in Spaces /\ Pool(t) = PoolOf(s)
  BY PageAt, Places
<1>2. \A z \in Spaces : pte[z] \in [Page(z) -> Frame(PoolOf(z)) \cup {NoFrame}]
  BY Before DEF MapsTyped
<1>3. pte' = [z \in Spaces |-> IF z = s THEN [pte[s] EXCEPT ![page] = f] ELSE pte[z]]
  BY DEF PagesInv, Shape
<1> HIDE DEF s, page
<1>4. \A z \in Spaces : pte'[z] = IF z = s THEN [pte[s] EXCEPT ![page] = f] ELSE pte[z]
  BY <1>3
<1>5. pte' = [z \in Spaces |-> pte'[z]]
  BY <1>3
<1>6. /\ \A z \in Spaces : \A v \in Page(z) : pte'[z][v] = IF z = s /\ v = page THEN f ELSE pte[z][v]
      /\ \A z \in Spaces : z # s => pte'[z] = pte[z]
  BY <1>1, <1>2, <1>4
<1>7. ASSUME NEW z \in Spaces PROVE pte'[z] \in [Page(z) -> Frame(PoolOf(z)) \cup {NoFrame}]
  <2>1. pte[z] \in [Page(z) -> Frame(PoolOf(z)) \cup {NoFrame}] /\ f \in Frame(PoolOf(s)) \cup {NoFrame}
    BY <1>1, <1>2
  <2>2. CASE z = s
    <3> DEFINE T == Frame(PoolOf(s)) \cup {NoFrame}
    <3>1. pte[s] \in [Page(s) -> T] /\ f \in T /\ pte'[s] = [pte[s] EXCEPT ![page] = f]
      BY <1>1, <1>4, <2>1, <2>2
    <3> HIDE DEF T
    <3>2. [pte[s] EXCEPT ![page] = f] \in [Page(s) -> T]
      BY ONLY <3>1
    <3>3. pte'[s] \in [Page(s) -> T]
      BY <3>1, <3>2
    <3> QED BY <2>2, <3>3 DEF T
  <2>3. CASE z # s
    BY <1>4, <2>1, <2>3
  <2> QED BY <2>2, <2>3
<1> QED BY <1>5, <1>6, <1>7 DEF s, page

(* The entry of the page is set, at the end of both branches of            *)
(* page_table_map.                                                         *)
LEMMA EntryStep ==
  ASSUME PagesInv, NEW t \in Task, th[t].pc \in {"map", "table"}, ~ halted, cpu' = t, SetEntry(t),
         UNCHANGED <<frames, vaddr, lock, cli, regions, raced, halted>>,
         pde' \in [Process -> [0..Table(StackPage) -> Frame("K") \cup {NoFrame, NullFrame}]],
         \A q \in Process : q # t => pde'[q] = pde[q]
  PROVE  PagesInv'
<1> DEFINE s == Space(t)
           page == th[t].page
           f == <<Pool(t), th[t].frame>>
           last == th[t].start + th[t].cnt - 1
           rec == th'[t]
<1>1. /\ InCall(t) /\ Working(t) /\ Local(t) /\ th[t] \in Locals /\ s \in Spaces /\ Pool(t) \in {"K", "U"}
      /\ page \in Nat /\ last \in Int /\ th[t].start \in Nat /\ th[t].cnt \in Nat /\ raced \in BOOLEAN
      /\ MapsTyped
  BY Before DEF InCall, Working, Giving, Locals
<1>2. f \in Frame(Pool(t)) /\ f # NoFrame
  BY <1>1, FrameIsSome DEF Local, FrameOk
<1>3. /\ page \in PagesOf(Current(t)) /\ PagesOf(Current(t)) \subseteq Page(s) /\ page \in Page(s)
      /\ \A v \in PagesOf(Current(t)) : pte[s][v] # NoFrame <=> v < page
      /\ PagesOf(Current(t)) = th[t].start..last
  BY <1>1, PageAt DEF Local, CallOk, HasFrame, Giving, PagesOf, Current
<1>5. /\ rec \in Locals /\ rec.start = th[t].start /\ rec.cnt = th[t].cnt /\ rec.frame = th[t].frame
      /\ rec.pc = IF page = last THEN "done" ELSE "scan"
      /\ rec.page = IF page = last THEN page ELSE page + 1
      /\ th' = [th EXCEPT ![t] = rec] /\ rec.pool = Pool(t) /\ rec.idx = 0
  <2>1. th \in [Task -> Locals] /\ "scan" \in Label /\ "done" \in Label /\ NextPage(t, "scan", "done")
    BY Before DEF Label, SetEntry
  <2> QED BY <2>1, NextPageIs
<1>9. /\ \A z \in Spaces : \A v \in Page(z) : pte'[z][v] = IF z = s /\ v = page THEN f ELSE pte[z][v]
      /\ \A z \in Spaces : pte'[z] \in [Page(z) -> Frame(PoolOf(z)) \cup {NoFrame}]
      /\ \A z \in Spaces : z # s => pte'[z] = pte[z]
      /\ pte' = [z \in Spaces |-> pte'[z]]
  <2>1. PICK e : e = f
    OBVIOUS
  <2>2. e \in Frame(Pool(t)) \cup {NoFrame} /\ pte' = [pte EXCEPT ![Space(t)][th[t].page] = e]
    BY <1>2, <2>1 DEF SetEntry
  <2> HIDE DEF f
  <2> QED BY <1>1, <2>1, <2>2, EntryIs
<1> HIDE DEF s, page, f, last, rec
<1>10. Moves(t, rec, t, regions[t])
  BY <1>1, <1>5, Before DEF Moves
<1>11. /\ th'[t] = rec /\ regions'[t] = regions[t] /\ lock'[Pool(t)] = t
       /\ \A u \in Task : u # t => th'[u] = th[u] /\ regions'[u] = regions[u]
       /\ lock' = [lock EXCEPT ![Pool(t)] = lock'[Pool(t)]]
  BY <1>10, After
<1>12. Held(t)' = Held(t) /\ Current(t)' = Current(t) /\ Working(t)'
  BY <1>1, <1>5, <1>11 DEF Held, Current, Working, Giving, Taking, Searching
<1>13. MapsTyped'
  BY <1>1, <1>9 DEF MapsTyped
<1>14. \A z \in Spaces : MarkedPages(z)' = MarkedPages(z)
  BY DEF MarkedPages
<1>15. Keeps(t)
  <2>1. \A v \in Page(s) : pte'[s][v] # pte[s][v] => pte'[s][v] # NoFrame
    BY <1>1, <1>2, <1>9
  <2> QED BY <1>1, <1>9, <1>11, <1>14, <2>1 DEF Keeps, s
<1>16. Local(t)'
  <2>1. LockOk(t)'
    BY <1>1, <1>5, <1>11 DEF Local, LockOk, InCall
  <2>2. FrameOk(t)' /\ TableOk(t)' /\ IdxOk(t)' /\ UserByteOk(t)'
    BY <1>5, <1>11, SearchBegins
  <2>3. StackOk(t)'
    BY <1>1, <1>5, <1>11, <1>12 DEF Local, StackOk, Taking, MarkedPages
  <2>4. GivenOk(t)'
    <3>1. \A r \in regions[t] : PagesOf(r) \subseteq Page(s)
      BY Before DEF s
    <3> QED BY <1>1, <1>2, <1>9, <1>11, <3>1 DEF Local, GivenOk, s
  <2>5. CallOk(t)'
    <3>1. rec.page \in PagesOf(Current(t))
      BY <1>1, <1>3, <1>5
    <3>2. ASSUME NEW v \in PagesOf(Current(t))
          PROVE  pte'[s][v] # NoFrame <=> HasFrame(t, v)'
      <4>1. pte'[s][v] # NoFrame <=> v < page \/ v = page
        BY <1>1, <1>2, <1>3, <1>9
      <4>2. v \in Nat /\ v <= last
        BY <1>1, <1>3
      <4>3. CASE page = last
        <5>1. rec.pc = "done"
          BY <1>5, <4>3
        <5> QED BY <1>1, <1>11, <4>1, <4>2, <4>3, <5>1 DEF HasFrame
      <4>4. CASE page # last
        <5>1. rec.pc = "scan" /\ rec.page = page + 1
          BY <1>5, <4>4
        <5> QED BY <1>1, <1>11, <4>1, <4>2, <5>1 DEF HasFrame, Giving, Searching
      <4> QED BY <4>3, <4>4
    <3> QED BY <1>1, <1>11, <1>12, <3>1, <3>2 DEF Local, CallOk, s
  <2> QED BY <2>1, <2>2, <2>3, <2>4, <2>5 DEF Local
<1>17. MappedIsMarked'
  <2>1. page \in MarkedPages(s)
    <3>1. Holds(s, page)
      BY <1>1, <1>3, PageAt DEF Holds, s
    <3> QED BY <1>1, <1>3, <3>1 DEF PagesInv, HeldIsMarked
  <2> QED BY <1>9, <1>14, <2>1 DEF PagesInv, MappedIsMarked
<1> QED BY <1>9, <1>10, <1>12, <1>13, <1>15, <1>16, <1>17, WorkStep DEF PagesInv, Shape

(* page_table_map, with and without a page table.                          *)
LEMMA PageTableMapStep ==
  ASSUME PagesInv, NEW t \in Task, page_table_map(t)
  PROVE  PagesInv'
<1>1. th[t].pc = "map" /\ ~ halted /\ cpu' = t
  BY DEF page_table_map, At, Runs
<1>2. CASE t \in Process /\ pde[t][Table(th[t].page)] = NoFrame
  BY <1>2, NoTableStep
<1>3. CASE /\ ~ (t \in Process /\ pde[t][Table(th[t].page)] = NoFrame)
           /\ pte[Space(t)][th[t].page] # NoFrame
  BY <1>1, <1>3, PanicStep DEF page_table_map
<1>4. CASE /\ ~ (t \in Process /\ pde[t][Table(th[t].page)] = NoFrame)
           /\ pte[Space(t)][th[t].page] = NoFrame
  <2>1. SetEntry(t) /\ UNCHANGED <<frames, vaddr, pde, lock, cli, regions, raced, halted>>
    BY <1>4 DEF page_table_map
  <2>2. pde' \in [Process -> [0..Table(StackPage) -> Frame("K") \cup {NoFrame, NullFrame}]]
    BY <2>1, Before DEF MapsTyped
  <2> QED BY <1>1, <2>1, <2>2, EntryStep
<1> QED BY <1>2, <1>3, <1>4

(* What a new page table does to the directories.                          *)
LEMMA TableIs ==
  ASSUME PagesInv, NEW t \in Task, NewTable(t)
  PROVE  LET n == IF th[t].idx = Bits("K") THEN NullFrame ELSE <<"K", th[t].idx>>
         IN  /\ th[t].pc = "table" /\ t \in Process /\ Table(th[t].page) \in 0..Table(StackPage)
             /\ n \in Frame("K") \cup {NullFrame}
             /\ pde' \in [Process -> [0..Table(StackPage) -> Frame("K") \cup {NoFrame, NullFrame}]]
             /\ \A q \in Process : q # t => pde'[q] = pde[q]
             /\ \A q \in Process : \A d \in 0..Table(StackPage) :
                  pde'[q][d] = IF q = t /\ d = Table(th[t].page) THEN n ELSE pde[q][d]
<1> DEFINE n == IF th[t].idx = Bits("K") THEN NullFrame ELSE <<"K", th[t].idx>>
           d == Table(th[t].page)
<1>1. th[t].pc = "table" /\ pde' = [pde EXCEPT ![t][d] = n] /\ Working(t)
  BY DEF NewTable, At, Working, Giving
<1>2. /\ t \in Process /\ th[t].idx \in 0..Bits("K") /\ Space(t) = t
      /\ pde \in [Process -> [0..Table(StackPage) -> Frame("K") \cup {NoFrame, NullFrame}]]
  BY <1>1, Before, Places DEF MapsTyped, Local, TableOk, IdxOk
<1>3. d \in 0..Table(StackPage)
  BY <1>1, <1>2, PageAt, TableOf
<1>4. n \in Frame("K") \cup {NullFrame}
  <2>1. Frame("K") = {"K"} \X (0..(Bits("K") - 1)) /\ Bits("K") \in Nat
    BY Sizes
  <2> QED BY <1>2, <2>1
<1> HIDE DEF n, d
<1>5. pde' \in [Process -> [0..Table(StackPage) -> Frame("K") \cup {NoFrame, NullFrame}]]
  BY <1>1, <1>2, <1>3, <1>4
<1>6. /\ \A q \in Process : q # t => pde'[q] = pde[q]
      /\ \A q \in Process : \A e \in 0..Table(StackPage) :
           pde'[q][e] = IF q = t /\ e = d THEN n ELSE pde[q][e]
  BY <1>1, <1>2, <1>3
<1> QED BY <1>1, <1>2, <1>3, <1>4, <1>5, <1>6 DEF n, d

(* A new page table, and the entry in it.                                  *)
LEMMA NewTableStep ==
  ASSUME PagesInv, NEW t \in Task, NewTable(t)
  PROVE  PagesInv'
<1>1. /\ th[t].pc = "table" /\ ~ halted /\ cpu' = t /\ SetEntry(t)
      /\ UNCHANGED <<frames, vaddr, lock, cli, regions, raced, halted>>
  BY DEF NewTable, At, Runs
<1>2. /\ pde' \in [Process -> [0..Table(StackPage) -> Frame("K") \cup {NoFrame, NullFrame}]]
      /\ \A q \in Process : q # t => pde'[q] = pde[q]
  BY TableIs
<1> QED BY <1>1, <1>2, EntryStep

(* page_table_pte_remove clears the entry of the page.                     *)
LEMMA UnmapStep ==
  ASSUME PagesInv, NEW t \in Task, page_table_pte_remove(t)
  PROVE  PagesInv'
<1> DEFINE s == Space(t)
           page == th[t].page
           last == th[t].start + th[t].cnt - 1
           rec == th'[t]
<1>1. /\ th[t].pc = "unmap" /\ ~ halted /\ cpu' = t /\ NextPage(t, "pfree", "vremove")
      /\ pte' = [pte EXCEPT ![Space(t)][th[t].page] = NoFrame] /\ pde' = pde
      /\ UNCHANGED <<frames, vaddr, lock, cli, regions, raced, halted>>
  BY DEF page_table_pte_remove, At, Runs
<1>2. /\ InCall(t) /\ Working(t) /\ Local(t) /\ th[t] \in Locals /\ s \in Spaces /\ Pool(t) \in {"K", "U"}
      /\ page \in Nat /\ last \in Int /\ th[t].start \in Nat /\ th[t].cnt \in Nat /\ raced \in BOOLEAN
      /\ MapsTyped
  BY <1>1, Before DEF InCall, Working, Taking, Locals
<1>3. /\ page \in PagesOf(Current(t)) /\ PagesOf(Current(t)) \subseteq Page(s) /\ page \in Page(s)
      /\ \A v \in PagesOf(Current(t)) : pte[s][v] # NoFrame <=> v >= page
      /\ PagesOf(Current(t)) = th[t].start..last
  BY <1>1, <1>2, PageAt DEF Local, CallOk, HasFrame, Giving, Searching, PagesOf, Current
<1>4. /\ rec \in Locals /\ rec.start = th[t].start /\ rec.cnt = th[t].cnt
      /\ rec.pc = IF page = last THEN "vremove" ELSE "pfree"
      /\ rec.page = IF page = last THEN page ELSE page + 1
      /\ th' = [th EXCEPT ![t] = rec]
  <2>1. th \in [Task -> Locals] /\ "pfree" \in Label /\ "vremove" \in Label
    BY Before DEF Label
  <2> QED BY <1>1, <2>1, NextPageIs
<1>5. /\ \A z \in Spaces : \A v \in Page(z) : pte'[z][v] = IF z = s /\ v = page THEN NoFrame ELSE pte[z][v]
      /\ \A z \in Spaces : pte'[z] \in [Page(z) -> Frame(PoolOf(z)) \cup {NoFrame}]
      /\ \A z \in Spaces : z # s => pte'[z] = pte[z]
      /\ pte' = [z \in Spaces |-> pte'[z]]
  BY <1>1, <1>2, EntryIs
<1> HIDE DEF s, page, last, rec
<1>8. Moves(t, rec, t, regions[t])
  BY <1>1, <1>2, <1>4, Before DEF Moves
<1>9. /\ th'[t] = rec /\ regions'[t] = regions[t] /\ lock'[Pool(t)] = t
      /\ \A u \in Task : u # t => th'[u] = th[u] /\ regions'[u] = regions[u]
      /\ lock' = [lock EXCEPT ![Pool(t)] = lock'[Pool(t)]]
  BY <1>8, After
<1>10. Held(t)' = Held(t) /\ Current(t)' = Current(t) /\ Working(t)'
  BY <1>2, <1>4, <1>9 DEF Held, Current, Working, Giving, Taking
<1>11. MapsTyped'
  BY <1>1, <1>2, <1>5 DEF MapsTyped
<1>12. \A z \in Spaces : MarkedPages(z)' = MarkedPages(z)
  BY <1>1 DEF MarkedPages
<1>13. Keeps(t)
  <2>1. \A v \in Page(s) : pte'[s][v] # pte[s][v] => v \in PagesOf(Current(t))
    BY <1>2, <1>3, <1>5
  <2> QED BY <1>1, <1>2, <1>5, <1>9, <1>12, <2>1 DEF Keeps, s
<1>14. Local(t)'
  <2>1. LockOk(t)'
    BY <1>2, <1>4, <1>9 DEF Local, LockOk, InCall
  <2>2. FrameOk(t)' /\ TableOk(t)' /\ IdxOk(t)' /\ UserByteOk(t)'
    BY <1>4, <1>9, NoPlace DEF Giving, Searching
  <2>3. StackOk(t)'
    BY <1>1, <1>2, <1>4, <1>9, <1>10 DEF Local, StackOk, Taking, MarkedPages
  <2>4. GivenOk(t)'
    <3> SUFFICES ASSUME NEW r \in regions[t], NEW v \in PagesOf(r) PROVE pte'[s][v] # NoFrame
      BY <1>9 DEF GivenOk, s
    <3>1. r \in Held(t) /\ Current(t) \in Held(t) /\ r # Current(t) /\ v \in Page(s)
      BY <1>2 DEF Held, Local, CallOk, PagesInv, HeldApart, s
    <3>2. v # page
      BY <1>3, <3>1 DEF PagesInv, HeldApart
    <3> QED BY <1>2, <1>5, <3>1, <3>2 DEF Local, GivenOk, s
  <2>5. CallOk(t)'
    <3>1. rec.page \in PagesOf(Current(t))
      BY <1>2, <1>3, <1>4
    <3>2. ASSUME NEW v \in PagesOf(Current(t))
          PROVE  pte'[s][v] # NoFrame <=> HasFrame(t, v)'
      <4>1. pte'[s][v] # NoFrame <=> v >= page /\ v # page
        BY <1>2, <1>3, <1>5
      <4>2. v \in Nat /\ v <= last
        BY <1>2, <1>3
      <4>3. CASE page = last
        <5>1. rec.pc = "vremove"
          BY <1>4, <4>3
        <5> QED BY <1>2, <1>9, <4>1, <4>2, <4>3, <5>1 DEF HasFrame, Giving, Searching
      <4>4. CASE page # last
        <5>1. rec.pc = "pfree" /\ rec.page = page + 1
          BY <1>4, <4>4
        <5> QED BY <1>2, <1>9, <4>1, <4>2, <5>1 DEF HasFrame, Giving, Searching
      <4> QED BY <4>3, <4>4
    <3> QED BY <1>2, <1>9, <1>10, <3>1, <3>2 DEF Local, CallOk, s
  <2> QED BY <2>1, <2>2, <2>3, <2>4, <2>5 DEF Local
<1>15. MappedIsMarked'
  BY <1>5, <1>12 DEF PagesInv, MappedIsMarked
<1> QED BY <1>1, <1>5, <1>8, <1>10, <1>11, <1>13, <1>14, <1>15, WorkStep DEF PagesInv, Shape
-----------------------------------------------------------------------------
(* Every step of every thread keeps the invariant.                         *)
LEMMA PagesInvNext == PagesInv /\ [PagesNext]_pageVars => PagesInv'
<1> SUFFICES ASSUME PagesInv, [PagesNext]_pageVars PROVE PagesInv'
  OBVIOUS
<1>1. CASE UNCHANGED pageVars
  <2>1. UNCHANGED <<frames, vaddr, pte, pde, lock, cli, cpu, th, regions, raced, halted>>
    BY <1>1 DEF pageVars, tables
  <2>2. PagesTypeOK' /\ Shape'
    BY <2>1 DEF PagesInv, PagesTypeOK, Shape
  <2>3. \A u \in Task : Local(u)'
    <3> TAKE u \in Task
    <3>1. Local(u)
      BY DEF PagesInv
    <3>2. LockOk(u)' /\ GivenOk(u)'
      BY <2>1, <3>1 DEF Local, LockOk, GivenOk, InCall
    <3>3. CallOk(u)'
      BY <2>1, <3>1 DEF Local, CallOk, Working, Current, HasFrame
    <3>4. FrameOk(u)' /\ TableOk(u)' /\ IdxOk(u)' /\ UserByteOk(u)'
      BY <2>1, <3>1 DEF Local, FrameOk, TableOk, IdxOk, UserByteOk, Tabling
    <3>5. StackOk(u)'
      BY <2>1, <3>1 DEF Local, StackOk, Held, Current, Working, MarkedPages
    <3> QED BY <3>2, <3>3, <3>4, <3>5 DEF Local
  <2>4. /\ \A u \in Task : Held(u)' = Held(u)
        /\ \A s \in Spaces : MarkedPages(s)' = MarkedPages(s)
    BY <2>1 DEF Held, Working, Current, MarkedPages
  <2>5. HeldApart' /\ HeldIsMarked' /\ MarkedIsHeld'
    BY <2>1, <2>4, HeldSame DEF PagesInv
  <2>6. MappedIsMarked'
    BY <2>1, <2>4 DEF PagesInv, MappedIsMarked
  <2> QED BY <2>2, <2>3, <2>5, <2>6 DEF PagesInv
<1>2. CASE Spin
  BY <1>1, <1>2 DEF Spin
<1>3. ASSUME NEW t \in Task, NEW cnt \in 1..MaxCnt, CallAlloc(t, cnt) PROVE PagesInv'
  BY <1>3, CallAllocStep
<1>4. ASSUME NEW t \in Task, get_a_page(t) PROVE PagesInv'
  BY <1>4, GetAPageStep
<1>5. ASSUME NEW t \in Task, get_virtual_addr(t) PROVE PagesInv'
  BY <1>5, GetVirtualAddrStep
<1>6. ASSUME NEW t \in Task, ScanByte(t) \/ ScanBit(t) PROVE PagesInv'
  BY <1>6, ScanByteStep, ScanBitStep
<1>7. ASSUME NEW t \in Task, SetLoad(t) \/ SetStore(t) PROVE PagesInv'
  BY <1>7, SetLoadStep, SetStoreStep
<1>8. ASSUME NEW t \in Task, page_table_map(t) \/ NewTable(t) PROVE PagesInv'
  BY <1>8, PageTableMapStep, NewTableStep
<1>9. ASSUME NEW t \in Task, Finish(t) \/ Unlock(t) PROVE PagesInv'
  BY <1>9, FinishStep, UnlockStep
<1>10. ASSUME NEW t \in Task, NEW r \in regions[t], CallFree(t, r) PROVE PagesInv'
  BY <1>10, CallFreeStep
<1>11. ASSUME NEW t \in Task, pfree(t) \/ ClearStore(t) PROVE PagesInv'
  BY <1>11, PfreeStep, ClearStoreStep
<1>12. ASSUME NEW t \in Task, page_table_pte_remove(t) \/ vaddr_remove(t) PROVE PagesInv'
  BY <1>12, UnmapStep, VaddrRemoveStep
<1> QED BY <1>1, <1>2, <1>3, <1>4, <1>5, <1>6, <1>7, <1>8, <1>9, <1>10, <1>11, <1>12 DEF PagesNext

(* The inductive invariant of the page allocator holds in every reachable  *)
(* state.                                                                  *)
LEMMA PagesInvHolds == PagesSpec => []PagesInv
  BY PagesInvInit, PagesInvNext, PTL DEF PagesSpec
-----------------------------------------------------------------------------
(* The uses that a frame has: it is in the hands of a thread, it is the    *)
(* page table of a directory entry, or it is mapped at a page and not on   *)
(* its way out.                                                            *)
UsesOf(f) ==
  {<<"hand", t, 0>> : t \in {u \in Task : f \in InHand(u)}}
    \cup {<<"table", x[1], x[2]>> : x \in {y \in Process \X (0..Table(StackPage)) : pde[y[1]][y[2]] = f}}
    \cup UNION {{<<"page", s, v>> : v \in {w \in Page(s) : pte[s][w] = f /\ ~ Leaving(s, w)}} : s \in Spaces}

(* A frame has at most one use, has one exactly if it is marked, and is    *)
(* mapped once at most even if one counts the mapping on its way out.      *)
OnceMapped(f) ==
  \A s, u \in Spaces : \A v \in Page(s), w \in Page(u) :
    pte[s][v] = f /\ pte[u][w] = f => s = u /\ v = w

FrameInv(f) == /\ f \in Marked(f[1]) <=> UsesOf(f) # {}
               /\ \A x, y \in UsesOf(f) : x = y
               /\ OnceMapped(f)

(* A search for a byte has passed full ones only, and NULL does not become *)
(* a page table.                                                           *)
PassedFull(t) ==
  th[t].pc = "scan" => \A b \in 0..(th[t].idx - 1) : frames[th[t].pool][b] = Offsets

NoNull(t) == th[t].pc = "table" => th[t].idx # Bits("K")

AllFrames == \A p \in {"K", "U"} : Sound(p) => \A f \in Frame(p) : FrameInv(f)
SearchOk == ~ raced => /\ \A t \in Task : PassedFull(t) /\ NoNull(t)
                       /\ \A q \in Process : \A d \in 0..Table(StackPage) : pde[q][d] # NullFrame

(* The inductive invariant about frames, which rests on PagesInv.          *)
FramesInv == AllFrames /\ SearchOk /\ PanicsOnlyWhenFull

(* The uses one by one.                                                    *)
LEMMA UseIs ==
  ASSUME NEW f
  PROVE  /\ \A t \in Task : f \in InHand(t) => <<"hand", t, 0>> \in UsesOf(f)
         /\ \A q \in Process : \A d \in 0..Table(StackPage) :
              pde[q][d] = f => <<"table", q, d>> \in UsesOf(f)
         /\ \A s \in Spaces : \A v \in Page(s) :
              pte[s][v] = f /\ ~ Leaving(s, v) => <<"page", s, v>> \in UsesOf(f)
         /\ \A x \in UsesOf(f) :
              \/ \E t \in Task : x = <<"hand", t, 0>> /\ f \in InHand(t)
              \/ \E q \in Process : \E d \in 0..Table(StackPage) :
                   x = <<"table", q, d>> /\ pde[q][d] = f
              \/ \E s \in Spaces : \E v \in Page(s) :
                   x = <<"page", s, v>> /\ pte[s][v] = f /\ ~ Leaving(s, v)
<1>1. \A t \in Task : f \in InHand(t) => <<"hand", t, 0>> \in UsesOf(f)
  BY DEF UsesOf
<1>2. \A q \in Process : \A d \in 0..Table(StackPage) :
        pde[q][d] = f => <<"table", q, d>> \in UsesOf(f)
  <2> SUFFICES ASSUME NEW q \in Process, NEW d \in 0..Table(StackPage), pde[q][d] = f
               PROVE  <<"table", q, d>> \in UsesOf(f)
    OBVIOUS
  <2>1. PICK y : y = <<q, d>>
    OBVIOUS
  <2>2. y \in Process \X (0..Table(StackPage)) /\ y[1] = q /\ y[2] = d
    BY <2>1
  <2> QED BY <2>2 DEF UsesOf
<1>3. \A s \in Spaces : \A v \in Page(s) :
        pte[s][v] = f /\ ~ Leaving(s, v) => <<"page", s, v>> \in UsesOf(f)
  BY DEF UsesOf
<1>4. ASSUME NEW x \in UsesOf(f)
      PROVE  \/ \E t \in Task : x = <<"hand", t, 0>> /\ f \in InHand(t)
             \/ \E q \in Process : \E d \in 0..Table(StackPage) :
                  x = <<"table", q, d>> /\ pde[q][d] = f
             \/ \E s \in Spaces : \E v \in Page(s) :
                  x = <<"page", s, v>> /\ pte[s][v] = f /\ ~ Leaving(s, v)
  BY DEF UsesOf
<1> QED BY <1>1, <1>2, <1>3, <1>4

(* A step that leaves the uses of a frame as they are.                     *)
LEMMA UsesSame ==
  ASSUME NEW f,
         \A t \in Task : f \in InHand(t)' <=> f \in InHand(t),
         \A q \in Process : \A d \in 0..Table(StackPage) : pde'[q][d] = f <=> pde[q][d] = f,
         \A s \in Spaces : \A v \in Page(s) :
           pte'[s][v] = f /\ ~ Leaving(s, v)' <=> pte[s][v] = f /\ ~ Leaving(s, v)
  PROVE  UsesOf(f)' = UsesOf(f)
<1>1. {u \in Task : f \in InHand(u)}' = {u \in Task : f \in InHand(u)}
  OBVIOUS
<1>2. {y \in Process \X (0..Table(StackPage)) : pde'[y[1]][y[2]] = f}
        = {y \in Process \X (0..Table(StackPage)) : pde[y[1]][y[2]] = f}
  <2>1. ASSUME NEW y \in Process \X (0..Table(StackPage))
        PROVE  pde'[y[1]][y[2]] = f <=> pde[y[1]][y[2]] = f
    <3>1. y[1] \in Process /\ y[2] \in 0..Table(StackPage)
      OBVIOUS
    <3> QED BY <3>1
  <2> QED BY <2>1
<1>3. \A s \in Spaces : {w \in Page(s) : pte'[s][w] = f /\ ~ Leaving(s, w)'}
                          = {w \in Page(s) : pte[s][w] = f /\ ~ Leaving(s, w)}
  OBVIOUS
<1> QED BY <1>1, <1>2, <1>3 DEF UsesOf

(* Then what holds of the frame still does.                                *)
LEMMA FrameSame ==
  ASSUME NEW f, FrameInv(f), UsesOf(f)' = UsesOf(f),
         f \in Marked(f[1])' <=> f \in Marked(f[1]),
         \A s \in Spaces : \A v \in Page(s) : pte'[s][v] = f => pte[s][v] = f
  PROVE  FrameInv(f)'
<1>1. OnceMapped(f)'
  BY DEF FrameInv, OnceMapped
<1> QED BY <1>1 DEF FrameInv

(* The frame gets a use and has none, or changes its use.                  *)
LEMMA FrameOne ==
  ASSUME NEW f, NEW x, UsesOf(f)' = {x}, f \in Marked(f[1])', OnceMapped(f)'
  PROVE  FrameInv(f)'
  BY DEF FrameInv

(* Frames of the two pools; once raced, always raced.                      *)
LEMMA FramePools ==
  /\ \A p \in {"K", "U"} : \A f \in Frame(p) : f[1] = p /\ f # NoFrame /\ f # NullFrame
  /\ \A f \in Frame("K") : f \notin Frame("U")
  /\ \A p : (raced => raced') /\ Sound(p)' => Sound(p)
<1>1. \A f \in Frame("K") : f \notin Frame("U")
  BY FrameIsSome
<1>2. \A p \in {"K", "U"} : \A f \in Frame(p) : f[1] = p /\ f # NoFrame
  BY FrameIsSome
<1>3. \A p \in {"K", "U"} : \A f \in Frame(p) : f # NullFrame
  BY <1>2 DEF NullFrame
<1> QED BY <1>1, <1>2, <1>3 DEF Sound

(* A step that touches neither frames nor the threads' places.             *)
LEMMA StillFrames ==
  ASSUME FramesInv, UNCHANGED <<frames, pte, pde, th, raced>>
  PROVE  AllFrames' /\ SearchOk'
<1>1. ASSUME NEW f PROVE UsesOf(f)' = UsesOf(f)
  BY DEF UsesOf, InHand, Tabling, Leaving
<1>2. \A f : FrameInv(f)' <=> FrameInv(f)
  BY <1>1 DEF FrameInv, OnceMapped, Marked
<1>3. AllFrames'
  BY <1>2 DEF FramesInv, AllFrames, Sound
<1>4. SearchOk'
  BY DEF FramesInv, SearchOk, PassedFull, NoNull
<1> QED BY <1>3, <1>4

(* A step of t that has to do with no frame.                               *)
Quiet(t) ==
  /\ \A u \in Task : u # t => th'[u] = th[u]
  /\ UNCHANGED <<frames, pte, pde>> /\ (raced => raced') /\ ~ halted'
  /\ "unmap" \notin {th[t].pc, th'[t].pc}
  /\ \A f \in Frame("K") \cup Frame("U") : f \in InHand(t)' <=> f \in InHand(t)
  /\ ~ raced' => PassedFull(t)' /\ NoNull(t)'

(* The mappings on their way out are the same if t has none.               *)
LEMMA LeavingSame ==
  ASSUME NEW t \in Task, \A u \in Task : u # t => th'[u] = th[u],
         "unmap" \notin {th[t].pc, th'[t].pc}
  PROVE  \A s, v : Leaving(s, v)' <=> Leaving(s, v)
  BY DEF Leaving

(* What is in the hands of the other threads is the same.                  *)
LEMMA OthersHands ==
  ASSUME NEW t \in Task, \A u \in Task : u # t => th'[u] = th[u]
  PROVE  /\ \A u \in Task : u # t => InHand(u)' = InHand(u)
         /\ \A u \in Task : u # t => (NoNull(u) => NoNull(u)')
  BY DEF InHand, Tabling, NoNull

(* Such a step keeps the invariant.                                        *)
LEMMA QuietFrames ==
  ASSUME FramesInv, NEW t \in Task, Quiet(t)
  PROVE  FramesInv'
<1>1. /\ \A s, v : Leaving(s, v)' <=> Leaving(s, v)
      /\ frames' = frames /\ pte' = pte /\ pde' = pde /\ (raced => raced') /\ ~ halted'
  BY LeavingSame DEF Quiet
<1>2. \A f \in Frame("K") \cup Frame("U") : \A u \in Task : f \in InHand(u)' <=> f \in InHand(u)
  BY OthersHands DEF Quiet
<1>3. AllFrames'
  <2> SUFFICES ASSUME NEW p \in {"K", "U"}, Sound(p)', NEW f \in Frame(p) PROVE FrameInv(f)'
    BY DEF AllFrames
  <2>1. FrameInv(f) /\ f \in Frame("K") \cup Frame("U")
    BY <1>1, FramePools DEF FramesInv, AllFrames
  <2>2. UsesOf(f)' = UsesOf(f)
    BY <1>1, <1>2, <2>1, UsesSame
  <2>3. f \in Marked(f[1])' <=> f \in Marked(f[1])
    BY <1>1 DEF Marked
  <2> QED BY <1>1, <2>1, <2>2, <2>3, FrameSame
<1>4. SearchOk'
  <2> SUFFICES ASSUME ~ raced', NEW u \in Task PROVE PassedFull(u)' /\ NoNull(u)'
    BY <1>1 DEF FramesInv, SearchOk
  <2>1. u # t => PassedFull(u) /\ NoNull(u) /\ th'[u] = th[u]
    BY <1>1 DEF FramesInv, SearchOk, Quiet
  <2> QED BY <1>1, <2>1 DEF Quiet, PassedFull, NoNull
<1> QED BY <1>1, <1>3, <1>4 DEF FramesInv, PanicsOnlyWhenFull

(* Where a thread looks for no frame and has none.                         *)
LEMMA OutsideQuiet ==
  ASSUME NEW t \in Task, \A u \in Task : u # t => th'[u] = th[u],
         UNCHANGED <<frames, pte, pde, raced>>, ~ halted',
         {th[t].pc, th'[t].pc} \subseteq Label \ (Giving \cup {"unmap"})
           \/ (/\ th[t].pc \in {"new", "virt"} /\ th'[t].pc = "scan"
               /\ th'[t].pool = Pool(t) /\ th'[t].idx = 0)
  PROVE  Quiet(t)
<1>1. InHand(t)' = {} /\ InHand(t) = {}
  BY DEF InHand, Tabling, Giving, Searching
<1>2. PassedFull(t)' /\ NoNull(t)'
  BY DEF PassedFull, NoNull, Giving, Searching
<1>3. "unmap" \notin {th[t].pc, th'[t].pc}
  OBVIOUS
<1>4. UNCHANGED <<frames, pte, pde>> /\ (raced => raced')
  OBVIOUS
<1> QED BY <1>1, <1>2, <1>3, <1>4 DEF Quiet

(* Calls, returns, and what is done to addresses only.                     *)
LEMMA CallQuiet ==
  ASSUME PagesInv, NEW t \in Task,
         \/ \E cnt \in 1..MaxCnt : CallAlloc(t, cnt)
         \/ \E r \in regions[t] : CallFree(t, r)
         \/ get_a_page(t) \/ Finish(t) \/ Unlock(t) \/ vaddr_remove(t) \/ pfree(t)
  PROVE  Quiet(t)
<1>1. th \in [Task -> Locals] /\ th[t] \in Locals /\ Local(t)
  BY Before
<1>2. CASE \E cnt \in 1..MaxCnt : CallAlloc(t, cnt)
  <2>1. PICK cnt \in 1..MaxCnt : CallAlloc(t, cnt)
    BY <1>2
  <2>2. /\ th[t].pc = "idle" /\ th'[t].pc = "virt" /\ \A u \in Task : u # t => th'[u] = th[u]
        /\ UNCHANGED <<frames, pte, pde, raced>> /\ ~ halted'
    BY <1>1, <2>1 DEF CallAlloc, At, tables, Locals
  <2>3. {th[t].pc, th'[t].pc} \subseteq Label \ (Giving \cup {"unmap"})
    BY <2>2 DEF Label, Giving, Searching
  <2> QED BY <2>2, <2>3, OutsideQuiet
<1>3. CASE \E r \in regions[t] : CallFree(t, r)
  <2>1. PICK r \in regions[t] : CallFree(t, r)
    BY <1>3
  <2>2. /\ th[t].pc = "idle" /\ th'[t].pc = "pfree" /\ \A u \in Task : u # t => th'[u] = th[u]
        /\ UNCHANGED <<frames, pte, pde, raced>> /\ ~ halted'
    BY <1>1, <2>1 DEF CallFree, At, tables, Locals
  <2>3. {th[t].pc, th'[t].pc} \subseteq Label \ (Giving \cup {"unmap"})
    BY <2>2 DEF Label, Giving, Searching
  <2> QED BY <2>2, <2>3, OutsideQuiet
<1>4. CASE get_a_page(t)
  <2>1. t \in Process /\ Pool(t) = "U" /\ th[t].idx = 0
    BY <1>1, <1>4, Places DEF get_a_page, At, Local, LockOk, IdxOk
  <2>2. /\ th[t].pc = "new" /\ \A u \in Task : u # t => th'[u] = th[u]
        /\ UNCHANGED <<frames, pte, pde, raced>> /\ ~ halted'
    BY <1>1, <1>4 DEF get_a_page, At, tables
  <2>3. th'[t].pc = "scan" /\ th'[t].pool = "U" /\ th'[t].idx = th[t].idx
    BY <1>1, <1>4 DEF get_a_page, Locals
  <2> QED BY <2>1, <2>2, <2>3, OutsideQuiet
<1>5. CASE Finish(t) \/ vaddr_remove(t)
  <2>1. /\ th[t].pc \in {"done", "vremove"} /\ th'[t].pc = "unlock" /\ \A u \in Task : u # t => th'[u] = th[u]
        /\ UNCHANGED <<frames, pte, pde, raced>> /\ ~ halted'
    BY <1>1, <1>5 DEF Finish, vaddr_remove, Goto, At, tables, Locals
  <2>2. {th[t].pc, th'[t].pc} \subseteq Label \ (Giving \cup {"unmap"})
    BY <2>1 DEF Label, Giving, Searching
  <2> QED BY <2>1, <2>2, OutsideQuiet
<1>6. CASE Unlock(t)
  <2>1. /\ th[t].pc = "unlock" /\ th'[t].pc = "idle" /\ \A u \in Task : u # t => th'[u] = th[u]
        /\ UNCHANGED <<frames, pte, pde, raced>> /\ ~ halted'
    BY <1>1, <1>6 DEF Unlock, Idle, At, tables, Locals
  <2>2. {th[t].pc, th'[t].pc} \subseteq Label \ (Giving \cup {"unmap"})
    BY <2>1 DEF Label, Giving, Searching
  <2> QED BY <2>1, <2>2, OutsideQuiet
<1>7. CASE pfree(t)
  <2>1. /\ th[t].pc = "pfree" /\ th'[t].pc = "clear" /\ \A u \in Task : u # t => th'[u] = th[u]
        /\ UNCHANGED <<frames, pte, pde, raced>> /\ ~ halted'
    BY <1>1, <1>7 DEF pfree, At, tables, Locals
  <2>2. {th[t].pc, th'[t].pc} \subseteq Label \ (Giving \cup {"unmap"})
    BY <2>1 DEF Label, Giving, Searching
  <2> QED BY <2>1, <2>2, OutsideQuiet
<1> QED BY <1>2, <1>3, <1>4, <1>5, <1>6, <1>7

(* Nothing but the full bitmap of the pages makes get_virtual_addr panic.  *)
LEMMA AddrFrames ==
  ASSUME PagesInv, FramesInv, NEW t \in Task, get_virtual_addr(t)
  PROVE  FramesInv'
<1> DEFINE s == Space(t)
           cnt == th[t].cnt
           start == bitmap_scan(vaddr[s], cnt)
<1>1. /\ th[t].pc = "virt" /\ ~ halted /\ th \in [Task -> Locals] /\ th[t] \in Locals /\ Local(t)
      /\ s \in Spaces /\ cnt \in Nat \ {0} /\ InCall(t) /\ th[t].idx = 0
  <2>1. th[t].pc = "virt" /\ ~ halted /\ InCall(t)
    BY DEF get_virtual_addr, At, InCall
  <2>2. th[t] \in Locals /\ Local(t) /\ MaxCnt \in Nat /\ s \in Spaces /\ th \in [Task -> Locals]
    BY Before, Sizes
  <2> QED BY <2>1, <2>2 DEF Locals, Local, LockOk, IdxOk
<1>2. \/ start = Panics /\ \A v \in Page(s) : bitmap_scan_test(vaddr[s], v)
      \/ start = NotFound
      \/ start \in Nat /\ start \in Page(s) /\ ~ bitmap_scan_test(vaddr[s], start)
  <2>1. PageLen(s) \in Nat \ {0} /\ vaddr[s] \in Bitmaps(PageLen(s)) /\ Page(s) = BitIndex(PageLen(s))
    BY <1>1, Sizes DEF PagesInv, PagesTypeOK
  <2> HIDE DEF s, cnt
  <2>2. \/ start = Panics /\ \A v \in Page(s) : bitmap_scan_test(vaddr[s], v)
        \/ start = NotFound
        \/ /\ start \in Nat /\ start \in Page(s)
           /\ \A v \in start..(start + cnt - 1) : ~ bitmap_scan_test(vaddr[s], v)
    BY <1>1, <2>1, ScanResult
  <2> QED BY <1>1, <2>2
<1> HIDE DEF start
<1>3. CASE start = Panics
  <2>1. panic_spin
    BY <1>3 DEF get_virtual_addr, start
  <2>2. UNCHANGED <<frames, vaddr, pte, pde, th, raced>>
    BY <2>1 DEF panic_spin, tables
  <2>3. PanicsOnlyWhenFull'
    <3>1. \A v \in Page(s) : bitmap_scan_test(vaddr'[s], v)
      BY <1>2, <1>3, <2>2 DEF NotFound, Panics
    <3> QED BY <1>1, <3>1 DEF PanicsOnlyWhenFull
  <2>4. AllFrames' /\ SearchOk'
    BY <2>2, StillFrames
  <2> QED BY <2>3, <2>4 DEF FramesInv
<1>4. CASE start # Panics
  <2>1. ~ (t \in Process /\ start >= StackPage)
    <3> SUFFICES ASSUME t \in Process, start \in Nat PROVE ~ (start >= StackPage)
      BY <1>2, <1>4, StackIsPage DEF NotFound
    <3>1. s = t /\ Page(t) = 0..StackPage /\ StackPage \in Nat
      BY Places, StackIsPage
    <3>2. StackPage \in MarkedPages(s)
      BY <1>1 DEF Local, StackOk
    <3> QED BY <1>2, <1>4, <3>1, <3>2 DEF MarkedPages, NotFound
  <2>2. /\ UNCHANGED <<frames, pte, pde, raced>> /\ ~ halted' /\ \A u \in Task : u # t => th'[u] = th[u]
        /\ \/ th'[t].pc = "unlock"
           \/ th'[t].pc = "scan" /\ th'[t].pool = Pool(t) /\ th'[t].idx = th[t].idx
    <3>1. CASE start = NotFound
      BY <1>1, <1>4, <2>1, <3>1 DEF get_virtual_addr, start, Goto, tables, Locals
    <3>2. CASE start # NotFound
      <4>1. /\ th' = [th EXCEPT ![t].pc = "scan", ![t].start = start, ![t].page = start, ![t].pool = Pool(t)]
            /\ UNCHANGED <<frames, tables, raced, halted>>
        BY <1>4, <2>1, <3>2 DEF get_virtual_addr, start
      <4> QED BY <1>1, <4>1 DEF tables, Locals
    <3> QED BY <3>1, <3>2
  <2>3. th'[t].pc = "unlock" => {th[t].pc, th'[t].pc} \subseteq Label \ (Giving \cup {"unmap"})
    BY <1>1 DEF Label, Giving, Searching
  <2>4. Quiet(t)
    BY <1>1, <2>2, <2>3, OutsideQuiet
  <2> QED BY <2>4, QuietFrames
<1> QED BY <1>3, <1>4

(* The search goes from byte to byte.  If it comes to an end, every byte   *)
(* is full.                                                                *)
LEMMA ScanByteFrames ==
  ASSUME PagesInv, FramesInv, NEW t \in Task, ScanByte(t)
  PROVE  FramesInv'
<1> DEFINE p == th[t].pool
           b == th[t].idx
<1>1. /\ th[t].pc = "scan" /\ ~ halted /\ th \in [Task -> Locals] /\ th[t] \in Locals
      /\ p \in {"K", "U"} /\ b \in 0..(FrameLen(p) - 1) /\ FrameLen(p) \in Nat \ {0}
      /\ ~ raced => PassedFull(t)
  <2>1. th[t].pc = "scan" /\ ~ halted
    BY DEF ScanByte, At
  <2> QED BY <2>1, SearchAt, Sizes, Before DEF Searching, Local, IdxOk, FramesInv, SearchOk
<1>2. CASE frames[p][b] = Offsets /\ b = FrameLen(p) - 1
  <2>1. UNCHANGED <<frames, vaddr, pte, pde, th, raced>>
    BY <1>2 DEF ScanByte, panic_spin, tables
  <2>2. PanicsOnlyWhenFull'
    <3> SUFFICES ASSUME ~ raced PROVE Marked(p)' = Frame(p)
      BY <1>1, <2>1 DEF PanicsOnlyWhenFull
    <3>1. \A c \in 0..(FrameLen(p) - 1) : frames[p][c] = Offsets
      BY <1>1, <1>2 DEF PassedFull
    <3>2. ASSUME NEW i \in BitIndex(FrameLen(p)) PROVE bitmap_scan_test(frames[p], i)
      BY <1>1, <3>1, Place DEF bitmap_scan_test
    <3> QED BY <2>1, <3>2, Sizes DEF Marked
  <2>3. AllFrames' /\ SearchOk'
    BY <2>1, StillFrames
  <2> QED BY <2>2, <2>3 DEF FramesInv
<1>3. CASE ~ (frames[p][b] = Offsets /\ b = FrameLen(p) - 1)
  <2>1. /\ UNCHANGED <<frames, pte, pde, raced>> /\ ~ halted' /\ \A u \in Task : u # t => th'[u] = th[u]
        /\ th'[t].pool = p /\ th'[t].frame = th[t].frame
        /\ \/ th'[t].pc = "bit"
           \/ th'[t].pc = "scan" /\ th'[t].idx = b + 1 /\ frames[p][b] = Offsets
    <3>1. CASE frames[p][b] = Offsets
      <4>1. th' = [th EXCEPT ![t].idx = b + 1] /\ UNCHANGED <<frames, tables, raced, halted>>
        BY <1>3, <3>1 DEF ScanByte
      <4> QED BY <1>1, <3>1, <4>1 DEF tables, Locals
    <3>2. CASE frames[p][b] # Offsets
      <4>1. th' = [th EXCEPT ![t].pc = "bit", ![t].idx = b * ByteBits] /\ UNCHANGED <<frames, tables, raced, halted>>
        BY <3>2 DEF ScanByte
      <4> QED BY <1>1, <4>1 DEF tables, Locals
    <3> QED BY <3>1, <3>2
  <2>2. InHand(t)' = InHand(t)
    BY <1>1, <2>1 DEF InHand, Tabling
  <2>3. ~ raced' => PassedFull(t)' /\ NoNull(t)'
    BY <1>1, <2>1 DEF PassedFull, NoNull
  <2>4. Quiet(t)
    BY <1>1, <2>1, <2>2, <2>3 DEF Quiet
  <2> QED BY <2>4, QuietFrames
<1> QED BY <1>2, <1>3

(* Bit by bit, and the byte is loaded.                                     *)
LEMMA ScanBitQuiet ==
  ASSUME PagesInv, NEW t \in Task, ScanBit(t) \/ SetLoad(t)
  PROVE  Quiet(t)
<1> DEFINE p == th[t].pool
<1>1. th \in [Task -> Locals] /\ th[t] \in Locals
  BY Before
<1>2. CASE ScanBit(t)
  <2>1. /\ th[t].pc = "bit" /\ UNCHANGED <<frames, pte, pde>> /\ ~ halted'
        /\ raced' = (raced \/ th[t].idx = Bits(p))
    BY <1>2 DEF ScanBit, At, tables
  <2>2. /\ \A u \in Task : u # t => th'[u] = th[u]
        /\ th'[t].pool = p /\ th'[t].frame = th[t].frame
        /\ \/ th'[t].pc = "unlock" /\ p = Pool(t)
           \/ th'[t].pc = "table" /\ p # Pool(t) /\ raced' /\ th'[t].idx = Bits(p)
           \/ th'[t].pc \in {"bit", "load"}
    <3>1. CASE th[t].idx = Bits(p)
      <4>1. th' = [th EXCEPT ![t].pc = IF p = Pool(t) THEN "unlock" ELSE "table"] /\ raced'
        BY <1>2, <2>1, <3>1 DEF ScanBit
      <4> QED BY <1>1, <3>1, <4>1 DEF Locals
    <3>2. CASE th[t].idx # Bits(p)
      BY <1>1, <1>2, <2>1, <3>2 DEF ScanBit, Locals
    <3> QED BY <3>1, <3>2
  <2>3. p # Pool(t) => p = "K" /\ Tabling(t)
    BY <2>1, SearchAt DEF Searching
  <2>4. <<"K", Bits("K")>> \notin Frame("K") \cup Frame("U")
    <3>1. Frame("K") = {"K"} \X (0..(Bits("K") - 1)) /\ Bits("K") \in Nat
      BY Sizes
    <3>2. <<"K", Bits("K")>> \notin Frame("U")
      BY Sizes
    <3> QED BY <3>1, <3>2
  <2>5. \A f \in Frame("K") \cup Frame("U") : f \in InHand(t)' <=> f \in InHand(t)
    BY <2>1, <2>2, <2>3, <2>4 DEF InHand, Tabling
  <2>6. (raced => raced') /\ (~ raced' => PassedFull(t)' /\ NoNull(t)')
    BY <2>1, <2>2, Zenon DEF PassedFull, NoNull
  <2> QED BY <2>1, <2>2, <2>5, <2>6 DEF Quiet
<1>3. CASE SetLoad(t)
  <2>1. /\ th[t].pc = "load" /\ UNCHANGED <<frames, pte, pde, raced>> /\ ~ halted'
        /\ \A u \in Task : u # t => th'[u] = th[u]
    BY <1>1, <1>3 DEF SetLoad, At, tables
  <2>2. th'[t].pool = p /\ th'[t].frame = th[t].frame /\ th'[t].pc = "store"
    BY <1>1, <1>3 DEF SetLoad, Locals
  <2>3. InHand(t)' = InHand(t)
    BY <2>1, <2>2 DEF InHand, Tabling
  <2> QED BY <2>1, <2>2, <2>3 DEF Quiet, PassedFull, NoNull
<1> QED BY <1>2, <1>3

(* A byte is stored.  In a pool that can be trusted afterwards it is the   *)
(* byte that was loaded, with one bit set or cleared.                      *)
LEMMA StoreMarks ==
  ASSUME PagesInv, NEW t \in Task, SetStore(t) \/ ClearStore(t),
         NEW p, p = th[t].pool, NEW i, i = th[t].idx
  PROVE  /\ p \in {"K", "U"} /\ i \in BitIndex(FrameLen(p)) /\ <<p, i>> \in Frame(p) /\ (raced => raced')
         /\ \A q \in {"K", "U"} : q # p => frames'[q] = frames[q] /\ Marked(q)' = Marked(q)
         /\ \A b : b # i \div ByteBits => frames'[p][b] = frames[p][b]
         /\ SetStore(t) /\ Sound(p)' =>
              /\ Marked(p)' = Marked(p) \cup {<<p, i>>} /\ <<p, i>> \notin Marked(p)
              /\ frames[p][i \div ByteBits] \subseteq frames'[p][i \div ByteBits]
              /\ frames'[p][i \div ByteBits] \subseteq Offsets
         /\ ClearStore(t) /\ Sound(p)' => Marked(p)' = Marked(p) \ {<<p, i>>}
<1> DEFINE B == i \div ByteBits
           o == i % ByteBits
           x == IF SetStore(t) THEN th[t].byte \cup {o} ELSE th[t].byte \ {o}
           passed == \E u \in Task : th[u].pc = "scan" /\ th[u].pool = p /\ th[u].idx > B
<1>1. /\ th[t] \in Locals /\ Local(t) /\ Pool(t) \in {"K", "U"}
      /\ SetStore(t) => th[t].pc = "store"
      /\ ClearStore(t) => th[t].pc = "clear"
      /\ SetStore(t) <=> ~ ClearStore(t)
  BY Before DEF SetStore, ClearStore, At
<1>2. p \in {"K", "U"} /\ i \in BitIndex(FrameLen(p)) /\ <<p, i>> \in Frame(p) /\ FrameLen(p) \in Nat \ {0}
  <2>1. CASE SetStore(t)
    BY <1>1, <2>1, SearchAt, Sizes DEF Searching, IdxOk, Local
  <2>2. CASE ClearStore(t)
    <3>1. Working(t) /\ th[t].pc = "clear" /\ p = Pool(t) /\ pte[Space(t)][th[t].page] = <<p, i>>
      BY <1>1, <2>2 DEF Working, Taking, Local, IdxOk
    <3>2. <<p, i>> \in Frame(p)
      BY <3>1, PageAt
    <3> QED BY <1>1, <3>1, <3>2, Sizes
  <2> QED BY <2>1, <2>2
<1>3. /\ frames' = [frames EXCEPT ![p][B] = x]
      /\ raced' = IF SetStore(t) THEN raced \/ frames[p][B] # th[t].byte \/ o \in th[t].byte
                                 ELSE raced \/ frames[p][B] # th[t].byte \/ passed
  BY <1>1 DEF SetStore, ClearStore
<1>4. raced => raced'
  <2> HIDE DEF passed
  <2> QED BY <1>3, Zenon
<1>5. x \in SUBSET Offsets /\ B \in 0..(FrameLen(p) - 1) /\ o \in Offsets
  BY <1>1, <1>2, Place DEF Locals
<1>6. /\ \A q \in {"K", "U"} : q # p => frames'[q] = frames[q]
      /\ frames'[p] = [frames[p] EXCEPT ![B] = x]
      /\ frames[p] \in Bitmaps(FrameLen(p))
  <2> HIDE DEF x, B
  <2>1. PagesTypeOK /\ Shape /\ \A q \in {"K", "U"} : frames[q] \in Bitmaps(FrameLen(q))
    BY DEF PagesInv, PagesTypeOK
  <2> QED BY <1>2, <1>3, <1>5, <2>1, StoreByte
<1>7. \A q \in {"K", "U"} : q # p => Marked(q)' = Marked(q)
  BY <1>6 DEF Marked
<1>8. \A b : b # B => frames'[p][b] = frames[p][b]
  BY <1>5, <1>6 DEF Bitmaps
<1>9. ASSUME Sound(p)'
      PROVE  /\ frames[p][B] = th[t].byte
             /\ SetStore(t) => o \notin th[t].byte
  <2>1. CASE p = "U"
    BY <1>1, <2>1, Places DEF Local, UserByteOk, bitmap_scan_test
  <2>2. CASE p # "U"
    <3>1. ~ raced'
      BY <1>9, <2>2 DEF Sound
    <3> HIDE DEF passed
    <3> QED BY <1>3, <3>1
  <2> QED BY <2>1, <2>2
<1>10. ASSUME Sound(p)'
       PROVE  Marked(p)' = IF SetStore(t) THEN Marked(p) \cup {<<p, i>>} ELSE Marked(p) \ {<<p, i>>}
  <2>1. PICK v \in {0, 1} : v = IF SetStore(t) THEN 1 ELSE 0
    OBVIOUS
  <2>2. PICK y : y = frames[p][B]
    OBVIOUS
  <2>3. x = IF v = 1 THEN y \cup {o} ELSE y \ {o}
    <3>1. y = th[t].byte /\ (v = 1 <=> SetStore(t))
      BY <1>9, <1>10, <2>1, <2>2
    <3> HIDE DEF o
    <3> QED BY ONLY <3>1 DEF x
  <2> HIDE DEF x
  <2>4. frames' = [frames EXCEPT ![p] = bitmap_set(@, i, v)]
    <3>1. PagesTypeOK /\ Shape
      BY DEF PagesInv
    <3>2. frames' = [frames EXCEPT ![p][i \div ByteBits] =
                       IF v = 1 THEN y \cup {i % ByteBits} ELSE y \ {i % ByteBits}]
      BY <1>3, <2>3, Zenon
    <3>3. y = frames[p][i \div ByteBits]
      BY <2>2
    <3>4. B \in 0..(FrameLen(p) - 1) /\ frames[p] \in Bitmaps(FrameLen(p))
      BY <1>5, <1>6
    <3> QED BY <1>2, <3>1, <3>2, <3>3, <3>4 DEF bitmap_set, Shape, Bitmaps
  <2>5. Marked(p)' = IF v = 1 THEN Marked(p) \cup {<<p, i>>} ELSE Marked(p) \ {<<p, i>>}
    <3>1. PagesTypeOK /\ Shape
      BY DEF PagesInv
    <3> QED BY <1>2, <2>4, <3>1, MarkFrame
  <2> QED BY <2>1, <2>5
<1>11. ASSUME SetStore(t), Sound(p)'
       PROVE  <<p, i>> \notin Marked(p) /\ frames[p][B] \subseteq frames'[p][B] /\ frames'[p][B] \subseteq Offsets
  <2>1. ~ bitmap_scan_test(frames[p], i) /\ frames'[p][B] = x /\ x = frames[p][B] \cup {o}
    BY <1>5, <1>6, <1>9, <1>11 DEF bitmap_scan_test, Bitmaps
  <2> QED BY <1>5, <2>1 DEF Marked
<1> QED BY <1>1, <1>2, <1>4, <1>6, <1>7, <1>8, <1>10, <1>11

(* A frame is marked, and is in the hands of the thread.                   *)
LEMMA SetStoreFrames ==
  ASSUME PagesInv, FramesInv, NEW t \in Task, SetStore(t)
  PROVE  FramesInv'
<1>0. PICK p, i, f : p = th[t].pool /\ i = th[t].idx /\ f = <<p, i>>
  OBVIOUS
<1>1. /\ th[t].pc = "store" /\ ~ halted /\ halted' = halted /\ pte' = pte /\ pde' = pde
      /\ th \in [Task -> Locals] /\ th[t] \in Locals /\ Marks(t)
  BY Before DEF SetStore, At, tables
<1>2. /\ p \in {"K", "U"} /\ i \in BitIndex(FrameLen(p)) /\ f \in Frame(p) /\ (raced => raced')
      /\ \A q \in {"K", "U"} : q # p => frames'[q] = frames[q] /\ Marked(q)' = Marked(q)
      /\ \A b : b # i \div ByteBits => frames'[p][b] = frames[p][b]
      /\ Sound(p)' => /\ Marked(p)' = Marked(p) \cup {f} /\ f \notin Marked(p)
                      /\ frames[p][i \div ByteBits] \subseteq frames'[p][i \div ByteBits]
                      /\ frames'[p][i \div ByteBits] \subseteq Offsets
  BY <1>0, StoreMarks
<1>3. /\ \A u \in Task : u # t => th'[u] = th[u]
      /\ IF p = Pool(t) THEN th'[t].pc = "map" /\ th'[t].frame = i
                        ELSE th'[t].pc = "table" /\ th'[t].frame = th[t].frame
      /\ th'[t].idx = i
  <2>1. CASE p = Pool(t)
    BY <1>0, <1>1, <2>1 DEF Marks, Locals
  <2>2. CASE p # Pool(t)
    BY <1>0, <1>1, <2>2 DEF Marks, Locals
  <2> QED BY <2>1, <2>2
<1>4. InHand(t)' = InHand(t) \cup {f}
  <2>1. p # Pool(t) => Tabling(t) /\ p = "K"
    BY <1>0, <1>1, SearchAt DEF Searching
  <2> QED BY <1>0, <1>1, <1>3, <2>1 DEF InHand, Tabling
<1>5. /\ \A s, v : Leaving(s, v)' <=> Leaving(s, v)
      /\ \A u \in Task : u # t => InHand(u)' = InHand(u) /\ (NoNull(u) => NoNull(u)')
  BY <1>1, <1>3, LeavingSame, OthersHands
<1>6. AllFrames'
  <2> SUFFICES ASSUME NEW q \in {"K", "U"}, Sound(q)', NEW g \in Frame(q) PROVE FrameInv(g)'
    BY DEF AllFrames
  <2>1. FrameInv(g) /\ g[1] = q /\ f[1] = p
    BY <1>2, FramePools DEF FramesInv, AllFrames
  <2>2. CASE g # f
    <3>1. UsesOf(g)' = UsesOf(g)
      BY <1>1, <1>4, <1>5, <2>2, UsesSame
    <3>2. g \in Marked(g[1])' <=> g \in Marked(g[1])
      BY <1>2, <2>1, <2>2
    <3> QED BY <1>1, <2>1, <3>1, <3>2, FrameSame
  <2>3. CASE g = f
    <3>1. UsesOf(f) = {} /\ f \in Marked(f[1])' /\ OnceMapped(f)
      BY <1>2, <2>1, <2>3 DEF FrameInv
    <3>2. \A u \in Task : f \in InHand(u)' <=> u = t
      <4>1. \A u \in Task : f \notin InHand(u)
        BY <3>1, UseIs
      <4> QED BY <1>4, <1>5, <4>1
    <3>3. /\ \A z \in Process : \A d \in 0..Table(StackPage) : pde'[z][d] # f
          /\ \A s \in Spaces : \A v \in Page(s) : ~ (pte'[s][v] = f /\ ~ Leaving(s, v)')
      BY <1>1, <1>5, <3>1, UseIs
    <3>4. UsesOf(f)' = {<<"hand", t, 0>>}
      <4>1. {u \in Task : f \in InHand(u)}' = {t}
        BY <3>2
      <4>2. {y \in Process \X (0..Table(StackPage)) : pde'[y[1]][y[2]] = f} = {}
        <5>1. \A y \in Process \X (0..Table(StackPage)) : y[1] \in Process /\ y[2] \in 0..Table(StackPage)
          OBVIOUS
        <5> QED BY <3>3, <5>1
      <4>3. \A s \in Spaces : {w \in Page(s) : pte'[s][w] = f /\ ~ Leaving(s, w)'} = {}
        BY <3>3
      <4> QED BY <4>1, <4>2, <4>3 DEF UsesOf
    <3>5. OnceMapped(f)'
      BY <1>1, <3>1 DEF OnceMapped
    <3> QED BY <2>3, <3>1, <3>4, <3>5, FrameOne
  <2> QED BY <2>2, <2>3
<1>7. SearchOk'
  <2> SUFFICES ASSUME ~ raced', NEW u \in Task PROVE PassedFull(u)' /\ NoNull(u)'
    BY <1>1, <1>2 DEF FramesInv, SearchOk
  <2>1. Sound(p)' /\ PassedFull(u) /\ NoNull(u)
    BY <1>2 DEF Sound, FramesInv, SearchOk
  <2>2. CASE u = t
    <3>1. i # Bits("K") \/ p = Pool(t)
      <4>1. p # Pool(t) => p = "K"
        BY <1>0, <1>1, SearchAt DEF Searching
      <4>2. i \in 0..(Bits(p) - 1) /\ Bits(p) \in Nat
        BY <1>2, Sizes
      <4> QED BY <4>1, <4>2
    <3> QED BY <1>3, <2>2, <3>1 DEF PassedFull, NoNull
  <2>3. CASE u # t
    <3>1. th'[u] = th[u] /\ NoNull(u)'
      BY <1>3, <1>5, <2>1, <2>3
    <3>2. ASSUME NEW b, th[u].pc = "scan", frames[th[u].pool][b] = Offsets
          PROVE  frames'[th[u].pool][b] = Offsets
      <4>1. th[u].pool \in {"K", "U"}
        BY <3>2, SearchAt DEF Searching
      <4>2. CASE th[u].pool # p \/ b # i \div ByteBits
        BY <1>2, <3>2, <4>1, <4>2
      <4>3. CASE th[u].pool = p /\ b = i \div ByteBits
        <5>1. frames[p][b] = Offsets /\ frames[p][b] \subseteq frames'[p][b] /\ frames'[p][b] \subseteq Offsets
          BY <1>2, <2>1, <3>2, <4>3
        <5>2. frames'[p][b] = Offsets
          BY <5>1
        <5> QED BY <4>3, <5>2
      <4> QED BY <4>2, <4>3
    <3> QED BY <2>1, <3>1, <3>2 DEF PassedFull
  <2> QED BY <2>2, <2>3
<1> QED BY <1>1, <1>6, <1>7 DEF FramesInv, PanicsOnlyWhenFull

(* A frame is freed; the mapping of its page is on its way out.            *)
LEMMA ClearStoreFrames ==
  ASSUME PagesInv, FramesInv, NEW t \in Task, ClearStore(t)
  PROVE  FramesInv'
<1>0. PICK p, i, f, s, page : p = th[t].pool /\ i = th[t].idx /\ f = <<p, i>> /\ s = Space(t) /\ page = th[t].page
  OBVIOUS
<1>1. /\ th[t].pc = "clear" /\ ~ halted /\ halted' = halted /\ pte' = pte /\ pde' = pde
      /\ th \in [Task -> Locals] /\ th[t] \in Locals /\ Local(t) /\ InCall(t) /\ Working(t)
  BY Before DEF ClearStore, At, tables, InCall, Working, Taking
<1>2. /\ p \in {"K", "U"} /\ i \in BitIndex(FrameLen(p)) /\ f \in Frame(p) /\ (raced => raced')
      /\ \A q \in {"K", "U"} : q # p => frames'[q] = frames[q] /\ Marked(q)' = Marked(q)
      /\ \A b : b # i \div ByteBits => frames'[p][b] = frames[p][b]
      /\ Sound(p)' => Marked(p)' = Marked(p) \ {f}
  <2>1. SetStore(t) \/ ClearStore(t)
    OBVIOUS
  <2>2. p = th[t].pool /\ i = th[t].idx /\ f = <<p, i>>
    BY <1>0
  <2>3. /\ p \in {"K", "U"} /\ i \in BitIndex(FrameLen(p)) /\ <<p, i>> \in Frame(p) /\ (raced => raced')
        /\ \A q \in {"K", "U"} : q # p => frames'[q] = frames[q] /\ Marked(q)' = Marked(q)
    BY <2>1, <2>2, StoreMarks
  <2>4. \A b : b # i \div ByteBits => frames'[p][b] = frames[p][b]
    BY <2>1, <2>2, StoreMarks
  <2>5. Sound(p)' => Marked(p)' = Marked(p) \ {<<p, i>>}
    BY <2>1, <2>2, StoreMarks
  <2> QED BY <2>2, <2>3, <2>4, <2>5, Zenon
<1>3. /\ \A u \in Task : u # t => th'[u] = th[u]
      /\ th'[t].pc = "unmap" /\ th'[t].page = page
  BY <1>0, <1>1 DEF ClearStore, Locals
<1>4. p = Pool(t) /\ pte[s][page] = f /\ s \in Spaces /\ page \in Page(s)
  BY <1>0, <1>1, PageAt DEF Local, IdxOk
<1>5. ~ Leaving(s, page)
  <2> SUFFICES ASSUME NEW u \in Task, Space(u) = s, th[u].pc = "unmap" PROVE FALSE
    BY DEF Leaving
  <2>1. u # t /\ Pool(u) = Pool(t) /\ InCall(u)
    BY <1>0, <1>1, Places DEF InCall
  <2> QED BY <1>1, <2>1, Alone
<1>6. \A z, v : Leaving(z, v)' <=> Leaving(z, v) \/ (z = s /\ v = page)
  BY <1>0, <1>1, <1>3 DEF Leaving
<1>7. \A u \in Task : InHand(u)' = InHand(u)
  <2>1. InHand(t)' = {} /\ InHand(t) = {}
    BY <1>1, <1>3 DEF InHand, Tabling
  <2> QED BY <1>3, <2>1, OthersHands
<1>8. AllFrames'
  <2> SUFFICES ASSUME NEW q \in {"K", "U"}, Sound(q)', NEW g \in Frame(q) PROVE FrameInv(g)'
    BY DEF AllFrames
  <2>1. FrameInv(g) /\ g[1] = q /\ f[1] = p
    BY <1>2, FramePools DEF FramesInv, AllFrames
  <2>2. CASE g # f
    <3>1. UsesOf(g)' = UsesOf(g)
      BY <1>1, <1>4, <1>6, <1>7, <2>2, UsesSame
    <3>2. g \in Marked(g[1])' <=> g \in Marked(g[1])
      BY <1>2, <2>1, <2>2
    <3> QED BY <1>1, <2>1, <3>1, <3>2, FrameSame
  <2>3. CASE g = f
    <3>1. <<"page", s, page>> \in UsesOf(f)
      BY <1>4, <1>5, UseIs
    <3>2. UsesOf(f) = {<<"page", s, page>>} /\ f \notin Marked(f[1])' /\ OnceMapped(f)
      BY <1>2, <2>1, <2>3, <3>1 DEF FrameInv
    <3>10. \A u, d : /\ <<"hand", u, 0>> # <<"page", s, page>>
                     /\ <<"table", u, d>> # <<"page", s, page>>
      OBVIOUS
    <3>3. ASSUME NEW u \in Task, f \in InHand(u)' PROVE FALSE
      <4>1. <<"hand", u, 0>> \in UsesOf(f)
        BY <1>7, <3>3, UseIs
      <4> QED BY <3>2, <3>10, <4>1
    <3>11. ASSUME NEW z \in Process, NEW d \in 0..Table(StackPage), pde'[z][d] = f PROVE FALSE
      <4>1. <<"table", z, d>> \in UsesOf(f)
        BY <1>1, <3>11, UseIs
      <4> QED BY <3>2, <3>10, <4>1
    <3>4. \A z \in Spaces : \A v \in Page(z) : ~ (pte'[z][v] = f /\ ~ Leaving(z, v)')
      BY <1>1, <1>4, <1>6, <3>2 DEF OnceMapped
    <3>5. UsesOf(f)' = {}
      <4>1. {u \in Task : f \in InHand(u)}' = {}
        BY <3>3
      <4>2. {y \in Process \X (0..Table(StackPage)) : pde'[y[1]][y[2]] = f} = {}
        <5>1. \A y \in Process \X (0..Table(StackPage)) : y[1] \in Process /\ y[2] \in 0..Table(StackPage)
          OBVIOUS
        <5> QED BY <3>11, <5>1
      <4>3. \A z \in Spaces : {w \in Page(z) : pte'[z][w] = f /\ ~ Leaving(z, w)'} = {}
        BY <3>4
      <4> QED BY <4>1, <4>2, <4>3 DEF UsesOf
    <3>6. OnceMapped(f)'
      BY <1>1, <3>2 DEF OnceMapped
    <3> QED BY <2>3, <3>2, <3>5, <3>6 DEF FrameInv
  <2> QED BY <2>2, <2>3
<1>9. SearchOk'
  <2> SUFFICES ASSUME ~ raced', NEW u \in Task PROVE PassedFull(u)' /\ NoNull(u)'
    BY <1>1, <1>2 DEF FramesInv, SearchOk
  <2>1. /\ PassedFull(u) /\ NoNull(u)
        /\ ~ (th[u].pc = "scan" /\ th[u].pool = p /\ th[u].idx > i \div ByteBits)
    <3>1. ~ \E w \in Task : th[w].pc = "scan" /\ th[w].pool = p /\ th[w].idx > i \div ByteBits
      BY <1>0 DEF ClearStore
    <3> QED BY <1>2, <3>1 DEF FramesInv, SearchOk
  <2>2. CASE u = t
    BY <1>3, <2>2 DEF PassedFull, NoNull
  <2>3. CASE u # t
    <3>1. th'[u] = th[u]
      BY <1>3, <2>3
    <3>2. ASSUME th[u].pc = "scan", NEW b \in 0..(th[u].idx - 1)
          PROVE  frames'[th[u].pool][b] = Offsets
      <4>1. th[u].pool \in {"K", "U"} /\ th[u].idx \in Nat /\ frames[th[u].pool][b] = Offsets
        BY <2>1, <3>2, SearchAt DEF Searching, PassedFull
      <4>2. i \div ByteBits \in Int
        BY <1>2, Sizes, Place
      <4>3. th[u].pool # p \/ b # i \div ByteBits
        BY <2>1, <3>2, <4>1, <4>2
      <4> QED BY <1>2, <4>1, <4>3
    <3>3. NoNull(u)'
      BY <2>1, <3>1 DEF NoNull
    <3> QED BY <3>1, <3>2, <3>3 DEF PassedFull
  <2> QED BY <2>2, <2>3
<1> QED BY <1>1, <1>8, <1>9 DEF FramesInv, PanicsOnlyWhenFull

(* The only use of a frame that t has in hand.                             *)
LEMMA HandOnly ==
  ASSUME NEW f, FrameInv(f), NEW t \in Task, f \in InHand(t)
  PROVE  /\ UsesOf(f) = {<<"hand", t, 0>>} /\ f \in Marked(f[1])
         /\ \A u \in Task : f \in InHand(u) => u = t
         /\ \A q \in Process : \A d \in 0..Table(StackPage) : pde[q][d] # f
         /\ \A s \in Spaces : \A v \in Page(s) : pte[s][v] = f => Leaving(s, v)
<1>1. <<"hand", t, 0>> \in UsesOf(f)
  BY UseIs
<1>2. UsesOf(f) = {<<"hand", t, 0>>} /\ f \in Marked(f[1])
  BY <1>1 DEF FrameInv
<1>3. \A u, d, s, v : /\ <<"table", u, d>> # <<"hand", t, 0>> /\ <<"page", s, v>> # <<"hand", t, 0>>
                      /\ <<"hand", u, 0>> = <<"hand", t, 0>> => u = t
  OBVIOUS
<1>4. ASSUME NEW u \in Task, f \in InHand(u) PROVE u = t
  <2>1. <<"hand", u, 0>> \in UsesOf(f)
    BY <1>4, UseIs
  <2> QED BY <1>2, <1>3, <2>1
<1>5. ASSUME NEW q \in Process, NEW d \in 0..Table(StackPage), pde[q][d] = f PROVE FALSE
  <2>1. <<"table", q, d>> \in UsesOf(f)
    BY <1>5, UseIs
  <2> QED BY <1>2, <1>3, <2>1
<1>6. ASSUME NEW s \in Spaces, NEW v \in Page(s), pte[s][v] = f, ~ Leaving(s, v) PROVE FALSE
  <2>1. <<"page", s, v>> \in UsesOf(f)
    BY <1>6, UseIs
  <2> QED BY <1>2, <1>3, <2>1
<1> QED BY <1>2, <1>4, <1>5, <1>6

(* The frames that t has in hand get their uses: the entry of the page is  *)
(* set, in a new page table or in one that was there.                      *)
LEMMA EntryFrames ==
  ASSUME PagesInv, FramesInv, NEW t \in Task, th[t].pc \in {"map", "table"},
         SetEntry(t), UNCHANGED <<frames, raced, halted>>, ~ halted,
         \/ th[t].pc = "map" /\ pde' = pde
         \/ th[t].pc = "table" /\ NewTable(t)
  PROVE  FramesInv'
<1>0. PICK f, s, page, h, d :
        /\ f = <<Pool(t), th[t].frame>> /\ s = Space(t) /\ page = th[t].page
        /\ h = <<"K", th[t].idx>> /\ d = Table(th[t].page)
  OBVIOUS
<1>1. /\ Working(t) /\ InCall(t) /\ Local(t) /\ th \in [Task -> Locals] /\ th[t] \in Locals
      /\ Pool(t) \in {"K", "U"} /\ s \in Spaces /\ page \in Page(s) /\ Pool(t) = PoolOf(s)
  BY <1>0, Before, PageAt, Places DEF Working, InCall, Giving
<1>2. f \in Frame(Pool(t)) /\ f[1] = Pool(t) /\ f # NoFrame /\ f # NullFrame /\ pte[s][page] = NoFrame
  <2>1. f \in Frame(Pool(t))
    BY <1>0, <1>1 DEF Local, FrameOk
  <2>2. pte[s][page] = NoFrame
    <3>1. page \in PagesOf(Current(t)) /\ ~ HasFrame(t, page)
      BY <1>0, <1>1 DEF HasFrame, Local, CallOk, Giving, Searching, Locals
    <3> QED BY <1>0, <1>1, <3>1 DEF Local, CallOk
  <2> QED BY <1>1, <2>1, <2>2, FramePools
<1>3. /\ \A u \in Task : u # t => th'[u] = th[u]
      /\ th'[t].pc \in {"scan", "done"} /\ th'[t].pool = Pool(t) /\ th'[t].idx = 0
  <2>1. th \in [Task -> Locals] /\ "scan" \in Label /\ "done" \in Label /\ NextPage(t, "scan", "done")
    BY Before DEF Label, SetEntry
  <2>2. /\ th' = [th EXCEPT ![t] = th'[t]] /\ th'[t].pool = Pool(t) /\ th'[t].idx = 0
        /\ th'[t].pc \in {"scan", "done"}
    BY <2>1, NextPageIs
  <2> QED BY <1>1, <2>2
<1>4. \A z \in Spaces : \A v \in Page(z) : pte'[z][v] = IF z = s /\ v = page THEN f ELSE pte[z][v]
  <2>1. f \in Frame(Pool(t)) \cup {NoFrame} /\ pte' = [pte EXCEPT ![Space(t)][th[t].page] = f]
    BY <1>0, <1>2 DEF SetEntry
  <2> QED BY <1>0, <1>1, <2>1, EntryIs
<1>5. /\ \A z, v : Leaving(z, v)' <=> Leaving(z, v)
      /\ \A u \in Task : u # t => InHand(u)' = InHand(u) /\ (NoNull(u) => NoNull(u)')
      /\ InHand(t)' = {}
  <2>1. InHand(t)' = {}
    BY <1>3 DEF InHand, Tabling
  <2>2. "unmap" \notin {th[t].pc, th'[t].pc}
    BY <1>3
  <2> QED BY <1>3, <2>1, <2>2, LeavingSame, OthersHands
<1>6. /\ f \in InHand(t) /\ \A g \in InHand(t) : g = f \/ (g = h /\ th[t].pc = "table")
      /\ th[t].pc = "table" => h \in InHand(t) /\ t \in Process /\ Pool(t) = "U" /\ h # f
  <2>1. th[t].pc = "table" => t \in Process /\ Pool(t) = "U"
    BY <1>1, Places DEF Local, TableOk
  <2> QED BY <1>0, <2>1 DEF InHand, Tabling
<1>7. /\ th[t].pc = "table" =>
           /\ d \in 0..Table(StackPage) /\ pde[t][d] = NoFrame
           /\ \A q \in Process : \A e \in 0..Table(StackPage) :
                pde'[q][e] = IF q = t /\ e = d THEN (IF th[t].idx = Bits("K") THEN NullFrame ELSE h)
                                               ELSE pde[q][e]
      /\ th[t].pc = "map" => pde' = pde
  BY <1>0, <1>1, TableIs DEF Local, TableOk
<1>8. h \in Frame("K") => th[t].idx # Bits("K")
  <2>1. Frame("K") = {"K"} \X (0..(Bits("K") - 1)) /\ Bits("K") \in Nat
    BY Sizes
  <2> QED BY <1>0, <2>1
<1>9. ASSUME NEW z \in Spaces, NEW v \in Page(z), pte[z][v] = f PROVE ~ Leaving(z, v)
  <2> SUFFICES ASSUME NEW u \in Task, Space(u) = z, th[u].pc = "unmap" PROVE FALSE
    BY DEF Leaving
  <2>1. PoolOf(z) = Pool(t)
    <3>1. PoolOf(z) \in {"K", "U"} /\ f \in Frame(PoolOf(z)) \cup {NoFrame}
      BY <1>9, Before DEF MapsTyped, PoolOf
    <3> QED BY <1>2, <3>1, FramePools
  <2>2. u # t /\ Pool(u) = Pool(t) /\ InCall(u)
    BY <2>1, Places DEF InCall
  <2> QED BY <1>1, <2>2, Alone
<1>10. ASSUME NEW q \in {"K", "U"}, Sound(q)', NEW g \in Frame(q) PROVE FrameInv(g)'
  <2>1. FrameInv(g) /\ g[1] = q /\ g # NoFrame /\ g # NullFrame /\ (g = h => h \in Frame("K"))
    <3>1. FrameInv(g)
      BY <1>10 DEF FramesInv, AllFrames, Sound
    <3>2. g[1] = q /\ g # NoFrame /\ g # NullFrame
      BY FramePools
    <3> QED BY <1>0, <3>1, <3>2
  <2>2. Marked(g[1])' = Marked(g[1])
    BY DEF Marked
  <2>3. CASE g = f
    <3>1. /\ f \in Marked(f[1])
          /\ \A u \in Task : f \in InHand(u) => u = t
          /\ \A z \in Process : \A e \in 0..Table(StackPage) : pde[z][e] # f
          /\ \A z \in Spaces : \A v \in Page(z) : pte[z][v] = f => Leaving(z, v)
      BY <1>6, <2>1, <2>3, HandOnly
    <3>2. \A z \in Spaces : \A v \in Page(z) : pte'[z][v] = f <=> z = s /\ v = page
      BY <1>4, <1>9, <3>1
    <3>3. \A u \in Task : f \notin InHand(u)'
      BY <1>5, <3>1
    <3>4. \A z \in Process : \A e \in 0..Table(StackPage) : pde'[z][e] # f
      BY <1>2, <1>6, <1>7, <3>1
    <3>5. ~ Leaving(s, page)'
      <4>1. ~ Leaving(s, page)
        <5> SUFFICES ASSUME NEW u \in Task, Space(u) = s, th[u].pc = "unmap" PROVE FALSE
          BY DEF Leaving
        <5>1. u # t /\ Pool(u) = Pool(t) /\ InCall(u)
          BY <1>0, Places DEF InCall
        <5> QED BY <1>1, <5>1, Alone
      <4> QED BY <1>5, <4>1
    <3>6. UsesOf(f)' = {<<"page", s, page>>}
      <4>1. {u \in Task : f \in InHand(u)}' = {}
        BY <3>3
      <4>2. {y \in Process \X (0..Table(StackPage)) : pde'[y[1]][y[2]] = f} = {}
        <5>1. \A y \in Process \X (0..Table(StackPage)) : y[1] \in Process /\ y[2] \in 0..Table(StackPage)
          OBVIOUS
        <5> QED BY <3>4, <5>1
      <4>3. \A z \in Spaces : {w \in Page(z) : pte'[z][w] = f /\ ~ Leaving(z, w)'}
                                = IF z = s THEN {page} ELSE {}
        BY <1>1, <3>2, <3>5
      <4>4. UNION {{<<"page", z, v>> : v \in IF z = s THEN {page} ELSE {}} : z \in Spaces}
              = {<<"page", s, page>>}
        BY <1>1
      <4>5. UNION {{<<"page", z, v>> : v \in {w \in Page(z) : pte'[z][w] = f /\ ~ Leaving(z, w)'}} : z \in Spaces}
              = {<<"page", s, page>>}
        BY <4>3, <4>4
      <4> QED BY <4>1, <4>2, <4>5 DEF UsesOf
    <3>7. OnceMapped(f)'
      BY <3>2 DEF OnceMapped
    <3> QED BY <2>2, <2>3, <3>1, <3>6, <3>7, FrameOne
  <2>4. CASE g = h /\ th[t].pc = "table"
    <3>1. /\ h \in Marked(h[1]) /\ OnceMapped(h)
          /\ \A u \in Task : h \in InHand(u) => u = t
          /\ \A z \in Process : \A e \in 0..Table(StackPage) : pde[z][e] # h
          /\ \A z \in Spaces : \A v \in Page(z) : pte[z][v] = h => Leaving(z, v)
      BY <1>6, <2>1, <2>4, HandOnly DEF FrameInv
    <3>2. \A u \in Task : h \notin InHand(u)'
      BY <1>5, <3>1
    <3>3. \A z \in Process : \A e \in 0..Table(StackPage) : pde'[z][e] = h <=> z = t /\ e = d
      BY <1>7, <1>8, <2>1, <2>4, <3>1
    <3>4. \A z \in Spaces : \A v \in Page(z) : pte'[z][v] = h <=> pte[z][v] = h
      BY <1>2, <1>4, <1>6, <2>1, <2>4
    <3>5. UsesOf(h)' = {<<"table", t, d>>}
      <4>1. {u \in Task : h \in InHand(u)}' = {}
        BY <3>2
      <4>2. {y \in Process \X (0..Table(StackPage)) : pde'[y[1]][y[2]] = h} = {<<t, d>>}
        <5>1. \A y \in Process \X (0..Table(StackPage)) :
                y[1] \in Process /\ y[2] \in 0..Table(StackPage) /\ y = <<y[1], y[2]>>
          OBVIOUS
        <5>2. \A y \in Process \X (0..Table(StackPage)) : pde'[y[1]][y[2]] = h <=> y = <<t, d>>
          BY <3>3, <5>1
        <5>3. <<t, d>> \in Process \X (0..Table(StackPage))
          BY <1>6, <1>7, <2>4
        <5> QED BY <5>2, <5>3
      <4>3. \A z \in Spaces : {w \in Page(z) : pte'[z][w] = h /\ ~ Leaving(z, w)'} = {}
        BY <1>5, <3>1, <3>4
      <4>4. {<<"table", x[1], x[2]>> : x \in {<<t, d>>}} = {<<"table", t, d>>}
        OBVIOUS
      <4>5. {<<"table", x[1], x[2]>> : x \in {y \in Process \X (0..Table(StackPage)) : pde'[y[1]][y[2]] = h}}
              = {<<"table", t, d>>}
        BY <4>2, <4>4
      <4> QED BY <4>1, <4>3, <4>5 DEF UsesOf
    <3>6. OnceMapped(h)'
      BY <3>1, <3>4 DEF OnceMapped
    <3> QED BY <2>2, <2>4, <3>1, <3>5, <3>6, FrameOne
  <2>5. CASE g # f /\ ~ (g = h /\ th[t].pc = "table")
    <3>1. \A u \in Task : g \in InHand(u)' <=> g \in InHand(u)
      BY <1>5, <1>6, <2>5
    <3>2. \A z \in Process : \A e \in 0..Table(StackPage) : pde'[z][e] = g <=> pde[z][e] = g
      BY <1>7, <2>1, <2>5
    <3>3. \A z \in Spaces : \A v \in Page(z) : pte'[z][v] = g <=> pte[z][v] = g
      BY <1>2, <1>4, <2>1, <2>5
    <3>4. UsesOf(g)' = UsesOf(g)
      BY <1>5, <3>1, <3>2, <3>3, UsesSame
    <3> QED BY <2>1, <2>2, <3>3, <3>4, FrameSame
  <2> QED BY <2>3, <2>4, <2>5
<1>11. SearchOk'
  <2> SUFFICES ASSUME ~ raced PROVE /\ \A u \in Task : PassedFull(u)' /\ NoNull(u)'
                                    /\ \A q \in Process : \A e \in 0..Table(StackPage) : pde'[q][e] # NullFrame
    BY DEF SearchOk
  <2>1. /\ \A u \in Task : PassedFull(u) /\ NoNull(u)
        /\ \A q \in Process : \A e \in 0..Table(StackPage) : pde[q][e] # NullFrame
    BY DEF FramesInv, SearchOk
  <2>2. PassedFull(t)' /\ NoNull(t)'
    BY <1>3 DEF PassedFull, NoNull
  <2>3. \A u \in Task : u # t => PassedFull(u)' /\ NoNull(u)'
    BY <1>3, <1>5, <2>1 DEF PassedFull
  <2>4. h # NullFrame
    BY <1>0 DEF NullFrame
  <2>5. \A q \in Process : \A e \in 0..Table(StackPage) : pde'[q][e] # NullFrame
    BY <1>7, <2>1, <2>4 DEF NoNull
  <2> QED BY <2>2, <2>3, <2>5
<1> QED BY <1>10, <1>11 DEF FramesInv, AllFrames, PanicsOnlyWhenFull

(* page_table_map: the entry was free, so it does not panic.               *)
LEMMA MapFrames ==
  ASSUME PagesInv, FramesInv, NEW t \in Task, page_table_map(t)
  PROVE  FramesInv'
<1>1. /\ th[t].pc = "map" /\ ~ halted /\ Local(t) /\ Working(t) /\ th[t] \in Locals /\ th \in [Task -> Locals]
  BY Before DEF page_table_map, At, Working, Giving
<1>2. CASE t \in Process /\ pde[t][Table(th[t].page)] = NoFrame
  <2>1. /\ UNCHANGED <<frames, pte, pde, raced>> /\ ~ halted' /\ Pool(t) = "U"
        /\ th' = [th EXCEPT ![t].pc = "scan", ![t].pool = "K", ![t].idx = 0]
    BY <1>1, <1>2, Places DEF page_table_map, tables
  <2>2. /\ \A u \in Task : u # t => th'[u] = th[u]
        /\ th'[t].pc = "scan" /\ th'[t].pool = "K" /\ th'[t].idx = 0 /\ th'[t].frame = th[t].frame
    BY <1>1, <2>1 DEF Locals
  <2>3. InHand(t)' = InHand(t)
    BY <1>1, <2>1, <2>2 DEF InHand, Tabling
  <2>4. Quiet(t)
    BY <1>1, <2>1, <2>2, <2>3 DEF Quiet, PassedFull, NoNull
  <2> QED BY <2>4, QuietFrames
<1>3. CASE ~ (t \in Process /\ pde[t][Table(th[t].page)] = NoFrame)
  <2>1. pte[Space(t)][th[t].page] = NoFrame
    <3>1. th[t].page \in PagesOf(Current(t)) /\ ~ HasFrame(t, th[t].page)
      BY <1>1 DEF HasFrame, Local, CallOk, Giving, Searching, Locals
    <3> QED BY <1>1, <3>1 DEF Local, CallOk
  <2>2. SetEntry(t) /\ UNCHANGED <<frames, pde, raced, halted>>
    BY <1>3, <2>1 DEF page_table_map
  <2> QED BY <1>1, <2>2, EntryFrames
<1> QED BY <1>2, <1>3

(* The new page table.                                                     *)
LEMMA TableFramesStep ==
  ASSUME PagesInv, FramesInv, NEW t \in Task, NewTable(t)
  PROVE  FramesInv'
<1>1. th[t].pc = "table" /\ SetEntry(t) /\ UNCHANGED <<frames, raced, halted>> /\ ~ halted
  BY DEF NewTable, At
<1> QED BY <1>1, EntryFrames

(* The entry of a page whose frame is free already is cleared.             *)
LEMMA UnmapFrames ==
  ASSUME PagesInv, FramesInv, NEW t \in Task, page_table_pte_remove(t)
  PROVE  FramesInv'
<1>0. PICK s, page : s = Space(t) /\ page = th[t].page
  OBVIOUS
<1>1. /\ th[t].pc = "unmap" /\ ~ halted' /\ NextPage(t, "pfree", "vremove") /\ pde' = pde
      /\ pte' = [pte EXCEPT ![Space(t)][th[t].page] = NoFrame] /\ UNCHANGED <<frames, raced>>
      /\ Working(t) /\ InCall(t)
  BY DEF page_table_pte_remove, At, Working, Taking, InCall
<1>2. /\ \A u \in Task : u # t => th'[u] = th[u]
      /\ th'[t].pc \in {"pfree", "vremove"}
  <2>1. th \in [Task -> Locals] /\ "pfree" \in Label /\ "vremove" \in Label
    BY Before DEF Label
  <2>2. th' = [th EXCEPT ![t] = th'[t]] /\ th'[t].pc \in {"pfree", "vremove"}
    BY <1>1, <2>1, NextPageIs
  <2> QED BY <2>1, <2>2
<1>3. \A z \in Spaces : \A v \in Page(z) : pte'[z][v] = IF z = s /\ v = page THEN NoFrame ELSE pte[z][v]
  BY <1>0, <1>1, EntryIs
<1>4. Leaving(s, page) /\ \A z, v : ~ (z = s /\ v = page) => (Leaving(z, v)' <=> Leaving(z, v))
  BY <1>0, <1>1, <1>2 DEF Leaving
<1>5. \A u \in Task : InHand(u)' = InHand(u) /\ (NoNull(u) => NoNull(u)') /\ (PassedFull(u) => PassedFull(u)')
  <2>1. InHand(t)' = InHand(t) /\ NoNull(t)' /\ PassedFull(t)'
    BY <1>1, <1>2 DEF InHand, Tabling, NoNull, PassedFull
  <2>2. \A u \in Task : u # t /\ PassedFull(u) => PassedFull(u)'
    BY <1>1, <1>2 DEF PassedFull
  <2> QED BY <1>2, <2>1, <2>2, OthersHands
<1>6. AllFrames'
  <2> SUFFICES ASSUME NEW q \in {"K", "U"}, Sound(q), NEW g \in Frame(q) PROVE FrameInv(g)'
    BY <1>1 DEF AllFrames, Sound
  <2>1. FrameInv(g) /\ g # NoFrame /\ Marked(g[1])' = Marked(g[1])
    BY <1>1, FramePools DEF FramesInv, AllFrames, Marked
  <2>2. UsesOf(g)' = UsesOf(g)
    <3>1. \A z \in Spaces : \A v \in Page(z) :
            pte'[z][v] = g /\ ~ Leaving(z, v)' <=> pte[z][v] = g /\ ~ Leaving(z, v)
      BY <1>3, <1>4, <2>1
    <3> QED BY <1>1, <1>5, <3>1, UsesSame
  <2> QED BY <1>3, <2>1, <2>2, FrameSame
<1>7. SearchOk'
  BY <1>1, <1>5 DEF FramesInv, SearchOk
<1> QED BY <1>1, <1>6, <1>7 DEF FramesInv, PanicsOnlyWhenFull
-----------------------------------------------------------------------------
(* Nothing is marked and nothing is used at the start.                     *)
LEMMA FramesInvInit == PagesInit => FramesInv
<1> SUFFICES ASSUME PagesInit PROVE FramesInv
  OBVIOUS
<1>1. \A t \in Task : th[t].pc \in {"idle", "new"} /\ InHand(t) = {}
  BY DEF PagesInit, Idle, InHand, Tabling
<1>2. /\ \A q \in Process : \A d \in 0..Table(StackPage) : pde[q][d] = NoFrame
      /\ \A s \in Spaces : \A v \in Page(s) : pte[s][v] = NoFrame
  BY DEF PagesInit
<1>3. \A p \in {"K", "U"} : Marked(p) = {}
  <2>1. \A len \in Nat : \A i \in BitIndex(len) : ~ bitmap_scan_test(bitmap_init(len), i)
    BY InitBits
  <2>2. \A p \in {"K", "U"} : frames[p] = bitmap_init(FrameLen(p))
    BY DEF PagesInit
  <2> QED BY <2>1, <2>2, Sizes, FrameIsSome DEF Marked
<1>4. AllFrames
  <2> SUFFICES ASSUME NEW p \in {"K", "U"}, NEW f \in Frame(p) PROVE FrameInv(f)
    BY DEF AllFrames
  <2>1. f[1] = p /\ f # NoFrame
    BY FramePools
  <2>2. UsesOf(f) = {}
    BY <1>1, <1>2, <2>1, UseIs
  <2> QED BY <1>2, <1>3, <2>1, <2>2 DEF FrameInv, OnceMapped
<1>5. SearchOk
  <2>1. NoFrame # NullFrame
    BY DEF NoFrame, NullFrame
  <2> QED BY <1>1, <1>2, <2>1 DEF SearchOk, PassedFull, NoNull
<1>6. PanicsOnlyWhenFull
  BY DEF PagesInit, PanicsOnlyWhenFull
<1> QED BY <1>4, <1>5, <1>6 DEF FramesInv

(* Every step keeps the invariant about frames.                            *)
LEMMA FramesInvNext == PagesInv /\ FramesInv /\ [PagesNext]_pageVars => FramesInv'
<1> SUFFICES ASSUME PagesInv, FramesInv, [PagesNext]_pageVars PROVE FramesInv'
  OBVIOUS
<1>1. CASE UNCHANGED pageVars
  <2>1. UNCHANGED <<frames, vaddr, pte, pde, th, raced, halted>>
    BY <1>1 DEF pageVars, tables
  <2>2. AllFrames' /\ SearchOk'
    BY <2>1, StillFrames
  <2>3. PanicsOnlyWhenFull'
    BY <2>1 DEF FramesInv, PanicsOnlyWhenFull, Marked
  <2> QED BY <2>2, <2>3 DEF FramesInv
<1>2. CASE Spin
  BY <1>1, <1>2 DEF Spin
<1>3. ASSUME NEW t \in Task,
             \/ \E cnt \in 1..MaxCnt : CallAlloc(t, cnt)
             \/ \E r \in regions[t] : CallFree(t, r)
             \/ get_a_page(t) \/ Finish(t) \/ Unlock(t) \/ vaddr_remove(t) \/ pfree(t)
      PROVE  FramesInv'
  BY <1>3, CallQuiet, QuietFrames
<1>4. ASSUME NEW t \in Task, get_virtual_addr(t) \/ ScanByte(t) PROVE FramesInv'
  BY <1>4, AddrFrames, ScanByteFrames
<1>5. ASSUME NEW t \in Task, ScanBit(t) \/ SetLoad(t) PROVE FramesInv'
  BY <1>5, ScanBitQuiet, QuietFrames
<1>6. ASSUME NEW t \in Task, SetStore(t) \/ ClearStore(t) PROVE FramesInv'
  BY <1>6, SetStoreFrames, ClearStoreFrames
<1>7. ASSUME NEW t \in Task, page_table_map(t) \/ NewTable(t) PROVE FramesInv'
  BY <1>7, MapFrames, TableFramesStep
<1>8. ASSUME NEW t \in Task, page_table_pte_remove(t) PROVE FramesInv'
  BY <1>8, UnmapFrames
<1> QED BY <1>1, <1>2, <1>3, <1>4, <1>5, <1>6, <1>7, <1>8 DEF PagesNext

(* The invariant about frames holds in every reachable state.              *)
LEMMA FramesInvHolds == PagesSpec => []FramesInv
<1>1. PagesSpec => []PagesInv
  BY PagesInvHolds
<1> QED BY <1>1, FramesInvInit, FramesInvNext, PTL DEF PagesSpec
-----------------------------------------------------------------------------
(* An entry of a page table names a frame of the pool of its address space *)
(* or none.                                                                *)
LEMMA EntryTyped ==
  ASSUME PagesInv, NEW s \in Spaces, NEW v \in Page(s), pte[s][v] # NoFrame
  PROVE  /\ PoolOf(s) \in {"K", "U"} /\ pte[s][v] \in Frame(PoolOf(s))
         /\ pte[s][v][1] = PoolOf(s)
<1>1. PoolOf(s) \in {"K", "U"}
  BY DEF PoolOf
<1>2. pte[s] \in [Page(s) -> Frame(PoolOf(s)) \cup {NoFrame}]
  BY DEF PagesInv, PagesTypeOK
<1> QED BY <1>1, <1>2, FramePools

(* What holds of the frame behind a page, in a pool that can be trusted.   *)
LEMMA EntryFrame ==
  ASSUME PagesInv, FramesInv, NEW s \in Spaces, NEW v \in Page(s), pte[s][v] # NoFrame,
         Sound(PoolOf(s))
  PROVE  FrameInv(pte[s][v])
  BY EntryTyped DEF FramesInv, AllFrames

(* The frame behind two pages would be mapped twice.                       *)
LEMMA InvMappedOnce == PagesInv /\ FramesInv => MappedOnce
<1> SUFFICES ASSUME PagesInv, FramesInv, NEW s \in Spaces, NEW u \in Spaces,
                    NEW v \in Page(s), NEW w \in Page(u),
                    pte[s][v] # NoFrame, pte[s][v] = pte[u][w], Sound(PoolOf(s))
             PROVE  s = u /\ v = w
  BY DEF MappedOnce
<1>1. OnceMapped(pte[s][v])
  BY EntryFrame DEF FrameInv
<1> QED BY <1>1 DEF OnceMapped

(* What a thread was given stays given, whatever others do: a page of a    *)
(* region is mapped, so its page is marked; its frame has a use and is     *)
(* marked, as the only page whose frame is not belongs to a region in a    *)
(* call of free.                                                           *)
LEMMA InvGivenIsKept == PagesInv /\ FramesInv => GivenIsKept
<1> SUFFICES ASSUME PagesInv, FramesInv, NEW s \in Spaces, NEW v \in Given(s)
             PROVE  /\ bitmap_scan_test(vaddr[s], v)
                    /\ pte[s][v] # NoFrame
                    /\ Sound(PoolOf(s)) => pte[s][v] \in Marked(PoolOf(s))
  BY DEF GivenIsKept
<1>0. PICK t \in Task : Space(t) = s /\ \E r \in regions[t] : v \in PagesOf(r)
  BY DEF Given, PagesOf
<1>1. PICK r \in regions[t] : Space(t) = s /\ v \in PagesOf(r)
  BY <1>0
<1>2. r \in Held(t) /\ v \in Page(s) /\ pte[s][v] # NoFrame
  BY <1>1 DEF Held, PagesInv, HeldApart, Local, GivenOk
<1>3. v \in MarkedPages(s)
  BY <1>2 DEF PagesInv, MappedIsMarked
<1>4. ASSUME NEW u \in Task, Space(u) = s, th[u].pc = "unmap", th[u].page = v
      PROVE  FALSE
  <2>1. Current(u) \in Held(u) /\ v \in PagesOf(Current(u)) /\ Current(u) \notin regions[u]
    BY <1>4 DEF Held, Working, Taking, PagesInv, Local, CallOk
  <2> QED BY <1>1, <1>2, <1>4, <2>1 DEF PagesInv, HeldApart
<1>5. ~ Leaving(s, v)
  BY <1>4 DEF Leaving
<1>6. PICK f : f = pte[s][v]
  OBVIOUS
<1>7. ASSUME Sound(PoolOf(s)) PROVE f \in Marked(PoolOf(s))
  <2>1. FrameInv(f) /\ f[1] = PoolOf(s)
    BY <1>2, <1>6, <1>7, EntryFrame, EntryTyped
  <2>2. <<"page", s, v>> \in UsesOf(f)
    BY <1>2, <1>5, <1>6, UseIs
  <2> QED BY <2>1, <2>2 DEF FrameInv
<1> QED BY <1>2, <1>3, <1>6, <1>7 DEF MarkedPages

(* A page that is marked is held, and a frame that is marked has a use.    *)
LEMMA InvNothingLost == PagesInv /\ FramesInv => NothingLost
<1> SUFFICES ASSUME PagesInv, FramesInv, NEW s \in Spaces, Sound(PoolOf(s))
             PROVE  /\ {v \in Page(s) : bitmap_scan_test(vaddr[s], v)} \subseteq Given(s) \cup Busy(s)
                    /\ \A f \in Marked(PoolOf(s)) :
                         \/ f \in TableFrames
                         \/ \E u \in Spaces : \E v \in Page(u) : pte[u][v] = f
                         \/ \E t \in Task : f \in InHand(t)
  BY DEF NothingLost
<1>1. ASSUME NEW v \in Page(s), bitmap_scan_test(vaddr[s], v)
      PROVE  v \in Given(s) \cup Busy(s)
  <2>0. PICK t \in Task : Space(t) = s /\ \E r \in Held(t) : v \in PagesOf(r)
    BY <1>1 DEF PagesInv, MarkedIsHeld, MarkedPages, Holds
  <2>1. PICK r \in Held(t) : Space(t) = s /\ v \in PagesOf(r)
    BY <2>0
  <2>2. CASE r \in regions[t]
    BY <2>1, <2>2 DEF Given, PagesOf
  <2>3. CASE r = Current(t) /\ Working(t)
    <3>1. v \in Region(t) /\ th[t].pc \notin {"new", "idle", "virt", "unlock"}
      BY <2>1, <2>3 DEF Region, PagesOf, Current, Working, Giving, Searching, Taking
    <3> QED BY <2>1, <3>1 DEF Busy
  <2> QED BY <2>1, <2>2, <2>3 DEF Held
<1>2. ASSUME NEW f \in Marked(PoolOf(s))
      PROVE  \/ f \in TableFrames
             \/ \E u \in Spaces : \E v \in Page(u) : pte[u][v] = f
             \/ \E t \in Task : f \in InHand(t)
  <2>1. PoolOf(s) \in {"K", "U"} /\ f \in Frame(PoolOf(s)) /\ f[1] = PoolOf(s) /\ f # NoFrame
    BY FramePools DEF PoolOf, Marked
  <2>2. FrameInv(f)
    BY <2>1 DEF FramesInv, AllFrames
  <2>3. PICK x : x \in UsesOf(f)
    BY <2>1, <2>2 DEF FrameInv
  <2>4. \/ \E t \in Task : f \in InHand(t)
        \/ \E q \in Process : \E d \in 0..Table(StackPage) : pde[q][d] = f
        \/ \E u \in Spaces : \E v \in Page(u) : pte[u][v] = f
    BY <2>3, UseIs
  <2> QED BY <2>1, <2>4 DEF TableFrames
<1> QED BY <1>1, <1>2

(* A page table is a use, so its frame is marked and has no other.         *)
LEMMA InvTablesApart == PagesInv /\ FramesInv => TablesApart
<1> SUFFICES ASSUME PagesInv, FramesInv, ~ raced PROVE TablesApart
  BY DEF TablesApart
<1>1. Sound("K") /\ Sound("U")
  BY DEF Sound
<1>2. ASSUME NEW q \in Process, NEW d \in 0..Table(StackPage), pde[q][d] # NoFrame
      PROVE  /\ pde[q][d] \in Frame("K") /\ FrameInv(pde[q][d])
             /\ <<"table", q, d>> \in UsesOf(pde[q][d])
  <2>0. pde \in [Process -> [0..Table(StackPage) -> Frame("K") \cup {NoFrame, NullFrame}]]
    BY DEF PagesInv, PagesTypeOK
  <2>1. pde[q][d] # NullFrame
    BY DEF FramesInv, SearchOk
  <2>2. pde[q][d] \in Frame("K")
    BY <1>2, <2>0, <2>1
  <2> QED BY <1>1, <2>2, UseIs DEF FramesInv, AllFrames
<1>3. TableFrames \subseteq Marked("K")
  <2> SUFFICES ASSUME NEW f \in TableFrames PROVE f \in Marked("K")
    OBVIOUS
  <2>1. PICK q \in Process, d \in 0..Table(StackPage) : f = pde[q][d] /\ f # NoFrame
    BY DEF TableFrames
  <2>2. f[1] = "K" /\ FrameInv(f) /\ UsesOf(f) # {}
    BY <1>2, <2>1, FramePools
  <2> QED BY <2>2 DEF FrameInv
<1>4. TablesOnce
  <2> SUFFICES ASSUME NEW p \in Process, NEW q \in Process,
                      NEW d \in 0..Table(StackPage), NEW e \in 0..Table(StackPage),
                      pde[p][d] # NoFrame, pde[p][d] = pde[q][e]
               PROVE  p = q /\ d = e
    BY DEF TablesOnce
  <2>1. PICK f : f = pde[p][d]
    OBVIOUS
  <2>2. FrameInv(f) /\ <<"table", p, d>> \in UsesOf(f) /\ <<"table", q, e>> \in UsesOf(f)
    BY <1>2, <2>1
  <2>3. <<"table", p, d>> = <<"table", q, e>>
    BY <2>2 DEF FrameInv
  <2> QED BY <2>3
<1>5. ASSUME NEW s \in Spaces, NEW v \in Page(s), pte[s][v] \in TableFrames
      PROVE  Leaving(s, v)
  <2> SUFFICES ASSUME ~ Leaving(s, v) PROVE FALSE
    OBVIOUS
  <2>1. PICK q \in Process, d \in 0..Table(StackPage) : pte[s][v] = pde[q][d] /\ pde[q][d] # NoFrame
    BY <1>5 DEF TableFrames
  <2>2. PICK f : f = pde[q][d]
    OBVIOUS
  <2>3. FrameInv(f) /\ <<"table", q, d>> \in UsesOf(f)
    BY <1>2, <2>1, <2>2
  <2>4. <<"page", s, v>> \in UsesOf(f)
    BY <2>1, <2>2, UseIs
  <2>5. <<"table", q, d>> # <<"page", s, v>>
    OBVIOUS
  <2> QED BY <2>3, <2>4, <2>5 DEF FrameInv
<1> QED BY <1>3, <1>4, <1>5 DEF TablesApart

(* The variables of the page allocator have their types, for every number  *)
(* of threads and every size of the pools.                                 *)
THEOREM PagesTypeCorrect == PagesSpec => []PagesTypeOK
<1>1. PagesInv => PagesTypeOK
  BY DEF PagesInv
<1> QED BY <1>1, PagesInvHolds, PTL

(* malloc_page and mfree_page never map a frame of the user pool at two    *)
(* pages, however the threads of the two pools interleave at the loads and *)
(* stores of a bitmap; and none of the kernel pool before a race.          *)
THEOREM FramesMappedOnce == PagesSpec => []MappedOnce
  BY InvMappedOnce, PagesInvHolds, FramesInvHolds, PTL

(* What malloc_page has returned stays mapped and its page marked until    *)
(* mfree_page is called for it; its frame stays marked, in the user pool   *)
(* always, in the kernel pool unless there is a race.                      *)
THEOREM GivenStaysGiven == PagesSpec => []GivenIsKept
  BY InvGivenIsKept, PagesInvHolds, FramesInvHolds, PTL

(* No page and no frame is lost by the two functions: for processes never, *)
(* for kernel threads not before a race.                                   *)
THEOREM NothingIsLost == PagesSpec => []NothingLost
  BY InvNothingLost, PagesInvHolds, FramesInvHolds, PTL

(* The assertions of page_table_map and get_virtual_addr never fail before *)
(* a race; that of bitmap_scan fails in a full bitmap only.                *)
THEOREM PanicMeansFull == PagesSpec => []PanicsOnlyWhenFull
<1>1. FramesInv => PanicsOnlyWhenFull
  BY DEF FramesInv
<1> QED BY <1>1, FramesInvHolds, PTL

(* Page tables are taken from the kernel pool without its lock.  Until two *)
(* uses of its bitmap have got in each other's way, each has a frame of    *)
(* its own, which is marked and mapped nowhere.                            *)
THEOREM TablesStayApart == PagesSpec => []TablesApart
  BY InvTablesApart, PagesInvHolds, FramesInvHolds, PTL
-----------------------------------------------------------------------------
(* The regions of two calls to malloc_page share no page of an address     *)
(* space.                                                                  *)
RegionsApart ==
  \A t, u \in Task : Space(t) = Space(u) =>
    \A r \in regions[t], q \in regions[u] :
      (\E v \in PagesOf(r) : v \in PagesOf(q)) => t = u /\ r = q

(* malloc_page never hands out a page that somebody else still has.        *)
THEOREM RegionsStayApart == PagesSpec => []RegionsApart
<1>1. PagesInv => RegionsApart
  <2> SUFFICES ASSUME PagesInv, NEW t \in Task, NEW u \in Task, Space(t) = Space(u),
                      NEW r \in regions[t], NEW q \in regions[u],
                      \E v \in PagesOf(r) : v \in PagesOf(q)
               PROVE  t = u /\ r = q
    BY DEF RegionsApart
  <2>1. r \in Held(t) /\ q \in Held(u)
    BY DEF Held
  <2> QED BY <2>1 DEF PagesInv, HeldApart
<1> QED BY <1>1, PagesInvHolds, PTL

(* What a step may not do: change the frame of a page that is given, of    *)
(* whichever thread.                                                       *)
GivenUnmoved ==
  \A t \in Task : \A r \in regions[t] : \A v \in PagesOf(r) :
    pte'[Space(t)][v] = pte[Space(t)][v]

(* An entry that is set or cleared belongs to the region in hand.          *)
LEMMA EntryInHand ==
  ASSUME PagesInv, NEW t \in Task, Working(t), NEW x,
         pte' = [pte EXCEPT ![Space(t)][th[t].page] = x]
  PROVE  GivenUnmoved
<1> SUFFICES ASSUME NEW u \in Task, NEW r \in regions[u], NEW v \in PagesOf(r)
             PROVE  pte'[Space(u)][v] = pte[Space(u)][v]
  BY DEF GivenUnmoved
<1>1. Current(t) \in Held(t) /\ th[t].page \in PagesOf(Current(t)) /\ Current(t) \notin regions[t]
  BY DEF Held, PagesInv, Local, CallOk
<1>2. r \in Held(u)
  BY DEF Held
<1>3. Space(u) # Space(t) \/ v # th[t].page
  <2> SUFFICES ASSUME Space(u) = Space(t), v = th[t].page PROVE FALSE
    OBVIOUS
  <2>1. t = u /\ Current(t) = r
    BY <1>1, <1>2 DEF PagesInv, HeldApart
  <2> QED BY <1>1, <2>1
<1>4. pte = [s \in Spaces |-> pte[s]] /\ Space(u) \in Spaces
  BY Before DEF PagesInv, Shape
<1> QED BY <1>3, <1>4

(* No step changes the frame of a page that is given.                      *)
LEMMA NobodyMoves ==
  ASSUME PagesInv, [PagesNext]_pageVars PROVE GivenUnmoved
<1>1. ASSUME UNCHANGED pte PROVE GivenUnmoved
  BY <1>1 DEF GivenUnmoved
<1>2. CASE UNCHANGED pageVars
  BY <1>1, <1>2 DEF pageVars, tables
<1>3. CASE Spin
  BY <1>1, <1>3 DEF Spin, pageVars, tables
<1>4. ASSUME NEW t \in Task, page_table_map(t) PROVE GivenUnmoved
  <2>1. Working(t)
    BY <1>4 DEF page_table_map, At, Working, Giving, Searching
  <2>2. UNCHANGED pte \/ SetEntry(t)
    BY <1>4 DEF page_table_map, panic_spin, tables
  <2>3. CASE SetEntry(t)
    BY <2>1, <2>3, EntryInHand DEF SetEntry
  <2> QED BY <1>1, <2>2, <2>3
<1>5. ASSUME NEW t \in Task, NewTable(t) PROVE GivenUnmoved
  <2>1. Working(t) /\ SetEntry(t)
    BY <1>5 DEF NewTable, At, Working, Giving, Searching
  <2> QED BY <2>1, EntryInHand DEF SetEntry
<1>6. ASSUME NEW t \in Task, page_table_pte_remove(t) PROVE GivenUnmoved
  <2>1. Working(t) /\ pte' = [pte EXCEPT ![Space(t)][th[t].page] = NoFrame]
    BY <1>6 DEF page_table_pte_remove, At, Working, Taking
  <2> QED BY <2>1, EntryInHand
<1>7. ASSUME NEW t \in Task,
             \/ \E cnt \in 1..MaxCnt : CallAlloc(t, cnt)
             \/ get_a_page(t) \/ Finish(t) \/ Unlock(t)
             \/ \E r \in regions[t] : CallFree(t, r)
             \/ pfree(t) \/ vaddr_remove(t) \/ ScanBit(t) \/ SetLoad(t)
             \/ SetStore(t) \/ ClearStore(t)
      PROVE  UNCHANGED pte
  BY <1>7 DEF CallAlloc, get_a_page, ScanBit, SetLoad, SetStore, Finish, Unlock, CallFree, pfree,
              ClearStore, vaddr_remove, tables
<1>8. ASSUME NEW t \in Task, get_virtual_addr(t) \/ ScanByte(t) PROVE UNCHANGED pte
  BY <1>8 DEF get_virtual_addr, ScanByte, panic_spin, tables
<1> QED BY <1>1, <1>2, <1>3, <1>4, <1>5, <1>6, <1>7, <1>8 DEF PagesNext

(* The memory behind an address that malloc_page has returned stays the    *)
(* same until mfree_page is called for it: no step of any thread maps the  *)
(* page elsewhere or unmaps it.                                            *)
THEOREM GivenNeverMoves == PagesSpec => [][GivenUnmoved]_pageVars
<1>1. PagesInv /\ [PagesNext]_pageVars => [GivenUnmoved]_pageVars
  BY NobodyMoves
<1> QED BY <1>1, PagesInvHolds, PTL DEF PagesSpec
-----------------------------------------------------------------------------
(* A step hands one block out to t, or takes one back.  The block that is  *)
(* handed out has only cells that nobody holds, if the pool of t can be    *)
(* trusted.                                                                *)
CellsOf(b) == {b[x] : x \in DOMAIN b}

HandsOut(t, b) ==
  /\ b \in Owned'[t] \ Owned[t]
  /\ Owned' = [Owned EXCEPT ![t] = @ \cup {b}]
  /\ Sound(Pool(t)) => \A u \in Task : \A c \in Owned[u] : CellsOf(b) \cap CellsOf(c) = {}

GetsBack(t, b) ==
  /\ b \in Owned[t] \ Owned'[t]
  /\ Owned' = [Owned EXCEPT ![t] = @ \ {b}]

Allocates == \/ Owned' = Owned
             \/ \E t \in Task : \E b : HandsOut(t, b) \/ GetsBack(t, b)

(* A step that leaves the regions alone changes no block.                  *)
LEMMA OwnedStays ==
  ASSUME GivenUnmoved, UNCHANGED regions PROVE Owned' = Owned
<1>1. ASSUME NEW t \in Task, NEW r \in regions[t] PROVE Behind(t, r)' = Behind(t, r)
  BY DEF GivenUnmoved, PagesOf, Behind
<1>2. \A t \in Task : {Behind(t, r)' : r \in regions[t]} = {Behind(t, r) : r \in regions[t]}
  BY <1>1
<1> QED BY <1>2 DEF Owned

(* Finish hands out frames that are behind no other region.                *)
LEMMA FinishGives ==
  ASSUME PagesInv, FramesInv, NEW t \in Task, Finish(t) PROVE Allocates
<1> DEFINE new == Current(t)
<1>0. PICK b : b = Behind(t, new)
  OBVIOUS
<1>1. /\ Working(t) /\ pte' = pte /\ th[t].pc = "done"
      /\ regions' = [regions EXCEPT ![t] = @ \cup {new}]
  BY DEF Finish, At, Working, tables, Current
<1>2. /\ regions \in [Task -> SUBSET (Nat \X (1..MaxCnt))] /\ new \in Held(t) /\ new \notin regions[t]
      /\ Space(t) \in Spaces
      /\ PagesOf(new) \subseteq Page(Space(t)) /\ \A v \in PagesOf(new) : pte[Space(t)][v] # NoFrame
  BY <1>1, Before DEF Held, PagesInv, HeldApart, Local, CallOk, HasFrame
<1>3. ASSUME Sound(Pool(t)), NEW u \in Task, NEW r \in regions[u], NEW v \in PagesOf(new), NEW w \in PagesOf(r)
      PROVE  pte[Space(t)][v] # pte[Space(u)][w]
  <2> SUFFICES ASSUME pte[Space(t)][v] = pte[Space(u)][w] PROVE FALSE
    OBVIOUS
  <2>1. r \in Held(u) /\ Space(u) \in Spaces /\ w \in Page(Space(u)) /\ v \in Page(Space(t))
    BY <1>2, Before DEF Held
  <2>2. MappedOnce /\ Sound(PoolOf(Space(t)))
    BY <1>3, InvMappedOnce, Places
  <2>3. Space(t) = Space(u) /\ v = w
    BY <1>2, <2>1, <2>2 DEF MappedOnce
  <2>4. t = u /\ new = r
    BY <1>2, <2>1, <2>3 DEF PagesInv, HeldApart
  <2> QED BY <1>2, <2>4
<1> HIDE DEF new
<1>4. \A u \in Task : \A r : Behind(u, r)' = Behind(u, r)
  BY <1>1 DEF Behind
<1>5. \A u \in Task : regions'[u] = IF u = t THEN regions[u] \cup {new} ELSE regions[u]
  BY <1>1, <1>2
<1>6. Owned' = [Owned EXCEPT ![t] = @ \cup {b}]
  <2>1. \A u \in Task : Owned'[u] = {Behind(u, r) : r \in regions'[u]}
    BY <1>4 DEF Owned
  <2>2. \A u \in Task : u # t => Owned'[u] = Owned[u]
    BY <1>5, <2>1 DEF Owned
  <2>3. Owned'[t] = Owned[t] \cup {b}
    BY <1>0, <1>5, <2>1 DEF Owned
  <2> QED BY <2>2, <2>3 DEF Owned
<1>7. ASSUME Sound(Pool(t)), NEW u \in Task, NEW c \in Owned[u]
      PROVE  CellsOf(b) \cap CellsOf(c) = {}
  <2>1. PICK r \in regions[u] : c = Behind(u, r)
    BY DEF Owned
  <2>2. CellsOf(b) = {pte[Space(t)][v] : v \in PagesOf(new)}
    BY <1>0 DEF CellsOf, Behind, PagesOf
  <2>3. CellsOf(c) = {pte[Space(u)][w] : w \in PagesOf(r)}
    BY <2>1 DEF CellsOf, Behind, PagesOf
  <2> QED BY <1>3, <1>7, <2>2, <2>3
<1>9. CASE b \in Owned[t]
  BY <1>6, <1>9 DEF Owned, Allocates
<1>10. CASE b \notin Owned[t]
  <2>1. b \in Owned'[t] \ Owned[t]
    BY <1>6, <1>10 DEF Owned
  <2> QED BY <1>6, <1>7, <2>1 DEF HandsOut, Allocates
<1> QED BY <1>9, <1>10

(* CallFree takes one block back.                                          *)
LEMMA FreeTakesBack ==
  ASSUME PagesInv, NEW t \in Task, NEW q \in regions[t], CallFree(t, q) PROVE Allocates
<1> DEFINE rest == {Behind(t, r) : r \in regions[t] \ {q}}
<1>0. PICK b : b = Behind(t, q)
  OBVIOUS
<1>1. /\ pte' = pte /\ regions' = [regions EXCEPT ![t] = @ \ {q}]
      /\ regions \in [Task -> SUBSET (Nat \X (1..MaxCnt))]
  BY Before DEF CallFree, tables
<1>2. \A u \in Task : \A r : Behind(u, r)' = Behind(u, r)
  BY <1>1 DEF Behind
<1>3. \A u \in Task : regions'[u] = IF u = t THEN regions[u] \ {q} ELSE regions[u]
  BY <1>1
<1>4. Owned' = [Owned EXCEPT ![t] = rest]
  <2>1. \A u \in Task : Owned'[u] = {Behind(u, r) : r \in regions'[u]}
    BY <1>2 DEF Owned
  <2>2. \A u \in Task : u # t => Owned'[u] = Owned[u]
    BY <1>3, <2>1 DEF Owned
  <2>3. Owned'[t] = rest
    BY <1>3, <2>1
  <2> HIDE DEF rest
  <2> QED BY <2>2, <2>3 DEF Owned
<1>5. Owned[t] = rest \cup {b}
  BY <1>0 DEF Owned
<1> HIDE DEF rest
<1>6. CASE b \in rest
  <2>1. rest = Owned[t]
    BY <1>5, <1>6
  <2>2. Owned = [Owned EXCEPT ![t] = Owned[t]]
    BY DEF Owned
  <2> QED BY <1>4, <2>1, <2>2 DEF Allocates
<1>7. CASE b \notin rest
  <2>1. rest = Owned[t] \ {b} /\ b \in Owned[t] \ Owned'[t]
    BY <1>4, <1>5, <1>7 DEF Owned
  <2> QED BY <1>4, <2>1 DEF GetsBack, Allocates
<1> QED BY <1>6, <1>7

(* Every step is one of the allocator's, or hands nothing out or back.     *)
LEMMA StepAllocates ==
  ASSUME PagesInv, FramesInv, [PagesNext]_pageVars PROVE Allocates
<1>0. GivenUnmoved
  BY NobodyMoves
<1>1. ASSUME UNCHANGED regions PROVE Allocates
  BY <1>0, <1>1, OwnedStays DEF Allocates
<1>2. CASE UNCHANGED pageVars \/ Spin
  BY <1>1, <1>2 DEF pageVars, Spin
<1>3. ASSUME NEW t \in Task, \/ \E cnt \in 1..MaxCnt : CallAlloc(t, cnt)
                             \/ get_a_page(t) \/ ScanBit(t) \/ SetLoad(t) \/ SetStore(t) \/ NewTable(t)
                             \/ Unlock(t) \/ pfree(t) \/ ClearStore(t) \/ page_table_pte_remove(t)
                             \/ vaddr_remove(t)
      PROVE  UNCHANGED regions
  BY <1>3 DEF CallAlloc, get_a_page, ScanBit, SetLoad, SetStore, NewTable, Unlock, pfree, ClearStore,
              page_table_pte_remove, vaddr_remove
<1>4. ASSUME NEW t \in Task, get_virtual_addr(t) \/ ScanByte(t) \/ page_table_map(t)
      PROVE  UNCHANGED regions
  BY <1>4 DEF get_virtual_addr, ScanByte, page_table_map, panic_spin
<1> QED BY <1>1, <1>2, <1>3, <1>4, FinishGives, FreeTakesBack DEF PagesNext

(* The steps of the abstract allocator: of all threads, before a race, ... *)
LEMMA AllThreads ==
  ASSUME Allocates, ~ raced PROVE P!AllocatorNext \/ Owned' = Owned
<1>1. CASE Owned' = Owned
  BY <1>1
<1>2. ASSUME NEW t \in Task, NEW b, HandsOut(t, b) PROVE P!AllocatorNext
  <2>1. \A u \in Task : \A c \in Owned[u] : CellsOf(b) \cap CellsOf(c) = {}
    BY <1>2 DEF HandsOut, Sound
  <2>2. P!Cells(b) = CellsOf(b) /\ P!Taken = UNION {CellsOf(c) : c \in UNION {Owned[u] : u \in Task}}
    BY DEF P!Taken, P!Cells, CellsOf
  <2>3. P!Cells(b) \cap P!Taken = {}
    BY <2>1, <2>2
  <2>4. P!Give(t, b) /\ b \in Owned'[t] \ Owned[t]
    BY <1>2, <2>3 DEF P!Give, HandsOut
  <2> QED BY <2>4, Zenon DEF P!AllocatorNext
<1>3. ASSUME NEW t \in Task, NEW b, GetsBack(t, b) PROVE P!AllocatorNext
  <2>1. P!TakeBack(t, b) /\ b \in Owned[t] \ Owned'[t]
    BY <1>3 DEF P!TakeBack, GetsBack
  <2> QED BY <2>1, Zenon DEF P!AllocatorNext
<1> QED BY <1>1, <1>2, <1>3 DEF Allocates

(* ... and of the processes in any case.                                   *)
UserOwned == [t \in Process |-> Owned[t]]

(* The blocks of the processes are handed out and taken back one by one.   *)
LEMMA AllProcesses ==
  ASSUME Allocates PROVE User!AllocatorNext \/ UserOwned' = UserOwned
<1>0. Process \subseteq Task /\ Kernel \cap Process = {} /\ Owned = [t \in Task |-> Owned[t]]
  BY PagesAssumption DEF Task, Owned
<1>1. CASE Owned' = Owned
  BY <1>1 DEF UserOwned
<1>2. ASSUME NEW t \in Task, NEW b, HandsOut(t, b) PROVE User!AllocatorNext \/ UserOwned' = UserOwned
  <2>0. \A u \in Task : u # t => Owned'[u] = Owned[u]
    BY <1>0, <1>2 DEF HandsOut
  <2>1. CASE t \notin Process
    BY <1>0, <2>0, <2>1 DEF UserOwned
  <2>2. CASE t \in Process
    <3>1. \A u \in Process : \A c \in Owned[u] : CellsOf(b) \cap CellsOf(c) = {}
      BY <1>0, <1>2, <2>2, Places DEF HandsOut, Sound
    <3>2. /\ User!Cells(b) = CellsOf(b)
          /\ User!Taken = UNION {CellsOf(c) : c \in UNION {Owned[u] : u \in Process}}
      BY DEF User!Taken, User!Cells, CellsOf
    <3>3. User!Cells(b) \cap User!Taken = {}
      BY <3>1, <3>2
    <3>4. UserOwned' = [UserOwned EXCEPT ![t] = @ \cup {b}]
      BY <1>0, <1>2, <2>2 DEF HandsOut, UserOwned
    <3>5. User!Give(t, b) /\ b \in UserOwned'[t] \ UserOwned[t]
      BY <1>2, <2>2, <3>3, <3>4 DEF User!Give, HandsOut, UserOwned
    <3> QED BY <2>2, <3>5, Zenon DEF User!AllocatorNext, UserOwned
  <2> QED BY <2>1, <2>2
<1>3. ASSUME NEW t \in Task, NEW b, GetsBack(t, b) PROVE User!AllocatorNext \/ UserOwned' = UserOwned
  <2>0. \A u \in Task : u # t => Owned'[u] = Owned[u]
    BY <1>0, <1>3 DEF GetsBack
  <2>1. CASE t \notin Process
    BY <1>0, <2>0, <2>1 DEF UserOwned
  <2>2. CASE t \in Process
    <3>4. UserOwned' = [UserOwned EXCEPT ![t] = @ \ {b}]
      BY <1>0, <1>3, <2>2 DEF GetsBack, UserOwned
    <3>5. User!TakeBack(t, b) /\ b \in UserOwned[t] \ UserOwned'[t]
      BY <1>3, <2>2, <3>4 DEF User!TakeBack, GetsBack, UserOwned
    <3> QED BY <2>2, <3>5, Zenon DEF User!AllocatorNext, UserOwned
  <2> QED BY <2>1, <2>2
<1> QED BY <1>1, <1>2, <1>3 DEF Allocates

(* malloc_page and mfree_page, with all their steps and whatever threads   *)
(* interleave, are an allocator of frames to the processes: what is handed *)
(* out is behind no other region, and stays as it is until it is freed.    *)
(* To all threads they are one as long as the bitmap of the kernel pool    *)
(* has not been raced for.                                                 *)
THEOREM PagesImplementAllocator == PagesSpec => IsAllocator
<1>1. PagesInit => P!AllocatorInit /\ User!AllocatorInit
  <2>1. PagesInit => Owned = [t \in Task |-> {}]
    BY DEF PagesInit, Owned
  <2>2. Owned = [t \in Task |-> {}] => [t \in Process |-> Owned[t]] = [t \in Process |-> {}]
    BY DEF Task
  <2> QED BY <2>1, <2>2 DEF P!AllocatorInit, User!AllocatorInit
<1>2. PagesInv /\ FramesInv /\ [PagesNext]_pageVars => [~ raced => P!AllocatorNext]_Owned
  BY StepAllocates, AllThreads
<1>3. PagesInv /\ FramesInv /\ [PagesNext]_pageVars => [User!AllocatorNext]_([t \in Process |-> Owned[t]])
  BY StepAllocates, AllProcesses DEF UserOwned
<1> QED BY <1>1, <1>2, <1>3, PagesInvHolds, FramesInvHolds, PTL
       DEF PagesSpec, IsAllocator, User!AllocatorSpec
=============================================================================
