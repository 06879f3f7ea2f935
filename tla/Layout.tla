------------------------------- MODULE Layout --------------------------------
(***************************************************************************)
(* Where things are in physical memory: the size the loader finds out, the *)
(* page tables it makes (boot/loader.S), and the pools and bitmaps that    *)
(* mem_pool_init places behind and below them (kernel/memory.c).           *)
(*                                                                         *)
(* Frames are numbered; a bitmap is measured in bytes from                 *)
(* MEM_BITMAP_BASE.  The kernel's addresses of the first megabyte are the  *)
(* physical ones plus 0xc0000000.                                          *)
(***************************************************************************)
EXTENDS Integers, Sequences

PG_SIZE == 4096
LowFrames == 256         \* the first megabyte
AllFrames == 1048576     \* 2^20: an address has 32 bits

(* total_mem_bytes: the greatest end of an area, by a signed comparison of *)
(* 32-bit sums.                                                            *)
total_mem(ards) ==
  LET sum(area) == (area.base + area.length) % AllFrames
      signed(v) == IF v >= AllFrames \div 2 THEN v - AllFrames ELSE v
      edx[i \in 0..Len(ards)] ==
        IF i = 0 THEN 0
        ELSE IF signed(edx[i - 1]) >= signed(sum(ards[i])) THEN edx[i - 1] ELSE sum(ards[i])
  IN  edx[Len(ards)]

(* The areas that a BIOS reports for a machine of n frames: conventional   *)
(* memory, all above the first megabyte, and its own ROM, whose sum wraps. *)
Areas(n) == <<[base |-> 0, length |-> 160],
              [base |-> LowFrames, length |-> n - LowFrames],
              [base |-> AllFrames - 64, length |-> 64]>>

(* setup_page: the frames of the page directory, of the table of the first *)
(* megabyte and of the tables of directory entries 769 to 1022.            *)
PageDir == LowFrames
Tables == {PageDir + 1} \cup {PageDir + 2 + (i - 769) : i \in 769..1022}

(* Mutant of vaddr_bits: it starts behind the first bitmap.                *)
vaddr_bits_over(kbm_len, ubm_len) == kbm_len

(* Where the bitmap of the kernel's addresses starts.                      *)
vaddr_bits(kbm_len, ubm_len) == kbm_len + ubm_len

(* The pools, their bitmaps, and the bitmap of the kernel's addresses.     *)
mem_pool_init(all_mem) ==
  LET used_mem == 256 + LowFrames
      kernel_free_pages == (all_mem - used_mem) \div 2
      user_free_pages == all_mem - used_mem - kernel_free_pages
      kbm_len == kernel_free_pages \div 8
      ubm_len == user_free_pages \div 8
  IN  [kernel |-> [phy_start |-> used_mem, bits |-> 0, len |-> kbm_len],
       user   |-> [phy_start |-> used_mem + kernel_free_pages, bits |-> kbm_len, len |-> ubm_len],
       vaddr  |-> [bits |-> vaddr_bits(kbm_len, ubm_len), len |-> kbm_len]]

(* The room from MEM_BITMAP_BASE to the PCB of the main thread.            *)
BitmapRoom == 4 * PG_SIZE
-----------------------------------------------------------------------------
(* On a machine with n frames the loader finds n; the frames of the page   *)
(* tables, of the kernel pool and of the user pool are different ones that *)
(* exist, and at most seven of each pool are not managed; the three        *)
(* bitmaps do not overlap and end below the PCB of the main thread.        *)
Fits(n) ==
  LET m == mem_pool_init(total_mem(Areas(n)))
      above(pool) == pool.phy_start + 8 * pool.len
  IN  /\ total_mem(Areas(n)) = n
      /\ \A f \in {PageDir} \cup Tables : f < m.kernel.phy_start
      /\ above(m.kernel) <= m.user.phy_start /\ m.user.phy_start - above(m.kernel) < 8
      /\ above(m.user) <= n /\ n - above(m.user) < 8
      /\ m.kernel.bits + m.kernel.len <= m.user.bits
      /\ m.user.bits + m.user.len <= m.vaddr.bits
      /\ m.vaddr.bits + m.vaddr.len <= BitmapRoom
=============================================================================
