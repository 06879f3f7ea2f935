-------------------------------- MODULE Bitmap --------------------------------
(***************************************************************************)
(* A bitmap under its operations, from bitmap_init on: runs of bits are    *)
(* found and set, and bits are cleared one at a time, in any order, so     *)
(* that every bitmap comes up.                                             *)
(***************************************************************************)
EXTENDS BitmapOps

CONSTANT btmp_bytes_len

ASSUME LenAssumption == btmp_bytes_len \in Nat \ {0}

VARIABLES btmp,   \* struct bitmap
          used    \* the indices of the bits that have been set and not cleared

bitmapVars == <<btmp, used>>

Index == 0..(ByteBits * btmp_bytes_len - 1)

BitmapInit == btmp = bitmap_init(btmp_bytes_len) /\ used = {}

(* get_virtual_addr and palloc: find cnt free bits and set them.           *)
Take(cnt) ==
  LET start == bitmap_scan(btmp, cnt)
  IN  /\ start \notin {NotFound, Panics}
      /\ btmp' = bitmap_set_run(btmp, start, cnt, 1)
      /\ used' = used \cup (start..(start + cnt - 1))

(* vaddr_remove and pfree: clear a bit.                                    *)
Clear(i) == /\ btmp' = bitmap_set(btmp, i, 0)
            /\ used' = used \ {i}

BitmapNext == \/ \E cnt \in 1..(ByteBits * btmp_bytes_len) : Take(cnt)
              \/ \E i \in used : Clear(i)

BitmapSpec == BitmapInit /\ [][BitmapNext]_bitmapVars

(* The bytes hold exactly the bits that were set and not cleared: setting  *)
(* and clearing one bit leaves its neighbours alone, across the borders of *)
(* bytes too.                                                              *)
BytesAreUsed == /\ btmp \in Bitmaps(btmp_bytes_len)
                /\ used = {i \in Index : bitmap_scan_test(btmp, i)}

(* As long as a bit is free bitmap_scan is first fit: it returns the least *)
(* index at which cnt bits are free, and -1 if there is none.              *)
FirstFit ==
  used # Index =>
    \A cnt \in 1..(ByteBits * btmp_bytes_len) :
      LET fits == {s \in Index : (s..(s + cnt - 1)) \subseteq (Index \ used)}
      IN  bitmap_scan(btmp, cnt) = IF fits = {} THEN NotFound ELSE Min(fits)
=============================================================================
