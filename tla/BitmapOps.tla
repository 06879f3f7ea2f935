------------------------------ MODULE BitmapOps ------------------------------
(***************************************************************************)
(* The functions of lib/kernel/bitmap.c.  A bitmap is its bytes, and a     *)
(* byte is the set of the offsets of its bits that are 1.                  *)
(***************************************************************************)
EXTENDS Integers, FiniteSetsExt

CONSTANT ByteBits   \* 8 in the code

ASSUME ByteAssumption == ByteBits \in Nat \ {0}

Offsets == 0..(ByteBits - 1)
Bitmaps(len) == [0..(len - 1) -> SUBSET Offsets]
BitsLen(btmp) == ByteBits * (Max(DOMAIN btmp) + 1)

NotFound == -1   \* bitmap_scan returns -1
Panics == -2     \* the assertion of bitmap_scan fails: every byte is full

bitmap_init(len) == [b \in 0..(len - 1) |-> {}]

bitmap_scan_test(btmp, i) == (i % ByteBits) \in btmp[i \div ByteBits]

(* Mutant of count: it is not reset by a bit that is set.                  *)
count_on(btmp, first) ==
  LET run[i \in first..(BitsLen(btmp) - 1)] ==
        (IF i = first THEN 0 ELSE run[i - 1])
          + (IF bitmap_scan_test(btmp, i) THEN 0 ELSE 1)
  IN  run

(* The variable count of the loop of bitmap_scan, which starts at first:   *)
(* the number of free bits in a row that end at i.                         *)
count(btmp, first) ==
  LET run[i \in first..(BitsLen(btmp) - 1)] ==
        IF bitmap_scan_test(btmp, i) THEN 0
        ELSE IF i = first THEN 1 ELSE run[i - 1] + 1
  IN  run

(* bitmap_scan: skip the bytes that are full, find the first free bit of   *)
(* the next one, then go on bit by bit to the end of a run of cnt.         *)
bitmap_scan(btmp, cnt) ==
  LET open == {b \in DOMAIN btmp : btmp[b] # Offsets}
  IN  IF open = {}
      THEN Panics
      ELSE LET first == Min(open) * ByteBits + Min(Offsets \ btmp[Min(open)])
               run == count(btmp, first)
               hits == {i \in DOMAIN run : run[i] = cnt}
           IN  IF hits = {} THEN NotFound ELSE Min(hits) - cnt + 1

(* Mutant of bitmap_set: the byte is overwritten.                          *)
bitmap_set_byte(btmp, i, value) ==
  [btmp EXCEPT ![i \div ByteBits] = IF value = 1 THEN {i % ByteBits} ELSE {}]

bitmap_set(btmp, i, value) ==
  [btmp EXCEPT ![i \div ByteBits] =
     IF value = 1 THEN @ \cup {i % ByteBits} ELSE @ \ {i % ByteBits}]

(* bitmap_set in a loop over the cnt bits from i on.                       *)
bitmap_set_run(btmp, i, cnt, value) ==
  LET after[n \in 0..cnt] ==
        IF n = 0 THEN btmp ELSE bitmap_set(after[n - 1], i + n - 1, value)
  IN  after[cnt]
=============================================================================
