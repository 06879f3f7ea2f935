---------------------------- MODULE BitmapProofs -----------------------------
(***************************************************************************)
(* What the functions of lib/kernel/bitmap.c do, for every size of a byte, *)
(* every length of a bitmap and every content.                             *)
(*                                                                         *)
(* The loops of bitmap_scan and bitmap_set_run are recursive functions.    *)
(* Facts about them are proved from a least counterexample: a set of       *)
(* natural numbers that is not empty has a least element.                  *)
(***************************************************************************)
EXTENDS BitmapOps, WellFoundedInduction, TLAPS

(* The indices of the bits of a bitmap of len bytes.                       *)
BitIndex(len) == 0..(ByteBits * len - 1)

(* The bits that are not set.                                              *)
FreeBits(btmp, len) == {i \in BitIndex(len) : ~ bitmap_scan_test(btmp, i)}

(* The indices at which cnt bits in a row are free.                        *)
FreeRuns(btmp, len, cnt) == {s \in BitIndex(len) : s..(s + cnt - 1) \subseteq FreeBits(btmp, len)}
-----------------------------------------------------------------------------
(* A set of natural numbers has a least element, which Min returns.        *)
LEMMA Least ==
  ASSUME NEW T \in SUBSET Nat, T # {}
  PROVE  \E n \in T : \A m \in T : n <= m
<1> DEFINE R == OpToRel(<, Nat)
<1>1. IsWellFoundedOn(R, Nat)
  BY NatLessThanWellFounded
<1> HIDE DEF R
<1>2. PICK n \in T : \A m \in T : ~ (<<m, n>> \in R)
  BY <1>1, WFMin
<1>3. \A m \in T : ~ (m < n)
  BY <1>2 DEF R, OpToRel
<1> QED BY <1>3

(* Induction up to n: a set that has 0, and with m < n also m + 1, has all *)
(* numbers from 0 to n.                                                    *)
LEMMA UpTo ==
  ASSUME NEW S, NEW n \in Nat, 0 \in S, \A m \in 0..(n - 1) : m \in S => m + 1 \in S
  PROVE  \A m \in 0..n : m \in S
<1> DEFINE T == {m \in 0..n : m \notin S}
<1> SUFFICES ASSUME T # {} PROVE FALSE
  OBVIOUS
<1>1. PICK m \in T : \A k \in T : m <= k
  <2>1. T \in SUBSET Nat
    OBVIOUS
  <2> QED BY <2>1, Least
<1>2. m \in 0..n /\ m \notin S /\ m # 0
  OBVIOUS
<1>3. m - 1 \in 0..(n - 1) /\ m - 1 \notin T /\ (m - 1) + 1 = m
  BY <1>1, <1>2
<1>4. m - 1 \in S
  BY <1>3
<1> QED BY <1>2, <1>3, <1>4

(* Min returns the least element.                                          *)
LEMMA MinIsLeast ==
  ASSUME NEW T \in SUBSET Nat, T # {}
  PROVE  Min(T) \in T /\ \A m \in T : Min(T) <= m
<1>1. \E n \in T : \A m \in T : n <= m
  BY Least
<1> QED BY <1>1, Zenon DEF Min

(* A least element is the one that Min returns.                            *)
LEMMA MinUnique ==
  ASSUME NEW T \in SUBSET Nat, NEW n \in T, \A m \in T : n <= m
  PROVE  Min(T) = n
<1>1. Min(T) \in Nat /\ Min(T) <= n /\ n <= Min(T)
  BY MinIsLeast
<1> QED BY <1>1
-----------------------------------------------------------------------------
(* A bit has one place, a byte and an offset in it, and every place is     *)
(* that of one bit.                                                        *)
LEMMA Place ==
  ASSUME NEW len \in Nat, NEW i \in BitIndex(len)
  PROVE  /\ i \div ByteBits \in 0..(len - 1) /\ i % ByteBits \in Offsets
         /\ i = ByteBits * (i \div ByteBits) + (i % ByteBits)
<1>1. ByteBits \in Nat \ {0} /\ i \in Nat /\ i < ByteBits * len
  BY ByteAssumption DEF BitIndex
<1>2. /\ i = ByteBits * (i \div ByteBits) + (i % ByteBits)
      /\ i % ByteBits \in Offsets /\ i \div ByteBits \in Nat
  BY <1>1 DEF Offsets
<1>3. i \div ByteBits < len
  BY <1>1
<1> QED BY <1>2, <1>3

(* Conversely, every byte and offset is the place of one index.            *)
LEMMA PlaceOf ==
  ASSUME NEW len \in Nat, NEW b \in 0..(len - 1), NEW o \in Offsets
  PROVE  /\ b * ByteBits + o \in BitIndex(len)
         /\ (b * ByteBits + o) \div ByteBits = b
         /\ (b * ByteBits + o) % ByteBits = o
<1>1. ByteBits \in Nat \ {0} /\ o \in 0..(ByteBits - 1)
  BY ByteAssumption DEF Offsets
<1>2. (b + 1) * ByteBits <= len * ByteBits
  BY <1>1
<1>3. b * ByteBits + o <= ByteBits * len - 1 /\ b * ByteBits + o \in Nat
  BY <1>1, <1>2
<1>4. (b * ByteBits + o) \div ByteBits = b /\ (b * ByteBits + o) % ByteBits = o
  BY <1>1
<1> QED BY <1>1, <1>3, <1>4 DEF BitIndex

(* Two bits at the same place are one.                                     *)
LEMMA SamePlace ==
  ASSUME NEW len \in Nat, NEW i \in BitIndex(len), NEW j \in BitIndex(len),
         i \div ByteBits = j \div ByteBits, i % ByteBits = j % ByteBits
  PROVE  i = j
  BY Place

(* bitmap_init makes a bitmap without a bit that is set.                   *)
LEMMA InitBits ==
  ASSUME NEW len \in Nat
  PROVE  /\ bitmap_init(len) \in Bitmaps(len)
         /\ \A i \in BitIndex(len) : ~ bitmap_scan_test(bitmap_init(len), i)
  BY Place DEF bitmap_init, Bitmaps, bitmap_scan_test

(* bitmap_set changes the bit it is asked to change and no other.          *)
LEMMA SetBit ==
  ASSUME NEW len \in Nat, NEW btmp \in Bitmaps(len), NEW i \in BitIndex(len), NEW v \in {0, 1}
  PROVE  /\ bitmap_set(btmp, i, v) \in Bitmaps(len)
         /\ \A j \in BitIndex(len) :
              bitmap_scan_test(bitmap_set(btmp, i, v), j)
                <=> IF j = i THEN v = 1 ELSE bitmap_scan_test(btmp, j)
<1>1. i \div ByteBits \in 0..(len - 1) /\ i % ByteBits \in Offsets
  BY Place
<1>2. bitmap_set(btmp, i, v) \in Bitmaps(len)
  BY <1>1 DEF bitmap_set, Bitmaps
<1>3. ASSUME NEW j \in BitIndex(len)
      PROVE  bitmap_scan_test(bitmap_set(btmp, i, v), j)
               <=> IF j = i THEN v = 1 ELSE bitmap_scan_test(btmp, j)
  <2>1. j \div ByteBits \in 0..(len - 1) /\ j % ByteBits \in Offsets
    BY Place
  <2>2. CASE j = i
    BY <1>1, <2>2 DEF bitmap_set, bitmap_scan_test, Bitmaps
  <2>3. CASE j # i /\ j \div ByteBits = i \div ByteBits
    <3>1. j % ByteBits # i % ByteBits
      BY <2>3, SamePlace
    <3> QED BY <1>1, <2>1, <2>3, <3>1 DEF bitmap_set, bitmap_scan_test, Bitmaps
  <2>4. CASE j # i /\ j \div ByteBits # i \div ByteBits
    BY <1>1, <2>1, <2>4 DEF bitmap_set, bitmap_scan_test, Bitmaps
  <2> QED BY <2>2, <2>3, <2>4
<1> QED BY <1>2, <1>3
-----------------------------------------------------------------------------
(* The loop of bitmap_set_run has a meaning: there is a function that      *)
(* satisfies its recursion, and after[cnt] is the value of one.            *)
RunOf(g, btmp, i, cnt, v) ==
  g = [n \in 0..cnt |-> IF n = 0 THEN btmp ELSE bitmap_set(g[n - 1], i + n - 1, v)]

(* A function that satisfies the recursion exists, by induction on the     *)
(* length of the run.                                                      *)
LEMMA RunExists ==
  ASSUME NEW btmp, NEW i, NEW v, NEW cnt \in Nat
  PROVE  \E g : RunOf(g, btmp, i, cnt, v)
<1> DEFINE S == {c \in Nat : \E g : RunOf(g, btmp, i, c, v)}
<1>1. 0 \in S
  <2>1. RunOf([n \in 0..0 |-> btmp], btmp, i, 0, v)
    BY DEF RunOf
  <2> QED BY <2>1
<1>2. ASSUME NEW c \in 0..(cnt - 1), c \in S
      PROVE  c + 1 \in S
  <2>1. PICK g : RunOf(g, btmp, i, c, v)
    BY <1>2
  <2> DEFINE h == [n \in 0..(c + 1) |-> IF n = 0 THEN btmp ELSE bitmap_set(g[n - 1], i + n - 1, v)]
             k == [n \in 0..(c + 1) |-> IF n = 0 THEN btmp ELSE bitmap_set(h[n - 1], i + n - 1, v)]
  <2>2. \A n \in 0..c : h[n] = g[n]
    BY <2>1 DEF RunOf
  <2>3. \A n \in 0..(c + 1) : n # 0 => n - 1 \in 0..c
    OBVIOUS
  <2>4. h = k
    BY <2>2, <2>3
  <2>5. RunOf(h, btmp, i, c + 1, v)
    BY <2>4 DEF RunOf
  <2> QED BY <2>5
<1> HIDE DEF S
<1>3. cnt \in S
  BY <1>1, <1>2, UpTo
<1> QED BY <1>3 DEF S

(* bitmap_set_run is the last value of one.                                *)
LEMMA SetRunIs ==
  ASSUME NEW btmp, NEW i, NEW v, NEW cnt \in Nat
  PROVE  \E g : RunOf(g, btmp, i, cnt, v) /\ bitmap_set_run(btmp, i, cnt, v) = g[cnt]
<1> DEFINE g == CHOOSE f : RunOf(f, btmp, i, cnt, v)
<1>1. RunOf(g, btmp, i, cnt, v)
  BY RunExists, Zenon
<1>2. bitmap_set_run(btmp, i, cnt, v) = g[cnt]
  BY DEF bitmap_set_run, RunOf
<1> QED BY <1>1, <1>2

(* bitmap_set_run changes the cnt bits from i on and no other.             *)
LEMMA SetRun ==
  ASSUME NEW len \in Nat, NEW btmp \in Bitmaps(len), NEW i \in Nat, NEW cnt \in Nat,
         i..(i + cnt - 1) \subseteq BitIndex(len), NEW v \in {0, 1}
  PROVE  /\ bitmap_set_run(btmp, i, cnt, v) \in Bitmaps(len)
         /\ \A j \in BitIndex(len) :
              bitmap_scan_test(bitmap_set_run(btmp, i, cnt, v), j)
                <=> IF j \in i..(i + cnt - 1) THEN v = 1 ELSE bitmap_scan_test(btmp, j)
<1>1. PICK g : RunOf(g, btmp, i, cnt, v) /\ bitmap_set_run(btmp, i, cnt, v) = g[cnt]
  BY SetRunIs
<1> DEFINE Good(n) == /\ g[n] \in Bitmaps(len)
                      /\ \A j \in BitIndex(len) :
                           bitmap_scan_test(g[n], j)
                             <=> IF j \in i..(i + n - 1) THEN v = 1 ELSE bitmap_scan_test(btmp, j)
           S == {n \in 0..cnt : Good(n)}
<1>2. 0 \in S
  <2>1. g[0] = btmp /\ i..(i + 0 - 1) = {}
    BY <1>1 DEF RunOf
  <2> QED BY <2>1
<1>3. ASSUME NEW n \in 0..(cnt - 1), n \in S
      PROVE  n + 1 \in S
  <2>1. /\ n + 1 \in 0..cnt /\ n + 1 # 0 /\ (n + 1) - 1 = n /\ i + (n + 1) - 1 = i + n
        /\ i + n \in i..(i + cnt - 1)
    OBVIOUS
  <2>2. g[n + 1] = bitmap_set(g[n], i + n, v)
    BY <1>1, <2>1 DEF RunOf
  <2>3. /\ g[n + 1] \in Bitmaps(len)
        /\ \A j \in BitIndex(len) : bitmap_scan_test(g[n + 1], j)
             <=> IF j = i + n THEN v = 1 ELSE bitmap_scan_test(g[n], j)
    BY <1>3, <2>1, <2>2, SetBit
  <2>4. \A j \in BitIndex(len) : j \in i..(i + (n + 1) - 1) <=> j = i + n \/ j \in i..(i + n - 1)
    BY DEF BitIndex
  <2>5. Good(n + 1)
    BY <1>3, <2>3, <2>4
  <2> QED BY <2>1, <2>5
<1>4. Good(cnt)
  <2> HIDE DEF S
  <2>1. cnt \in S
    BY <1>2, <1>3, UpTo
  <2> QED BY <2>1 DEF S
<1> QED BY <1>1, <1>4
-----------------------------------------------------------------------------
(* BitsLen is the number of bits of a bitmap of len bytes.                 *)
LEMMA BitsLenIs ==
  ASSUME NEW len \in Nat \ {0}, NEW btmp \in Bitmaps(len)
  PROVE  BitsLen(btmp) = ByteBits * len
<1>1. DOMAIN btmp = 0..(len - 1)
  BY DEF Bitmaps
<1>2. \E n \in 0..(len - 1) : \A m \in 0..(len - 1) : n >= m
  <2>1. len - 1 \in 0..(len - 1) /\ \A m \in 0..(len - 1) : len - 1 >= m
    OBVIOUS
  <2> QED BY <2>1
<1>3. /\ Max(0..(len - 1)) \in 0..(len - 1)
      /\ \A m \in 0..(len - 1) : Max(0..(len - 1)) >= m
  BY <1>2, Zenon DEF Max
<1>4. Max(0..(len - 1)) = len - 1
  BY <1>3
<1> QED BY <1>1, <1>4 DEF BitsLen

(* The loop of bitmap_scan, too, has a meaning: count satisfies its        *)
(* recursion on the bits from first on.                                    *)
CountOf(g, btmp, first, last) ==
  g = [i \in first..last |-> IF bitmap_scan_test(btmp, i) THEN 0
                             ELSE IF i = first THEN 1 ELSE g[i - 1] + 1]

(* A function that satisfies the recursion exists.                         *)
LEMMA CountExists ==
  ASSUME NEW btmp, NEW first \in Nat, NEW n \in Nat
  PROVE  \E g : CountOf(g, btmp, first, first + n)
<1> DEFINE S == {c \in Nat : \E g : CountOf(g, btmp, first, first + c)}
<1>1. 0 \in S
  <2> DEFINE g == [i \in first..(first + 0) |-> IF bitmap_scan_test(btmp, i) THEN 0 ELSE 1]
  <2>1. CountOf(g, btmp, first, first + 0)
    BY DEF CountOf
  <2> QED BY <2>1
<1>2. ASSUME NEW c \in 0..(n - 1), c \in S
      PROVE  c + 1 \in S
  <2>1. PICK g : CountOf(g, btmp, first, first + c)
    BY <1>2
  <2> DEFINE step(f) == [i \in first..(first + (c + 1)) |->
                           IF bitmap_scan_test(btmp, i) THEN 0
                           ELSE IF i = first THEN 1 ELSE f[i - 1] + 1]
             h == step(g)
             k == step(h)
  <2>2. \A i \in first..(first + c) : h[i] = g[i]
    BY <2>1 DEF CountOf
  <2>3. \A i \in first..(first + (c + 1)) : i # first => i - 1 \in first..(first + c)
    OBVIOUS
  <2>4. h = k
    BY <2>2, <2>3
  <2>5. CountOf(h, btmp, first, first + (c + 1))
    BY <2>4 DEF CountOf
  <2> QED BY <2>5
<1> HIDE DEF S
<1>3. n \in S
  BY <1>1, <1>2, UpTo
<1> QED BY <1>3 DEF S

(* count satisfies it.                                                     *)
LEMMA CountIs ==
  ASSUME NEW len \in Nat \ {0}, NEW btmp \in Bitmaps(len), NEW first \in BitIndex(len)
  PROVE  CountOf(count(btmp, first), btmp, first, ByteBits * len - 1)
<1>1. /\ first \in Nat /\ ByteBits * len - 1 - first \in Nat
      /\ first + (ByteBits * len - 1 - first) = ByteBits * len - 1
  BY ByteAssumption DEF BitIndex
<1>2. \E g : CountOf(g, btmp, first, ByteBits * len - 1)
  BY <1>1, CountExists
<1> DEFINE f == CHOOSE g : CountOf(g, btmp, first, ByteBits * len - 1)
<1>3. CountOf(f, btmp, first, ByteBits * len - 1)
  BY <1>2, Zenon
<1>4. count(btmp, first) = f
  BY BitsLenIs DEF count, CountOf
<1> QED BY <1>3, <1>4

(* What count says: the count[i] bits that end at i are free, they have    *)
(* been counted one by one, and the one before them is not free.           *)
LEMMA CountCounts ==
  ASSUME NEW btmp, NEW first \in Nat, NEW last \in Nat, first <= last,
         NEW g, CountOf(g, btmp, first, last)
  PROVE  \A i \in first..last :
           /\ g[i] \in 0..(i - first + 1)
           /\ \A j \in (i - g[i] + 1)..i : ~ bitmap_scan_test(btmp, j) /\ g[j] = g[i] - (i - j)
           /\ i - g[i] >= first => bitmap_scan_test(btmp, i - g[i])
<1> DEFINE Good(i) ==
      /\ g[i] \in 0..(i - first + 1)
      /\ \A j \in (i - g[i] + 1)..i : ~ bitmap_scan_test(btmp, j) /\ g[j] = g[i] - (i - j)
      /\ i - g[i] >= first => bitmap_scan_test(btmp, i - g[i])
           S == {n \in 0..(last - first) : Good(first + n)}
<1>1. \A i \in first..last : g[i] = IF bitmap_scan_test(btmp, i) THEN 0
                                    ELSE IF i = first THEN 1 ELSE g[i - 1] + 1
  BY DEF CountOf
<1>2. ASSUME NEW i \in first..last, bitmap_scan_test(btmp, i)
      PROVE  Good(i)
  BY <1>1, <1>2
<1>3. 0 \in S
  <2>1. CASE ~ bitmap_scan_test(btmp, first)
    <3>1. g[first] = 1
      BY <1>1, <2>1
    <3> QED BY <2>1, <3>1
  <2> QED BY <1>2, <2>1
<1>4. ASSUME NEW n \in 0..(last - first - 1), n \in S
      PROVE  n + 1 \in S
  <2> DEFINE i == first + (n + 1)
  <2>1. i \in first..last /\ i # first /\ i - 1 = first + n /\ n + 1 \in 0..(last - first)
    OBVIOUS
  <2>2. CASE ~ bitmap_scan_test(btmp, i)
    <3>1. Good(i - 1) /\ g[i] = g[i - 1] + 1
      BY <1>1, <1>4, <2>1, <2>2
    <3> HIDE DEF i
    <3>2. \A j \in (i - g[i] + 1)..i : j = i \/ j \in ((i - 1) - g[i - 1] + 1)..(i - 1)
      BY <2>1, <3>1
    <3>3. \A j \in (i - g[i] + 1)..i : ~ bitmap_scan_test(btmp, j) /\ g[j] = g[i] - (i - j)
      <4> SUFFICES ASSUME NEW j \in (i - g[i] + 1)..i
                   PROVE  ~ bitmap_scan_test(btmp, j) /\ g[j] = g[i] - (i - j)
        OBVIOUS
      <4>1. CASE j = i
        BY <2>1, <2>2, <3>1, <4>1
      <4>2. CASE j \in ((i - 1) - g[i - 1] + 1)..(i - 1)
        <5>1. ~ bitmap_scan_test(btmp, j) /\ g[j] = g[i - 1] - ((i - 1) - j)
          BY <3>1, <4>2
        <5>2. g[i - 1] \in Int
          BY <2>1, <3>1
        <5> QED BY <2>1, <3>1, <5>1, <5>2
      <4> QED BY <3>2, <4>1, <4>2
    <3>4. g[i] \in 0..(i - first + 1) /\ i - g[i] = (i - 1) - g[i - 1]
      BY <2>1, <3>1
    <3>5. Good(i)
      BY <3>1, <3>3, <3>4
    <3> QED BY <2>1, <3>5 DEF i
  <2> QED BY <1>2, <2>1, <2>2
<1> HIDE DEF S
<1>5. \A n \in 0..(last - first) : n \in S
  <2>1. last - first \in Nat
    OBVIOUS
  <2> QED BY <1>3, <1>4, <2>1, UpTo
<1>6. ASSUME NEW i \in first..last
      PROVE  Good(i)
  <2>1. i - first \in 0..(last - first) /\ first + (i - first) = i
    OBVIOUS
  <2>2. i - first \in S
    BY <1>5, <2>1
  <2> QED BY <2>1, <2>2 DEF S
<1> QED BY <1>6
-----------------------------------------------------------------------------
(* The first free bit is the one bitmap_scan starts at: the bytes before   *)
(* its byte are full, and so are the bits before it in its byte.           *)
First(btmp) == LET open == {b \in DOMAIN btmp : btmp[b] # Offsets}
               IN  Min(open) * ByteBits + Min(Offsets \ btmp[Min(open)])

(* Where the bit by bit search of bitmap_scan starts.                      *)
LEMMA FirstIsFirst ==
  ASSUME NEW len \in Nat \ {0}, NEW btmp \in Bitmaps(len), FreeBits(btmp, len) # {}
  PROVE  /\ {b \in DOMAIN btmp : btmp[b] # Offsets} # {}
         /\ First(btmp) \in FreeBits(btmp, len)
         /\ \A i \in FreeBits(btmp, len) : First(btmp) <= i
<1> DEFINE open == {b \in DOMAIN btmp : btmp[b] # Offsets}
           b0 == Min(open)
           o0 == Min(Offsets \ btmp[b0])
<1>1. DOMAIN btmp = 0..(len - 1) /\ \A b \in 0..(len - 1) : btmp[b] \subseteq Offsets
  BY DEF Bitmaps
<1>2. \A i \in FreeBits(btmp, len) : /\ i \div ByteBits \in open
                                     /\ i % ByteBits \in Offsets \ btmp[i \div ByteBits]
                                     /\ i = ByteBits * (i \div ByteBits) + (i % ByteBits)
  BY <1>1, Place DEF FreeBits, bitmap_scan_test
<1>3. open # {} /\ open \in SUBSET Nat
  <2>1. PICK i \in FreeBits(btmp, len) : TRUE
    OBVIOUS
  <2>2. i \div ByteBits \in open
    BY <1>2, <2>1
  <2>3. \A b \in open : b \in Nat
    BY <1>1
  <2> QED BY <2>2, <2>3
<1>4. b0 \in open /\ \A b \in open : b0 <= b
  BY <1>3, MinIsLeast
<1>5. Offsets \ btmp[b0] # {} /\ Offsets \ btmp[b0] \in SUBSET Nat
  <2>1. btmp[b0] \subseteq Offsets /\ btmp[b0] # Offsets
    BY <1>1, <1>4
  <2>2. \A o \in Offsets : o \in Nat
    BY DEF Offsets
  <2> QED BY <2>1, <2>2
<1>6. o0 \in Offsets \ btmp[b0] /\ \A o \in Offsets \ btmp[b0] : o0 <= o
  BY <1>5, MinIsLeast
<1>7. First(btmp) = b0 * ByteBits + o0
  BY DEF First
<1> HIDE DEF b0, o0
<1>8. b0 * ByteBits + o0 \in FreeBits(btmp, len)
  <2>1. b0 \in 0..(len - 1) /\ o0 \in Offsets
    BY <1>1, <1>4, <1>6
  <2> QED BY <1>6, <2>1, PlaceOf DEF FreeBits, bitmap_scan_test
<1>9. ASSUME NEW i \in FreeBits(btmp, len)
      PROVE  b0 * ByteBits + o0 <= i
  <2> DEFINE b == i \div ByteBits
             o == i % ByteBits
  <2>1. /\ b \in open /\ o \in Offsets \ btmp[b] /\ i = ByteBits * b + o
        /\ b0 <= b /\ b \in Nat /\ b0 \in Nat
        /\ o \in 0..(ByteBits - 1) /\ o0 \in 0..(ByteBits - 1) /\ ByteBits \in Nat
    BY <1>1, <1>2, <1>4, <1>6, ByteAssumption DEF Offsets
  <2> HIDE DEF b, o
  <2>2. CASE b = b0
    <3>1. o0 <= o
      BY <1>6, <2>1, <2>2
    <3> QED BY <2>1, <2>2, <3>1
  <2>3. CASE b0 + 1 <= b
    <3>1. (b0 + 1) * ByteBits <= b * ByteBits
      BY <2>1, <2>3
    <3> QED BY <2>1, <3>1
  <2> QED BY <2>1, <2>2, <2>3
<1> QED BY <1>3, <1>7, <1>8, <1>9

(* bitmap_scan is first fit: the least index at which cnt bits in a row    *)
(* are free, -1 if there is none, and a failed assertion when no bit is    *)
(* free.  The code skips full bytes, looks for a free bit in the next one  *)
(* and then counts bit by bit (lib/kernel/bitmap.c).                       *)
THEOREM ScanFirstFit ==
  ASSUME NEW len \in Nat \ {0}, NEW btmp \in Bitmaps(len), NEW cnt \in Nat \ {0}
  PROVE  bitmap_scan(btmp, cnt) = IF FreeBits(btmp, len) = {} THEN Panics
                                  ELSE IF FreeRuns(btmp, len, cnt) = {} THEN NotFound
                                  ELSE Min(FreeRuns(btmp, len, cnt))
<1> DEFINE open == {b \in DOMAIN btmp : btmp[b] # Offsets}
<1>1. CASE FreeBits(btmp, len) = {}
  <2>1. ASSUME NEW b \in 0..(len - 1), NEW o \in Offsets
        PROVE  o \in btmp[b]
    <3>1. b * ByteBits + o \notin FreeBits(btmp, len)
      BY <1>1
    <3> QED BY <3>1, PlaceOf DEF FreeBits, bitmap_scan_test
  <2>2. \A b \in DOMAIN btmp : btmp[b] = Offsets
    BY <2>1 DEF Bitmaps
  <2> QED BY <1>1, <2>2 DEF bitmap_scan
<1>2. CASE FreeBits(btmp, len) # {}
  <2> DEFINE first == First(btmp)
             last == ByteBits * len - 1
             run == count(btmp, first)
             hits == {i \in first..last : run[i] = cnt}
             fits == FreeRuns(btmp, len, cnt)
  <2>1. /\ open # {} /\ first \in BitIndex(len) /\ ~ bitmap_scan_test(btmp, first)
        /\ \A i \in FreeBits(btmp, len) : first <= i
    BY <1>2, FirstIsFirst DEF FreeBits
  <2>2. first \in Nat /\ last \in Nat /\ first <= last /\ BitIndex(len) = 0..last
    BY <2>1, ByteAssumption DEF BitIndex
  <2>3. CountOf(run, btmp, first, last)
    BY <2>1, CountIs
  <2>4. DOMAIN run = first..last
    BY <2>3 DEF CountOf
  <2>5. bitmap_scan(btmp, cnt) = IF hits = {} THEN NotFound ELSE Min(hits) - cnt + 1
    BY <2>1, <2>4 DEF bitmap_scan, First
  <2> HIDE DEF first, last, run
  <2>6. \A i \in first..last :
           /\ run[i] \in 0..(i - first + 1)
           /\ \A j \in (i - run[i] + 1)..i : ~ bitmap_scan_test(btmp, j) /\ run[j] = run[i] - (i - j)
           /\ i - run[i] >= first => bitmap_scan_test(btmp, i - run[i])
    BY <2>2, <2>3, CountCounts
  <2>7. ASSUME NEW i \in hits
        PROVE  i - cnt + 1 \in fits
    <3>1. /\ i \in Nat /\ cnt \in 0..(i - first + 1) /\ i <= last
          /\ \A j \in (i - cnt + 1)..i : ~ bitmap_scan_test(btmp, j)
      BY <2>2, <2>6
    <3>2. i - cnt + 1 \in 0..last /\ (i - cnt + 1) + cnt - 1 = i
      BY <2>2, <3>1
    <3>3. \A j \in (i - cnt + 1)..i : j \in 0..last
      BY <2>2, <3>1
    <3> QED BY <2>2, <3>1, <3>2, <3>3 DEF FreeRuns, FreeBits
  <2>8. ASSUME NEW s \in fits
        PROVE  \E i \in hits : i - cnt + 1 <= s
    <3> DEFINE e == s + cnt - 1
    <3>1. s \in Nat /\ s <= e /\ e \in Nat /\ \A j \in s..e : j \in FreeBits(btmp, len)
      BY <2>2 DEF FreeRuns
    <3>2. s \in FreeBits(btmp, len) /\ e \in FreeBits(btmp, len)
      BY <3>1
    <3>3. first <= s /\ e <= last /\ e \in first..last
      BY <2>1, <2>2, <3>1, <3>2 DEF FreeBits
    <3>4. /\ run[e] \in 0..(e - first + 1)
          /\ \A j \in (e - run[e] + 1)..e : run[j] = run[e] - (e - j)
          /\ e - run[e] >= first => bitmap_scan_test(btmp, e - run[e])
      BY <2>6, <3>3
    <3>5. run[e] >= cnt
      <4> SUFFICES ASSUME ~ (run[e] >= cnt)
                   PROVE  FALSE
        OBVIOUS
      <4>1. e - run[e] \in s..e /\ e - run[e] >= first
        BY <2>2, <3>1, <3>3, <3>4
      <4> QED BY <3>1, <3>4, <4>1 DEF FreeBits
    <3> DEFINE i == e - (run[e] - cnt)
    <3>6. i \in (e - run[e] + 1)..e /\ run[e] - (e - i) = cnt /\ i \in first..last /\ i <= e
      BY <2>2, <3>1, <3>3, <3>4, <3>5
    <3>7. run[i] = cnt
      BY <3>4, <3>6
    <3>8. i - cnt + 1 <= s
      BY <3>1, <3>4, <3>6
    <3> HIDE DEF i
    <3> QED BY <3>6, <3>7, <3>8
  <2>9. CASE hits = {}
    <3>1. fits = {}
      BY <2>8, <2>9
    <3> QED BY <1>2, <2>5, <2>9, <3>1
  <2>10. CASE hits # {}
    <3>1. hits \in SUBSET Nat /\ fits \in SUBSET Nat
      BY <2>2 DEF FreeRuns
    <3> HIDE DEF hits, fits
    <3>2. Min(hits) \in hits /\ \A i \in hits : Min(hits) <= i
      BY <2>10, <3>1, MinIsLeast
    <3>3. Min(hits) - cnt + 1 \in fits
      BY <2>7, <3>2
    <3>4. ASSUME NEW s \in fits
          PROVE  Min(hits) - cnt + 1 <= s
      <4>1. PICK i \in hits : i - cnt + 1 <= s
        BY <2>8
      <4>2. Min(hits) <= i /\ Min(hits) \in Nat /\ i \in Nat /\ s \in Nat
        BY <3>1, <3>2
      <4> QED BY <4>1, <4>2
    <3>5. Min(fits) = Min(hits) - cnt + 1
      BY <3>1, <3>3, <3>4, MinUnique
    <3> QED BY <1>2, <2>5, <2>10, <3>3, <3>5 DEF fits
  <2> QED BY <2>9, <2>10
<1> QED BY <1>1, <1>2

(* What callers use of it: an index that bitmap_scan returns is that of a  *)
(* run of free bits, a failed assertion means that every bit is set, and   *)
(* the search for a single bit never returns -1.                           *)
THEOREM ScanResult ==
  ASSUME NEW len \in Nat \ {0}, NEW btmp \in Bitmaps(len), NEW cnt \in Nat \ {0}
  PROVE  LET r == bitmap_scan(btmp, cnt)
         IN  \/ r = Panics /\ \A i \in BitIndex(len) : bitmap_scan_test(btmp, i)
             \/ r = NotFound /\ cnt # 1
             \/ /\ r \in Nat /\ r \in BitIndex(len) /\ r..(r + cnt - 1) \subseteq BitIndex(len)
                /\ \A i \in r..(r + cnt - 1) : ~ bitmap_scan_test(btmp, i)
<1> DEFINE r == bitmap_scan(btmp, cnt)
           fits == FreeRuns(btmp, len, cnt)
<1>1. r = IF FreeBits(btmp, len) = {} THEN Panics ELSE IF fits = {} THEN NotFound ELSE Min(fits)
  BY ScanFirstFit
<1>2. CASE FreeBits(btmp, len) = {}
  BY <1>1, <1>2 DEF FreeBits
<1>3. CASE FreeBits(btmp, len) # {} /\ fits = {}
  <2>1. cnt # 1
    <3> SUFFICES ASSUME cnt = 1
                 PROVE  FALSE
      OBVIOUS
    <3>1. PICK i \in FreeBits(btmp, len) : TRUE
      BY <1>3
    <3>2. i \in BitIndex(len) /\ i..(i + 1 - 1) = {i}
      BY DEF FreeBits, BitIndex
    <3>3. i \in fits
      BY <3>1, <3>2 DEF FreeRuns
    <3> QED BY <1>3, <3>3
  <2> QED BY <1>1, <1>3, <2>1
<1>4. CASE FreeBits(btmp, len) # {} /\ fits # {}
  <2>1. fits \in SUBSET Nat
    BY DEF FreeRuns, BitIndex
  <2>2. Min(fits) \in fits
    BY <1>4, <2>1, MinIsLeast
  <2>3. r \in fits /\ r \in Nat
    BY <1>1, <1>4, <2>1, <2>2
  <2> QED BY <2>3 DEF FreeRuns, FreeBits
<1> QED BY <1>2, <1>3, <1>4
=============================================================================
