------------------------------ MODULE LibProofs ------------------------------
(***************************************************************************)
(* Proofs about the parts that MCLib puts together: the keyboard handler,  *)
(* the bitmap under its operations, the screen and the texts of the        *)
(* console and the layout of the memory, for every size of each.           *)
(***************************************************************************)
EXTENDS MCLib, BitmapProofs

-----------------------------------------------------------------------------
(* The bitmap.  Taking a run and clearing a bit keep the bytes in step     *)
(* with the bits that are used.                                            *)
LEMMA IndexIs == Index = BitIndex(btmp_bytes_len) /\ btmp_bytes_len \in Nat \ {0}
  BY LenAssumption DEF Index, BitIndex

(* bitmap_init leaves no bit set.                                          *)
LEMMA BytesInit ==
  ASSUME BitmapInit PROVE BytesAreUsed
  BY InitBits, IndexIs DEF BitmapInit, BytesAreUsed

(* Taking a run and clearing a bit keep the bytes in step with the bits    *)
(* that are used.                                                          *)
LEMMA BytesNext ==
  ASSUME BytesAreUsed, [BitmapNext]_bitmapVars PROVE BytesAreUsed'
<1>1. btmp \in Bitmaps(btmp_bytes_len) /\ used = {i \in Index : bitmap_scan_test(btmp, i)}
  BY DEF BytesAreUsed
<1>2. ASSUME NEW cnt \in 1..(ByteBits * btmp_bytes_len), Take(cnt) PROVE BytesAreUsed'
  <2> DEFINE start == bitmap_scan(btmp, cnt)
  <2>1. cnt \in Nat \ {0} /\ start \notin {NotFound, Panics}
    BY <1>2, LenAssumption, ByteAssumption DEF Take
  <2>2. start \in Nat /\ start..(start + cnt - 1) \subseteq BitIndex(btmp_bytes_len)
    BY <1>1, <2>1, IndexIs, ScanResult
  <2>3. /\ btmp' = bitmap_set_run(btmp, start, cnt, 1)
        /\ used' = used \cup (start..(start + cnt - 1))
    BY <1>2 DEF Take
  <2> HIDE DEF start
  <2>4. /\ btmp' \in Bitmaps(btmp_bytes_len)
        /\ \A j \in BitIndex(btmp_bytes_len) :
             bitmap_scan_test(btmp', j)
               <=> IF j \in start..(start + cnt - 1) THEN 1 = 1 ELSE bitmap_scan_test(btmp, j)
    BY <1>1, <2>1, <2>2, <2>3, IndexIs, SetRun
  <2> QED BY <1>1, <2>2, <2>3, <2>4, IndexIs DEF BytesAreUsed
<1>3. ASSUME NEW i \in used, Clear(i) PROVE BytesAreUsed'
  <2>1. i \in BitIndex(btmp_bytes_len) /\ btmp' = bitmap_set(btmp, i, 0) /\ used' = used \ {i}
    BY <1>1, <1>3, IndexIs DEF Clear
  <2>2. /\ btmp' \in Bitmaps(btmp_bytes_len)
        /\ \A j \in BitIndex(btmp_bytes_len) :
             bitmap_scan_test(btmp', j) <=> IF j = i THEN 0 = 1 ELSE bitmap_scan_test(btmp, j)
    BY <1>1, <2>1, IndexIs, SetBit
  <2> QED BY <1>1, <2>1, <2>2, IndexIs DEF BytesAreUsed
<1>4. CASE UNCHANGED bitmapVars
  BY <1>1, <1>4 DEF bitmapVars, BytesAreUsed
<1> QED BY <1>2, <1>3, <1>4 DEF BitmapNext

(* The bytes of a bitmap hold exactly the bits that were set by            *)
(* bitmap_scan and bitmap_set and not cleared since, for a byte and a      *)
(* bitmap of any length.                                                   *)
THEOREM BytesStayRight == BitmapSpec => []BytesAreUsed
<1>1. BitmapInit => BytesAreUsed
  BY BytesInit
<1>2. BytesAreUsed /\ [BitmapNext]_bitmapVars => BytesAreUsed'
  BY BytesNext
<1> QED BY <1>1, <1>2, PTL DEF BitmapSpec

(* First fit over the bits that are used is first fit over the bits that   *)
(* are set.                                                                *)
LEMMA ScanOfUsed ==
  ASSUME BytesAreUsed PROVE FirstFit
<1> SUFFICES ASSUME used # Index, NEW cnt \in 1..(ByteBits * btmp_bytes_len)
             PROVE  LET fits == {s \in Index : (s..(s + cnt - 1)) \subseteq (Index \ used)}
                    IN  bitmap_scan(btmp, cnt) = IF fits = {} THEN NotFound ELSE Min(fits)
  BY DEF FirstFit
<1>1. btmp \in Bitmaps(btmp_bytes_len) /\ cnt \in Nat \ {0}
  BY LenAssumption, ByteAssumption DEF BytesAreUsed
<1>2. FreeBits(btmp, btmp_bytes_len) = Index \ used /\ used \subseteq Index
  BY IndexIs DEF FreeBits, BytesAreUsed
<1>3. FreeRuns(btmp, btmp_bytes_len, cnt)
        = {s \in Index : (s..(s + cnt - 1)) \subseteq (Index \ used)}
  BY <1>2, IndexIs DEF FreeRuns
<1>4. FreeBits(btmp, btmp_bytes_len) = {} <=> used = Index
  BY <1>2
<1>5. bitmap_scan(btmp, cnt) = IF FreeBits(btmp, btmp_bytes_len) = {} THEN Panics
                               ELSE IF FreeRuns(btmp, btmp_bytes_len, cnt) = {} THEN NotFound
                               ELSE Min(FreeRuns(btmp, btmp_bytes_len, cnt))
  BY <1>1, IndexIs, ScanFirstFit
<1> QED BY <1>3, <1>4, <1>5

(* In every bitmap that comes up and is not full, bitmap_scan is first     *)
(* fit.                                                                    *)
THEOREM ScanStaysFirstFit == LibSpec => []ScanIsFirstFit
<1>1. LibInit => BytesAreUsed
  BY BytesInit DEF LibInit
<1>2. BytesAreUsed /\ [LibNext]_libVars => BytesAreUsed'
  <2>1. [LibNext]_libVars => [BitmapNext]_bitmapVars
    BY DEF LibNext, libVars, bitmapVars
  <2> QED BY <2>1, BytesNext
<1>3. BytesAreUsed => ScanIsFirstFit
  BY ScanOfUsed DEF ScanIsFirstFit
<1> QED BY <1>1, <1>2, <1>3, PTL DEF LibSpec
-----------------------------------------------------------------------------
(* The keyboard.  What the handler knows is a set of flags; a byte takes   *)
(* one such set to the next and may give a character.                      *)
Flags == {"ctrl", "shift", "alt", "caps", "ext"}

Believed ==
  (IF ctrl_status THEN {"ctrl"} ELSE {}) \cup (IF shift_status THEN {"shift"} ELSE {})
  \cup (IF alt_status THEN {"alt"} ELSE {}) \cup (IF caps_lock_status THEN {"caps"} ELSE {})
  \cup (IF ext_scancode THEN {"ext"} ELSE {})

(* What is true of the keys now.                                           *)
Actual ==
  (IF InForce({ctrl_l_make}) THEN {"ctrl"} ELSE {}) \cup (IF ShiftInForce THEN {"shift"} ELSE {})
  \cup (IF InForce({alt_l_make}) THEN {"alt"} ELSE {}) \cup (IF caps THEN {"caps"} ELSE {})

Scan(s, b) == IF "ext" \in s THEN 57344 + b ELSE b

CharOf(s, b) ==
  IF b >= 128 \/ ~ Known(Scan(s, b)) THEN NoChar
  ELSE keymap(Scan(s, b) % 256, IF TwoChars(Scan(s, b)) THEN "shift" \in s
                                ELSE ("shift" \in s) # ("caps" \in s))

Sets(x, index) == \/ x = "ctrl" /\ index = ctrl_l_make
                  \/ x = "shift" /\ index \in {shift_l_make, shift_r_make}
                  \/ x = "alt" /\ index = alt_l_make

Clears(x, make_code) == \/ x = "ctrl" /\ make_code \in {ctrl_l_make, ctrl_r_make}
                        \/ x = "shift" /\ make_code \in {shift_l_make, shift_r_make}
                        \/ x = "alt" /\ make_code \in {alt_l_make, alt_r_make}

Stays(x, s, b) ==
  IF b = Extended THEN x \in s \/ x = "ext"
  ELSE IF x = "ext" THEN FALSE
  ELSE IF b >= 128 THEN x \in s /\ ~ Clears(x, Scan(s, b) - 128)
  ELSE IF Known(Scan(s, b)) /\ CharOf(s, b) = NoChar
  THEN IF x = "caps" THEN ("caps" \in s) # (Scan(s, b) % 256 = caps_lock_make)
       ELSE x \in s \/ Sets(x, Scan(s, b) % 256)
  ELSE x \in s

Decode(s, b) == {x \in Flags : Stays(x, s, b)}

(* The flags before and after each of the bytes of p, from s on: each byte *)
(* gives the character that was meant, and the last leads to e.            *)
Trace(tr, p, s, e) ==
  /\ tr \in [0..Len(p) -> SUBSET Flags] /\ tr[0] = s /\ tr[Len(p)] = e
  /\ \A i \in 1..Len(p) : /\ tr[i] = Decode(tr[i - 1], p[i].byte)
                          /\ p[i].want = CharOf(tr[i - 1], p[i].byte)

Byte == [byte : Nat, want : {NoChar} \cup (Nat \X {0, 1})]

KbdInv == /\ ctrl_status \in BOOLEAN /\ shift_status \in BOOLEAN /\ alt_status \in BOOLEAN
          /\ caps_lock_status \in BOOLEAN /\ ext_scancode \in BOOLEAN /\ caps \in BOOLEAN
          /\ live \subseteq Key /\ port \in Seq(Byte)
          /\ \E tr : Trace(tr, port, Believed, Actual)

(* A byte that is sent makes the trace longer.                             *)
LEMMA TraceAppend ==
  ASSUME NEW p \in Seq(Byte), NEW x \in Byte, NEW s, NEW e, NEW tr, Trace(tr, p, s, e),
         x.want = CharOf(e, x.byte)
  PROVE  \E t : Trace(t, Append(p, x), s, Decode(e, x.byte))
<1> DEFINE n == Len(p)
           q == Append(p, x)
           t == [i \in 0..(n + 1) |-> IF i <= n THEN tr[i] ELSE Decode(e, x.byte)]
<1>1. /\ n \in Nat /\ Len(q) = n + 1 /\ q[n + 1] = x
      /\ \A i \in 1..n : q[i] = p[i]
  OBVIOUS
<1>2. /\ tr \in [0..n -> SUBSET Flags] /\ tr[0] = s /\ tr[n] = e
      /\ \A i \in 1..n : /\ tr[i] = Decode(tr[i - 1], p[i].byte)
                         /\ p[i].want = CharOf(tr[i - 1], p[i].byte)
  BY DEF Trace
<1>3. Decode(e, x.byte) \in SUBSET Flags
  BY DEF Decode
<1> HIDE DEF n, q
<1>4. t \in [0..Len(q) -> SUBSET Flags] /\ t[0] = s /\ t[Len(q)] = Decode(e, x.byte)
  BY <1>1, <1>2, <1>3
<1>5. ASSUME NEW i \in 1..Len(q)
      PROVE  t[i] = Decode(t[i - 1], q[i].byte) /\ q[i].want = CharOf(t[i - 1], q[i].byte)
  <2>1. CASE i = n + 1
    <3>1. t[i] = Decode(e, x.byte) /\ t[i - 1] = e /\ q[i] = x
      BY <1>1, <1>2, <2>1
    <3> QED BY <3>1
  <2>2. CASE i # n + 1
    <3>1. i \in 1..n /\ t[i] = tr[i] /\ t[i - 1] = tr[i - 1] /\ q[i] = p[i]
      BY <1>1, <2>2
    <3> QED BY <1>2, <3>1
  <2> QED BY <2>1, <2>2
<1> QED BY <1>4, <1>5 DEF Trace, q

(* A byte that is read makes it shorter.                                   *)
LEMMA TraceTail ==
  ASSUME NEW p \in Seq(Byte), p # <<>>, NEW s, NEW e, NEW tr, Trace(tr, p, s, e)
  PROVE  /\ Head(p).want = CharOf(s, Head(p).byte)
         /\ \E t : Trace(t, Tail(p), Decode(s, Head(p).byte), e)
<1> DEFINE n == Len(p)
           q == Tail(p)
           t == [i \in 0..(n - 1) |-> tr[i + 1]]
<1>1. /\ n \in Nat \ {0} /\ Len(q) = n - 1 /\ Head(p) = p[1]
      /\ \A i \in 1..(n - 1) : q[i] = p[i + 1]
  OBVIOUS
<1>2. /\ tr \in [0..n -> SUBSET Flags] /\ tr[0] = s /\ tr[n] = e
      /\ \A i \in 1..n : /\ tr[i] = Decode(tr[i - 1], p[i].byte)
                         /\ p[i].want = CharOf(tr[i - 1], p[i].byte)
  BY DEF Trace
<1> HIDE DEF n, q
<1>3. tr[1] = Decode(s, Head(p).byte) /\ Head(p).want = CharOf(s, Head(p).byte)
  BY <1>1, <1>2
<1>4. t \in [0..Len(q) -> SUBSET Flags] /\ t[0] = Decode(s, Head(p).byte) /\ t[Len(q)] = e
  BY <1>1, <1>2, <1>3
<1>5. ASSUME NEW i \in 1..Len(q)
      PROVE  t[i] = Decode(t[i - 1], q[i].byte) /\ q[i].want = CharOf(t[i - 1], q[i].byte)
  <2>1. /\ i + 1 \in 1..n /\ t[i] = tr[i + 1] /\ t[i - 1] = tr[i] /\ q[i] = p[i + 1]
        /\ (i + 1) - 1 = i
    BY <1>1
  <2> HIDE DEF t
  <2> QED BY <1>2, <2>1
<1> QED BY <1>3, <1>4, <1>5 DEF Trace, q

(* The flags, one by one.                                                  *)
LEMMA FlagIs ==
  /\ ("ctrl" \in Believed <=> ctrl_status) /\ ("shift" \in Believed <=> shift_status)
  /\ ("alt" \in Believed <=> alt_status) /\ ("caps" \in Believed <=> caps_lock_status)
  /\ ("ext" \in Believed <=> ext_scancode) /\ Believed \subseteq Flags
  /\ ("ctrl" \in Actual <=> InForce({ctrl_l_make})) /\ ("shift" \in Actual <=> ShiftInForce)
  /\ ("alt" \in Actual <=> InForce({alt_l_make})) /\ ("caps" \in Actual <=> caps)
  /\ ~ ("ext" \in Actual) /\ Actual \subseteq Flags
  BY DEF Believed, Actual, Flags

(* The same in the next state.                                             *)
LEMMA FlagIsNext ==
  /\ ("ctrl" \in Believed' <=> ctrl_status') /\ ("shift" \in Believed' <=> shift_status')
  /\ ("alt" \in Believed' <=> alt_status') /\ ("caps" \in Believed' <=> caps_lock_status')
  /\ ("ext" \in Believed' <=> ext_scancode') /\ Believed' \subseteq Flags
  /\ ("ctrl" \in Actual' <=> InForce({ctrl_l_make})') /\ ("shift" \in Actual' <=> ShiftInForce')
  /\ ("alt" \in Actual' <=> InForce({alt_l_make})') /\ ("caps" \in Actual' <=> caps')
  /\ ~ ("ext" \in Actual') /\ Actual' \subseteq Flags
  BY DEF Believed, Actual, Flags

(* The handler does to the statuses and the queue what Decode and CharOf   *)
(* say.                                                                    *)
LEMMA HandlerDecodes ==
  ASSUME KbdInv, intr_keyboard_handler
  PROVE  LET b == Head(port).byte
         IN  /\ Believed' = Decode(Believed, b)
             /\ kbd_buf' = IF CharOf(Believed, b) = NoChar \/ Len(kbd_buf) = bufsize - 1
                           THEN kbd_buf ELSE Append(kbd_buf, CharOf(Believed, b))
             /\ ctrl_status' \in BOOLEAN /\ shift_status' \in BOOLEAN /\ alt_status' \in BOOLEAN
             /\ caps_lock_status' \in BOOLEAN /\ ext_scancode' \in BOOLEAN
<1> DEFINE b == Head(port).byte
           sc == IF ext_scancode THEN 57344 + b ELSE b
           Same == /\ ctrl_status' = ctrl_status /\ shift_status' = shift_status
                   /\ alt_status' = alt_status /\ caps_lock_status' = caps_lock_status
           Goal == /\ Believed' = Decode(Believed, b)
                   /\ kbd_buf' = IF CharOf(Believed, b) = NoChar \/ Len(kbd_buf) = bufsize - 1
                                 THEN kbd_buf ELSE Append(kbd_buf, CharOf(Believed, b))
                   /\ ctrl_status' \in BOOLEAN /\ shift_status' \in BOOLEAN
                   /\ alt_status' \in BOOLEAN
                   /\ caps_lock_status' \in BOOLEAN /\ ext_scancode' \in BOOLEAN
<1> SUFFICES Goal
  OBVIOUS
<1>1. b \in Nat
  <2>1. port \in Seq(Byte) /\ port # <<>>
    BY DEF KbdInv, intr_keyboard_handler
  <2>2. Head(port) \in Byte
    BY <2>1
  <2> QED BY <2>2 DEF Byte
<1>2. sc = Scan(Believed, b) /\ sc \in Nat
  BY <1>1, FlagIs DEF Scan, KbdInv
<1>3. IF b = Extended
      THEN ext_scancode' = TRUE /\ UNCHANGED <<statusVars, kbd_buf>>
      ELSE /\ ext_scancode' = FALSE
           /\ IF b >= 128 THEN BreakCode(sc - 128)
              ELSE IF Known(sc) THEN MakeCode(sc)
              ELSE UNCHANGED <<statusVars, kbd_buf>>
  BY DEF intr_keyboard_handler, EndOfCode
<1>4. /\ ctrl_status \in BOOLEAN /\ shift_status \in BOOLEAN /\ alt_status \in BOOLEAN
      /\ caps_lock_status \in BOOLEAN /\ ext_scancode \in BOOLEAN
  BY DEF KbdInv
<1> HIDE DEF b, sc
<1>5. ASSUME \A x \in Flags : x \in Believed' <=> Stays(x, Believed, b)
      PROVE  Believed' = Decode(Believed, b)
  BY <1>5, FlagIsNext DEF Decode
<1>6. CASE b = Extended
  <2>1. ext_scancode' = TRUE /\ Same /\ kbd_buf' = kbd_buf
    BY <1>3, <1>6 DEF statusVars
  <2>2. CharOf(Believed, b) = NoChar
    BY <1>6 DEF CharOf, Extended
  <2>3. \A x \in Flags : x \in Believed' <=> Stays(x, Believed, b)
    BY <1>6, <2>1, FlagIs, FlagIsNext DEF Flags, Stays
  <2> QED BY <1>4, <1>5, <2>1, <2>2, <2>3
<1>7. CASE b # Extended /\ b >= 128
  <2>1. ext_scancode' = FALSE /\ BreakCode(sc - 128)
    BY <1>3, <1>7
  <2>2. CharOf(Believed, b) = NoChar
    BY <1>7 DEF CharOf
  <2>3. \A x \in Flags : x \in Believed' <=> Stays(x, Believed, b)
    <3>1. sc = Scan(Believed, b) /\ ~ ("ext" \in Believed')
      BY <1>2, <2>1, FlagIsNext
    <3>2. "ctrl" \in Believed' <=> Stays("ctrl", Believed, b)
      BY <1>7, <2>1, <3>1, FlagIs, FlagIsNext DEF Stays, Clears, BreakCode
    <3>3. "shift" \in Believed' <=> Stays("shift", Believed, b)
      BY <1>7, <2>1, <3>1, FlagIs, FlagIsNext DEF Stays, Clears, BreakCode
    <3>4. "alt" \in Believed' <=> Stays("alt", Believed, b)
      BY <1>7, <2>1, <3>1, FlagIs, FlagIsNext DEF Stays, Clears, BreakCode
    <3>5. "caps" \in Believed' <=> Stays("caps", Believed, b)
      BY <1>7, <2>1, <3>1, FlagIs, FlagIsNext DEF Stays, Clears, BreakCode
    <3>6. ~ Stays("ext", Believed, b)
      BY <1>7 DEF Stays
    <3> QED BY <3>1, <3>2, <3>3, <3>4, <3>5, <3>6 DEF Flags
  <2>4. /\ ctrl_status' \in BOOLEAN /\ shift_status' \in BOOLEAN /\ alt_status' \in BOOLEAN
        /\ caps_lock_status' \in BOOLEAN /\ kbd_buf' = kbd_buf
    BY <1>4, <2>1 DEF BreakCode
  <2> QED BY <1>5, <2>1, <2>2, <2>3, <2>4
<1>8. CASE b < 128 /\ ~ Known(sc)
  <2>1. b # Extended /\ ~ (b >= 128)
    BY <1>1, <1>8 DEF Extended
  <2>2. ext_scancode' = FALSE /\ Same /\ kbd_buf' = kbd_buf
    BY <1>3, <1>8, <2>1 DEF statusVars
  <2>3. CharOf(Believed, b) = NoChar
    BY <1>2, <1>8 DEF CharOf
  <2>4. \A x \in Flags : x \in Believed' <=> Stays(x, Believed, b)
    BY <1>2, <1>8, <2>1, <2>2, FlagIs, FlagIsNext DEF Flags, Stays
  <2> QED BY <1>4, <1>5, <2>2, <2>3, <2>4
<1>9. CASE b < 128 /\ Known(sc)
  <2> DEFINE c == keymap(sc % 256, IF TwoChars(sc) THEN shift_status
                                   ELSE shift_status # caps_lock_status)
  <2>1. b # Extended /\ ~ (b >= 128)
    BY <1>1, <1>9 DEF Extended
  <2>2. ext_scancode' = FALSE /\ MakeCode(sc)
    BY <1>3, <1>9, <2>1
  <2>3. CharOf(Believed, b) = c
    BY <1>2, <1>4, <1>9, <2>1, FlagIs DEF CharOf, keymap
  <2>4. IF c # NoChar
        THEN PutChar(c)
        ELSE /\ ctrl_status' = (ctrl_status \/ sc % 256 = ctrl_l_make)
             /\ shift_status' = (shift_status \/ sc % 256 \in {shift_l_make, shift_r_make})
             /\ alt_status' = (alt_status \/ sc % 256 = alt_l_make)
             /\ caps_lock_status' = (caps_lock_status # (sc % 256 = caps_lock_make))
             /\ UNCHANGED kbd_buf
    BY <2>2 DEF MakeCode
  <2> HIDE DEF c
  <2>5. CASE c # NoChar
    <3>1. Same /\ kbd_buf' = IF Len(kbd_buf) = bufsize - 1 THEN kbd_buf ELSE Append(kbd_buf, c)
      BY <2>4, <2>5 DEF PutChar, statusVars
    <3>2. \A x \in Flags : x \in Believed' <=> Stays(x, Believed, b)
      BY <2>1, <2>2, <2>3, <2>5, <3>1, FlagIs, FlagIsNext DEF Flags, Stays
    <3> QED BY <1>4, <1>5, <2>2, <2>3, <2>5, <3>1, <3>2
  <2>6. CASE c = NoChar
    <3> DEFINE index == sc % 256
    <3>1. /\ ctrl_status' = (ctrl_status \/ index = ctrl_l_make)
          /\ shift_status' = (shift_status \/ index \in {shift_l_make, shift_r_make})
          /\ alt_status' = (alt_status \/ index = alt_l_make)
          /\ caps_lock_status' = (caps_lock_status # (index = caps_lock_make))
          /\ kbd_buf' = kbd_buf
      BY <2>4, <2>6
    <3>2. \A x \in Flags : Stays(x, Believed, b) <=>
            IF x = "ext" THEN FALSE
            ELSE IF x = "caps" THEN ("caps" \in Believed) # (index = caps_lock_make)
            ELSE x \in Believed \/ Sets(x, index)
      BY <1>2, <1>9, <2>1, <2>3, <2>6 DEF Stays
    <3> HIDE DEF index
    <3>3. \A x \in Flags : x \in Believed' <=> Stays(x, Believed, b)
      <4>1. "caps" \in Believed' <=> ~ ("caps" \in Believed <=> index = caps_lock_make)
        BY <1>4, <3>1, FlagIs, FlagIsNext
      <4>2. "caps" \in Believed' <=> Stays("caps", Believed, b)
        BY <3>2, <4>1 DEF Flags
      <4>3. \A x \in {"ctrl", "shift", "alt"} : x \in Believed' <=> x \in Believed \/ Sets(x, index)
        BY <1>4, <3>1, FlagIs, FlagIsNext DEF Sets
      <4>4. \A x \in {"ctrl", "shift", "alt"} : x \in Believed' <=> Stays(x, Believed, b)
        BY <3>2, <4>3 DEF Flags
      <4>5. "ext" \in Believed' <=> Stays("ext", Believed, b)
        BY <2>2, <3>2, FlagIsNext DEF Flags
      <4> QED BY <4>2, <4>4, <4>5 DEF Flags
    <3>4. /\ ctrl_status' \in BOOLEAN /\ shift_status' \in BOOLEAN /\ alt_status' \in BOOLEAN
          /\ caps_lock_status' \in BOOLEAN
      BY <3>1
    <3> QED BY <1>5, <2>2, <2>3, <2>6, <3>1, <3>3, <3>4
  <2> QED BY <2>5, <2>6
<1> QED BY <1>1, <1>6, <1>7, <1>8, <1>9

(* The keys of a flag.                                                     *)
Is(x, k) == \/ x = "ctrl" /\ k.code = ctrl_l_make
            \/ x = "shift" /\ k.code \in {shift_l_make, shift_r_make} /\ ~ k.ext
            \/ x = "alt" /\ k.code = alt_l_make

Prefixed(s, k) == IF k.ext THEN Decode(s, Extended) ELSE s

(* The numbers of the codes: an extended code that the handler knows is    *)
(* that of a modifier, and the prefix is cut off by % 256.                 *)
LEMMA Codes ==
  ASSUME NEW k \in Key
  PROVE  /\ k.code \in 1..126 /\ k.code # 96 /\ k.ext \in BOOLEAN
         /\ k.code % 256 = k.code /\ (57344 + k.code) % 256 = k.code
  BY KeyAssumption

(* The flags once 0xe0 is read, if there is one, and the code the handler  *)
(* makes of the next byte.                                                 *)
LEMMA PrefixFlags ==
  ASSUME NEW k \in Key, NEW s \in SUBSET Flags, "ext" \notin s, NEW b \in Nat
  PROVE  /\ \A x \in Flags \ {"ext"} : x \in Prefixed(s, k) <=> x \in s
         /\ Prefixed(s, k) \in SUBSET Flags
         /\ Scan(Prefixed(s, k), b) = IF k.ext THEN 57344 + b ELSE b
         /\ CharOf(s, Extended) = NoChar
<1>1. CharOf(s, Extended) = NoChar
  BY DEF CharOf, Extended
<1>2. CASE k.ext
  BY <1>1, <1>2 DEF Prefixed, Decode, Stays, Flags, Scan
<1>3. CASE ~ k.ext
  BY <1>1, <1>3 DEF Prefixed, Scan
<1> QED BY <1>2, <1>3

(* The character of a key that is pressed is the one that is meant.        *)
LEMMA PressChar ==
  ASSUME NEW k \in Key, NEW s \in SUBSET Flags, "ext" \notin s
  PROVE  CharOf(Prefixed(s, k), k.code)
           = IF k.ext \/ k.code > caps_lock_make THEN NoChar
             ELSE keymap(k.code, IF Letter(k.code) THEN ("shift" \in s) # ("caps" \in s)
                                 ELSE "shift" \in s)
<1> DEFINE t == Prefixed(s, k)
           c == k.code
           sc == Scan(t, c)
<1>1. c \in 1..126 /\ k.ext \in BOOLEAN /\ sc % 256 = c /\ sc = IF k.ext THEN 57344 + c ELSE c
  BY Codes, PrefixFlags
<1>2. ("shift" \in t <=> "shift" \in s) /\ ("caps" \in t <=> "caps" \in s)
  BY PrefixFlags DEF Flags
<1>3. CharOf(t, c) = IF c >= 128 \/ ~ Known(sc) THEN NoChar
                     ELSE keymap(sc % 256, IF TwoChars(sc) THEN "shift" \in t
                                           ELSE ("shift" \in t) # ("caps" \in t))
  BY DEF CharOf
<1> HIDE DEF t, c, sc
<1>4. CASE k.ext
  <2>1. CASE c \in {29, 56}
    <3>1. sc % 256 \in Invisible
      BY <1>1, <2>1 DEF Invisible, shift_l_make, shift_r_make, alt_l_make, ctrl_l_make, caps_lock_make
    <3> QED BY <1>3, <1>4, <3>1 DEF keymap, t, c
  <2>2. CASE c \notin {29, 56}
    <3>1. ~ Known(sc)
      BY <1>1, <1>4, <2>2 DEF Known, alt_r_make, ctrl_r_make
    <3> QED BY <1>3, <1>4, <3>1 DEF t, c
  <2> QED BY <2>1, <2>2
<1>5. CASE ~ k.ext /\ c > caps_lock_make
  <2>1. ~ Known(sc)
    BY <1>1, <1>5 DEF Known, alt_r_make, ctrl_r_make, caps_lock_make
  <2> QED BY <1>3, <1>5, <2>1 DEF t, c
<1>6. CASE ~ k.ext /\ ~ (c > caps_lock_make)
  <2>1. sc = c /\ Known(sc) /\ ~ (c >= 128)
    BY <1>1, <1>6 DEF Known, caps_lock_make
  <2>2. CharOf(t, c) = keymap(c, IF TwoChars(c) THEN "shift" \in s
                                 ELSE ("shift" \in s) # ("caps" \in s))
    BY <1>1, <1>2, <1>3, <2>1 DEF keymap
  <2>3. c \in Invisible \/ c \in OneChar \/ (TwoChars(c) <=> ~ Letter(c))
    BY <1>1, <1>6 DEF Invisible, OneChar, TwoChars, Letter, shift_l_make, shift_r_make,
                      alt_l_make, ctrl_l_make, caps_lock_make
  <2>4. keymap(c, IF TwoChars(c) THEN "shift" \in s ELSE ("shift" \in s) # ("caps" \in s))
          = keymap(c, IF Letter(c) THEN ("shift" \in s) # ("caps" \in s) ELSE "shift" \in s)
    BY <2>3 DEF keymap
  <2> QED BY <1>6, <2>2, <2>4 DEF t, c
<1> QED BY <1>1, <1>4, <1>5, <1>6

(* A make code sets the flag of its key; caps lock is switched.            *)
LEMMA PressFlags ==
  ASSUME NEW k \in Key, NEW s \in SUBSET Flags, "ext" \notin s
  PROVE  LET d == Decode(Prefixed(s, k), k.code)
         IN  /\ \A x \in {"ctrl", "shift", "alt"} : x \in d <=> x \in s \/ Is(x, k)
             /\ "caps" \in d <=> ~ ("caps" \in s <=> k.code = caps_lock_make /\ ~ k.ext)
             /\ "ext" \notin d /\ d \in SUBSET Flags
<1> DEFINE t == Prefixed(s, k)
           c == k.code
           sc == Scan(t, c)
           d == Decode(t, c)
           modifier == {ctrl_l_make, shift_l_make, shift_r_make, alt_l_make, caps_lock_make}
<1>1. /\ c \in 1..126 /\ k.ext \in BOOLEAN /\ sc % 256 = c
      /\ sc = IF k.ext THEN 57344 + c ELSE c
  BY Codes, PrefixFlags
<1>2. \A x \in Flags \ {"ext"} : x \in t <=> x \in s
  BY PrefixFlags
<1>3. CharOf(t, c) = IF c >= 128 \/ ~ Known(sc) THEN NoChar
                     ELSE keymap(sc % 256, IF TwoChars(sc) THEN "shift" \in t
                                           ELSE ("shift" \in t) # ("caps" \in t))
  BY DEF CharOf
<1>4. \A x \in Flags : x \in d <=>
        IF x = "ext" THEN FALSE
        ELSE IF Known(sc) /\ CharOf(t, c) = NoChar
        THEN IF x = "caps" THEN ("caps" \in t) # (sc % 256 = caps_lock_make)
             ELSE x \in t \/ Sets(x, sc % 256)
        ELSE x \in t
  <2>1. c # Extended /\ ~ (c >= 128)
    BY <1>1 DEF Extended
  <2> HIDE DEF c, t
  <2> QED BY <2>1 DEF Decode, Stays
<1>5. d \in SUBSET Flags
  BY DEF Decode
<1>6. c \in modifier => c \in Invisible
  BY DEF Invisible
<1> HIDE DEF t, c, sc, d
<1>7. CASE Known(sc) /\ CharOf(t, c) = NoChar
  <2>1. k.ext => c \in {29, 56}
    BY <1>1, <1>7 DEF Known, alt_r_make, ctrl_r_make
  <2>2. \A x \in {"ctrl", "shift", "alt"} : Sets(x, c) <=> Is(x, k)
    BY <1>1, <2>1 DEF Sets, Is, c, ctrl_l_make, shift_l_make, shift_r_make, alt_l_make
  <2>3. \A x \in {"ctrl", "shift", "alt"} : x \in d <=> x \in s \/ Is(x, k)
    BY <1>1, <1>2, <1>4, <1>7, <2>2 DEF Flags
  <2>4. "caps" \in d <=> ~ ("caps" \in s <=> c = caps_lock_make)
    BY <1>1, <1>2, <1>4, <1>7 DEF Flags
  <2>5. c = caps_lock_make <=> c = caps_lock_make /\ ~ k.ext
    BY <1>1, <2>1 DEF caps_lock_make
  <2>6. "ext" \notin d
    BY <1>4 DEF Flags
  <2> QED BY <1>5, <2>3, <2>4, <2>5, <2>6 DEF d, t, c
<1>8. CASE ~ (Known(sc) /\ CharOf(t, c) = NoChar)
  <2>1. c \in modifier => ~ Known(sc)
    BY <1>1, <1>3, <1>6, <1>8 DEF keymap
  <2>2. c \in modifier => k.ext /\ c \notin {29, 56}
    BY <1>1, <2>1 DEF Known, alt_r_make, ctrl_r_make, shift_l_make, shift_r_make,
                      ctrl_l_make, alt_l_make, caps_lock_make
  <2>3. \A x \in {"ctrl", "shift", "alt"} : ~ Is(x, k)
    BY <2>2 DEF Is, c, ctrl_l_make, alt_l_make
  <2>4. \A x \in {"ctrl", "shift", "alt", "caps"} : x \in d <=> x \in s
    BY <1>2, <1>4, <1>8 DEF Flags
  <2>5. "ext" \notin d /\ ~ (c = caps_lock_make /\ ~ k.ext)
    BY <1>4, <2>2 DEF Flags
  <2> QED BY <1>5, <2>3, <2>4, <2>5 DEF d, t, c
<1> QED BY <1>7, <1>8

(* A break code clears the flag of its key.                                *)
LEMMA ReleaseFlags ==
  ASSUME NEW k \in Key, NEW s \in SUBSET Flags, "ext" \notin s
  PROVE  LET d == Decode(Prefixed(s, k), k.code + 128)
         IN  /\ \A x \in {"ctrl", "shift", "alt"} : x \in d <=> x \in s /\ ~ Is(x, k)
             /\ "caps" \in d <=> "caps" \in s
             /\ "ext" \notin d /\ d \in SUBSET Flags
             /\ CharOf(Prefixed(s, k), k.code + 128) = NoChar
<1> DEFINE t == Prefixed(s, k)
           c == k.code
           b == c + 128
           d == Decode(t, b)
<1>1. c \in 1..126 /\ c # 96 /\ k.ext \in BOOLEAN /\ b \in Nat
  BY Codes
<1>2. \A x \in Flags \ {"ext"} : x \in t <=> x \in s
  BY PrefixFlags
<1>3. Scan(t, b) - 128 = IF k.ext THEN 57344 + c ELSE c
  <2>1. Scan(t, b) = IF k.ext THEN 57344 + b ELSE b
    BY <1>1, PrefixFlags
  <2> HIDE DEF t, c
  <2> QED BY <1>1, <2>1
<1>4. b # Extended /\ b >= 128
  <2> HIDE DEF c
  <2> QED BY <1>1 DEF Extended
<1> HIDE DEF b, t
<1>5. \A x \in Flags : x \in d <=> /\ x # "ext" /\ x \in t
                                   /\ ~ Clears(x, Scan(t, b) - 128)
  BY <1>4 DEF Decode, Stays
<1>6. d \in SUBSET Flags /\ CharOf(t, b) = NoChar
  BY <1>4 DEF Decode, CharOf
<1> HIDE DEF d, c
<1>7. \A x \in {"ctrl", "shift", "alt"} : Clears(x, Scan(t, b) - 128) <=> Is(x, k)
  <2> DEFINE m == Scan(t, b) - 128
             e == k.ext
  <2>1. /\ Is("ctrl", k) <=> c = 29
        /\ Is("shift", k) <=> c \in {42, 54} /\ ~ e
        /\ Is("alt", k) <=> c = 56
    BY DEF Is, c, ctrl_l_make, shift_l_make, shift_r_make, alt_l_make
  <2>2. /\ Clears("ctrl", m) <=> m \in {29, 57344 + 29}
        /\ Clears("shift", m) <=> m \in {42, 54}
        /\ Clears("alt", m) <=> m \in {56, 57344 + 56}
    BY DEF Clears, ctrl_l_make, ctrl_r_make, shift_l_make, shift_r_make, alt_l_make, alt_r_make
  <2>3. m = IF e THEN 57344 + c ELSE c
    BY <1>3
  <2> HIDE DEF m, e
  <2>4. /\ m \in {29, 57344 + 29} <=> c = 29
        /\ m \in {42, 54} <=> c \in {42, 54} /\ ~ e
        /\ m \in {56, 57344 + 56} <=> c = 56
    BY <1>1, <2>3
  <2>5. \A x \in {"ctrl", "shift", "alt"} : Clears(x, m) <=> Is(x, k)
    BY <2>1, <2>2, <2>4
  <2> QED BY <2>5 DEF m
<1>8. ~ Clears("caps", Scan(t, b) - 128)
  BY DEF Clears
<1>9. /\ \A x \in {"ctrl", "shift", "alt"} : x \in d <=> x \in s /\ ~ Is(x, k)
      /\ "caps" \in d <=> "caps" \in s
      /\ "ext" \notin d
  BY <1>2, <1>5, <1>7, <1>8 DEF Flags
<1> QED BY <1>6, <1>9 DEF d, b, t, c

(* What is in force after a key is pressed or released.                    *)
LEMMA InForceIs ==
  /\ InForce({ctrl_l_make}) <=> \E k \in live : Is("ctrl", k)
  /\ ShiftInForce <=> \E k \in live : Is("shift", k)
  /\ InForce({alt_l_make}) <=> \E k \in live : Is("alt", k)
  /\ InForce({ctrl_l_make})' <=> \E k \in live' : Is("ctrl", k)
  /\ ShiftInForce' <=> \E k \in live' : Is("shift", k)
  /\ InForce({alt_l_make})' <=> \E k \in live' : Is("alt", k)
  BY DEF InForce, ShiftInForce, Shift, Is

(* The partners of a key are those of its flag.                            *)
LEMMA PartnersAre ==
  ASSUME NEW k \in Key, NEW l \in Key, NEW x \in {"ctrl", "shift", "alt"}, Is(x, l)
  PROVE  l \in Partners(k) <=> Is(x, k)
<1>1. ctrl_l_make # alt_l_make /\ {ctrl_l_make, alt_l_make} \cap {shift_l_make, shift_r_make} = {}
  BY DEF ctrl_l_make, alt_l_make, shift_l_make, shift_r_make
<1>2. CASE x = "ctrl"
  BY <1>1, <1>2 DEF Partners, Shift, Is
<1>3. CASE x = "alt"
  BY <1>1, <1>3 DEF Partners, Shift, Is
<1>4. CASE x = "shift"
  BY <1>1, <1>4 DEF Partners, Shift, Is
<1> QED BY <1>2, <1>3, <1>4

(* Sets of flags are compared flag by flag.                                *)
LEMMA FlagsEqual ==
  ASSUME NEW a \in SUBSET Flags, NEW b \in SUBSET Flags, "ext" \notin a, "ext" \notin b,
         \A x \in {"ctrl", "shift", "alt"} : x \in a <=> x \in b, "caps" \in a <=> "caps" \in b
  PROVE  a = b
<1>1. \A x \in Flags : x \in a <=> x \in b
  BY DEF Flags
<1> QED BY <1>1

(* A key that is pressed changes what is true of the keys as its bytes     *)
(* change what the handler believes, and gives the character that is       *)
(* meant.                                                                  *)
LEMMA PressActual ==
  ASSUME KbdInv, NEW k \in Key, live' = live \cup {k},
         caps' = (caps # (k = [code |-> caps_lock_make, ext |-> FALSE]))
  PROVE  /\ Actual' = Decode(Prefixed(Actual, k), k.code)
         /\ Meant(k) = CharOf(Prefixed(Actual, k), k.code)
         /\ caps' \in BOOLEAN
<1> DEFINE d == Decode(Prefixed(Actual, k), k.code)
<1>1. Actual \in SUBSET Flags /\ "ext" \notin Actual
  BY FlagIs
<1>2. /\ \A x \in {"ctrl", "shift", "alt"} : x \in d <=> x \in Actual \/ Is(x, k)
      /\ "caps" \in d <=> ~ ("caps" \in Actual <=> k.code = caps_lock_make /\ ~ k.ext)
      /\ "ext" \notin d /\ d \in SUBSET Flags
  BY <1>1, PressFlags
<1> HIDE DEF d
<1>3. \A x \in {"ctrl", "shift", "alt"} : x \in Actual' <=> x \in d
  BY <1>2, InForceIs, FlagIs, FlagIsNext
<1>4. k = [code |-> caps_lock_make, ext |-> FALSE] <=> k.code = caps_lock_make /\ ~ k.ext
  BY KeyAssumption
<1>5. caps' <=> ~ (caps <=> k.code = caps_lock_make /\ ~ k.ext)
  BY <1>4 DEF KbdInv
<1>6. "caps" \in Actual' <=> "caps" \in d
  BY <1>2, <1>5, FlagIs, FlagIsNext
<1>7. Actual' = d
  BY <1>2, <1>3, <1>6, FlagIsNext, FlagsEqual
<1>8. Meant(k) = CharOf(Prefixed(Actual, k), k.code)
  <2>1. CharOf(Prefixed(Actual, k), k.code)
          = IF k.ext \/ k.code > caps_lock_make THEN NoChar
            ELSE keymap(k.code, IF Letter(k.code) THEN ("shift" \in Actual) # ("caps" \in Actual)
                                ELSE "shift" \in Actual)
    BY <1>1, PressChar
  <2>2. ShiftInForce \in BOOLEAN /\ caps \in BOOLEAN
    BY DEF ShiftInForce, KbdInv
  <2> QED BY <2>1, <2>2, FlagIs DEF Meant, keymap
<1> QED BY <1>7, <1>8 DEF d

(* So does a key that is released.                                         *)
LEMMA ReleaseActual ==
  ASSUME KbdInv, NEW k \in Key, live' = live \ Partners(k), caps' = caps
  PROVE  /\ Actual' = Decode(Prefixed(Actual, k), k.code + 128)
         /\ CharOf(Prefixed(Actual, k), k.code + 128) = NoChar
<1> DEFINE d == Decode(Prefixed(Actual, k), k.code + 128)
<1>1. Actual \in SUBSET Flags /\ "ext" \notin Actual /\ live \subseteq Key
  BY FlagIs DEF KbdInv
<1>2. /\ \A x \in {"ctrl", "shift", "alt"} : x \in d <=> x \in Actual /\ ~ Is(x, k)
      /\ "caps" \in d <=> "caps" \in Actual
      /\ "ext" \notin d /\ d \in SUBSET Flags
      /\ CharOf(Prefixed(Actual, k), k.code + 128) = NoChar
  BY <1>1, ReleaseFlags
<1> HIDE DEF d
<1>3. \A x \in {"ctrl", "shift", "alt"} :
        (\E l \in live' : Is(x, l)) <=> (\E l \in live : Is(x, l)) /\ ~ Is(x, k)
  BY <1>1, PartnersAre
<1>4. \A x \in {"ctrl", "shift", "alt"} : x \in Actual' <=> x \in d
  BY <1>2, <1>3, InForceIs, FlagIs, FlagIsNext
<1>5. "caps" \in Actual' <=> "caps" \in d
  BY <1>2, FlagIs, FlagIsNext
<1>6. Actual' = d
  BY <1>2, <1>4, <1>5, FlagIsNext, FlagsEqual
<1> QED BY <1>2, <1>6 DEF d

(* Send, with its one or two bytes.                                        *)
LEMMA SendTraces ==
  ASSUME KbdInv, NEW k \in Key, NEW b \in Nat, NEW want \in {NoChar} \cup (Nat \X {0, 1}),
         Send(k, b, want), want = CharOf(Prefixed(Actual, k), b),
         Actual' = Decode(Prefixed(Actual, k), b), Believed' = Believed
  PROVE  port' \in Seq(Byte) /\ \E tr : Trace(tr, port', Believed', Actual')
<1> DEFINE x == [byte |-> Extended, want |-> NoChar]
           y == [byte |-> b, want |-> want]
<1>1. port \in Seq(Byte) /\ \E tr : Trace(tr, port, Believed, Actual)
  BY DEF KbdInv
<1>2. x \in Byte /\ y \in Byte
  BY DEF Byte, Extended
<1>3. CASE k.ext
  <2>1. port' = port \o (<<x>> \o <<y>>)
    BY <1>3 DEF Send
  <2>2. port' = Append(Append(port, x), y) /\ Append(port, x) \in Seq(Byte)
    <3> HIDE DEF x, y
    <3> QED BY <1>1, <1>2, <2>1
  <2>3. x.byte = Extended /\ x.want = CharOf(Actual, x.byte) /\ y.byte = b /\ y.want = want
    BY DEF CharOf, Extended
  <2>4. Prefixed(Actual, k) = Decode(Actual, Extended)
    BY <1>3 DEF Prefixed
  <2> HIDE DEF x, y
  <2>5. PICK t : Trace(t, Append(port, x), Believed, Decode(Actual, Extended))
    BY <1>1, <1>2, <2>3, TraceAppend
  <2>6. \E tr : Trace(tr, port', Believed, Decode(Decode(Actual, Extended), b))
    BY <1>2, <2>2, <2>3, <2>4, <2>5, TraceAppend
  <2> QED BY <1>2, <2>2, <2>4, <2>6
<1>4. CASE ~ k.ext
  <2>1. port' = port \o (<<>> \o <<y>>)
    BY <1>4 DEF Send
  <2>2. port' = Append(port, y)
    <3> HIDE DEF y
    <3> QED BY <1>1, <1>2, <2>1
  <2>3. y.byte = b /\ y.want = want /\ Prefixed(Actual, k) = Actual
    BY <1>4 DEF Prefixed
  <2> HIDE DEF y
  <2>4. \E tr : Trace(tr, port', Believed, Decode(Actual, b))
    BY <1>1, <1>2, <2>2, <2>3, TraceAppend
  <2> QED BY <1>1, <1>2, <2>2, <2>3, <2>4
<1> QED BY <1>3, <1>4

(* No byte is on its way at first.                                         *)
LEMMA KbdInvInit ==
  ASSUME KbdInit PROVE KbdInv
<1>1. Believed = {} /\ Actual = {}
  BY DEF KbdInit, Believed, Actual, InForce, ShiftInForce
<1>2. Trace([i \in 0..0 |-> {}], <<>>, {}, {})
  BY DEF Trace
<1>3. \E tr : Trace(tr, port, Believed, Actual)
  BY <1>1, <1>2 DEF KbdInit
<1>4. /\ ctrl_status \in BOOLEAN /\ shift_status \in BOOLEAN /\ alt_status \in BOOLEAN
      /\ caps_lock_status \in BOOLEAN /\ ext_scancode \in BOOLEAN /\ caps \in BOOLEAN
  BY DEF KbdInit
<1>5. live \subseteq Key /\ port \in Seq(Byte)
  BY DEF KbdInit
<1> QED BY <1>3, <1>4, <1>5 DEF KbdInv

(* Every step keeps the trace.                                             *)
LEMMA KbdInvNext ==
  ASSUME KbdInv, [KbdNext]_kbdVars PROVE KbdInv'
<1> DEFINE Types == /\ ctrl_status \in BOOLEAN /\ shift_status \in BOOLEAN /\ alt_status \in BOOLEAN
                    /\ caps_lock_status \in BOOLEAN /\ ext_scancode \in BOOLEAN
<1>1. /\ Types /\ caps \in BOOLEAN /\ live \subseteq Key /\ port \in Seq(Byte)
      /\ \E tr : Trace(tr, port, Believed, Actual)
  BY DEF KbdInv
<1>2. UNCHANGED <<statusVars, ext_scancode>> => Believed' = Believed /\ Types'
  BY <1>1 DEF statusVars, Believed
<1>3. ASSUME NEW k \in Key, Press(k) PROVE KbdInv'
  <2>1. /\ Send(k, k.code, Meant(k)) /\ live' = live \cup {k}
        /\ caps' = (caps # (k = [code |-> caps_lock_make, ext |-> FALSE]))
        /\ UNCHANGED <<statusVars, ext_scancode>>
    BY <1>3 DEF Press
  <2>2. /\ Actual' = Decode(Prefixed(Actual, k), k.code)
        /\ Meant(k) = CharOf(Prefixed(Actual, k), k.code)
        /\ caps' \in BOOLEAN
    BY <2>1, PressActual
  <2>3. k.code \in Nat
    BY Codes
  <2>4. Meant(k) \in {NoChar} \cup (Nat \X {0, 1})
    BY <2>3 DEF Meant, keymap
  <2>5. port' \in Seq(Byte) /\ \E tr : Trace(tr, port', Believed', Actual')
    BY <1>2, <2>1, <2>2, <2>3, <2>4, SendTraces
  <2> QED BY <1>1, <1>2, <2>1, <2>2, <2>5 DEF KbdInv
<1>4. ASSUME NEW k \in Key, Release(k) PROVE KbdInv'
  <2>1. /\ Send(k, k.code + 128, NoChar) /\ live' = live \ Partners(k) /\ caps' = caps
        /\ UNCHANGED <<statusVars, ext_scancode>>
    BY <1>4 DEF Release
  <2>2. /\ Actual' = Decode(Prefixed(Actual, k), k.code + 128)
        /\ CharOf(Prefixed(Actual, k), k.code + 128) = NoChar
    BY <2>1, ReleaseActual
  <2>3. k.code + 128 \in Nat
    BY Codes
  <2>4. port' \in Seq(Byte) /\ \E tr : Trace(tr, port', Believed', Actual')
    BY <1>2, <2>1, <2>2, <2>3, SendTraces
  <2> QED BY <1>1, <1>2, <2>1, <2>4 DEF KbdInv
<1>5. CASE intr_keyboard_handler
  <2> DEFINE b == Head(port).byte
  <2>1. port # <<>> /\ port' = Tail(port) /\ live' = live /\ caps' = caps
    BY <1>5 DEF intr_keyboard_handler
  <2>2. Believed' = Decode(Believed, b) /\ Types'
    BY <1>5, HandlerDecodes
  <2>3. Actual' = Actual
    BY <2>1 DEF Actual, InForce, ShiftInForce
  <2>4. \E tr : Trace(tr, Tail(port), Decode(Believed, b), Actual)
    BY <1>1, <2>1, TraceTail
  <2>5. port' \in Seq(Byte)
    BY <1>1, <2>1
  <2> HIDE DEF b
  <2> QED BY <1>1, <2>1, <2>2, <2>3, <2>4, <2>5 DEF KbdInv
<1>6. ASSUME Read \/ UNCHANGED kbdVars PROVE KbdInv'
  <2>1. UNCHANGED <<statusVars, ext_scancode, live, caps, port>>
    BY <1>6 DEF Read, kbdVars
  <2>2. Actual' = Actual
    BY <2>1 DEF Actual, InForce, ShiftInForce
  <2> QED BY <1>1, <1>2, <2>1, <2>2 DEF KbdInv
<1> QED BY <1>3, <1>4, <1>5, <1>6 DEF KbdNext

(* The statuses of the handler say which modifiers are in force whenever   *)
(* every byte is read, for every set of keys, both of a pair included, and *)
(* every order of presses, repeats, releases and interrupts.               *)
THEOREM ModifiersStayRight == KbdSpec => []ModifiersMatch
<1>1. KbdInit => KbdInv
  BY KbdInvInit
<1>2. KbdInv /\ [KbdNext]_kbdVars => KbdInv'
  BY KbdInvNext
<1>3. KbdInv => ModifiersMatch
  <2> SUFFICES ASSUME KbdInv, port = <<>> PROVE ModifiersMatch
    BY DEF ModifiersMatch
  <2>1. PICK tr : Trace(tr, port, Believed, Actual)
    BY DEF KbdInv
  <2>2. Believed = Actual
    BY <2>1 DEF Trace
  <2>3. /\ ctrl_status \in BOOLEAN /\ shift_status \in BOOLEAN /\ alt_status \in BOOLEAN
        /\ caps_lock_status \in BOOLEAN /\ caps \in BOOLEAN
        /\ InForce({ctrl_l_make}) \in BOOLEAN /\ ShiftInForce \in BOOLEAN /\ InForce({alt_l_make}) \in BOOLEAN
    BY DEF KbdInv, InForce, ShiftInForce
  <2> QED BY <2>2, <2>3, FlagIs DEF ModifiersMatch
<1> QED BY <1>1, <1>2, <1>3, PTL DEF KbdSpec

(* The character that the handler queues is the one that the key had under *)
(* the modifiers in force when it was pressed, however many bytes are on   *)
(* their way.                                                              *)
THEOREM CharsAreMeant == KbdSpec => CharIsMeant
<1> DEFINE Put == port # <<>> /\ port' = Tail(port) =>
                    kbd_buf' = IF Head(port).want = NoChar \/ Len(kbd_buf) = bufsize - 1
                               THEN kbd_buf ELSE Append(kbd_buf, Head(port).want)
<1>1. KbdInit => KbdInv
  BY KbdInvInit
<1>2. KbdInv /\ [KbdNext]_kbdVars => KbdInv'
  BY KbdInvNext
<1>3. KbdInv /\ [KbdNext]_kbdVars => [Put]_kbdVars
  <2> SUFFICES ASSUME KbdInv, KbdNext, port # <<>>, port' = Tail(port)
               PROVE  kbd_buf' = IF Head(port).want = NoChar \/ Len(kbd_buf) = bufsize - 1
                                 THEN kbd_buf ELSE Append(kbd_buf, Head(port).want)
    OBVIOUS
  <2>1. port \in Seq(Byte) /\ \E tr : Trace(tr, port, Believed, Actual)
    BY DEF KbdInv
  <2>2. Len(port) \in Nat \ {0} /\ Len(port') = Len(port) - 1
    BY <2>1
  <2>3. ~ Read
    <3>1. Read => Len(port') = Len(port)
      BY Zenon DEF Read
    <3>2. \A m \in Nat \ {0} : m - 1 # m
      OBVIOUS
    <3>3. Len(port') # Len(port)
      BY <2>2, <3>2, Zenon
    <3> QED BY <3>1, <3>3, Zenon
  <2>4. ASSUME NEW k \in Key, Press(k) \/ Release(k) PROVE FALSE
    <3>1. PICK b, want : Send(k, b, want)
      BY <2>4 DEF Press, Release
    <3> DEFINE bytes == (IF k.ext THEN <<[byte |-> Extended, want |-> NoChar]>> ELSE <<>>)
                          \o <<[byte |-> b, want |-> want]>>
    <3>2. port' = port \o bytes
      BY <3>1 DEF Send
    <3>3. Len(port') >= Len(port)
      BY <2>1, <3>2
    <3> QED BY <2>2, <3>3
  <2>5. intr_keyboard_handler
    BY <2>3, <2>4 DEF KbdNext
  <2>6. Head(port).want = CharOf(Believed, Head(port).byte)
    BY <2>1, TraceTail
  <2>7. kbd_buf' = IF CharOf(Believed, Head(port).byte) = NoChar \/ Len(kbd_buf) = bufsize - 1
                   THEN kbd_buf ELSE Append(kbd_buf, CharOf(Believed, Head(port).byte))
    BY <2>5, HandlerDecodes
  <2> QED BY <2>6, <2>7
<1> QED BY <1>1, <1>2, <1>3, PTL DEF KbdSpec, CharIsMeant
-----------------------------------------------------------------------------
(* The console.  A thread is in console_put_str exactly while it holds the *)
(* lock, and what was printed last is of the holder, or complete.          *)
Writers == KernelThread \cup Process \cup {Nobody}

LastIs(l, who) == l # <<>> => l[Len(l)] \in {who, Nobody}

Whole(l) == \A i \in 1..(Len(l) - 1) : l[i] # Nobody => l[i + 1] \in {l[i], Nobody}

TextInv == /\ lock \in KernelThread \cup {Nobody}
           /\ at \in [KernelThread -> {"idle", "next", "write", "set"}]
           /\ \A w \in KernelThread : at[w] # "idle" <=> lock = w
           /\ log \in Seq(Writers) /\ LastIs(log, lock) /\ Whole(log)

(* One more character, of the holder or Nobody.                            *)
LEMMA WholeAppend ==
  ASSUME NEW l \in Seq(Writers), NEW who, LastIs(l, who), Whole(l), NEW x \in Writers,
         x \in {who, Nobody}
  PROVE  Append(l, x) \in Seq(Writers) /\ LastIs(Append(l, x), x) /\ Whole(Append(l, x))
<1> DEFINE n == Len(l)
           q == Append(l, x)
<1>1. n \in Nat /\ Len(q) = n + 1 /\ q[n + 1] = x /\ \A i \in 1..n : q[i] = l[i]
  OBVIOUS
<1>2. (n # 0 => l[n] \in {who, Nobody}) /\ \A i \in 1..(n - 1) : l[i] # Nobody => l[i + 1] \in {l[i], Nobody}
  BY DEF LastIs, Whole
<1>3. q \in Seq(Writers)
  OBVIOUS
<1> HIDE DEF n, q
<1>4. ASSUME NEW i \in 1..(Len(q) - 1), q[i] # Nobody PROVE q[i + 1] \in {q[i], Nobody}
  <2>1. CASE i = n
    <3>1. q[i] = l[n] /\ q[i + 1] = x /\ n # 0
      BY <1>1, <2>1
    <3> QED BY <1>2, <1>4, <3>1
  <2>2. CASE i # n
    <3>1. i \in 1..(n - 1) /\ q[i] = l[i] /\ q[i + 1] = l[i + 1]
      BY <1>1, <2>2
    <3> QED BY <1>2, <1>4, <3>1
  <2> QED BY <2>1, <2>2
<1>5. LastIs(q, x)
  BY <1>1 DEF LastIs
<1> QED BY <1>3, <1>4, <1>5 DEF Whole, q

(* A whole text, printed while nobody holds the lock.                      *)
LEMMA WholeText ==
  ASSUME NEW l \in Seq(Writers), LastIs(l, Nobody), Whole(l), NEW u \in Writers, NEW m \in Nat
  PROVE  LET q == l \o [i \in 1..m |-> u] \o <<Nobody>>
         IN  q \in Seq(Writers) /\ LastIs(q, Nobody) /\ Whole(q)
<1> DEFINE n == Len(l)
           f == [i \in 1..m |-> u]
           q == l \o f \o <<Nobody>>
<1>1. f \in Seq(Writers) /\ Len(f) = m /\ \A i \in 1..m : f[i] = u
  OBVIOUS
<1>2. Nobody \in Writers
  BY DEF Writers
<1> HIDE DEF f
<1>3. /\ n \in Nat /\ q \in Seq(Writers) /\ Len(q) = n + m + 1
      /\ q[n + m + 1] = Nobody
      /\ \A i \in 1..n : q[i] = l[i]
      /\ \A i \in (n + 1)..(n + m) : q[i] = u
  BY <1>1, <1>2
<1>4. (n # 0 => l[n] = Nobody) /\ \A i \in 1..(n - 1) : l[i] # Nobody => l[i + 1] \in {l[i], Nobody}
  BY DEF LastIs, Whole
<1> HIDE DEF n, q
<1>5. ASSUME NEW i \in 1..(Len(q) - 1), q[i] # Nobody PROVE q[i + 1] \in {q[i], Nobody}
  <2>1. CASE i < n
    <3>1. i \in 1..n /\ i + 1 \in 1..n /\ i \in 1..(n - 1)
      BY <1>3, <2>1
    <3>2. q[i] = l[i] /\ q[i + 1] = l[i + 1]
      BY <1>3, <3>1
    <3> QED BY <1>4, <1>5, <3>1, <3>2
  <2>2. CASE i = n
    <3>1. q[i] = Nobody
      BY <1>3, <1>4, <2>2
    <3> QED BY <1>5, <3>1
  <2>3. CASE i > n
    <3>1. q[i] = u /\ (q[i + 1] = u \/ q[i + 1] = Nobody)
      BY <1>3, <2>3
    <3> QED BY <3>1
  <2> QED BY <1>3, <2>1, <2>2, <2>3
<1>6. LastIs(q, Nobody)
  BY <1>3 DEF LastIs
<1> QED BY <1>3, <1>5, <1>6 DEF Whole, q, f

(* Every step of a thread, a process or the handler keeps the invariant of *)
(* the console.                                                            *)
LEMMA TextInvNext ==
  ASSUME TextInv, [ConsoleNext]_consoleVars PROVE TextInv'
<1>1. /\ lock \in KernelThread \cup {Nobody}
      /\ at \in [KernelThread -> {"idle", "next", "write", "set"}]
      /\ \A w \in KernelThread : at[w] # "idle" <=> lock = w
      /\ log \in Seq(Writers) /\ LastIs(log, lock) /\ Whole(log)
  BY DEF TextInv
<1>2. Nobody \notin KernelThread \cup Process
  BY ConsoleAssumption
<1>3. ASSUME NEW w \in KernelThread, NEW str \in Texts, PutBegin(w, str) PROVE TextInv'
  <2>1. /\ at[w] = "idle" /\ lock = Nobody /\ lock' = w /\ at' = [at EXCEPT ![w] = "next"]
        /\ log' = log
    BY <1>3 DEF PutBegin, console_acquire
  <2>2. LastIs(log', lock')
    BY <1>1, <2>1 DEF LastIs
  <2>3. \A v \in KernelThread : at'[v] # "idle" <=> lock' = v
    BY <1>1, <1>2, <2>1
  <2> QED BY <1>1, <2>1, <2>2, <2>3 DEF TextInv
<1>4. ASSUME NEW w \in KernelThread, ReadCursor(w) \/ WriteScreen(w) PROVE TextInv'
  <2>1. /\ at[w] # "idle" /\ lock' = lock /\ log' = log
        /\ (at' = [at EXCEPT ![w] = "write"] \/ at' = [at EXCEPT ![w] = "set"])
    BY <1>4 DEF ReadCursor, WriteScreen
  <2> QED BY <1>1, <2>1 DEF TextInv
<1>5. ASSUME NEW w \in KernelThread, SetCursor(w) PROVE TextInv'
  <2>1. /\ at[w] = "set" /\ lock' = lock /\ log' = Append(log, w)
        /\ at' = [at EXCEPT ![w] = "next"]
    BY <1>5 DEF SetCursor
  <2>2. lock = w /\ w \in Writers
    BY <1>1, <2>1 DEF Writers
  <2>3. log' \in Seq(Writers) /\ LastIs(log', w) /\ Whole(log')
    BY <1>1, <2>1, <2>2, WholeAppend
  <2> QED BY <1>1, <2>1, <2>2, <2>3 DEF TextInv
<1>6. ASSUME NEW w \in KernelThread, console_release(w) PROVE TextInv'
  <2>1. /\ at[w] = "next" /\ lock' = Nobody /\ log' = Append(log, Nobody)
        /\ at' = [at EXCEPT ![w] = "idle"]
    BY <1>6 DEF console_release
  <2>2. Nobody \in Writers /\ lock = w
    BY <1>1, <2>1 DEF Writers
  <2>3. log' \in Seq(Writers) /\ LastIs(log', Nobody) /\ Whole(log')
    BY <1>1, <2>1, <2>2, WholeAppend
  <2>4. \A v \in KernelThread : at'[v] # "idle" <=> lock' = v
    BY <1>1, <1>2, <2>1, <2>2
  <2> QED BY <1>1, <2>1, <2>3, <2>4 DEF TextInv
<1>7. ASSUME NEW u \in Process, NEW str \in Texts, sys_write(u, str) PROVE TextInv'
  <2>1. /\ lock = Nobody /\ lock' = lock /\ at' = at
        /\ log' = log \o [i \in DOMAIN str |-> u] \o <<Nobody>>
    BY <1>7 DEF sys_write
  <2>2. DOMAIN str = 1..Len(str) /\ Len(str) \in Nat /\ u \in Writers
    BY ConsoleAssumption DEF Writers
  <2>3. log' \in Seq(Writers) /\ LastIs(log', Nobody) /\ Whole(log')
    BY <1>1, <2>1, <2>2, WholeText
  <2> QED BY <1>1, <2>1, <2>3 DEF TextInv
<1>8. ASSUME KeyPrints \/ UNCHANGED consoleVars PROVE TextInv'
  <2>1. lock' = lock /\ at' = at /\ log' = log
    BY <1>8 DEF KeyPrints, consoleVars
  <2> QED BY <1>1, <2>1 DEF TextInv
<1> QED BY <1>3, <1>4, <1>5, <1>6, <1>7, <1>8 DEF ConsoleNext

(* The console's lock keeps the characters of one string together, for any *)
(* number of threads and processes, any texts and any size of the screen.  *)
THEOREM TextsStayWhole == ConsoleSpec => []TextsWhole
<1>1. ConsoleInit => TextInv
  BY ConsoleAssumption DEF ConsoleInit, TextInv, LastIs, Whole
<1>2. TextInv /\ [ConsoleNext]_consoleVars => TextInv'
  BY TextInvNext
<1>3. TextInv => TextsWhole
  BY DEF TextInv, Whole, TextsWhole
<1> QED BY <1>1, <1>2, <1>3, PTL DEF ConsoleSpec
-----------------------------------------------------------------------------
(* The screen.  A row of the paper: the position t * c + x, of column x    *)
(* below c, is in row t.                                                   *)
LEMMA RowOf ==
  ASSUME NEW c \in Nat \ {0}, NEW t \in Nat, NEW x \in 0..(c - 1)
  PROVE  (t * c + x) \div c = t /\ (t * c + x) % c = x
  OBVIOUS

(* A position is in row r or below it iff it is r * c or more.             *)
LEMMA RowFrom ==
  ASSUME NEW c \in Nat \ {0}, NEW a \in Nat, NEW r \in Nat
  PROVE  a \div c >= r <=> a >= r * c
<1> DEFINE q == a \div c
           x == a % c
<1>1. q \in Nat /\ x \in 0..(c - 1) /\ a = q * c + x
  OBVIOUS
<1> HIDE DEF q, x
<1>2. CASE q >= r
  <2>1. q * c >= r * c /\ q * c \in Nat /\ r * c \in Nat
    BY <1>1, <1>2
  <2> QED BY <1>1, <1>2, <2>1 DEF q
<1>3. CASE ~ (q >= r)
  <2>1. q + 1 <= r
    BY <1>1, <1>3
  <2>2. (q + 1) * c <= r * c /\ r * c \in Nat
    BY <1>1, <2>1
  <2>3. (q + 1) * c = q * c + c /\ q * c \in Nat
    BY <1>1
  <2> QED BY <1>1, <1>3, <2>2, <2>3 DEF q
<1> QED BY <1>2, <1>3

(* The size of the screen in cells, without the product.                   *)
LEMMA CellsAre ==
  /\ Cols \in Nat \ {0} /\ Rows \in Nat \ {0, 1} /\ Cells \in Nat
  /\ Cells >= 2 * Cols /\ Cells = Rows * Cols /\ Cells - Cols = (Rows - 1) * Cols
<1>1. Cols \in Nat \ {0} /\ Rows \in Nat \ {0, 1} /\ Cells = Rows * Cols
  BY ConsoleAssumption DEF Cells
<1>2. (Rows - 1) * Cols = Rows * Cols - Cols /\ Rows * Cols \in Nat
  BY <1>1
<1>3. Rows * Cols >= 2 * Cols
  BY <1>1
<1> QED BY <1>1, <1>2, <1>3

Glyph == STRING \cup {Blank}

(* The screen scr is the window of the paper that begins with row t, and   *)
(* below the window the paper is blank.                                    *)
View(scr, sheet, t) ==
  /\ scr \in [0..(Cells - 1) -> Glyph] /\ sheet \in [0..PaperEnd -> Glyph]
  /\ \A i \in 0..(Cells - 1) : scr[i] = sheet[t * Cols + i]
  /\ \A j \in 0..PaperEnd : j >= t * Cols + Cells => sheet[j] = Blank

(* So is the cursor, after at most n characters.                           *)
Window(scr, cur, p, n) ==
  /\ n \in Nat /\ p.top \in Nat /\ p.pos \in Nat /\ p.pos <= Cols * n
  /\ cur \in 0..(Cells - 1) /\ p.pos = p.top * Cols + cur
  /\ View(scr, p.paper, p.top)

AllChars == TextLen * (MaxTexts + MaxKeys)

(* The paper is long enough: after fewer characters than there may be, the *)
(* window and one more row are on it.                                      *)
LEMMA PaperLasts ==
  ASSUME NEW n \in Nat, n < AllChars, NEW at0 \in Nat, at0 <= Cols * n
  PROVE  at0 + Cols + Cells <= PaperEnd /\ PaperEnd \in Nat /\ AllChars \in Nat
<1>1. Cols \in Nat \ {0} /\ Cells \in Nat
  BY CellsAre
<1>2. AllChars \in Nat
  BY ConsoleAssumption DEF AllChars
<1>3. PaperEnd = Cells + Cols * AllChars
  BY DEF PaperEnd, AllChars
<1> HIDE DEF AllChars
<1>4. Cols * (n + 1) <= Cols * AllChars /\ Cols * AllChars \in Nat
  BY <1>1, <1>2
<1>5. Cols * (n + 1) = Cols * n + Cols /\ Cols * n \in Nat
  BY <1>1
<1> QED BY <1>1, <1>2, <1>3, <1>4, <1>5

(* Rolling the screen moves the window down a row.                         *)
LEMMA Rolled ==
  ASSUME NEW scr, NEW sheet, NEW t \in Nat, View(scr, sheet, t),
         (t + 1) * Cols + Cells <= PaperEnd, PaperEnd \in Nat
  PROVE  View(roll_screen(scr), sheet, t + 1)
<1>1. Cols \in Nat \ {0} /\ Cells \in Nat /\ Cells >= 2 * Cols
  BY CellsAre
<1>2. PICK b \in Nat : b = t * Cols /\ (t + 1) * Cols = b + Cols
  BY <1>1
<1>3. /\ scr \in [0..(Cells - 1) -> Glyph] /\ sheet \in [0..PaperEnd -> Glyph]
      /\ \A i \in 0..(Cells - 1) : scr[i] = sheet[b + i]
      /\ \A j \in 0..PaperEnd : j >= b + Cells => sheet[j] = Blank
  BY <1>2 DEF View
<1> HIDE DEF Cells, PaperEnd
<1>4. roll_screen(scr) \in [0..(Cells - 1) -> Glyph]
  <2>1. Blank \in Glyph
    BY DEF Glyph
  <2>2. \A i \in 0..(Cells - 1) : i < Cells - Cols => i + Cols \in 0..(Cells - 1)
    BY <1>1
  <2>3. \A i \in 0..(Cells - 1) : (IF i < Cells - Cols THEN scr[i + Cols] ELSE Blank) \in Glyph
    BY <1>3, <2>1, <2>2
  <2> QED BY <2>3 DEF roll_screen
<1>5. ASSUME NEW i \in 0..(Cells - 1) PROVE roll_screen(scr)[i] = sheet[(b + Cols) + i]
  <2>1. CASE i < Cells - Cols
    <3>1. roll_screen(scr)[i] = scr[i + Cols] /\ i + Cols \in 0..(Cells - 1)
      BY <1>1, <2>1 DEF roll_screen
    <3>2. b + (i + Cols) = (b + Cols) + i
      BY <1>1, <1>2
    <3> QED BY <1>3, <3>1, <3>2
  <2>2. CASE ~ (i < Cells - Cols)
    <3>1. roll_screen(scr)[i] = Blank
      BY <1>1, <2>2 DEF roll_screen
    <3>2. (b + Cols) + i \in 0..PaperEnd /\ (b + Cols) + i >= b + Cells
      BY <1>1, <1>2, <2>2
    <3> QED BY <1>3, <3>1, <3>2
  <2> QED BY <2>1, <2>2
<1>6. \A j \in 0..PaperEnd : j >= (b + Cols) + Cells => sheet[j] = Blank
  BY <1>1, <1>2, <1>3
<1> QED BY <1>2, <1>3, <1>4, <1>5, <1>6 DEF View

(* A character written on the screen and on the paper.                     *)
LEMMA Written ==
  ASSUME NEW scr, NEW sheet, NEW t \in Nat, View(scr, sheet, t),
         t * Cols + Cells <= PaperEnd, PaperEnd \in Nat,
         NEW cur \in 0..(Cells - 1), NEW c \in Glyph
  PROVE  View([scr EXCEPT ![cur] = c], [sheet EXCEPT ![t * Cols + cur] = c], t)
<1>1. Cols \in Nat \ {0} /\ Cells \in Nat
  BY CellsAre
<1>2. PICK b \in Nat : b = t * Cols
  BY <1>1
<1>3. /\ scr \in [0..(Cells - 1) -> Glyph] /\ sheet \in [0..PaperEnd -> Glyph]
      /\ \A i \in 0..(Cells - 1) : scr[i] = sheet[b + i]
      /\ \A j \in 0..PaperEnd : j >= b + Cells => sheet[j] = Blank
  BY <1>2 DEF View
<1> HIDE DEF Cells, PaperEnd
<1> DEFINE s == [scr EXCEPT ![cur] = c]
           q == [sheet EXCEPT ![b + cur] = c]
<1>4. \A i \in 0..(Cells - 1) : b + i \in 0..PaperEnd /\ b + i < b + Cells
  BY <1>1, <1>2
<1>5. s \in [0..(Cells - 1) -> Glyph] /\ q \in [0..PaperEnd -> Glyph]
  BY <1>3
<1>6. ASSUME NEW i \in 0..(Cells - 1) PROVE s[i] = q[b + i]
  <2>1. b + i \in 0..PaperEnd /\ (i = cur <=> b + i = b + cur) /\ scr[i] = sheet[b + i]
    BY <1>2, <1>3, <1>4
  <2> QED BY <1>3, <2>1
<1>7. ASSUME NEW j \in 0..PaperEnd, j >= b + Cells PROVE q[j] = Blank
  <2>1. j # b + cur /\ sheet[j] = Blank
    BY <1>1, <1>2, <1>3, <1>4, <1>7
  <2> QED BY <1>3, <2>1
<1> QED BY <1>2, <1>5, <1>6, <1>7 DEF View

(* put_char moves the window and the cursor as the paper says.             *)
LEMMA CharIs ==
  ASSUME NEW scr, NEW cur, NEW p, NEW n, Window(scr, cur, p, n), n < AllChars,
         NEW c \in Glyph, c = BS => cur > 0
  PROVE  /\ Window(put_char(scr, cur, c)[1], put_char(scr, cur, c)[2], ideal(p, c), n + 1)
         /\ c # BS => put_char(scr, cur, c)[2] > 0
         /\ n + 1 <= AllChars
<1>1. /\ Cols \in Nat \ {0} /\ Rows \in Nat \ {0, 1} /\ Cells \in Nat
      /\ Cells >= 2 * Cols /\ Cells = Rows * Cols /\ Cells - Cols = (Rows - 1) * Cols
  BY CellsAre
<1>2. /\ n \in Nat /\ p.top \in Nat /\ p.pos \in Nat /\ p.pos <= Cols * n
      /\ cur \in 0..(Cells - 1) /\ p.pos = p.top * Cols + cur
      /\ View(scr, p.paper, p.top)
  BY DEF Window
<1>3. PICK t \in Nat, b \in Nat : t = p.top /\ b = t * Cols /\ (t + 1) * Cols = b + Cols
  BY <1>1, <1>2
<1>4. /\ p.pos + Cols + Cells <= PaperEnd /\ PaperEnd \in Nat /\ AllChars \in Nat
  BY <1>2, PaperLasts
<1>5. Cols * (n + 1) = Cols * n + Cols /\ Cols * n \in Nat
  BY <1>1, <1>2
<1>6. (t + Rows) * Cols = b + Cells
  BY <1>1, <1>3
<1>7. p.pos = b + cur
  BY <1>2, <1>3
<1> DEFINE s1 == put_char(scr, cur, c)[1]
           c1 == put_char(scr, cur, c)[2]
           q == ideal(p, c)
           Goal == Window(s1, c1, q, n + 1) /\ (c # BS => c1 > 0)
<1> HIDE DEF Cells, PaperEnd, AllChars
<1>8. BS \notin {CR, LF} /\ Blank \in Glyph
  BY DEF BS, CR, LF, Glyph
<1> SUFFICES Goal
  BY <1>2, <1>4
<1> HIDE DEF Goal
<1>9. CASE c \in {CR, LF}
  <2> DEFINE k == cur \div Cols
             x == cur % Cols
             m == (k + 1) * Cols
  <2>1. k \in Nat /\ x \in 0..(Cols - 1) /\ cur = k * Cols + x
    BY <1>1, <1>2
  <2>2. b + cur = (t + k) * Cols + x
    BY <1>1, <1>2, <1>3, <2>1
  <2>3. (b + cur) \div Cols = t + k
    <3> HIDE DEF k, x
    <3>1. t + k \in Nat
      BY <2>1
    <3> QED BY <1>1, <2>1, <2>2, <3>1, RowOf
  <2>4. cur - (cur % Cols) + Cols = m
    BY <1>1, <1>2, <2>1
  <2>5. (t + k + 1) * Cols = b + m
    <3> HIDE DEF k
    <3> QED BY <1>1, <1>3, <2>1
  <2>6. m \in Nat /\ m > cur /\ m <= cur + Cols
    <3> HIDE DEF k, x
    <3>1. m = k * Cols + Cols /\ k * Cols \in Nat
      BY <1>1, <2>1
    <3> QED BY <1>1, <2>1, <3>1
  <2>7. /\ k + 1 >= Rows <=> m >= Cells
        /\ m >= Cells => m = Cells
    <3>0. k \in Nat
      BY <2>1
    <3>1. k + 1 <= Rows
      <4>1. ~ (cur >= Rows * Cols) /\ cur \in Nat
        BY <1>1, <1>2
      <4>2. ~ (k >= Rows)
        BY <1>1, <4>1, RowFrom
      <4> HIDE DEF k
      <4> QED BY <1>1, <3>0, <4>2
    <3> HIDE DEF k
    <3>2. CASE k + 1 = Rows
      BY <1>1, <3>0, <3>2
    <3>3. CASE k + 1 <= Rows - 1
      <4>1. m <= (Rows - 1) * Cols
        BY <1>1, <3>0, <3>3
      <4> QED BY <1>1, <3>0, <3>3, <4>1
    <3> QED BY <1>1, <3>0, <3>1, <3>2, <3>3
  <2>8. q.pos = b + m /\ q.paper = p.paper /\ q.top = IF k + 1 >= Rows THEN t + 1 ELSE t
    <3>1. (p.pos \div Cols + 1) * Cols = b + m
      BY <1>7, <2>3, <2>5
    <3>2. (b + m) \div Cols = t + k + 1
      <4> HIDE DEF k, m
      <4>1. t + k + 1 \in Nat /\ 0 \in 0..(Cols - 1) /\ (t + k + 1) * Cols + 0 = b + m
        BY <1>1, <2>1, <2>5, <2>6
      <4> QED BY <1>1, <4>1, RowOf
    <3> HIDE DEF k, m
    <3>3. q.pos = b + m /\ q.paper = p.paper
      BY <1>8, <1>9, <3>1 DEF ideal
    <3>4. q.top = IF (b + m) \div Cols >= p.top + Rows THEN p.top + 1 ELSE p.top
      BY <1>8, <1>9, <3>1 DEF ideal
    <3>5. t + k + 1 >= t + Rows <=> k + 1 >= Rows
      BY <1>1, <2>1
    <3> QED BY <1>3, <3>2, <3>3, <3>4, <3>5
  <2>9. /\ s1 = IF m < Cells THEN scr ELSE roll_screen(scr)
        /\ c1 = IF m < Cells THEN m ELSE Cells - Cols
    BY <1>8, <1>9, <2>4 DEF put_char
  <2> HIDE DEF k, m, s1, c1, q
  <2>10. CASE m < Cells
    <3>1. s1 = scr /\ c1 = m /\ q.top = t /\ q.pos = b + m /\ q.paper = p.paper
      BY <1>1, <2>6, <2>7, <2>8, <2>9, <2>10
    <3>2. q.pos \in Nat /\ q.pos <= Cols * (n + 1) /\ c1 \in 0..(Cells - 1) /\ c1 > 0
      BY <1>1, <1>2, <1>3, <1>5, <1>7, <2>6, <2>10, <3>1
    <3> QED BY <1>2, <1>3, <3>1, <3>2 DEF Window, Goal
  <2>11. CASE ~ (m < Cells)
    <3>1. /\ s1 = roll_screen(scr) /\ c1 = Cells - Cols
          /\ q.top = t + 1 /\ q.pos = b + Cells /\ q.paper = p.paper
      BY <1>1, <2>6, <2>7, <2>8, <2>9, <2>11
    <3>2. q.pos \in Nat /\ q.pos <= Cols * (n + 1) /\ c1 \in 0..(Cells - 1) /\ c1 > 0
      BY <1>1, <1>2, <1>3, <1>5, <1>7, <2>6, <2>7, <2>11, <3>1
    <3>3. q.pos = (t + 1) * Cols + c1
      BY <1>1, <1>3, <3>1
    <3>4. (t + 1) * Cols + Cells <= PaperEnd
      BY <1>1, <1>2, <1>3, <1>4, <1>7
    <3>5. View(s1, q.paper, t + 1)
      BY <1>2, <1>3, <1>4, <3>1, <3>4, Rolled
    <3> QED BY <1>2, <1>3, <3>1, <3>2, <3>3, <3>5 DEF Window, Goal
  <2> QED BY <1>1, <2>6, <2>10, <2>11
<1>10. CASE c = BS
  <2>1. s1 = [scr EXCEPT ![cur - 1] = Blank] /\ c1 = cur - 1
    BY <1>8, <1>10 DEF put_char
  <2>2. /\ q.pos = p.pos - 1 /\ q.paper = [p.paper EXCEPT ![p.pos - 1] = Blank]
        /\ q.top = IF (p.pos - 1) \div Cols >= p.top + Rows THEN p.top + 1 ELSE p.top
    BY <1>8, <1>10 DEF ideal
  <2>3. cur > 0 /\ cur - 1 \in 0..(Cells - 1) /\ p.pos - 1 = b + (cur - 1) /\ p.pos - 1 \in Nat
    BY <1>1, <1>2, <1>3, <1>7, <1>10
  <2>4. ~ ((p.pos - 1) \div Cols >= p.top + Rows)
    <3>1. ~ (p.pos - 1 >= (t + Rows) * Cols) /\ t + Rows \in Nat
      BY <1>1, <1>2, <1>3, <1>6, <2>3
    <3> QED BY <1>1, <1>3, <2>3, <3>1, RowFrom
  <2> HIDE DEF s1, c1, q
  <2>5. View(s1, q.paper, t)
    <3>1. b + Cells <= PaperEnd
      BY <1>1, <1>2, <1>3, <1>4, <1>7
    <3>2. View([scr EXCEPT ![cur - 1] = Blank], [p.paper EXCEPT ![t * Cols + (cur - 1)] = Blank], t)
      BY <1>2, <1>3, <1>4, <1>8, <2>3, <3>1, Written
    <3> QED BY <1>3, <2>1, <2>2, <2>3, <3>2
  <2>6. q.top = t /\ q.pos = t * Cols + c1 /\ q.pos \in Nat /\ c1 \in 0..(Cells - 1)
    BY <1>3, <2>1, <2>2, <2>3, <2>4
  <2>7. q.pos <= Cols * (n + 1)
    BY <1>1, <1>2, <1>5, <2>2, <2>3
  <2> QED BY <1>2, <1>10, <2>5, <2>6, <2>7 DEF Window, Goal
<1>11. CASE c \notin {CR, LF, BS}
  <2> DEFINE w == [scr EXCEPT ![cur] = c]
  <2>1. /\ s1 = IF cur + 1 < Cells THEN w ELSE roll_screen(w)
        /\ c1 = IF cur + 1 < Cells THEN cur + 1 ELSE Cells - Cols
    BY <1>11 DEF put_char
  <2>2. /\ q.pos = p.pos + 1 /\ q.paper = [p.paper EXCEPT ![p.pos] = c]
        /\ q.top = IF (p.pos + 1) \div Cols >= p.top + Rows THEN p.top + 1 ELSE p.top
    BY <1>11 DEF ideal
  <2>3. (p.pos + 1) \div Cols >= p.top + Rows <=> cur + 1 >= Cells
    <3>1. (p.pos + 1 >= (t + Rows) * Cols <=> cur + 1 >= Cells) /\ t + Rows \in Nat /\ p.pos + 1 \in Nat
      BY <1>1, <1>2, <1>3, <1>6, <1>7
    <3> QED BY <1>1, <1>3, <3>1, RowFrom
  <2> HIDE DEF s1, c1, q, w
  <2>4. View(w, q.paper, t)
    <3>1. b + Cells <= PaperEnd
      BY <1>1, <1>2, <1>3, <1>4, <1>7
    <3>2. View([scr EXCEPT ![cur] = c], [p.paper EXCEPT ![t * Cols + cur] = c], t)
      BY <1>2, <1>3, <1>4, <3>1, Written
    <3> QED BY <1>3, <1>7, <2>2, <3>2 DEF w
  <2>5. q.pos \in Nat /\ q.pos <= Cols * (n + 1) /\ q.pos = b + cur + 1
    BY <1>1, <1>2, <1>3, <1>5, <1>7, <2>2
  <2>6. CASE cur + 1 < Cells
    <3>1. s1 = w /\ c1 = cur + 1 /\ q.top = t /\ c1 \in 0..(Cells - 1) /\ c1 > 0 /\ q.pos = t * Cols + c1
      BY <1>1, <1>2, <1>3, <2>1, <2>2, <2>3, <2>5, <2>6
    <3> QED BY <1>2, <1>3, <2>4, <2>5, <3>1 DEF Window, Goal
  <2>7. CASE ~ (cur + 1 < Cells)
    <3>1. s1 = roll_screen(w) /\ c1 = Cells - Cols /\ q.top = t + 1 /\ c1 \in 0..(Cells - 1) /\ c1 > 0
      BY <1>1, <1>2, <1>3, <2>1, <2>2, <2>3, <2>7
    <3>2. q.pos = (t + 1) * Cols + c1
      BY <1>1, <1>2, <1>3, <2>5, <2>7, <3>1
    <3>3. (t + 1) * Cols + Cells <= PaperEnd
      BY <1>1, <1>2, <1>3, <1>4, <1>7
    <3>4. View(s1, q.paper, t + 1)
      BY <1>4, <2>4, <3>1, <3>3, Rolled
    <3> QED BY <1>2, <1>3, <2>5, <3>1, <3>2, <3>4 DEF Window, Goal
  <2> QED BY <2>6, <2>7
<1> QED BY <1>9, <1>10, <1>11
-----------------------------------------------------------------------------
(* The loops of put_str over the first k characters of a text.             *)
Chars(g, scr, cur, str, k) ==
  g = [i \in 0..k |-> IF i = 0 THEN <<scr, cur>> ELSE put_char(g[i - 1][1], g[i - 1][2], str[i])]

Sheets(g, p, str, k) ==
  g = [i \in 0..k |-> IF i = 0 THEN p ELSE ideal(g[i - 1], str[i])]

(* The first has a solution, by induction on k.                            *)
LEMMA CharsExist ==
  ASSUME NEW scr, NEW cur, NEW str, NEW k \in Nat
  PROVE  \E g : Chars(g, scr, cur, str, k)
<1> DEFINE S == {c \in Nat : \E g : Chars(g, scr, cur, str, c)}
<1>1. 0 \in S
  <2>1. Chars([n \in 0..0 |-> <<scr, cur>>], scr, cur, str, 0)
    BY DEF Chars
  <2> QED BY <2>1
<1>2. ASSUME NEW c \in 0..(k - 1), c \in S PROVE c + 1 \in S
  <2>1. PICK g : Chars(g, scr, cur, str, c)
    BY <1>2
  <2> DEFINE step(f, i) == IF i = 0 THEN <<scr, cur>> ELSE put_char(f[i - 1][1], f[i - 1][2], str[i])
             h == [i \in 0..(c + 1) |-> step(g, i)]
             e == [i \in 0..(c + 1) |-> step(h, i)]
  <2>2. \A i \in 0..c : h[i] = g[i]
    <3>1. \A i \in 0..c : g[i] = step(g, i)
      BY <2>1 DEF Chars
    <3>2. \A i \in 0..c : i \in 0..(c + 1)
      OBVIOUS
    <3> HIDE DEF step
    <3> QED BY <3>1, <3>2
  <2>3. \A i \in 0..(c + 1) : i # 0 => i - 1 \in 0..c
    OBVIOUS
  <2>4. h = e
    BY <2>2, <2>3
  <2>5. Chars(h, scr, cur, str, c + 1)
    BY <2>4 DEF Chars
  <2> QED BY <2>5
<1> HIDE DEF S
<1>3. k \in S
  BY <1>1, <1>2, UpTo
<1> QED BY <1>3 DEF S

(* So has the second.                                                      *)
LEMMA SheetsExist ==
  ASSUME NEW p, NEW str, NEW k \in Nat
  PROVE  \E g : Sheets(g, p, str, k)
<1> DEFINE S == {c \in Nat : \E g : Sheets(g, p, str, c)}
<1>1. 0 \in S
  <2>1. Sheets([n \in 0..0 |-> p], p, str, 0)
    BY DEF Sheets
  <2> QED BY <2>1
<1>2. ASSUME NEW c \in 0..(k - 1), c \in S PROVE c + 1 \in S
  <2>1. PICK g : Sheets(g, p, str, c)
    BY <1>2
  <2> DEFINE step(f, i) == IF i = 0 THEN p ELSE ideal(f[i - 1], str[i])
             h == [i \in 0..(c + 1) |-> step(g, i)]
             e == [i \in 0..(c + 1) |-> step(h, i)]
  <2>2. \A i \in 0..c : h[i] = g[i]
    BY <2>1 DEF Sheets
  <2>3. \A i \in 0..(c + 1) : i # 0 => i - 1 \in 0..c
    OBVIOUS
  <2>4. h = e
    BY <2>2, <2>3
  <2>5. Sheets(h, p, str, c + 1)
    BY <2>4 DEF Sheets
  <2> QED BY <2>5
<1> HIDE DEF S
<1>3. k \in S
  BY <1>1, <1>2, UpTo
<1> QED BY <1>3 DEF S

Sheet == [paper |-> paper, pos |-> pos, top |-> top]

(* Ideally leaves what one of the solutions ends with.                     *)
LEMMA IdeallyIs ==
  ASSUME NEW str \in Seq(STRING), Ideally(str)
  PROVE  \E h : /\ Sheets(h, Sheet, str, Len(str))
                /\ paper' = h[Len(str)].paper /\ pos' = h[Len(str)].pos /\ top' = h[Len(str)].top
<1> DEFINE h == CHOOSE f : Sheets(f, Sheet, str, Len(str))
<1>1. Len(str) \in Nat
  OBVIOUS
<1>2. Sheets(h, Sheet, str, Len(str))
  BY <1>1, SheetsExist, Zenon
<1>3. paper' = h[Len(str)].paper /\ pos' = h[Len(str)].pos /\ top' = h[Len(str)].top
  BY DEF Ideally, Sheets, Sheet
<1> QED BY <1>2, <1>3

(* So does put_str.                                                        *)
LEMMA PutStrIs ==
  ASSUME NEW str \in Seq(STRING), put_str(str)
  PROVE  \E g : /\ Chars(g, screen, cursor, str, Len(str))
                /\ screen' = g[Len(str)][1] /\ cursor' = g[Len(str)][2]
<1> DEFINE g == CHOOSE f : Chars(f, screen, cursor, str, Len(str))
<1>1. Len(str) \in Nat
  OBVIOUS
<1>2. Chars(g, screen, cursor, str, Len(str))
  BY <1>1, CharsExist, Zenon
<1>3. screen' = g[Len(str)][1] /\ cursor' = g[Len(str)][2]
  BY DEF put_str, Chars
<1> QED BY <1>2, <1>3

(* No two backspaces in a row, and none at the start of the screen.        *)
Neat(str) == \A i \in 1..(Len(str) - 1) : str[i + 1] = BS => str[i] # BS

Ready(str, cur) == str # <<>> /\ str[1] = BS => cur > 0

Plainly(str) == \A i \in 1..Len(str) : str[i] # BS

(* A text keeps the screen a window on the paper.                          *)
LEMMA StringIs ==
  ASSUME NEW scr, NEW cur, NEW p, NEW n, Window(scr, cur, p, n),
         NEW str \in Seq(STRING), Neat(str), Ready(str, cur), n + Len(str) <= AllChars,
         NEW g, Chars(g, scr, cur, str, Len(str)), NEW h, Sheets(h, p, str, Len(str))
  PROVE  /\ Window(g[Len(str)][1], g[Len(str)][2], h[Len(str)], n + Len(str))
         /\ Plainly(str) /\ cur > 0 => g[Len(str)][2] > 0
<1> DEFINE l == Len(str)
           Good(i) == /\ Window(g[i][1], g[i][2], h[i], n + i)
                      /\ i < l /\ str[i + 1] = BS => g[i][2] > 0
                      /\ Plainly(str) /\ cur > 0 => g[i][2] > 0
           S == {i \in 0..l : Good(i)}
<1>1. l \in Nat /\ n \in Nat /\ AllChars \in Nat /\ n + l <= AllChars
  BY ConsoleAssumption DEF Window, AllChars
<1>2. 0 \in S
  <2>1. g[0] = <<scr, cur>> /\ h[0] = p
    BY <1>1 DEF Chars, Sheets
  <2>2. 0 < l /\ str[0 + 1] = BS => cur > 0
    BY DEF Ready
  <2>3. n + 0 = n
    BY <1>1
  <2>4. g[0][1] = scr /\ g[0][2] = cur
    BY <2>1
  <2> QED BY <1>1, <2>1, <2>2, <2>3, <2>4
<1>3. ASSUME NEW i \in 0..(l - 1), i \in S PROVE i + 1 \in S
  <2> DEFINE c == str[i + 1]
             j == i + 1
  <2>1. j \in 1..l /\ j \in 0..l /\ j # 0 /\ j - 1 = i /\ i \in 0..l /\ i < l /\ n + i < AllChars
        /\ n + j = (n + i) + 1
    BY <1>1
  <2>2. c \in Glyph
    BY <2>1 DEF Glyph
  <2>3. g[j] = put_char(g[i][1], g[i][2], c) /\ h[j] = ideal(h[i], c)
    BY <2>1 DEF Chars, Sheets
  <2>4. Good(i)
    BY <1>3
  <2> HIDE DEF c
  <2>5. /\ Window(g[i][1], g[i][2], h[i], n + i)
        /\ c = BS => g[i][2] > 0
        /\ Plainly(str) /\ cur > 0 => g[i][2] > 0
    BY <2>1, <2>4 DEF c
  <2> HIDE DEF Good, j, l
  <2>6. /\ Window(g[j][1], g[j][2], h[j], n + j)
        /\ c # BS => g[j][2] > 0
    BY <2>1, <2>2, <2>3, <2>5, CharIs
  <2>7. j < l /\ str[j + 1] = BS => c # BS
    BY <1>1, <2>1 DEF Neat, c, j, l
  <2>8. Plainly(str) => c # BS
    BY <2>1 DEF Plainly, c, j, l
  <2>9. Good(j)
    BY <2>6, <2>7, <2>8 DEF Good
  <2> QED BY <2>1, <2>9 DEF j
<1>4. l \in 0..l
  BY <1>1
<1> HIDE DEF S
<1>5. l \in S
  BY <1>1, <1>2, <1>3, <1>4, UpTo
<1> QED BY <1>5 DEF S
-----------------------------------------------------------------------------
(* What the holder of the lock still has to print.                         *)
Pending == IF lock = Nobody THEN <<>> ELSE text[lock]

(* How far the holder of the lock is, n characters being printed: between  *)
(* writing the screen and setting the cursor, the screen is the window of  *)
(* the paper with the next character.                                      *)
InStep(n) ==
  /\ lock = Nobody => Window(screen, cursor, Sheet, n)
  /\ lock # Nobody =>
       /\ Neat(text[lock])
       /\ at[lock] \in {"next", "write"} =>
            Window(screen, cursor, Sheet, n) /\ Ready(text[lock], cursor)
       /\ at[lock] = "write" => bx[lock] = cursor
       /\ at[lock] = "set" =>
            /\ Window(screen, bx[lock], ideal(Sheet, Head(text[lock])), n + 1)
            /\ Ready(Tail(text[lock]), bx[lock])

ScreenTypes ==
  /\ text \in [KernelThread -> Seq(STRING)] /\ bx = [w \in KernelThread |-> bx[w]]
  /\ \A w \in KernelThread : at[w] \in {"write", "set"} => text[w] # <<>>
  /\ printed \in 0..MaxTexts /\ keys \in 0..MaxKeys

OnPaper == \E n \in 0..AllChars : n + Len(Pending) <= TextLen * (printed + keys) /\ InStep(n)

ScreenInv == TextInv /\ ScreenTypes /\ (~ torn => OnPaper)

(* The characters that a print more makes room for.                        *)
LEMMA Room ==
  ASSUME NEW a \in Nat, a + 1 <= MaxTexts + MaxKeys
  PROVE  /\ TextLen * (a + 1) = TextLen * a + TextLen /\ TextLen * a \in Nat /\ TextLen \in Nat
         /\ TextLen * (a + 1) <= AllChars /\ AllChars \in Nat
<1>1. TextLen \in Nat /\ MaxTexts + MaxKeys \in Nat
  BY ConsoleAssumption
<1> QED BY <1>1 DEF AllChars

(* A print more is one of those that there may be.                         *)
LEMMA MorePrints ==
  ASSUME NEW i \in Nat, NEW j \in Nat, i <= MaxTexts, j <= MaxKeys
  PROVE  /\ i + j \in Nat
         /\ i < MaxTexts => (i + 1) + j = (i + j) + 1 /\ (i + j) + 1 <= MaxTexts + MaxKeys
         /\ j < MaxKeys => i + (j + 1) = (i + j) + 1 /\ (i + j) + 1 <= MaxTexts + MaxKeys
  BY ConsoleAssumption

(* A new text for a thread or a process, or the handler's.                 *)
LEMMA TextsAre ==
  ASSUME BackspacesFollow
  PROVE  /\ \A str \in Texts : /\ str \in Seq(STRING) /\ Len(str) \in Nat /\ Len(str) <= TextLen
                               /\ Neat(str) /\ \A cur : Ready(str, cur)
         /\ KeyText \in Seq(STRING) /\ Len(KeyText) \in Nat /\ Len(KeyText) <= TextLen
         /\ Neat(KeyText) /\ Plainly(KeyText) /\ \A cur : Ready(KeyText, cur)
<1>1. Texts \subseteq Seq(STRING) /\ KeyText \in Seq(STRING)
      /\ \A str \in Texts \cup {KeyText} : Len(str) <= TextLen
  BY ConsoleAssumption
<1>2. ASSUME NEW str \in Texts
      PROVE  /\ str \in Seq(STRING) /\ Len(str) \in Nat /\ Len(str) <= TextLen
             /\ Neat(str) /\ \A cur : Ready(str, cur)
  BY <1>1 DEF BackspacesFollow, Neat, Ready
<1>3. KeyText \in Seq(STRING) /\ Len(KeyText) \in Nat /\ Len(KeyText) <= TextLen /\ Plainly(KeyText)
  BY <1>1 DEF BackspacesFollow, Plainly
<1>4. Neat(KeyText) /\ \A cur : Ready(KeyText, cur)
  BY <1>3 DEF Plainly, Neat, Ready
<1> QED BY <1>2, <1>3, <1>4

(* What is pending after a character is Neat.                              *)
LEMMA NeatTail ==
  ASSUME NEW str \in Seq(STRING), str # <<>>, Neat(str)
  PROVE  /\ Tail(str) \in Seq(STRING) /\ Len(str) = Len(Tail(str)) + 1 /\ Len(Tail(str)) \in Nat
         /\ Head(str) = str[1] /\ Head(str) \in Glyph
         /\ Neat(Tail(str))
         /\ Tail(str) # <<>> /\ Tail(str)[1] = BS => Head(str) # BS
<1>1. /\ Tail(str) \in Seq(STRING) /\ Len(str) = Len(Tail(str)) + 1 /\ Len(Tail(str)) \in Nat
      /\ Head(str) = str[1] /\ Head(str) \in STRING
      /\ \A i \in 1..Len(Tail(str)) : Tail(str)[i] = str[i + 1]
  OBVIOUS
<1> DEFINE t == Tail(str)
<1> HIDE DEF t
<1>2. Neat(t)
  <2> SUFFICES ASSUME NEW i \in 1..(Len(t) - 1), t[i + 1] = BS PROVE t[i] # BS
    BY DEF Neat
  <2>1. i + 1 \in 1..(Len(str) - 1) /\ t[i] = str[i + 1] /\ t[i + 1] = str[(i + 1) + 1]
    BY <1>1 DEF t
  <2> QED BY <2>1 DEF Neat
<1>3. t # <<>> /\ t[1] = BS => Head(str) # BS
  <2> SUFFICES ASSUME t # <<>>, t[1] = BS PROVE str[1] # BS
    BY <1>1
  <2>1. 1 \in 1..Len(t) /\ 1 \in 1..(Len(str) - 1)
    BY <1>1 DEF t
  <2>2. t[1] = str[1 + 1]
    BY <1>1, <2>1 DEF t
  <2> QED BY <2>1, <2>2 DEF Neat
<1> QED BY <1>1, <1>2, <1>3 DEF t, Glyph

(* The types, which hold even when the handler has come in between.        *)
LEMMA ScreenTypesNext ==
  ASSUME TextInv, ScreenTypes, [ConsoleNext]_consoleVars PROVE ScreenTypes'
<1>1. /\ text \in [KernelThread -> Seq(STRING)] /\ bx = [w \in KernelThread |-> bx[w]]
      /\ \A w \in KernelThread : at[w] \in {"write", "set"} => text[w] # <<>>
      /\ printed \in 0..MaxTexts /\ keys \in 0..MaxKeys
      /\ at \in [KernelThread -> {"idle", "next", "write", "set"}]
  BY DEF ScreenTypes, TextInv
<1>2. Texts \subseteq Seq(STRING) /\ MaxTexts \in Nat /\ MaxKeys \in Nat
  BY ConsoleAssumption
<1>3. ASSUME NEW w \in KernelThread, NEW str \in Texts, PutBegin(w, str) PROVE ScreenTypes'
  <2>1. /\ printed < MaxTexts /\ printed' = printed + 1 /\ text' = [text EXCEPT ![w] = str]
        /\ bx' = bx /\ keys' = keys /\ at' = [at EXCEPT ![w] = "next"]
    BY <1>3 DEF PutBegin
  <2> QED BY <1>1, <1>2, <2>1 DEF ScreenTypes
<1>4. ASSUME NEW w \in KernelThread, ReadCursor(w) \/ WriteScreen(w) PROVE ScreenTypes'
  <2>1. PICK v : bx' = [bx EXCEPT ![w] = v]
    BY <1>4 DEF ReadCursor, WriteScreen
  <2>2. text' = text /\ printed' = printed /\ keys' = keys
    BY <1>4 DEF ReadCursor, WriteScreen
  <2>3. text[w] # <<>> /\ \A x \in KernelThread : x # w => at'[x] = at[x]
    BY <1>1, <1>4 DEF ReadCursor, WriteScreen
  <2> QED BY <1>1, <2>1, <2>2, <2>3 DEF ScreenTypes
<1>5. ASSUME NEW w \in KernelThread, SetCursor(w) PROVE ScreenTypes'
  <2>1. text' = [text EXCEPT ![w] = Tail(@)] /\ bx' = bx /\ printed' = printed /\ keys' = keys
        /\ at[w] = "set" /\ at' = [at EXCEPT ![w] = "next"]
    BY <1>5 DEF SetCursor
  <2>2. Tail(text[w]) \in Seq(STRING)
    BY <1>1, <2>1
  <2> QED BY <1>1, <2>1, <2>2 DEF ScreenTypes
<1>6. ASSUME NEW w \in KernelThread, console_release(w) PROVE ScreenTypes'
  BY <1>1, <1>6 DEF console_release, ScreenTypes
<1>7. ASSUME NEW u \in Process, NEW str \in Texts, sys_write(u, str) PROVE ScreenTypes'
  <2>1. printed < MaxTexts /\ printed' = printed + 1 /\ text' = text /\ bx' = bx /\ keys' = keys /\ at' = at
    BY <1>7 DEF sys_write
  <2> QED BY <1>1, <1>2, <2>1 DEF ScreenTypes
<1>8. ASSUME KeyPrints PROVE ScreenTypes'
  <2>1. keys < MaxKeys /\ keys' = keys + 1 /\ text' = text /\ bx' = bx /\ printed' = printed /\ at' = at
    BY <1>8 DEF KeyPrints
  <2> QED BY <1>1, <1>2, <2>1 DEF ScreenTypes
<1>9. ASSUME UNCHANGED consoleVars PROVE ScreenTypes'
  BY <1>1, <1>9 DEF consoleVars, ScreenTypes
<1> QED BY <1>3, <1>4, <1>5, <1>6, <1>7, <1>8, <1>9 DEF ConsoleNext

(* A step keeps the screen in step with the paper, unless the handler      *)
(* comes in the middle of a put_char.                                      *)
LEMMA OnPaperNext ==
  ASSUME BackspacesFollow, TextInv, ScreenTypes, OnPaper, [ConsoleNext]_consoleVars, ~ torn'
  PROVE  OnPaper'
<1>1. /\ text \in [KernelThread -> Seq(STRING)] /\ bx = [w \in KernelThread |-> bx[w]]
      /\ \A w \in KernelThread : at[w] \in {"write", "set"} => text[w] # <<>>
      /\ printed \in 0..MaxTexts /\ keys \in 0..MaxKeys /\ MaxTexts \in Nat /\ MaxKeys \in Nat
  BY ConsoleAssumption DEF ScreenTypes
<1>2. /\ lock \in KernelThread \cup {Nobody} /\ Nobody \notin KernelThread \cup Process
      /\ at \in [KernelThread -> {"idle", "next", "write", "set"}]
      /\ \A w \in KernelThread : at[w] # "idle" <=> lock = w
  BY ConsoleAssumption DEF TextInv
<1>3. PICK n \in 0..AllChars : n + Len(Pending) <= TextLen * (printed + keys) /\ InStep(n)
  BY DEF OnPaper
<1> DEFINE r == TextLen * (printed + keys)
           Ok(m) == m \in 0..AllChars /\ m + Len(Pending') <= TextLen * (printed' + keys') /\ InStep(m)'
<1>4. \A m : Ok(m) => OnPaper'
  BY DEF OnPaper
<1>5. AllChars \in Nat /\ TextLen \in Nat /\ r \in Nat /\ n \in Nat
  BY <1>1, <1>3, ConsoleAssumption DEF AllChars
<1> HIDE DEF AllChars
<1>6. ASSUME NEW w \in KernelThread, NEW str \in Texts, PutBegin(w, str) PROVE OnPaper'
  <2>1. /\ printed < MaxTexts /\ printed' = printed + 1 /\ keys' = keys
        /\ lock = Nobody /\ lock' = w /\ at' = [at EXCEPT ![w] = "next"] /\ text' = [text EXCEPT ![w] = str]
        /\ screen' = screen /\ cursor' = cursor /\ paper' = paper /\ pos' = pos /\ top' = top
    BY <1>6 DEF PutBegin, console_acquire, screenVars, idealVars
  <2>2. /\ Len(str) \in Nat /\ Len(str) <= TextLen /\ Neat(str) /\ Ready(str, cursor)
    BY TextsAre
  <2>3. Len(Pending) = 0 /\ Pending' = str /\ n <= r
    BY <1>1, <1>2, <1>3, <1>5, <2>1 DEF Pending
  <2>4. TextLen * (printed' + keys') = r + TextLen
    <3>1. printed + keys \in Nat /\ (printed + keys) + 1 <= MaxTexts + MaxKeys
          /\ printed' + keys' = (printed + keys) + 1
      <4>1. printed \in Nat /\ keys \in Nat /\ printed <= MaxTexts /\ keys <= MaxKeys
        BY <1>1
      <4> QED BY <2>1, <4>1, MorePrints
    <3> QED BY <3>1, Room
  <2>5. n + Len(Pending') <= TextLen * (printed' + keys')
    BY <1>5, <2>2, <2>3, <2>4
  <2>6. Window(screen, cursor, Sheet, n)' /\ Sheet' = Sheet
    <3>1. Window(screen, cursor, Sheet, n)
      BY <1>3, <2>1 DEF InStep
    <3> QED BY <2>1, <3>1 DEF Sheet
  <2>7. InStep(n)'
    <3>1. lock' # Nobody /\ text'[lock'] = str /\ at'[lock'] = "next"
      BY <1>1, <1>2, <2>1
    <3> QED BY <2>1, <2>2, <2>6, <3>1 DEF InStep
  <2> QED BY <1>3, <1>4, <2>5, <2>7
<1>7. ASSUME NEW w \in KernelThread, ReadCursor(w) PROVE OnPaper'
  <2>1. /\ at[w] = "next" /\ at' = [at EXCEPT ![w] = "write"] /\ bx' = [bx EXCEPT ![w] = cursor]
        /\ text' = text /\ lock' = lock /\ printed' = printed /\ keys' = keys
        /\ screen' = screen /\ cursor' = cursor /\ paper' = paper /\ pos' = pos /\ top' = top
    BY <1>7 DEF ReadCursor, screenVars, idealVars
  <2>2. lock = w /\ w # Nobody /\ Pending' = Pending /\ Sheet' = Sheet
    BY <1>2, <2>1 DEF Pending, Sheet
  <2>3. Neat(text[w]) /\ Window(screen, cursor, Sheet, n) /\ Ready(text[w], cursor)
    BY <1>3, <2>1, <2>2 DEF InStep
  <2>4. at'[w] = "write" /\ bx'[w] = cursor
    BY <1>1, <1>2, <2>1
  <2>5. InStep(n)'
    BY <2>1, <2>2, <2>3, <2>4 DEF InStep
  <2> QED BY <1>3, <1>4, <2>1, <2>2, <2>5
<1>8. ASSUME NEW w \in KernelThread, WriteScreen(w) PROVE OnPaper'
  <2> DEFINE c == Head(text[w])
             after == put_char(screen, bx[w], c)
  <2>1. /\ at[w] = "write" /\ at' = [at EXCEPT ![w] = "set"] /\ bx' = [bx EXCEPT ![w] = after[2]]
        /\ screen' = after[1] /\ text' = text /\ lock' = lock /\ printed' = printed /\ keys' = keys
        /\ cursor' = cursor /\ paper' = paper /\ pos' = pos /\ top' = top
    BY <1>8 DEF WriteScreen, idealVars
  <2>2. lock = w /\ w # Nobody /\ Pending' = Pending /\ Pending = text[w] /\ Sheet' = Sheet
    BY <1>2, <2>1 DEF Pending, Sheet
  <2>3. Neat(text[w]) /\ Window(screen, cursor, Sheet, n) /\ Ready(text[w], cursor) /\ bx[w] = cursor
    BY <1>3, <2>1, <2>2 DEF InStep
  <2>4. text[w] # <<>> /\ text[w] \in Seq(STRING)
    BY <1>1, <2>1
  <2>5. /\ Len(text[w]) = Len(Tail(text[w])) + 1 /\ Len(Tail(text[w])) \in Nat
        /\ c = text[w][1] /\ c \in Glyph
        /\ Tail(text[w]) # <<>> /\ Tail(text[w])[1] = BS => c # BS
    BY <2>3, <2>4, NeatTail
  <2>6. n < AllChars
    <3>1. r <= AllChars
      <4>1. printed + keys <= MaxTexts + MaxKeys /\ printed + keys \in Nat /\ MaxTexts + MaxKeys \in Nat
        BY <1>1
      <4> QED BY <1>5, <4>1 DEF AllChars
    <3>2. n + Len(text[w]) <= r
      BY <1>3, <2>2
    <3> HIDE DEF r
    <3> QED BY <1>5, <2>5, <3>1, <3>2
  <2>7. c = BS => cursor > 0
    BY <2>3, <2>4, <2>5 DEF Ready
  <2> HIDE DEF c
  <2>8. Window(after[1], after[2], ideal(Sheet, c), n + 1) /\ (c # BS => after[2] > 0)
    BY <2>3, <2>5, <2>6, <2>7, CharIs
  <2>9. at'[w] = "set" /\ bx'[w] = after[2]
    BY <1>1, <1>2, <2>1
  <2>10. Ready(Tail(text[w]), after[2])
    BY <2>5, <2>8 DEF Ready
  <2> HIDE DEF after
  <2>11. InStep(n)'
    BY <2>1, <2>2, <2>3, <2>8, <2>9, <2>10 DEF InStep, c
  <2> QED BY <1>3, <1>4, <2>1, <2>2, <2>11
<1>9. ASSUME NEW w \in KernelThread, SetCursor(w) PROVE OnPaper'
  <2> DEFINE c == Head(text[w])
  <2>1. /\ at[w] = "set" /\ at' = [at EXCEPT ![w] = "next"] /\ bx' = bx
        /\ text' = [text EXCEPT ![w] = Tail(text[w])] /\ Ideally(<<c>>)
        /\ screen' = screen /\ lock' = lock /\ printed' = printed /\ keys' = keys
        /\ cursor' = bx[w]
    BY <1>9 DEF SetCursor
  <2>2. lock = w /\ w # Nobody /\ Pending = text[w]
    BY <1>2, <2>1 DEF Pending
  <2>3. text'[w] = Tail(text[w]) /\ at'[w] = "next" /\ Pending' = Tail(text[w])
    BY <1>1, <1>2, <2>1, <2>2 DEF Pending
  <2>4. text[w] # <<>> /\ text[w] \in Seq(STRING)
    BY <1>1, <2>1
  <2>5. Neat(text[w]) /\ Window(screen, bx[w], ideal(Sheet, c), n + 1) /\ Ready(Tail(text[w]), bx[w])
    BY <1>3, <2>1, <2>2 DEF InStep
  <2>6. /\ Len(text[w]) = Len(Tail(text[w])) + 1 /\ Len(Tail(text[w])) \in Nat
        /\ Neat(Tail(text[w])) /\ c = text[w][1]
    BY <2>4, <2>5, NeatTail
  <2>7. c \in STRING /\ <<c>> \in Seq(STRING) /\ Len(<<c>>) = 1 /\ <<c>>[1] = c
    BY <2>4, <2>6
  <2> HIDE DEF c
  <2>8. PICK h : /\ Sheets(h, Sheet, <<c>>, 1)
                 /\ paper' = h[1].paper /\ pos' = h[1].pos /\ top' = h[1].top
    BY <2>1, <2>7, IdeallyIs
  <2>9. h[1] = ideal(Sheet, c)
    <3>1. h[0] = Sheet /\ h[1] = ideal(h[0], <<c>>[1])
      BY <2>8 DEF Sheets
    <3> QED BY <2>7, <3>1
  <2>10. Sheet'.paper = h[1].paper /\ Sheet'.pos = h[1].pos /\ Sheet'.top = h[1].top
    BY <2>8 DEF Sheet
  <2>11. Window(screen', cursor', Sheet', n + 1)
    BY <2>1, <2>5, <2>9, <2>10 DEF Window
  <2>12. InStep(n + 1)'
    BY <2>1, <2>2, <2>3, <2>5, <2>6, <2>11 DEF InStep
  <2>13. (n + 1) + Len(Pending') <= r
    <3> HIDE DEF r
    <3>1. n + Len(text[w]) <= r
      BY <1>3, <2>2 DEF r
    <3> QED BY <1>5, <2>3, <2>6, <3>1
  <2>14. r <= AllChars
    <3>1. printed + keys <= MaxTexts + MaxKeys /\ printed + keys \in Nat /\ MaxTexts + MaxKeys \in Nat
      BY <1>1
    <3> QED BY <1>5, <3>1 DEF AllChars
  <2>15. n + 1 \in 0..AllChars
    <3> HIDE DEF r
    <3>1. Len(Pending') \in Nat
      BY <2>3, <2>6
    <3> QED BY <1>5, <2>13, <2>14, <3>1
  <2> QED BY <1>4, <2>1, <2>12, <2>13, <2>15
<1>10. ASSUME NEW w \in KernelThread, console_release(w) PROVE OnPaper'
  <2>1. /\ at[w] = "next" /\ text[w] = <<>> /\ lock' = Nobody
        /\ text' = text /\ bx' = bx /\ printed' = printed /\ keys' = keys
        /\ screen' = screen /\ cursor' = cursor /\ paper' = paper /\ pos' = pos /\ top' = top
    BY <1>10 DEF console_release, screenVars, idealVars
  <2>2. lock = w /\ w # Nobody /\ Pending = <<>> /\ Pending' = <<>> /\ Sheet' = Sheet
    BY <1>2, <2>1 DEF Pending, Sheet
  <2>3. Window(screen, cursor, Sheet, n)
    BY <1>3, <2>1, <2>2 DEF InStep
  <2>4. InStep(n)'
    BY <2>1, <2>2, <2>3 DEF InStep
  <2> QED BY <1>3, <1>4, <2>1, <2>2, <2>4
<1>11. ASSUME NEW u \in Process, NEW str \in Texts, sys_write(u, str) PROVE OnPaper'
  <2>1. /\ lock = Nobody /\ printed < MaxTexts /\ printed' = printed + 1 /\ keys' = keys
        /\ lock' = lock /\ put_str(str) /\ Ideally(str)
    BY <1>11 DEF sys_write, put_str
  <2>2. /\ str \in Seq(STRING) /\ Len(str) \in Nat /\ Len(str) <= TextLen /\ Neat(str) /\ Ready(str, cursor)
    BY TextsAre
  <2>3. Len(Pending) = 0 /\ Len(Pending') = 0 /\ Window(screen, cursor, Sheet, n)
    BY <1>3, <2>1 DEF Pending, InStep
  <2>4. TextLen * (printed' + keys') = r + TextLen /\ r + TextLen <= AllChars
    <3>1. printed + keys \in Nat /\ (printed + keys) + 1 <= MaxTexts + MaxKeys
          /\ printed' + keys' = (printed + keys) + 1
      <4>1. printed \in Nat /\ keys \in Nat /\ printed <= MaxTexts /\ keys <= MaxKeys
        BY <1>1
      <4> QED BY <2>1, <4>1, MorePrints
    <3> QED BY <3>1, Room
  <2> HIDE DEF r
  <2>5. n + Len(str) <= r + TextLen /\ n + Len(str) \in 0..AllChars
    BY <1>3, <1>5, <2>2, <2>3, <2>4 DEF r
  <2>6. PICK g : /\ Chars(g, screen, cursor, str, Len(str))
                 /\ screen' = g[Len(str)][1] /\ cursor' = g[Len(str)][2]
    BY <2>1, <2>2, PutStrIs
  <2>7. PICK h : /\ Sheets(h, Sheet, str, Len(str))
                 /\ paper' = h[Len(str)].paper /\ pos' = h[Len(str)].pos /\ top' = h[Len(str)].top
    BY <2>1, <2>2, IdeallyIs
  <2>8. n + Len(str) <= AllChars
    BY <2>5
  <2>9. Window(screen', cursor', h[Len(str)], n + Len(str))
    BY <2>2, <2>3, <2>6, <2>7, <2>8, StringIs
  <2>10. Sheet'.paper = h[Len(str)].paper /\ Sheet'.pos = h[Len(str)].pos /\ Sheet'.top = h[Len(str)].top
    BY <2>7 DEF Sheet
  <2>11. Window(screen', cursor', Sheet', n + Len(str))
    BY <2>9, <2>10 DEF Window
  <2>12. InStep(n + Len(str))'
    BY <2>1, <2>11 DEF InStep
  <2>13. (n + Len(str)) + Len(Pending') <= TextLen * (printed' + keys')
    BY <1>5, <2>2, <2>3, <2>4, <2>5
  <2> QED BY <1>4, <2>5, <2>12, <2>13
<1>12. ASSUME KeyPrints PROVE OnPaper'
  <2> DEFINE str == KeyText
  <2>1. /\ keys < MaxKeys /\ keys' = keys + 1 /\ printed' = printed /\ lock' = lock /\ at' = at
        /\ text' = text /\ bx' = bx /\ put_str(str) /\ Ideally(str)
        /\ \A w \in KernelThread : at[w] \notin {"write", "set"}
    BY <1>12 DEF KeyPrints, put_str
  <2>2. /\ str \in Seq(STRING) /\ Len(str) \in Nat /\ Len(str) <= TextLen /\ Neat(str)
        /\ Ready(str, cursor) /\ Plainly(str)
    BY TextsAre
  <2> HIDE DEF str
  <2>3. Pending' = Pending
    BY <2>1 DEF Pending
  <2>4. /\ Window(screen, cursor, Sheet, n)
        /\ lock # Nobody => at[lock] = "next" /\ Neat(text[lock]) /\ Ready(text[lock], cursor)
    BY <1>2, <1>3, <2>1 DEF InStep
  <2>5. TextLen * (printed' + keys') = r + TextLen /\ r + TextLen <= AllChars
    <3>1. printed + keys \in Nat /\ (printed + keys) + 1 <= MaxTexts + MaxKeys
          /\ printed' + keys' = (printed + keys) + 1
      <4>1. printed \in Nat /\ keys \in Nat /\ printed <= MaxTexts /\ keys <= MaxKeys
        BY <1>1
      <4> QED BY <2>1, <4>1, MorePrints
    <3> QED BY <3>1, Room
  <2>6. Len(Pending) \in Nat
    BY <1>1, <1>2 DEF Pending
  <2> HIDE DEF r
  <2>7. n + Len(str) + Len(Pending) <= r + TextLen /\ n + Len(str) \in 0..AllChars
    BY <1>3, <1>5, <2>2, <2>5, <2>6 DEF r
  <2>8. PICK g : /\ Chars(g, screen, cursor, str, Len(str))
                 /\ screen' = g[Len(str)][1] /\ cursor' = g[Len(str)][2]
    BY <2>1, <2>2, PutStrIs
  <2>9. PICK h : /\ Sheets(h, Sheet, str, Len(str))
                 /\ paper' = h[Len(str)].paper /\ pos' = h[Len(str)].pos /\ top' = h[Len(str)].top
    BY <2>1, <2>2, IdeallyIs
  <2>10. n + Len(str) <= AllChars
    BY <2>7
  <2>11. Window(screen', cursor', h[Len(str)], n + Len(str)) /\ (cursor > 0 => cursor' > 0)
    BY <2>2, <2>4, <2>8, <2>9, <2>10, StringIs
  <2>12. Sheet'.paper = h[Len(str)].paper /\ Sheet'.pos = h[Len(str)].pos /\ Sheet'.top = h[Len(str)].top
    BY <2>9 DEF Sheet
  <2>13. Window(screen', cursor', Sheet', n + Len(str))
    BY <2>11, <2>12 DEF Window
  <2>14. lock # Nobody => Ready(text[lock], cursor')
    BY <2>4, <2>11 DEF Ready
  <2>15. InStep(n + Len(str))'
    BY <2>1, <2>4, <2>13, <2>14 DEF InStep
  <2>16. (n + Len(str)) + Len(Pending') <= TextLen * (printed' + keys')
    BY <2>3, <2>5, <2>7
  <2> QED BY <1>4, <2>7, <2>15, <2>16
<1>13. ASSUME UNCHANGED consoleVars PROVE OnPaper'
  <2>1. /\ lock' = lock /\ at' = at /\ text' = text /\ bx' = bx /\ printed' = printed /\ keys' = keys
        /\ screen' = screen /\ cursor' = cursor /\ paper' = paper /\ pos' = pos /\ top' = top
    BY <1>13 DEF consoleVars, screenVars, idealVars
  <2>2. Pending' = Pending /\ Sheet' = Sheet
    BY <2>1 DEF Pending, Sheet
  <2>3. InStep(n)'
    BY <1>3, <2>1, <2>2 DEF InStep
  <2> QED BY <1>3, <1>4, <2>1, <2>2, <2>3
<1> QED BY <1>6, <1>7, <1>8, <1>9, <1>10, <1>11, <1>12, <1>13 DEF ConsoleNext

(* It holds at the start: a blank window on blank paper.                   *)
LEMMA ScreenInvInit == ConsoleInit => ScreenInv
<1> SUFFICES ASSUME ConsoleInit PROVE ScreenInv
  OBVIOUS
<1>1. /\ screen = [i \in 0..(Cells - 1) |-> Blank] /\ cursor = 0 /\ lock = Nobody
      /\ at = [w \in KernelThread |-> "idle"] /\ text = [w \in KernelThread |-> <<>>]
      /\ bx = [w \in KernelThread |-> 0] /\ printed = 0 /\ keys = 0
      /\ paper = [i \in 0..PaperEnd |-> Blank] /\ pos = 0 /\ top = 0
  BY DEF ConsoleInit
<1>2. TextInv
  BY ConsoleAssumption DEF ConsoleInit, TextInv, LastIs, Whole
<1>3. ScreenTypes
  BY <1>1, ConsoleAssumption DEF ScreenTypes
<1>4. Cols \in Nat \ {0} /\ Cells \in Nat /\ Cells >= 2 * Cols /\ AllChars \in Nat /\ TextLen \in Nat
  BY CellsAre, ConsoleAssumption DEF AllChars
<1>5. PaperEnd \in Nat /\ PaperEnd >= Cells
  <2>1. PaperEnd = Cells + Cols * AllChars
    BY DEF PaperEnd, AllChars
  <2> HIDE DEF AllChars, PaperEnd, Cells
  <2>2. Cols * AllChars \in Nat
    BY <1>4
  <2> QED BY <1>4, <2>1, <2>2
<1>6. View(screen, paper, 0)
  <2> HIDE DEF Cells, PaperEnd, AllChars
  <2>1. 0 * Cols = 0 /\ \A i \in 0..(Cells - 1) : 0 * Cols + i \in 0..PaperEnd
    BY <1>4, <1>5
  <2> QED BY <1>1, <2>1 DEF View, Glyph
<1>7. Window(screen, cursor, Sheet, 0)
  <2>1. Sheet.top = 0 /\ Sheet.pos = 0 /\ Sheet.paper = paper
    BY <1>1 DEF Sheet
  <2> HIDE DEF Cells
  <2>2. 0 * Cols + 0 = 0 /\ Cols * 0 = 0 /\ 0 \in 0..(Cells - 1)
    BY <1>4
  <2> QED BY <1>1, <1>6, <2>1, <2>2 DEF Window
<1>8. OnPaper
  <2>1. InStep(0) /\ Len(Pending) = 0
    BY <1>1, <1>7 DEF InStep, Pending
  <2> HIDE DEF AllChars
  <2>2. 0 + Len(Pending) <= TextLen * (printed + keys) /\ 0 \in 0..AllChars
    BY <1>1, <1>4, <2>1
  <2> QED BY <2>1, <2>2 DEF OnPaper
<1> QED BY <1>2, <1>3, <1>8 DEF ScreenInv

(* The screen is the window on the paper after any number of texts, line   *)
(* breaks, wraps and rolls, for every size of the screen and every text    *)
(* whose backspaces have something to take back, if the keyboard handler   *)
(* has not printed in the middle of a put_char.                            *)
THEOREM ScreenStaysWindow == BackspacesFollow => (ConsoleSpec => []ScreenIsWindow)
<1> SUFFICES ASSUME BackspacesFollow PROVE ConsoleSpec => []ScreenIsWindow
  OBVIOUS
<1>1. ConsoleInit => ScreenInv
  BY ScreenInvInit
<1>2. ScreenInv /\ [ConsoleNext]_consoleVars => ScreenInv'
  <2> SUFFICES ASSUME ScreenInv, [ConsoleNext]_consoleVars PROVE ScreenInv'
    OBVIOUS
  <2>1. TextInv /\ ScreenTypes /\ (~ torn => OnPaper)
    BY DEF ScreenInv
  <2>2. TextInv'
    BY <2>1, TextInvNext
  <2>3. ScreenTypes'
    BY <2>1, ScreenTypesNext
  <2>4. torn => torn'
    BY DEF ConsoleNext, PutBegin, ReadCursor, WriteScreen, SetCursor, console_release, sys_write,
           KeyPrints, consoleVars
  <2>5. ~ torn' => OnPaper'
    BY <2>1, <2>4, OnPaperNext
  <2> QED BY <2>2, <2>3, <2>5 DEF ScreenInv
<1>3. ScreenInv => ScreenIsWindow
  <2> SUFFICES ASSUME ScreenInv, ~ torn, \A w \in KernelThread : at[w] \notin {"write", "set"}
               PROVE  /\ \A i \in 0..(Cells - 1) : screen[i] = paper[top * Cols + i]
                      /\ cursor = pos - top * Cols
    BY DEF ScreenIsWindow
  <2>1. /\ lock \in KernelThread \cup {Nobody}
        /\ at \in [KernelThread -> {"idle", "next", "write", "set"}]
        /\ \A w \in KernelThread : at[w] # "idle" <=> lock = w
    BY DEF ScreenInv, TextInv
  <2>2. PICK n \in 0..AllChars : InStep(n)
    BY DEF ScreenInv, OnPaper
  <2>3. Window(screen, cursor, Sheet, n)
    BY <2>1, <2>2 DEF InStep
  <2>4. Sheet.top = top /\ Sheet.pos = pos /\ Sheet.paper = paper
    BY DEF Sheet
  <2>5. /\ top \in Nat /\ cursor \in 0..(Cells - 1) /\ pos = top * Cols + cursor
        /\ View(screen, paper, top)
    BY <2>3, <2>4 DEF Window
  <2>6. top * Cols \in Nat /\ cursor \in Nat
    BY <2>5, CellsAre
  <2>7. cursor = pos - top * Cols
    BY <2>5, <2>6
  <2> QED BY <2>5, <2>7 DEF View
<1> QED BY <1>1, <1>2, <1>3, PTL DEF ConsoleSpec
-----------------------------------------------------------------------------
(* The memory.  What the loop of the loader over the three areas computes. *)
Loop(edx, ards) ==
  LET sum(area) == (area.base + area.length) % AllFrames
      signed(v) == IF v >= AllFrames \div 2 THEN v - AllFrames ELSE v
  IN  edx = [i \in 0..Len(ards) |->
               IF i = 0 THEN 0
               ELSE IF signed(edx[i - 1]) >= signed(sum(ards[i])) THEN edx[i - 1]
                    ELSE sum(ards[i])]

(* The recursion of total_mem has a solution, so its CHOOSE is one.        *)
LEMMA LoopIs ==
  ASSUME NEW ards, NEW f, Loop(f, ards)
  PROVE  Loop(CHOOSE edx : Loop(edx, ards), ards)
  BY Zenon

(* The loader finds the end of the memory: the sum of its ROM's area is 0. *)
LEMMA LoaderFinds ==
  ASSUME NEW n \in Nat, 528 <= n, n <= 87903
  PROVE  total_mem(Areas(n)) = n
<1> DEFINE ards == Areas(n)
           sum(i) == (ards[i].base + ards[i].length) % AllFrames
           signed(v) == IF v >= AllFrames \div 2 THEN v - AllFrames ELSE v
           f == [i \in 0..3 |-> IF i = 0 THEN 0 ELSE IF i = 1 THEN 160 ELSE n]
           g == CHOOSE edx : Loop(edx, ards)
<1>1. Len(ards) = 3 /\ sum(1) = 160 /\ sum(2) = n /\ sum(3) = 0
  BY DEF Areas, AllFrames, LowFrames
<1>2. signed(0) = 0 /\ signed(160) = 160 /\ signed(n) = n
  BY DEF AllFrames
<1>3. total_mem(ards) = g[3]
  <2>1. total_mem(ards) = g[Len(ards)]
    BY DEF total_mem, Loop
  <2> HIDE DEF ards, g
  <2> QED BY <1>1, <2>1
<1>4. \A edx : Loop(edx, ards) <=>
        edx = [i \in 0..Len(ards) |->
                 IF i = 0 THEN 0
                 ELSE IF signed(edx[i - 1]) >= signed(sum(i)) THEN edx[i - 1] ELSE sum(i)]
  BY DEF Loop
<1> HIDE DEF ards, sum, signed, g
<1>5. \A i \in 0..3 : f[i] = IF i = 0 THEN 0
                             ELSE IF signed(f[i - 1]) >= signed(sum(i)) THEN f[i - 1] ELSE sum(i)
  BY <1>1, <1>2
<1>6. Loop(f, ards)
  <2>1. f = [i \in 0..3 |-> IF i = 0 THEN 0
                            ELSE IF signed(f[i - 1]) >= signed(sum(i)) THEN f[i - 1] ELSE sum(i)]
    BY <1>5
  <2> QED BY <1>1, <1>4, <2>1
<1>7. Loop(g, ards)
  BY <1>6, LoopIs, SMT DEF g
<1>8. \A i \in 0..3 : g[i] = IF i = 0 THEN 0
                             ELSE IF signed(g[i - 1]) >= signed(sum(i)) THEN g[i - 1] ELSE sum(i)
  BY <1>1, <1>4, <1>7
<1>9. g[0] = 0
  BY <1>8
<1>10. g[1] = 160
  BY <1>1, <1>2, <1>8, <1>9
<1>11. g[2] = n
  BY <1>1, <1>2, <1>8, <1>10
<1>12. g[3] = n
  BY <1>1, <1>2, <1>8, <1>11
<1> QED BY <1>3, <1>12 DEF ards

(* On a machine with any memory from 2.1 MB to 343 MB, tables, pools and   *)
(* bitmaps have places of their own, and the bitmaps end below the PCB of  *)
(* the main thread.                                                        *)
THEOREM LayoutFits ==
  ASSUME NEW n \in Nat, 528 <= n, n <= 87903 PROVE Fits(n)
<1>1. total_mem(Areas(n)) = n
  BY LoaderFinds
<1> DEFINE m == mem_pool_init(n)
           k == (n - 512) \div 2
           u == n - 512 - k
           kl == k \div 8
           ul == u \div 8
<1>2. /\ m.kernel.phy_start = 512 /\ m.kernel.bits = 0 /\ m.kernel.len = kl
      /\ m.user.phy_start = 512 + k /\ m.user.bits = kl /\ m.user.len = ul
      /\ m.vaddr.bits = kl + ul /\ m.vaddr.len = kl
  BY DEF mem_pool_init, vaddr_bits, LowFrames
<1>3. n - 512 \in Nat
  BY SMT
<1>4. k \in Nat /\ 2 * k <= n - 512 /\ n - 512 < 2 * k + 2
  BY <1>3, SMT
<1> HIDE DEF k
<1>5. u \in Nat /\ k <= u /\ u <= k + 1 /\ n = 512 + k + u
  BY <1>4, SMT
<1> HIDE DEF u, m
<1>6. kl \in Nat /\ 8 * kl <= k /\ k - 8 * kl < 8
  BY <1>4, SMT
<1>7. ul \in Nat /\ 8 * ul <= u /\ u - 8 * ul < 8
  BY <1>5, SMT
<1> HIDE DEF kl, ul
<1>8. \A f \in {PageDir} \cup Tables : f < 512
  BY SMT DEF PageDir, Tables, LowFrames
<1>9. kl + ul + kl <= BitmapRoom
  BY <1>4, <1>5, <1>6, <1>7, SMT DEF BitmapRoom, PG_SIZE
<1> QED BY <1>1, <1>2, <1>4, <1>5, <1>6, <1>7, <1>8, <1>9, SMT DEF Fits, m

(* The same for the machines of the run.                                   *)
THEOREM MemoryStaysFit == LibSpec => []MemoryFits
<1> DEFINE J == part = "memory" => number \in Machines
<1>1. LibInit => J
  BY DEF LibInit
<1>2. J /\ [LibNext]_libVars => J'
  BY DEF LibNext, libVars
<1>3. J => MemoryFits
  <2>1. \A n \in Machines : n \in Nat /\ 528 <= n /\ n <= 87903
    BY SMT DEF Machines
  <2> QED BY <2>1, LayoutFits DEF MemoryFits
<1> QED BY <1>1, <1>2, <1>3, PTL DEF LibSpec
-----------------------------------------------------------------------------
(* The numbers.  The digits are different characters, and numeral undoes   *)
(* digit.                                                                  *)
LEMMA DigitIs ==
  /\ \A d \in 0..15 : numeral(digit(d)) = d /\ digit(d) # "-"
  /\ digit(0) = "0" /\ \A d \in 1..15 : digit(d) # "0"
<1>1. \A i, j \in 1..16 : Digit[i] = Digit[j] => i = j
  BY DEF Digit
<1>2. \A i \in 1..16 : Digit[i] # "-"
  BY DEF Digit
<1>3. Digit[1] = "0"
  BY DEF Digit
<1>4. \A c, d \in 0..15 : digit(c) = digit(d) => c = d
  <2>1. \A d \in 0..15 : d + 1 \in 1..16
    OBVIOUS
  <2> QED BY <1>1, <2>1 DEF digit
<1>5. \A d \in 0..15 : digit(d) # "-"
  BY <1>2 DEF digit
<1>6. digit(0) = "0" /\ \A d \in 1..15 : digit(d) # "0"
  BY <1>3, <1>4 DEF digit
<1>7. ASSUME NEW d \in 0..15 PROVE numeral(digit(d)) = d
  <2>1. numeral(digit(d)) \in 0..15 /\ digit(numeral(digit(d))) = digit(d)
    BY Zenon DEF numeral
  <2> QED BY <1>4, <2>1
<1> QED BY <1>5, <1>6, <1>7

(* The recursion of Modulus, up to k.                                      *)
PowerOf(g, k) == g = [n \in 0..k |-> IF n = 0 THEN 1 ELSE 16 * g[n - 1]]

(* It has a solution.                                                      *)
LEMMA PowerExists ==
  ASSUME NEW k \in Nat PROVE \E g : PowerOf(g, k)
<1> DEFINE S == {c \in Nat : \E g : PowerOf(g, c)}
<1>1. 0 \in S
  <2>1. PowerOf([n \in 0..0 |-> 1], 0)
    BY DEF PowerOf
  <2> QED BY <2>1
<1>2. ASSUME NEW c \in 0..(k - 1), c \in S PROVE c + 1 \in S
  <2>1. PICK g : PowerOf(g, c)
    BY <1>2
  <2> DEFINE h == [n \in 0..(c + 1) |-> IF n = 0 THEN 1 ELSE 16 * g[n - 1]]
             e == [n \in 0..(c + 1) |-> IF n = 0 THEN 1 ELSE 16 * h[n - 1]]
  <2>2. \A n \in 0..c : h[n] = g[n]
    BY <2>1 DEF PowerOf
  <2>3. \A n \in 0..(c + 1) : n # 0 => n - 1 \in 0..c
    OBVIOUS
  <2>4. h = e
    BY <2>2, <2>3
  <2>5. PowerOf(h, c + 1)
    BY <2>4 DEF PowerOf
  <2> QED BY <2>5
<1> HIDE DEF S
<1>3. k \in S
  BY <1>1, <1>2, UpTo
<1> QED BY <1>3 DEF S

(* The powers of 16 up to Modulus.                                         *)
LEMMA Powers ==
  \E g : /\ \A n \in 0..Nibbles : g[n] \in Nat \ {0}
         /\ g[0] = 1 /\ g[Nibbles] = Modulus
         /\ \A n \in 1..Nibbles : g[n] = 16 * g[n - 1]
<1> DEFINE g == CHOOSE f : PowerOf(f, Nibbles)
<1>1. PowerOf(g, Nibbles)
  BY NibblesAssumption, PowerExists, Zenon
<1>2. Modulus = g[Nibbles]
  BY DEF Modulus, PowerOf
<1> HIDE DEF g
<1>3. Nibbles \in Nat /\ 0 \in 0..Nibbles /\ \A n \in 1..Nibbles : n \in 0..Nibbles /\ n # 0
  BY NibblesAssumption
<1>4. g[0] = 1 /\ \A n \in 1..Nibbles : g[n] = 16 * g[n - 1]
  BY <1>1, <1>3 DEF PowerOf
<1>5. \A n \in 0..Nibbles : g[n] \in Nat \ {0}
  <2> DEFINE S == {n \in Nat : g[n] \in Nat \ {0}}
  <2>1. 0 \in S
    BY <1>4
  <2>2. ASSUME NEW n \in 0..(Nibbles - 1), n \in S PROVE n + 1 \in S
    <3>1. n + 1 \in 1..Nibbles /\ (n + 1) - 1 = n
      BY <1>3
    <3>2. g[n + 1] = 16 * g[n] /\ g[n] \in Nat \ {0}
      BY <1>4, <2>2, <3>1
    <3> QED BY <3>2
  <2> HIDE DEF S
  <2>3. \A n \in 0..Nibbles : n \in S
    BY <1>3, <2>1, <2>2, UpTo
  <2> QED BY <2>3 DEF S
<1> QED BY <1>2, <1>4, <1>5

(* The integers are a multiple of 16, and so the negative ones are half    *)
(* of them; the bits of an integer are a number below Modulus.             *)
LEMMA IntegersAre ==
  /\ Modulus \in Nat /\ Modulus >= 16
  /\ \A v \in Int32 : v \in Int /\ unsigned(v) \in UInt
  /\ \A v \in Int32 : v >= 0 => v \in UInt
  /\ \A v \in Int32 : v < 0 => unsigned(0 - v) = -v /\ -v \in UInt
<1>1. PICK g : /\ \A n \in 0..Nibbles : g[n] \in Nat \ {0}
               /\ g[0] = 1 /\ g[Nibbles] = Modulus
               /\ \A n \in 1..Nibbles : g[n] = 16 * g[n - 1]
  BY Powers
<1>2. Nibbles \in 1..Nibbles /\ Nibbles - 1 \in 0..Nibbles
  BY NibblesAssumption
<1>3. PICK h \in Nat \ {0} : Modulus = 16 * h
  BY <1>1, <1>2
<1>4. Modulus \in Nat /\ Modulus >= 16 /\ Modulus \div 2 = 8 * h
  BY <1>3
<1>5. \A v \in Int32 : v \in Int /\ -(8 * h) <= v /\ v < 8 * h
  BY <1>4 DEF Int32
<1>6. \A v \in Int : v % Modulus \in UInt
  BY <1>4 DEF UInt
<1>7. \A v \in UInt : v % Modulus = v
  BY <1>4 DEF UInt
<1>8. ASSUME NEW v \in Int32 PROVE (v >= 0 => v \in UInt) /\ (v < 0 => -v \in UInt /\ 0 - v = -v)
  BY <1>3, <1>4, <1>5 DEF UInt
<1> QED BY <1>4, <1>5, <1>6, <1>7, <1>8 DEF unsigned

(* The recursion of Value over the first k characters.                     *)
ReadOf(g, str, base, k) ==
  g = [n \in 0..k |-> IF n = 0 THEN 0 ELSE base * g[n - 1] + numeral(str[n])]

(* It has a solution.                                                      *)
LEMMA ReadExists ==
  ASSUME NEW str, NEW base, NEW k \in Nat
  PROVE  \E g : ReadOf(g, str, base, k)
<1> DEFINE S == {c \in Nat : \E g : ReadOf(g, str, base, c)}
<1>1. 0 \in S
  <2>1. ReadOf([n \in 0..0 |-> 0], str, base, 0)
    BY DEF ReadOf
  <2> QED BY <2>1
<1>2. ASSUME NEW c \in 0..(k - 1), c \in S PROVE c + 1 \in S
  <2>1. PICK g : ReadOf(g, str, base, c)
    BY <1>2
  <2> DEFINE step(f, n) == IF n = 0 THEN 0 ELSE base * f[n - 1] + numeral(str[n])
             h == [n \in 0..(c + 1) |-> step(g, n)]
             e == [n \in 0..(c + 1) |-> step(h, n)]
  <2>2. \A n \in 0..c : h[n] = g[n]
    <3>1. \A n \in 0..c : g[n] = step(g, n)
      BY <2>1 DEF ReadOf
    <3>2. \A n \in 0..c : n \in 0..(c + 1)
      OBVIOUS
    <3> HIDE DEF step
    <3> QED BY <3>1, <3>2
  <2>3. \A n \in 0..(c + 1) : n # 0 => n - 1 \in 0..c
    OBVIOUS
  <2>4. h = e
    BY <2>2, <2>3
  <2>5. ReadOf(h, str, base, c + 1)
    BY <2>4 DEF ReadOf
  <2> QED BY <2>5
<1> HIDE DEF S
<1>3. \A c \in 0..k : c \in S
  BY <1>1, <1>2, UpTo, Zenon
<1> QED BY <1>3 DEF S

(* Only one solution: whatever reads the text digit by digit gives its     *)
(* Value.                                                                  *)
LEMMA ValueIs ==
  ASSUME NEW str, Len(str) \in Nat, NEW base, NEW f, f[0] = 0,
         \A n \in 1..Len(str) : f[n] = base * f[n - 1] + numeral(str[n])
  PROVE  Value(str, base) = f[Len(str)]
<1> DEFINE k == Len(str)
           g == CHOOSE h : ReadOf(h, str, base, k)
           S == {n \in Nat : g[n] = f[n]}
<1>1. ReadOf(g, str, base, k)
  BY ReadExists, Zenon
<1>2. Value(str, base) = g[k]
  BY DEF Value, ReadOf
<1> HIDE DEF g
<1>3. 0 \in S
  BY <1>1 DEF ReadOf
<1>4. ASSUME NEW n \in 0..(k - 1), n \in S PROVE n + 1 \in S
  <2>1. n + 1 \in 1..k /\ n + 1 \in 0..k /\ n + 1 # 0 /\ (n + 1) - 1 = n
    OBVIOUS
  <2>2. g[n + 1] = base * g[n] + numeral(str[n + 1])
    BY <1>1, <2>1 DEF ReadOf
  <2>3. f[n + 1] = base * f[n] + numeral(str[n + 1])
    BY <2>1
  <2> QED BY <1>4, <2>2, <2>3
<1> HIDE DEF S
<1>5. k \in S
  <2>1. k \in Nat /\ k \in 0..k
    OBVIOUS
  <2> HIDE DEF k
  <2>2. \A n \in 0..k : n \in S
    BY <1>3, <1>4, <2>1, UpTo, Zenon
  <2> QED BY <2>1, <2>2
<1> QED BY <1>2, <1>5 DEF S

(* One more digit.                                                         *)
LEMMA ValueMore ==
  ASSUME NEW C, NEW s \in Seq(C), NEW c \in C, NEW base
  PROVE  Value(s \o <<c>>, base) = base * Value(s, base) + numeral(c) /\ Value(<<>>, base) = 0
<1> DEFINE k == Len(s)
           t == s \o <<c>>
<1>1. k \in Nat /\ Len(t) = k + 1 /\ t[k + 1] = c /\ \A n \in 1..k : t[n] = s[n]
  <2>1. k \in Nat /\ Len(<<c>>) = 1 /\ <<c>>[1] = c /\ <<c>> \in Seq(C)
    OBVIOUS
  <2> QED BY <2>1
<1> HIDE DEF k, t
<1>2. PICK f : ReadOf(f, t, base, k + 1)
  <2>1. k + 1 \in Nat
    BY <1>1
  <2> QED BY <2>1, ReadExists, Zenon
<1>3. f[0] = 0 /\ \A n \in 1..(k + 1) : f[n] = base * f[n - 1] + numeral(t[n])
  <2>1. 0 \in 0..(k + 1) /\ \A n \in 1..(k + 1) : n \in 0..(k + 1) /\ n # 0
    BY <1>1
  <2> QED BY <1>2, <2>1 DEF ReadOf
<1>4. Value(t, base) = f[k + 1]
  BY <1>1, <1>3, ValueIs
<1>5. \A n \in 1..k : f[n] = base * f[n - 1] + numeral(s[n])
  <2>1. \A n \in 1..k : n \in 1..(k + 1)
    BY <1>1
  <2> QED BY <1>1, <1>3, <2>1
<1>6. Value(s, base) = f[k]
  BY <1>1, <1>3, <1>5, ValueIs DEF k
<1>7. f[k + 1] = base * f[k] + numeral(c)
  <2>1. k + 1 \in 1..(k + 1) /\ (k + 1) - 1 = k
    BY <1>1
  <2> QED BY <1>1, <1>3, <2>1
<1>8. Value(<<>>, base) = 0
  <2>1. Len(<<>>) = 0 /\ [n \in {0} |-> 0][0] = 0 /\ 1..0 = {}
    OBVIOUS
  <2> QED BY <2>1, ValueIs
<1> QED BY <1>4, <1>6, <1>7, <1>8 DEF t

(* The recursion of itoa, for the numbers up to k.                         *)
TextOf(g, base, k) ==
  g = [v \in 0..k |-> (IF v \div base # 0 THEN g[v \div base] ELSE <<>>) \o <<digit(v % base)>>]

(* It has a solution.                                                      *)
LEMMA TextExists ==
  ASSUME NEW base \in {10, 16}, NEW k \in Nat
  PROVE  \E g : TextOf(g, base, k)
<1> DEFINE S == {c \in Nat : \E g : TextOf(g, base, c)}
<1>1. 0 \in S
  <2>1. 0 \div base = 0
    OBVIOUS
  <2>2. TextOf([v \in 0..0 |-> <<>> \o <<digit(v % base)>>], base, 0)
    BY <2>1 DEF TextOf
  <2> QED BY <2>2
<1>2. ASSUME NEW c \in 0..(k - 1), c \in S PROVE c + 1 \in S
  <2>1. PICK g : TextOf(g, base, c)
    BY <1>2
  <2> DEFINE step(f, v) == (IF v \div base # 0 THEN f[v \div base] ELSE <<>>) \o <<digit(v % base)>>
             h == [v \in 0..(c + 1) |-> step(g, v)]
             e == [v \in 0..(c + 1) |-> step(h, v)]
  <2>2. \A v \in 0..c : h[v] = g[v]
    <3>1. \A v \in 0..c : g[v] = step(g, v)
      BY <2>1 DEF TextOf
    <3>2. \A v \in 0..c : v \in 0..(c + 1)
      OBVIOUS
    <3> HIDE DEF step
    <3> QED BY <3>1, <3>2
  <2>3. \A v \in 0..(c + 1) : v \div base # 0 => v \div base \in 0..c
    OBVIOUS
  <2>4. \A v \in 0..(c + 1) : step(g, v) = step(h, v)
    BY <2>2, <2>3
  <2>5. h = e
    <3> HIDE DEF step
    <3> QED BY <2>4
  <2>6. TextOf(h, base, c + 1)
    BY <2>5 DEF TextOf
  <2> QED BY <2>6
<1> HIDE DEF S
<1>3. \A c \in 0..k : c \in S
  BY <1>1, <1>2, UpTo, Zenon
<1> QED BY <1>3 DEF S

(* A text is a good one for v: it reads back as v, has no sign, and starts *)
(* with a zero only if it is one.                                          *)
Digits == {digit(d) : d \in 0..15}
GoodText(s, v, base) ==
  /\ s \in Seq(Digits) /\ Len(s) > 0 /\ Value(s, base) = v
  /\ s[1] = "0" => Len(s) = 1 /\ v = 0

(* The text of a number with one digit is good.                            *)
LEMMA GoodOne ==
  ASSUME NEW v \in 0..15, NEW base \in {10, 16} PROVE GoodText(<<digit(v)>>, v, base)
<1>1. digit(v) \in Digits /\ numeral(digit(v)) = v /\ (digit(v) = "0" => v = 0)
  BY DigitIs DEF Digits
<1>2. <<>> \in Seq(Digits) /\ <<>> \o <<digit(v)>> = <<digit(v)>>
  BY <1>1
<1>3. Value(<<>> \o <<digit(v)>>, base) = base * Value(<<>>, base) + numeral(digit(v)) /\ Value(<<>>, base) = 0
  BY <1>1, <1>2, ValueMore
<1> QED BY <1>1, <1>2, <1>3 DEF GoodText

(* So is that of v \div base with the last digit of v after it.            *)
LEMMA GoodMore ==
  ASSUME NEW base \in {10, 16}, NEW v \in Nat, NEW s, v \div base # 0, GoodText(s, v \div base, base)
  PROVE  GoodText(s \o <<digit(v % base)>>, v, base)
<1> DEFINE d == v % base
           w == v \div base
           t == s \o <<digit(d)>>
<1>1. d \in 0..15 /\ w \in Nat /\ v = base * w + d
  OBVIOUS
<1>2. digit(d) \in Digits /\ numeral(digit(d)) = d
  BY <1>1, DigitIs DEF Digits
<1> HIDE DEF d, w
<1>3. s \in Seq(Digits) /\ Len(s) > 0 /\ Value(s, base) = w /\ s[1] # "0"
  BY DEF GoodText, w
<1>4. t \in Seq(Digits) /\ Len(t) = Len(s) + 1 /\ t[1] = s[1]
  <2>1. digit(d) \in Digits
    BY <1>2
  <2> QED BY <1>3, <2>1
<1>5. Value(t, base) = base * w + d
  BY <1>2, <1>3, ValueMore
<1> HIDE DEF t
<1>6. GoodText(t, v, base)
  BY <1>1, <1>3, <1>4, <1>5 DEF GoodText
<1> QED BY <1>6 DEF t, d

(* itoa gives a good text for every number, in both of its bases.          *)
LEMMA ItoaReads ==
  ASSUME NEW base \in {10, 16}, NEW value \in UInt
  PROVE  GoodText(itoa(value, base), value, base)
<1> DEFINE k == Modulus - 1
           g == CHOOSE h : TextOf(h, base, k)
           T == {v \in 0..k : ~ GoodText(g[v], v, base)}
<1>1. k \in Nat /\ UInt = 0..k
  BY IntegersAre DEF UInt
<1>2. TextOf(g, base, k)
  BY <1>1, TextExists, Zenon
<1>3. itoa(value, base) = g[value]
  BY <1>1 DEF itoa, TextOf, UInt
<1> HIDE DEF g, k
<1>4. ASSUME T # {} PROVE FALSE
  <2>1. T \in SUBSET Nat
    BY <1>1
  <2>2. PICK v \in T : \A u \in T : v <= u
    BY <1>4, <2>1, Least
  <2>3. v \in Nat /\ v \in 0..k /\ ~ GoodText(g[v], v, base)
    BY <1>1, <2>2
  <2>4. g[v] = (IF v \div base # 0 THEN g[v \div base] ELSE <<>>) \o <<digit(v % base)>>
    BY <1>2, <2>3 DEF TextOf
  <2>5. CASE v \div base = 0
    <3>1. v \in 0..15 /\ v % base = v
      BY <2>3, <2>5
    <3>2. g[v] = <<digit(v)>>
      <4>1. digit(v) \in Digits
        BY <3>1 DEF Digits
      <4>2. <<>> \o <<digit(v)>> = <<digit(v)>>
        BY <4>1
      <4> QED BY <2>4, <2>5, <3>1, <4>2
    <3> QED BY <2>3, <3>1, <3>2, GoodOne
  <2>6. CASE v \div base # 0
    <3>1. v \div base \in 0..k /\ v \div base < v /\ v \div base \in Nat
      BY <1>1, <2>3, <2>6
    <3>2. v \div base \notin T
      BY <2>2, <2>3, <3>1
    <3>3. GoodText(g[v \div base], v \div base, base)
      BY <3>1, <3>2
    <3>4. g[v] = g[v \div base] \o <<digit(v % base)>>
      BY <2>4, <2>6
    <3> QED BY <2>3, <2>6, <3>3, <3>4, GoodMore
  <2> QED BY <2>5, <2>6
<1> QED BY <1>1, <1>3, <1>4

(* The recursion of shr, k digits down.                                    *)
ShiftOf(g, value, k) == g = [n \in 0..k |-> IF n = 0 THEN value ELSE g[n - 1] \div 16]

(* It has a solution.                                                      *)
LEMMA ShiftExists ==
  ASSUME NEW value, NEW k \in Nat
  PROVE  \E g : ShiftOf(g, value, k)
<1> DEFINE S == {c \in Nat : \E g : ShiftOf(g, value, c)}
<1>1. 0 \in S
  <2>1. ShiftOf([n \in 0..0 |-> value], value, 0)
    BY DEF ShiftOf
  <2> QED BY <2>1
<1>2. ASSUME NEW c \in 0..(k - 1), c \in S PROVE c + 1 \in S
  <2>1. PICK g : ShiftOf(g, value, c)
    BY <1>2
  <2> DEFINE h == [n \in 0..(c + 1) |-> IF n = 0 THEN value ELSE g[n - 1] \div 16]
             e == [n \in 0..(c + 1) |-> IF n = 0 THEN value ELSE h[n - 1] \div 16]
  <2>2. \A n \in 0..c : h[n] = g[n]
    BY <2>1 DEF ShiftOf
  <2>3. \A n \in 0..(c + 1) : n # 0 => n - 1 \in 0..c
    OBVIOUS
  <2>4. h = e
    BY <2>2, <2>3
  <2>5. ShiftOf(h, value, c + 1)
    BY <2>4 DEF ShiftOf
  <2> QED BY <2>5
<1> HIDE DEF S
<1>3. \A c \in 0..k : c \in S
  BY <1>1, <1>2, UpTo, Zenon
<1> QED BY <1>3 DEF S

(* Each shift drops the last digit, and Nibbles of them leave nothing.     *)
LEMMA ShiftIs ==
  ASSUME NEW value \in UInt
  PROVE  /\ shr(value)[0] = value /\ shr(value)[Nibbles] = 0
         /\ \A n \in 0..Nibbles : shr(value)[n] \in Nat
         /\ \A n \in 0..(Nibbles - 1) : shr(value)[n] = 16 * shr(value)[n + 1] + (shr(value)[n] % 16)
<1> DEFINE g == shr(value)
<1>1. ShiftOf(g, value, Nibbles)
  <2>1. \E h : ShiftOf(h, value, Nibbles)
    BY NibblesAssumption, ShiftExists
  <2> DEFINE e == CHOOSE h : ShiftOf(h, value, Nibbles)
  <2>2. ShiftOf(e, value, Nibbles)
    BY <2>1, Zenon
  <2>3. g = e
    BY DEF shr, ShiftOf
  <2> QED BY <2>2, <2>3
<1> HIDE DEF g
<1>2. PICK p : /\ \A n \in 0..Nibbles : p[n] \in Nat \ {0}
               /\ p[0] = 1 /\ p[Nibbles] = Modulus
               /\ \A n \in 1..Nibbles : p[n] = 16 * p[n - 1]
  BY Powers
<1>3. Nibbles \in Nat /\ Nibbles - 0 = Nibbles /\ Nibbles - Nibbles = 0 /\ Nibbles \in 0..Nibbles
  BY NibblesAssumption
<1>4. g[0] = value
  BY <1>1, <1>3 DEF ShiftOf
<1>5. \A n \in 0..(Nibbles - 1) : g[n + 1] = g[n] \div 16
  <2> TAKE n \in 0..(Nibbles - 1)
  <2>1. n + 1 \in 0..Nibbles /\ n + 1 # 0 /\ (n + 1) - 1 = n
    BY <1>3
  <2> QED BY <1>1, <2>1 DEF ShiftOf
<1> DEFINE S == {n \in Nat : g[n] \in Nat /\ g[n] < p[Nibbles - n]}
<1>6. 0 \in S
  BY <1>2, <1>3, <1>4, IntegersAre DEF UInt
<1>7. ASSUME NEW n \in 0..(Nibbles - 1), n \in S PROVE n + 1 \in S
  <2>1. Nibbles - n \in 1..Nibbles /\ Nibbles - (n + 1) = (Nibbles - n) - 1 /\ Nibbles - (n + 1) \in 0..Nibbles
    BY <1>3
  <2>2. p[Nibbles - n] = 16 * p[Nibbles - (n + 1)] /\ p[Nibbles - (n + 1)] \in Nat
    BY <1>2, <2>1
  <2>3. g[n] \in Nat /\ g[n] < 16 * p[Nibbles - (n + 1)] /\ g[n + 1] = g[n] \div 16
    BY <1>5, <1>7, <2>2
  <2> QED BY <2>2, <2>3
<1>8. \A n \in 0..Nibbles : g[n] \in Nat /\ g[n] < p[Nibbles - n]
  <2> HIDE DEF S
  <2>1. \A n \in 0..Nibbles : n \in S
    BY <1>3, <1>6, <1>7, UpTo
  <2> QED BY <2>1 DEF S
<1>9. g[Nibbles] = 0
  BY <1>2, <1>3, <1>8
<1>10. \A n \in 0..(Nibbles - 1) : g[n] = 16 * g[n + 1] + (g[n] % 16)
  <2> TAKE n \in 0..(Nibbles - 1)
  <2>1. g[n] \in Nat /\ g[n + 1] = g[n] \div 16
    BY <1>3, <1>5, <1>8
  <2> QED BY <2>1
<1> QED BY <1>4, <1>8, <1>9, <1>10 DEF g

(* put_int prints a good text for every number.                            *)
LEMMA PutIntReads ==
  ASSUME NEW value \in UInt
  PROVE  GoodText(put_int_text(value), value, 16)
<1> DEFINE g == shr(value)
           nibble(i) == g[Nibbles - i] % 16
           Begins(i) == /\ i = Nibbles \/ nibble(i) # 0
                       /\ \A j \in 1..(i - 1) : nibble(j) = 0
           first == CHOOSE i \in 1..Nibbles : Begins(i)
           t == [i \in 1..(Nibbles + 1 - first) |-> digit(nibble(first + i - 1))]
<1>1. put_int_text(value) = t
  BY DEF put_int_text
<1>2. /\ g[0] = value /\ g[Nibbles] = 0 /\ \A n \in 0..Nibbles : g[n] \in Nat
      /\ \A n \in 0..(Nibbles - 1) : g[n] = 16 * g[n + 1] + (g[n] % 16)
  BY ShiftIs
<1>3. Nibbles \in Nat \ {0}
  BY NibblesAssumption
<1> HIDE DEF g
<1>4. \A i \in 1..Nibbles : nibble(i) \in 0..15 /\ Nibbles - i \in 0..(Nibbles - 1)
  <2> TAKE i \in 1..Nibbles
  <2>1. Nibbles - i \in 0..Nibbles /\ Nibbles - i \in 0..(Nibbles - 1)
    BY <1>3
  <2>2. g[Nibbles - i] \in Nat
    BY <1>2, <2>1
  <2> QED BY <2>1, <2>2
<1>5. \A i \in 1..Nibbles : g[Nibbles - i] = 16 * g[Nibbles - (i - 1)] + nibble(i)
  <2> TAKE i \in 1..Nibbles
  <2>1. Nibbles - i \in 0..(Nibbles - 1) /\ (Nibbles - i) + 1 = Nibbles - (i - 1)
    BY <1>3
  <2> QED BY <1>2, <2>1
<1> HIDE DEF nibble
<1>6. first \in 1..Nibbles /\ Begins(first)
  <2> DEFINE T == {i \in 1..Nibbles : i = Nibbles \/ nibble(i) # 0}
  <2>1. T \in SUBSET Nat /\ Nibbles \in T
    BY <1>3
  <2>2. PICK i \in T : \A j \in T : i <= j
    BY <2>1, Least
  <2>3. i \in 1..Nibbles /\ (i = Nibbles \/ nibble(i) # 0)
    BY <2>2
  <2>4. ASSUME NEW j \in 1..(i - 1) PROVE nibble(j) = 0
    <3>1. j \in 1..Nibbles /\ j < i
      BY <1>3, <2>3
    <3> QED BY <2>2, <3>1
  <2>5. Begins(i)
    BY <2>3, <2>4
  <2> HIDE DEF Begins
  <2> QED BY <2>3, <2>5, Zenon
<1> HIDE DEF first
<1>7. g[Nibbles - (first - 1)] = 0
  <2> DEFINE S == {j \in Nat : g[Nibbles - j] = 0}
  <2>1. 0 \in S
    BY <1>2, <1>3
  <2>2. ASSUME NEW j \in 0..((first - 1) - 1), j \in S PROVE j + 1 \in S
    <3>1. j + 1 \in 1..(first - 1) /\ j + 1 \in 1..Nibbles /\ (j + 1) - 1 = j
      BY <1>3, <1>6
    <3>2. nibble(j + 1) = 0 /\ g[Nibbles - j] = 0
      BY <1>6, <2>2, <3>1
    <3>3. g[Nibbles - (j + 1)] = 16 * g[Nibbles - ((j + 1) - 1)] + nibble(j + 1)
      BY <1>5, <3>1
    <3> QED BY <3>1, <3>2, <3>3
  <2> HIDE DEF S
  <2>3. first - 1 \in Nat /\ first - 1 \in 0..(first - 1)
    BY <1>3, <1>6
  <2>4. \A j \in 0..(first - 1) : j \in S
    BY <2>1, <2>2, <2>3, UpTo
  <2> QED BY <2>3, <2>4 DEF S
<1> DEFINE k == Nibbles + 1 - first
<1>8. k \in Nat /\ k > 0 /\ \A i \in 1..k : first + i - 1 \in 1..Nibbles
  BY <1>3, <1>6
<1> HIDE DEF k
<1>9. /\ t \in Seq(Digits) /\ Len(t) = k /\ \A i \in 1..k : t[i] = digit(nibble(first + i - 1))
  <2>1. \A i \in 1..k : digit(nibble(first + i - 1)) \in Digits
    BY <1>4, <1>8 DEF Digits
  <2>2. t = [i \in 1..k |-> digit(nibble(first + i - 1))]
    BY DEF k
  <2> HIDE DEF t
  <2> QED BY <1>8, <2>1, <2>2
<1> HIDE DEF t
<1>10. Value(t, 16) = value
  <2> DEFINE f == [n \in 0..k |-> g[Nibbles - (first + n - 1)]]
  <2>1. f[0] = 0
    BY <1>6, <1>7, <1>8
  <2>2. ASSUME NEW n \in 1..k PROVE f[n] = 16 * f[n - 1] + numeral(t[n])
    <3>1. /\ first + n - 1 \in 1..Nibbles /\ (first + n - 1) - 1 = first + (n - 1) - 1
          /\ n \in 0..k /\ n - 1 \in 0..k
      BY <1>6, <1>8
    <3>2. numeral(t[n]) = nibble(first + n - 1)
      BY <1>4, <1>9, <3>1, DigitIs
    <3>3. g[Nibbles - (first + n - 1)] = 16 * g[Nibbles - ((first + n - 1) - 1)] + nibble(first + n - 1)
      BY <1>5, <3>1
    <3>4. f[n] = g[Nibbles - (first + n - 1)] /\ f[n - 1] = g[Nibbles - ((first + n - 1) - 1)]
      BY <3>1
    <3> QED BY <3>2, <3>3, <3>4
  <2>3. f[k] = value
    <3>1. k \in 0..k /\ Nibbles - (first + k - 1) = 0
      BY <1>3, <1>6, <1>8 DEF k
    <3> QED BY <1>2, <3>1
  <2> HIDE DEF f
  <2>4. Value(t, 16) = f[Len(t)]
    BY <1>8, <1>9, <2>1, <2>2, ValueIs
  <2> QED BY <1>9, <2>3, <2>4
<1>11. t[1] = "0" => k = 1 /\ value = 0
  <2>1. 1 \in 1..k /\ first + 1 - 1 = first
    BY <1>6, <1>8
  <2>2. t[1] = digit(nibble(first)) /\ nibble(first) \in 0..15
    BY <1>4, <1>6, <1>9, <2>1
  <2>3. ASSUME t[1] = "0" PROVE nibble(first) = 0
    <3>1. nibble(first) # 0 => nibble(first) \in 1..15
      BY <2>2
    <3> QED BY <2>2, <2>3, <3>1, DigitIs
  <2>4. ASSUME nibble(first) = 0 PROVE k = 1 /\ value = 0
    <3>1. first = Nibbles
      BY <1>6, <2>4
    <3>2. g[Nibbles - Nibbles] = 16 * g[Nibbles - (Nibbles - 1)] + nibble(Nibbles)
      BY <1>3, <1>5
    <3>3. Nibbles - Nibbles = 0
      BY <1>3
    <3>4. value = 0
      BY <1>2, <1>7, <2>4, <3>1, <3>2, <3>3
    <3> QED BY <1>3, <3>1, <3>4 DEF k
  <2> QED BY <2>3, <2>4
<1>12. GoodText(t, value, 16)
  BY <1>8, <1>9, <1>10, <1>11 DEF GoodText
<1> QED BY <1>1, <1>12

(* Every integer, the smallest one and zero included, is printed so that   *)
(* it reads back, by put_int and %x as the number of the same bits, by %d  *)
(* with its sign, for integers of any number of digits.                    *)
THEOREM EveryNumberReadsBack ==
  ASSUME NEW v \in Int32 PROVE ReadsBack(v)
<1> DEFINE dec == convert("d", v)
           abs == IF v < 0 THEN Tail(dec) ELSE dec
           size == IF v < 0 THEN -v ELSE v
<1>1. ASSUME NEW s, NEW n, NEW base, GoodText(s, n, base)
      PROVE  Canonical(s) /\ Value(s, base) = n /\ s[1] # "-"
  <2>1. s \in Seq(Digits) /\ Len(s) > 0 /\ s[1] \in Digits
    BY <1>1 DEF GoodText
  <2>2. s[1] # "-"
    BY <2>1, DigitIs DEF Digits
  <2> QED BY <1>1, <2>1, <2>2 DEF GoodText, Canonical
<1>2. v \in Int /\ unsigned(v) \in UInt
  BY IntegersAre
<1>3. GoodText(put_int_text(unsigned(v)), unsigned(v), 16)
  BY <1>2, PutIntReads
<1>4. convert("x", v) = itoa(unsigned(v), 16) /\ GoodText(itoa(unsigned(v), 16), unsigned(v), 16)
  BY <1>2, ItoaReads DEF convert
<1>5. dec = IF v < 0 THEN <<"-">> \o itoa(unsigned(0 - v), 10) ELSE itoa(v, 10)
  BY DEF convert
<1>6. GoodText(abs, size, 10) /\ (v < 0 <=> dec[1] = "-")
  <2>1. CASE v < 0
    <3>1. unsigned(0 - v) = -v /\ -v \in UInt
      BY <2>1, IntegersAre
    <3>2. PICK s : s = itoa(unsigned(0 - v), 10)
      OBVIOUS
    <3>3. GoodText(s, -v, 10)
      BY <3>1, <3>2, ItoaReads
    <3>4. s \in Seq(Digits \cup {"-"})
      BY <3>3 DEF GoodText
    <3>5. dec = <<"-">> \o s
      BY <1>5, <2>1, <3>2
    <3>6. Tail(dec) = s /\ dec[1] = "-"
      BY <3>4, <3>5
    <3> QED BY <2>1, <3>3, <3>6
  <2>2. CASE ~ (v < 0)
    <3>1. v \in UInt /\ dec = itoa(v, 10)
      BY <1>2, <1>5, <2>2, IntegersAre
    <3>2. GoodText(dec, v, 10)
      BY <3>1, ItoaReads
    <3>3. dec[1] # "-"
      BY <1>1, <3>2
    <3> QED BY <2>2, <3>2, <3>3
  <2> QED BY <2>1, <2>2
<1> HIDE DEF dec, abs, size
<1>7. Canonical(abs) /\ Value(abs, 10) = size
  BY <1>1, <1>6
<1>8. \A str \in {put_int_text(unsigned(v)), convert("x", v)} : Canonical(str) /\ Value(str, 16) = unsigned(v)
  BY <1>1, <1>3, <1>4
<1> QED BY <1>6, <1>7, <1>8 DEF ReadsBack, dec, abs, size

(* The same for the run: in every state that is about a number, it is      *)
(* printed so that it reads back.                                          *)
THEOREM NumbersStayReadable == LibSpec => []NumbersReadBack
<1> DEFINE J == part = "numbers" => number \in Int32
<1>1. LibInit => J
  BY DEF LibInit
<1>2. J /\ [LibNext]_libVars => J'
  BY DEF LibNext, libVars
<1>3. J => NumbersReadBack
  BY EveryNumberReadsBack DEF NumbersReadBack
<1> QED BY <1>1, <1>2, <1>3, PTL DEF LibSpec
=============================================================================
