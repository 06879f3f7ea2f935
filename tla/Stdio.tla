-------------------------------- MODULE Stdio --------------------------------
(***************************************************************************)
(* Conversions to text: put_int of lib/kernel/print.S, itoa and vsprintf   *)
(* of lib/stdio.c, with the strcpy and strlen they use.  A character is a  *)
(* string of length one, an integer has Nibbles hexadecimal digits, a      *)
(* buffer is a sequence of characters.                                     *)
(***************************************************************************)
EXTENDS Integers, Sequences, SequencesExt

CONSTANTS Nibbles   \* hexadecimal digits of an integer (8 in the code)

ASSUME NibblesAssumption == Nibbles \in Nat \ {0}

(* 16 to the power Nibbles: how many integers there are.                   *)
Modulus == LET power[n \in 0..Nibbles] == IF n = 0 THEN 1 ELSE 16 * power[n - 1]
           IN  power[Nibbles]

UInt == 0..(Modulus - 1)
Int32 == (-(Modulus \div 2))..(Modulus \div 2 - 1)
unsigned(v) == v % Modulus

NUL == "0x00"
Digit == <<"0", "1", "2", "3", "4", "5", "6", "7", "8", "9", "A", "B", "C", "D", "E", "F">>
digit(n) == Digit[n + 1]

(* The values of eax in put_int: each shr drops the last digit.            *)
shr(value) ==
  LET eax[n \in 0..Nibbles] == IF n = 0 THEN value ELSE eax[n - 1] \div 16
  IN  eax

(* Mutant of put_int_text: a zero is skipped too.                          *)
put_int_text_skip(value) ==
  LET nibble(i) == shr(value)[Nibbles - i] % 16
      first == CHOOSE i \in 1..(Nibbles + 1) :
                 /\ i = Nibbles + 1 \/ nibble(i) # 0
                 /\ \A j \in 1..(i - 1) : nibble(j) = 0
  IN  [i \in 1..(Nibbles + 1 - first) |-> digit(nibble(first + i - 1))]

(* The characters put_int prints: put_int_buffer without leading zeros,    *)
(* and one 0 when there is nothing else.                                   *)
put_int_text(value) ==
  LET nibble(i) == shr(value)[Nibbles - i] % 16
      first == CHOOSE i \in 1..Nibbles :
                 /\ i = Nibbles \/ nibble(i) # 0
                 /\ \A j \in 1..(i - 1) : nibble(j) = 0
  IN  [i \in 1..(Nibbles + 1 - first) |-> digit(nibble(first + i - 1))]

(* itoa: the higher digits first, by a recursive call.                     *)
itoa(value, base) ==
  LET text[v \in UInt] == (IF v \div base # 0 THEN text[v \div base] ELSE <<>>)
                          \o <<digit(v % base)>>
  IN  text[value]

(* strlen: the characters before the first zero byte.                      *)
strlen(str) == (CHOOSE i \in DOMAIN str : str[i] = NUL /\ \A j \in 1..(i - 1) : str[j] # NUL) - 1

(* strcpy and the assignments to *dst: out over the start of buf; no zero  *)
(* byte is written.                                                        *)
strcpy(buf, out) == [i \in DOMAIN buf |-> IF i <= Len(out) THEN out[i] ELSE buf[i]]

(* One conversion of vsprintf; a letter it does not know gives nothing.    *)
convert(letter, arg) ==
  CASE letter = "x" -> itoa(unsigned(arg), 16)
    [] letter = "s" -> arg
    [] letter = "c" -> <<arg>>
    [] letter = "d" -> IF arg < 0 THEN <<"-">> \o itoa(unsigned(0 - arg), 10)
                       ELSE itoa(arg, 10)
    [] OTHER -> <<>>

Takes(letter) == letter \in {"x", "s", "c", "d"}

(* The loop of vsprintf.  An item of a format is a character or a          *)
(* conversion [conv |-> letter]; args are consumed from the left.          *)
vsprintf(format, args) ==
  LET step(acc, item) ==
        IF "conv" \notin DOMAIN item THEN [acc EXCEPT !.out = Append(@, item.char)]
        ELSE IF Takes(item.conv)
        THEN [out |-> acc.out \o convert(item.conv, Head(acc.args)), args |-> Tail(acc.args)]
        ELSE acc
  IN  FoldLeft(step, [out |-> <<>>, args |-> args], format).out

(* printf formats into a zeroed buffer and hands it to write, which prints *)
(* up to the first zero byte.                                              *)
printf(size, format, args) ==
  LET buf == strcpy([i \in 1..size |-> NUL], vsprintf(format, args))
  IN  SubSeq(buf, 1, strlen(buf))
-----------------------------------------------------------------------------
(* The number a text stands for, read in the given base.                   *)
numeral(c) == CHOOSE d \in 0..15 : digit(d) = c

Value(text, base) ==
  LET read[n \in 0..Len(text)] == IF n = 0 THEN 0 ELSE base * read[n - 1] + numeral(text[n])
  IN  read[Len(text)]

Canonical(text) == Len(text) > 0 /\ (Len(text) > 1 => text[1] # "0")

(* The number v, an int32_t, is printed so that it reads back: by put_int   *)
(* and %x in base 16, as the unsigned number of the same bits, by %d with  *)
(* its sign, and nowhere with a leading zero.                              *)
ReadsBack(v) ==
  LET hex == {put_int_text(unsigned(v)), convert("x", v)}
      dec == convert("d", v)
      abs == IF v < 0 THEN Tail(dec) ELSE dec
  IN  /\ \A text \in hex : Canonical(text) /\ Value(text, 16) = unsigned(v)
      /\ Canonical(abs) /\ Value(abs, 10) = (IF v < 0 THEN -v ELSE v)
      /\ v < 0 <=> dec[1] = "-"
=============================================================================
