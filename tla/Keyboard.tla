------------------------------ MODULE Keyboard -------------------------------
(***************************************************************************)
(* intr_keyboard_handler of device/keyboard.c, which turns the bytes of    *)
(* scan code set 1 into characters for kbd_buf, and the keyboard that      *)
(* sends them: one byte per interrupt, two for an extended key.            *)
(*                                                                         *)
(* Codes are numbers.  A character is the index of its key in keymap and   *)
(* the column (0 plain, 1 shifted) that holds it; which letter that is     *)
(* does not matter.                                                        *)
(***************************************************************************)
EXTENDS Integers, Sequences

CONSTANTS Key,       \* the keys that are used: code, and whether 0xe0 precedes it
          MaxPort,   \* bytes the keyboard has sent and the handler has not read
          bufsize    \* of the ioqueue kbd_buf

(* No key of scan code set 1 has the code 96: its break code would be the  *)
(* prefix 0xe0.                                                            *)
ASSUME KeyAssumption ==
  /\ Key \subseteq [code : (1..126) \ {96}, ext : BOOLEAN]
  /\ MaxPort \in Nat \ {0, 1} /\ bufsize \in Nat \ {0, 1}

VARIABLES ctrl_status, shift_status, alt_status, caps_lock_status, ext_scancode,
          kbd_buf,   \* the characters in the ioqueue
          down,      \* the keys that are held down
          live,      \* those of them with which no partner was released since
          caps,      \* what the make codes of the caps lock key add up to
          port       \* bytes on their way, with the character that is meant

statusVars == <<ctrl_status, shift_status, alt_status, caps_lock_status>>
kbdVars == <<statusVars, ext_scancode, kbd_buf, down, live, caps, port>>

shift_l_make == 42       \* 0x2a
shift_r_make == 54       \* 0x36
alt_l_make == 56         \* 0x38
alt_r_make == 57344 + 56 \* 0xe038
ctrl_l_make == 29        \* 0x1d
ctrl_r_make == 57344 + 29
caps_lock_make == 58     \* 0x3a
Extended == 224          \* 0xe0

NoChar == <<>>
Invisible == {0, shift_l_make, shift_r_make, alt_l_make, ctrl_l_make, caps_lock_make}
OneChar == {1, 14, 15, 28, 55, 57}   \* esc, backspace, tab, enter, '*', ' '

keymap(index, shift) ==
  IF index \in Invisible THEN NoChar
  ELSE <<index, IF shift /\ index \notin OneChar THEN 1 ELSE 0>>

(* keyboard_init: the statuses are static and start as 0.                  *)
KbdInit ==
  /\ ctrl_status = FALSE /\ shift_status = FALSE /\ alt_status = FALSE
  /\ caps_lock_status = FALSE /\ ext_scancode = FALSE
  /\ kbd_buf = <<>>
  /\ down = {} /\ live = {} /\ caps = FALSE /\ port = <<>>
-----------------------------------------------------------------------------
(* The keyboard, and what somebody at it means by a key.  The two shift    *)
(* keys are partners, and so are the two keys of ctrl and of alt: when one *)
(* is released the other, though it is held, counts no more until it is    *)
(* pressed or repeats.                                                     *)
Shift(k) == k.code \in {shift_l_make, shift_r_make} /\ ~ k.ext

Partners(k) == {l \in Key : \/ l = k
                            \/ Shift(k) /\ Shift(l)
                            \/ l.code = k.code /\ k.code \in {ctrl_l_make, alt_l_make}}

InForce(codes) == \E k \in live : k.code \in codes
ShiftInForce == \E k \in live : Shift(k)
Letter(code) == code \in (16..25) \cup (30..38) \cup (44..50)

Meant(k) ==
  IF k.ext \/ k.code > caps_lock_make THEN NoChar
  ELSE keymap(k.code, IF Letter(k.code) THEN ShiftInForce # caps ELSE ShiftInForce)

Send(k, byte, want) ==
  LET bytes == (IF k.ext THEN <<[byte |-> Extended, want |-> NoChar]>> ELSE <<>>)
                 \o <<[byte |-> byte, want |-> want]>>
  IN  /\ Len(port) + Len(bytes) <= MaxPort
      /\ port' = port \o bytes

(* A key is pressed, or repeats because it is held.                        *)
Press(k) ==
  /\ Send(k, k.code, Meant(k))
  /\ down' = down \cup {k} /\ live' = live \cup {k}
  /\ caps' = (caps # (k = [code |-> caps_lock_make, ext |-> FALSE]))
  /\ UNCHANGED <<statusVars, ext_scancode, kbd_buf>>

Release(k) ==
  /\ k \in down
  /\ Send(k, k.code + 128, NoChar)
  /\ down' = down \ {k} /\ live' = live \ Partners(k)
  /\ UNCHANGED <<statusVars, ext_scancode, kbd_buf, caps>>

(* ioq_getchar by some thread.                                             *)
Read ==
  /\ kbd_buf # <<>>
  /\ kbd_buf' = Tail(kbd_buf)
  /\ UNCHANGED <<statusVars, ext_scancode, down, live, caps, port>>
-----------------------------------------------------------------------------
(* Mutant of BreakCode: the right ctrl key is forgotten.                   *)
BreakCode_left(make_code) ==
  /\ ctrl_status' = (ctrl_status /\ make_code # ctrl_l_make)
  /\ shift_status' = (shift_status /\ make_code \notin {shift_l_make, shift_r_make})
  /\ alt_status' = (alt_status /\ make_code \notin {alt_l_make, alt_r_make})
  /\ UNCHANGED <<caps_lock_status, kbd_buf>>

(* A key is released: a modifier key clears its status.                    *)
BreakCode(make_code) ==
  /\ ctrl_status' = (ctrl_status /\ make_code \notin {ctrl_l_make, ctrl_r_make})
  /\ shift_status' = (shift_status /\ make_code \notin {shift_l_make, shift_r_make})
  /\ alt_status' = (alt_status /\ make_code \notin {alt_l_make, alt_r_make})
  /\ UNCHANGED <<caps_lock_status, kbd_buf>>

TwoChars(scancode) ==
  scancode < 14 \/ scancode \in {41, 26, 27, 43, 39, 40, 51, 52, 53}

(* A character goes into the queue unless the queue is full.               *)
PutChar(cur_char) ==
  /\ kbd_buf' = IF Len(kbd_buf) = bufsize - 1 THEN kbd_buf ELSE Append(kbd_buf, cur_char)
  /\ UNCHANGED statusVars

(* A key is pressed: it has a character, or is one of the modifiers, all   *)
(* compared with scancode after the 0xe0 has been cut off.                 *)
MakeCode(scancode) ==
  LET index == scancode % 256
      shift == IF TwoChars(scancode) THEN shift_status ELSE shift_status # caps_lock_status
      cur_char == keymap(index, shift)
  IN  IF cur_char # NoChar
      THEN PutChar(cur_char)
      ELSE /\ ctrl_status' = (ctrl_status \/ index = ctrl_l_make)
           /\ shift_status' = (shift_status \/ index \in {shift_l_make, shift_r_make})
           /\ alt_status' = (alt_status \/ index = alt_l_make)
           /\ caps_lock_status' = (caps_lock_status # (index = caps_lock_make))
           /\ UNCHANGED kbd_buf

Known(scancode) == scancode \in 1..58 \/ scancode \in {alt_r_make, ctrl_r_make}

(* Mutant of EndOfCode: ext_scancode is not reset.                         *)
EndOfCode_ext == UNCHANGED ext_scancode

EndOfCode == ext_scancode' = FALSE

(* One interrupt: one byte is read.                                        *)
intr_keyboard_handler ==
  LET byte == Head(port).byte
      scancode == IF ext_scancode THEN 57344 + byte ELSE byte
  IN  /\ port # <<>>
      /\ port' = Tail(port)
      /\ IF byte = Extended
         THEN ext_scancode' = TRUE /\ UNCHANGED <<statusVars, kbd_buf>>
         ELSE /\ EndOfCode
              /\ IF byte >= 128 THEN BreakCode(scancode - 128)
                 ELSE IF Known(scancode) THEN MakeCode(scancode)
                 ELSE UNCHANGED <<statusVars, kbd_buf>>   \* "unknown key"
      /\ UNCHANGED <<down, live, caps>>

KbdNext ==
  \/ \E k \in Key : Press(k) \/ Release(k)
  \/ intr_keyboard_handler
  \/ Read

KbdSpec == KbdInit /\ [][KbdNext]_kbdVars
-----------------------------------------------------------------------------
(* Once the handler has read every byte the statuses say which modifiers   *)
(* are in force, those with a key that is held and no partner of which was *)
(* released since, and how often caps lock was hit: no order of keys of a  *)
(* pair, and no extended key, known or not, puts the decoding out of step. *)
ModifiersMatch ==
  port = <<>> =>
    /\ ctrl_status = InForce({ctrl_l_make})
    /\ shift_status = ShiftInForce
    /\ alt_status = InForce({alt_l_make})
    /\ caps_lock_status = caps
    /\ ~ ext_scancode

(* What goes into kbd_buf is the character that the key had under the      *)
(* modifiers in force when it was pressed, however many bytes were on      *)
(* their way then; and it goes in unless the queue is full.                *)
CharIsMeant ==
  [][port # <<>> /\ port' = Tail(port) =>
       kbd_buf' = IF Head(port).want = NoChar \/ Len(kbd_buf) = bufsize - 1 THEN kbd_buf
                  ELSE Append(kbd_buf, Head(port).want)]_kbdVars
=============================================================================
