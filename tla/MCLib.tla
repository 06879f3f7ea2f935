-------------------------------- MODULE MCLib --------------------------------
(***************************************************************************)
(* The instance of Keyboard, Bitmap, Console, Stdio and Layout that TLC    *)
(* checks.                                                                 *)
(* They share nothing, so each behaviour is one of them alone: the initial *)
(* state says which, and the state spaces add up instead of multiplying.   *)
(***************************************************************************)
EXTENDS Keyboard, Bitmap, Console, Layout

VARIABLES part,     \* what this behaviour is about
          number    \* the number to print, or the frames of the machine

libVars == <<part, number, kbdVars, bitmapVars, consoleVars>>

(* Both shift keys, right ctrl, right alt, caps lock, 'a', '1' and the     *)
(* enter of the keypad.                                                    *)
Plain(code) == [code |-> code, ext |-> FALSE]
Ext(code) == [code |-> code, ext |-> TRUE]
SomeKeys == {Plain(42), Plain(54), Ext(29), Ext(56), Plain(58), Plain(30), Plain(2), Ext(28)}

(* A line, a text that wraps and takes a character back, put_int(0x1f),    *)
(* and printf("z%d%q%s", -1, "\r").                                        *)
AllSorts == {<<"x", LF>>, <<"y", "y", BS>>, put_int_text(31),
             printf(8, <<[char |-> "z"], [conv |-> "d"], [conv |-> "q"], [conv |-> "s"]>>,
                    <<-1, <<CR>>>>)}

UnknownKey == <<"?", LF>>

(* From just more than what the page tables take, around 32 MB, and up to  *)
(* the greatest memory whose bitmaps find room, 343 MB.                    *)
Machines == (528..600) \cup (8184..8200) \cup (87850..87903)

LibInit ==
  /\ KbdInit /\ BitmapInit /\ ConsoleInit
  /\ \/ part \in {"keyboard", "bitmap", "console"} /\ number = 0
     \/ part = "numbers" /\ number \in Int32
     \/ part = "memory" /\ number \in Machines

LibNext ==
  \/ part = "keyboard" /\ KbdNext /\ UNCHANGED <<part, number, bitmapVars, consoleVars>>
  \/ part = "bitmap" /\ BitmapNext /\ UNCHANGED <<part, number, kbdVars, consoleVars>>
  \/ part = "console" /\ ConsoleNext /\ UNCHANGED <<part, number, kbdVars, bitmapVars>>

LibSpec == LibInit /\ [][LibNext]_libVars

(* In every bitmap that can come up and has a free bit, bitmap_scan is     *)
(* first fit: the least index at which cnt bits are free, -1 if there is   *)
(* none.                                                                   *)
ScanIsFirstFit == part = "bitmap" => FirstFit

(* Every number is printed by put_int, %x and %d so that it reads back,    *)
(* the smallest integer and zero included.                                 *)
NumbersReadBack == part = "numbers" => ReadsBack(number)

(* On machines of every size up to 343 MB, tables, pools and bitmaps have  *)
(* places of their own and the bitmaps end below the main thread's PCB.    *)
MemoryFits == part = "memory" => Fits(number)
=============================================================================
