------------------------------- MODULE Console -------------------------------
(***************************************************************************)
(* The console: put_char of lib/kernel/print.S on the video memory and the *)
(* cursor registers, and the locked functions of device/console.c.         *)
(*                                                                         *)
(* put_char reads the cursor, writes (or rolls) the screen and sets the    *)
(* cursor: three steps for a kernel thread, which runs with interrupts     *)
(* enabled and may be preempted or interrupted anywhere.  A process prints *)
(* in a system call, with interrupts disabled: one step, once it has the   *)
(* lock.  The keyboard handler prints its "unknown key" without the lock,  *)
(* in one step, wherever it finds the interrupted thread.                  *)
(*                                                                         *)
(* What should be seen is kept beside it: an endless roll of paper, the    *)
(* position on it, and the first row of the window.                        *)
(***************************************************************************)
EXTENDS Stdio

CONSTANTS Rows, Cols,     \* the screen (25 and 80 in the code)
          KernelThread,   \* threads that print with interrupts enabled
          Process,        \* processes, which print in system calls
          Texts,          \* what they print
          KeyText,        \* what the handler prints
          TextLen,        \* bound: the length of a text
          MaxTexts,       \* bound: how often something is printed
          MaxKeys,        \* bound: how often the handler prints
          Nobody

ASSUME ConsoleAssumption ==
  /\ Rows \in Nat \ {0, 1} /\ Cols \in Nat \ {0}
  /\ Texts \subseteq Seq(STRING) /\ KeyText \in Seq(STRING)
  /\ \A str \in Texts \cup {KeyText} : Len(str) <= TextLen
  /\ TextLen \in Nat /\ MaxTexts \in Nat /\ MaxKeys \in Nat
  /\ Nobody \notin KernelThread \cup Process

VARIABLES screen,    \* the video memory
          cursor,    \* the cursor registers of the VGA
          lock,      \* who holds console_lock
          at,        \* where a kernel thread is in console_put_str
          text,      \* what it still has to print
          bx,        \* its register with the cursor
          printed,   \* bound: strings begun
          keys,      \* bound: prints of the handler
          paper, pos, top,   \* what should be seen
          torn,      \* the handler has come in the middle of a put_char
          log        \* for each character, the string it is of

screenVars == <<screen, cursor>>
idealVars == <<paper, pos, top>>
consoleVars == <<screenVars, lock, at, text, bx, printed, keys, idealVars, torn, log>>

LF == "0x0a"
CR == "0x0d"
BS == "0x08"
Blank == " "
Cells == Rows * Cols
PaperEnd == Cells + Cols * (TextLen * (MaxTexts + MaxKeys))

ConsoleInit ==
  /\ screen = [i \in 0..(Cells - 1) |-> Blank] /\ cursor = 0
  /\ lock = Nobody
  /\ at = [w \in KernelThread |-> "idle"]
  /\ text = [w \in KernelThread |-> <<>>]
  /\ bx = [w \in KernelThread |-> 0]
  /\ printed = 0 /\ keys = 0
  /\ paper = [i \in 0..PaperEnd |-> Blank] /\ pos = 0 /\ top = 0
  /\ torn = FALSE
  /\ log = <<>>
-----------------------------------------------------------------------------
(* Mutant of roll_screen: the last row is not cleared.                     *)
roll_screen_keep(scr) ==
  [i \in 0..(Cells - 1) |-> IF i < Cells - Cols THEN scr[i + Cols] ELSE scr[i]]

roll_screen(scr) ==
  [i \in 0..(Cells - 1) |-> IF i < Cells - Cols THEN scr[i + Cols] ELSE Blank]

(* put_char between reading and setting the cursor, as the screen and the  *)
(* cursor after it.                                                        *)
put_char(scr, cur, c) ==
  LET moved(s, n) == IF n < Cells THEN <<s, n>> ELSE <<roll_screen(s), Cells - Cols>>
  IN  CASE c \in {CR, LF} -> moved(scr, cur - (cur % Cols) + Cols)
        [] c = BS         -> <<[scr EXCEPT ![cur - 1] = Blank], cur - 1>>
        [] OTHER          -> moved([scr EXCEPT ![cur] = c], cur + 1)

(* The same on paper: the window moves instead of the characters.          *)
ideal(p, c) ==
  LET next == CASE c \in {CR, LF} -> (p.pos \div Cols + 1) * Cols
                [] c = BS         -> p.pos - 1
                [] OTHER          -> p.pos + 1
  IN  [paper |-> CASE c \in {CR, LF} -> p.paper
                   [] c = BS         -> [p.paper EXCEPT ![next] = Blank]
                   [] OTHER          -> [p.paper EXCEPT ![p.pos] = c],
       pos |-> next,
       top |-> IF next \div Cols >= p.top + Rows THEN p.top + 1 ELSE p.top]

Ideally(str) ==
  LET sheet[i \in 0..Len(str)] == IF i = 0 THEN [paper |-> paper, pos |-> pos, top |-> top]
                                 ELSE ideal(sheet[i - 1], str[i])
      p == sheet[Len(str)]
  IN  paper' = p.paper /\ pos' = p.pos /\ top' = p.top

(* put_str without interruption.                                           *)
put_str(str) ==
  LET after[i \in 0..Len(str)] == IF i = 0 THEN <<screen, cursor>>
                                 ELSE put_char(after[i - 1][1], after[i - 1][2], str[i])
  IN  /\ screen' = after[Len(str)][1] /\ cursor' = after[Len(str)][2]
      /\ Ideally(str)
-----------------------------------------------------------------------------
(* Mutant of console_acquire: the lock is not waited for.                  *)
console_acquire_not(w) == lock' = w

console_acquire(w) == lock = Nobody /\ lock' = w

(* console_put_str, console_put_char and console_put_int of a kernel       *)
(* thread, up to the first character.                                      *)
PutBegin(w, str) ==
  /\ at[w] = "idle" /\ printed < MaxTexts
  /\ console_acquire(w)
  /\ printed' = printed + 1
  /\ at' = [at EXCEPT ![w] = "next"]
  /\ text' = [text EXCEPT ![w] = str]
  /\ UNCHANGED <<screenVars, bx, keys, idealVars, torn, log>>

ReadCursor(w) ==
  /\ at[w] = "next" /\ text[w] # <<>>
  /\ at' = [at EXCEPT ![w] = "write"]
  /\ bx' = [bx EXCEPT ![w] = cursor]
  /\ UNCHANGED <<screenVars, lock, text, printed, keys, idealVars, torn, log>>

WriteScreen(w) ==
  /\ at[w] = "write"
  /\ Head(text[w]) = BS => bx[w] > 0
  /\ LET after == put_char(screen, bx[w], Head(text[w]))
     IN  screen' = after[1] /\ bx' = [bx EXCEPT ![w] = after[2]]
  /\ at' = [at EXCEPT ![w] = "set"]
  /\ UNCHANGED <<cursor, lock, text, printed, keys, idealVars, torn, log>>

SetCursor(w) ==
  /\ at[w] = "set"
  /\ cursor' = bx[w]
  /\ Ideally(<<Head(text[w])>>)
  /\ at' = [at EXCEPT ![w] = "next"]
  /\ text' = [text EXCEPT ![w] = Tail(@)]
  /\ log' = Append(log, w)
  /\ UNCHANGED <<screen, lock, bx, printed, keys, torn>>

console_release(w) ==
  /\ at[w] = "next" /\ text[w] = <<>>
  /\ lock' = Nobody
  /\ at' = [at EXCEPT ![w] = "idle"]
  /\ log' = Append(log, Nobody)
  /\ UNCHANGED <<screenVars, text, bx, printed, keys, idealVars, torn>>

(* sys_write, from the moment the process has the lock.                    *)
sys_write(u, str) ==
  /\ lock = Nobody /\ printed < MaxTexts
  /\ printed' = printed + 1
  /\ put_str(str)
  /\ log' = log \o [i \in DOMAIN str |-> u] \o <<Nobody>>
  /\ UNCHANGED <<lock, at, text, bx, keys, torn>>

(* The keyboard handler prints.                                            *)
KeyPrints ==
  /\ keys < MaxKeys
  /\ keys' = keys + 1
  /\ put_str(KeyText)
  /\ torn' = (torn \/ \E w \in KernelThread : at[w] \in {"write", "set"})
  /\ UNCHANGED <<lock, at, text, bx, printed, log>>

ConsoleNext ==
  \/ \E w \in KernelThread : \/ \E str \in Texts : PutBegin(w, str)
                             \/ ReadCursor(w) \/ WriteScreen(w) \/ SetCursor(w)
                             \/ console_release(w)
  \/ \E u \in Process, str \in Texts : sys_write(u, str)
  \/ KeyPrints

ConsoleSpec == ConsoleInit /\ [][ConsoleNext]_consoleVars
-----------------------------------------------------------------------------
(* Between two characters, the screen is the window on the paper and the   *)
(* cursor is where the next character goes, after any number of line       *)
(* breaks, wraps and rolls, unless the handler has printed in the middle   *)
(* of a put_char.                                                          *)
ScreenIsWindow ==
  ~ torn /\ (\A w \in KernelThread : at[w] \notin {"write", "set"})
  => /\ \A i \in 0..(Cells - 1) : screen[i] = paper[top * Cols + i]
     /\ cursor = pos - top * Cols

(* What that asks of the texts: a backspace comes right after a character  *)
(* that it can take back, and the handler prints none.                     *)
BackspacesFollow ==
  /\ \A str \in Texts :
       /\ str # <<>> => str[1] # BS
       /\ \A i \in 1..(Len(str) - 1) : str[i + 1] = BS => str[i] # BS
  /\ \A i \in 1..Len(KeyText) : KeyText[i] # BS

(* The characters of a string stay together: between two of one thread no  *)
(* other thread or process has printed, unless the string was complete.    *)
TextsWhole ==
  \A i \in 1..(Len(log) - 1) : log[i] # Nobody => log[i + 1] \in {log[i], Nobody}
=============================================================================
