-------------------------------- MODULE Boot --------------------------------
(***************************************************************************)
(* The start of the kernel: main calls init_all, which calls one           *)
(* initialisation after the other with interrupts disabled, and then       *)
(* enables interrupts for the first time.  From then on the interrupts     *)
(* that the 8259A lets through may come, and system calls with the first   *)
(* process; both go through tables that these functions fill in.           *)
(***************************************************************************)
EXTENDS Naturals, Sequences

VARIABLES intr,           \* the interrupt flag of the CPU
          booted,         \* how many calls of init_all have returned
          handlers,       \* handlers[], for the vectors that can come
          unmasked,       \* the vectors the 8259A lets through, once the IDT is loaded
          syscall_table,  \* the entries of syscall_table that are filled in
          ready_parts     \* the structures that have been initialised

bootVars == <<booted, handlers, unmasked, syscall_table, ready_parts>>

PageFault == 14
Clock == 32       \* 0x20
Keys == 33        \* 0x21
Vector == {PageFault, Clock, Keys}

Syscall == {"SYS_GETPID", "SYS_WRITE", "SYS_MALLOC", "SYS_FREE"}

(* The structures that a handler, or a task that it may switch to, uses.   *)
Needs == [general_intr_handler   |-> {},
          intr_timer_handler     |-> {"main_thread", "thread_lists", "tss"},
          intr_keyboard_handler  |-> {"kbd_buf", "main_thread", "thread_lists"}]

(* Mutant of init_all: the timer registers its handler first.              *)
init_all_early == <<"init_timer", "init_intr", "mem_init", "thread_init",
                    "console_init", "keyboard_init", "tss_init", "syscall_init">>

init_all == <<"init_intr", "init_timer", "mem_init", "thread_init",
              "console_init", "keyboard_init", "tss_init", "syscall_init">>

(* What a call of init_all initialises besides the tables.                 *)
parts == [init_intr     |-> {"idt"},
          init_timer    |-> {"pit"},
          mem_init      |-> {"pools", "pool_locks", "k_block_descs"},
          thread_init   |-> {"thread_lists", "pid_lock", "main_thread"},
          console_init  |-> {"console_lock"},
          keyboard_init |-> {"kbd_buf"},
          tss_init      |-> {"tss", "user_segments"},
          syscall_init  |-> {}]

(* The loader leaves the flag clear; handlers[] is zero.                   *)
BootInit == /\ intr = FALSE
            /\ booted = 0
            /\ handlers = [v \in Vector |-> "NULL"]
            /\ unmasked = {}
            /\ syscall_table = {}
            /\ ready_parts = {}

register_handler(v, function) == handlers' = [handlers EXCEPT ![v] = function]

(* init_exception makes general_intr_handler the handler of every vector;  *)
(* init_pic unmasks the clock and the keyboard.                            *)
init_intr == /\ handlers' = [v \in Vector |-> "general_intr_handler"]
             /\ unmasked' = {Clock, Keys}

(* The next call of init_all, to its return.                               *)
InitNext ==
  /\ booted < Len(init_all)
  /\ LET call == init_all[booted + 1]
     IN  /\ booted' = booted + 1
         /\ ready_parts' = ready_parts \cup parts[call]
         /\ CASE call = "init_intr"     -> init_intr
              [] call = "init_timer"    -> register_handler(Clock, "intr_timer_handler") /\ UNCHANGED unmasked
              [] call = "keyboard_init" -> register_handler(Keys, "intr_keyboard_handler") /\ UNCHANGED unmasked
              [] OTHER                  -> UNCHANGED <<handlers, unmasked>>
         /\ syscall_table' = IF call = "syscall_init" THEN Syscall ELSE syscall_table
  /\ UNCHANGED intr

Booted == booted = Len(init_all)

(* While interrupts are enabled, every interrupt that can come has a       *)
(* handler of its own (the general one stops the machine) and everything   *)
(* that handler and the switch to another task use is initialised.         *)
ReadyForInterrupts ==
  intr => \A v \in unmasked : /\ handlers[v] \in DOMAIN Needs \ {"general_intr_handler"}
                              /\ Needs[handlers[v]] \subseteq ready_parts
=============================================================================
