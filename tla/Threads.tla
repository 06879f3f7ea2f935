------------------------------- MODULE Threads -------------------------------
(***************************************************************************)
(* The scheduler of thread/thread.c, the tick handler of device/timer.c    *)
(* and the interrupt flag of kernel/interrupt.c.                           *)
(*                                                                         *)
(* One CPU runs the thread `current'.  Everything a thread does with the   *)
(* interrupt flag clear is atomic; with the flag set the timer interrupt   *)
(* may run between any two of its steps.  The handler is entered through   *)
(* an interrupt gate, so it runs with the flag clear, and schedule() may   *)
(* leave it on another thread's stack: resume[t] is the flag t continues   *)
(* with when it is switched to again.                                      *)
(*                                                                         *)
(* This module is the scheduler as other modules use it: its variables,    *)
(* the functions that change them, and the consistency of the lists.       *)
(***************************************************************************)
EXTENDS Naturals, Sequences, Functions

CONSTANTS Thread,    \* task_structs that may come into being
          Main,      \* main_thread, the one that exists when the kernel starts
          Priority   \* the time slice every caller passes (31 in the code)

ASSUME ThreadAssumption == Main \in Thread /\ Priority \in Nat

VARIABLES current,   \* running_thread(): the owner of the stack in use
          ready,     \* thread_ready_list
          status,    \* task_struct.status
          ticks,     \* task_struct.ticks
          intr,      \* the interrupt flag of the CPU
          resume,    \* the interrupt flag saved with a thread that is switched out
          halted     \* panic_spin has been reached

schedVars == <<current, ready, status, ticks, intr, resume, halted>>

Status == {"UNBORN", "RUNNING", "READY", "BLOCKED"}

SchedTypeOK ==
  /\ current \in Thread
  /\ ready \in Seq(Thread)
  /\ status \in [Thread -> Status]
  /\ ticks \in [Thread -> 0..Priority]
  /\ intr \in BOOLEAN
  /\ resume \in [Thread -> BOOLEAN]
  /\ halted \in BOOLEAN

(* thread_init and make_main_thread have run and main has called           *)
(* intr_enable: only the main thread exists.                               *)
SchedInit ==
  /\ current = Main
  /\ ready = <<>>
  /\ status = [t \in Thread |-> IF t = Main THEN "RUNNING" ELSE "UNBORN"]
  /\ ticks = [t \in Thread |-> Priority]
  /\ intr = TRUE
  /\ resume = [t \in Thread |-> TRUE]
  /\ halted = FALSE
-----------------------------------------------------------------------------
(* The kernel's lists are sequences; every insertion and removal runs with *)
(* the flag clear.                                                         *)
list_push(list, t) == <<t>> \o list
list_append(list, t) == Append(list, t)
node_find(list, t) == t \in Range(list)

(* A failed ASSERT: panic_spin clears the interrupt flag and never returns. *)
panic_spin == /\ halted' = TRUE
              /\ UNCHANGED <<current, ready, status, ticks, intr, resume>>

(* Mutant of schedule: a preempted thread goes to the front.               *)
schedule_front(st, res) ==
  LET runs == st[current] = "RUNNING"
      rdy  == IF runs THEN list_push(ready, current) ELSE ready
      next == Head(rdy)
      left == IF runs THEN [st EXCEPT ![current] = "READY"] ELSE st
  IN  /\ ready' = Tail(rdy)
      /\ current' = next
      /\ status' = [left EXCEPT ![next] = "RUNNING"]
      /\ ticks' = IF runs THEN [ticks EXCEPT ![current] = Priority] ELSE ticks
      /\ resume' = res
      /\ intr' = res[next]
      /\ UNCHANGED halted

(* schedule(): a thread that still is TASK_RUNNING goes to the tail of the *)
(* ready list with a new slice, one that has given itself another status   *)
(* is just left; the head of the list gets the CPU.  st and res are the    *)
(* statuses and the saved flags at the call.  There is no idle thread, so  *)
(* an empty ready list is a failed assertion.                              *)
schedule(st, res) ==
  LET runs == st[current] = "RUNNING"
      rdy  == IF runs THEN list_append(ready, current) ELSE ready
      next == Head(rdy)
      left == IF runs THEN [st EXCEPT ![current] = "READY"] ELSE st
  IN  IF (runs /\ node_find(ready, current)) \/ rdy = <<>>
      THEN panic_spin
      ELSE /\ ready' = Tail(rdy)
           /\ current' = next
           /\ status' = [left EXCEPT ![next] = "RUNNING"]
           /\ ticks' = IF runs THEN [ticks EXCEPT ![current] = Priority] ELSE ticks
           /\ resume' = res
           /\ intr' = res[next]
           /\ UNCHANGED halted

(* thread_block(TASK_BLOCKED) called with interrupt flag flag: when the    *)
(* thread is switched to again it restores that flag and returns.          *)
thread_block(flag) == schedule([status EXCEPT ![current] = "BLOCKED"],
                               [resume EXCEPT ![current] = flag])

(* thread_unblock(t): t goes to the FRONT of the ready list; the caller    *)
(* keeps the CPU.                                                          *)
CanUnblock(t) == status[t] = "BLOCKED" /\ ~ node_find(ready, t)
thread_unblock(t) == /\ ready' = list_push(ready, t)
                     /\ status' = [status EXCEPT ![t] = "READY"]

(* The end of thread_start and process_execute: the new thread t, filled   *)
(* in by init_thread and thread_create, is put on the ready list.  When it *)
(* is first switched to it starts in kernel_thread, which enables          *)
(* interrupts before anything else.                                        *)
thread_start(t) ==
  /\ ~ halted
  /\ status[t] = "UNBORN"
  /\ IF node_find(ready, t)
     THEN panic_spin
     ELSE /\ ready' = list_append(ready, t)
          /\ status' = [status EXCEPT ![t] = "READY"]
          /\ ticks' = [ticks EXCEPT ![t] = Priority]
          /\ resume' = [resume EXCEPT ![t] = TRUE]
          /\ UNCHANGED <<current, intr, halted>>

(* intr_timer_handler: the interrupted thread had interrupts enabled and   *)
(* gets them back from the iret that ends the interrupt.                   *)
intr_timer_handler ==
  /\ ~ halted
  /\ intr
  /\ IF ticks[current] = 0
     THEN schedule(status, [resume EXCEPT ![current] = TRUE])
     ELSE /\ ticks' = [ticks EXCEPT ![current] = @ - 1]
          /\ UNCHANGED <<current, ready, status, intr, resume, halted>>
=============================================================================
