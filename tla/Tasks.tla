-------------------------------- MODULE Tasks --------------------------------
(***************************************************************************)
(* How tasks come into being and onto the CPU: thread_start and            *)
(* process_execute, called by main, the first steps of a new task          *)
(* (kernel_thread, start_process), schedule and switch_to with the list    *)
(* nodes of Lists, the page directory and the ring 0 stack of the task     *)
(* that runs.                                                              *)
(*                                                                         *)
(* Tasks allocate memory and so contend for the lock of a pool; its        *)
(* semaphore is taken and given back in one step each, which Sync          *)
(* justifies.  A stack is measured in bytes below the top of its page.     *)
(* The variable booted and the tables of module Boot say how far the       *)
(* kernel has started.                                                     *)
(***************************************************************************)
EXTENDS Boot, Functions, FiniteSetsExt

CONSTANTS Task,        \* task_structs
          Main,        \* main_thread
          Process,     \* the tasks that process_execute makes
          Programme,   \* the tasks main creates, in order
          Priority,    \* the time slice (31 in the code)
          Patience,    \* ticks that may come before a new process has built its frame
          NULL

ASSUME TaskAssumption ==
  /\ IsFiniteSet(Task) /\ Main \in Task /\ Process \subseteq Task \ {Main}
  /\ Programme \in Seq(Task \ {Main}) /\ Programme # <<>> /\ IsInjective(Programme)
  /\ Priority \in Nat /\ Patience \in 0..Priority
  /\ NULL \notin Task

VARIABLES pcb,        \* the task_structs
          links,      \* the pointers of all list nodes
          current,    \* the task whose stack is in use
          resume,     \* the interrupt flag a task that is switched out continues with
          pc,         \* where a task is
          holder,     \* the task that has taken the lock of a pool
          cr3,        \* the page directory in use: the kernel's or a process's
          esp0,       \* tss.esp0, as the task whose stack page it is the top of
          next_pid,   \* the static variable of allocate_pid
          made,       \* how many tasks of Programme are created
          curr,       \* the node at which node_find, called by thread_start, stands
          frame,      \* where start_process puts the interrupt stack of a process
          got,        \* the last result of getpid
          halted      \* panic_spin has been reached

taskVars == <<pcb, links, current, resume, pc, holder, cr3, esp0, next_pid, made, curr, frame, got, halted>>
vars == <<intr, bootVars, taskVars>>

Lock == {"kernel_pool", "user_pool"}
List(name) == [head |-> <<"head", name>>, tail |-> <<"tail", name>>]
Tag(t) == <<"general_tag", t>>
AllTag(t) == <<"all_list_tag", t>>
elem2entry(node) == node[2]

Nodes == {"general_tag", "all_list_tag"} \X Task
         \cup {"head", "tail"} \X ({"ready", "all"} \cup Lock)

ASSUME NodeAssumption == NULL \notin Nodes

INSTANCE Lists WITH Node <- Nodes, MaxLen <- Cardinality(Task)

ready == List("ready")
all == List("all")

intr_stack == 76      \* sizeof(struct intr_stack)
thread_stack == 32    \* sizeof(struct thread_stack)
Word == 4             \* self_kstack points to words, so adding n moves it by 4 * n
Deep == 640           \* what switch_to saves, in the middle of kernel functions

Fresh == [kstack |-> 0, pid |-> 0, status |-> "READY", ticks |-> 0, elapsed |-> 0, pgdir |-> FALSE]

(* As thread_init leaves the lists and the main thread; nothing uses them  *)
(* before.                                                                 *)
TasksInit ==
  /\ BootInit
  /\ pcb = [t \in Task |-> IF t # Main THEN Fresh
                           ELSE [Fresh EXCEPT !.pid = 1, !.status = "RUNNING", !.ticks = Priority]]
  /\ LET zero == [n \in Nodes |-> NULL]
         init(m, name) == list_init(m, List(name))
         none == init(init(init(init([next |-> zero, prev |-> zero],
                                     "ready"), "all"), "kernel_pool"), "user_pool")
     IN  links = list_append(none, all, AllTag(Main))
  /\ current = Main
  /\ resume = [t \in Task |-> TRUE]
  /\ pc = [t \in Task |-> IF t = Main THEN "boot" ELSE "born"]
  /\ holder = [l \in Lock |-> NULL]
  /\ cr3 = "kernel" /\ esp0 = NULL
  /\ next_pid = 1 /\ made = 0 /\ curr = NULL
  /\ frame = [t \in Task |-> 0]
  /\ got = [t \in Task |-> 0]
  /\ halted = FALSE
-----------------------------------------------------------------------------
At(t, label) == ~ halted /\ current = t /\ pc[t] = label
Goto(t, label) == pc' = [pc EXCEPT ![t] = label]

panic_spin == halted' = TRUE /\ UNCHANGED <<pcb, links, current, resume, intr, cr3, esp0>>

(* An interrupt or a system call from user mode takes its stack from the   *)
(* TSS, and running_thread masks the stack pointer.                        *)
running_thread == IF pc[current] = "user" THEN esp0 ELSE current

(* Mutant of process_activate: the TSS is updated once.                    *)
process_activate_once(p, t) ==
  /\ cr3' = IF p[t].pgdir THEN t ELSE "kernel"
  /\ esp0' = IF p[t].pgdir /\ esp0 = NULL THEN t ELSE esp0

process_activate(p, t) == /\ cr3' = IF p[t].pgdir THEN t ELSE "kernel"
                          /\ esp0' = IF p[t].pgdir THEN t ELSE esp0

(* The body of schedule() and switch_to, called by cur when the PCBs are   *)
(* p, the lists lk and the saved flags res; runs says whether cur goes     *)
(* back to the ready list.  A new task comes out of switch_to with the     *)
(* interrupt flag still clear.                                             *)
Switch(cur, runs, p, lk, res) ==
  LET lists == IF runs THEN list_append(lk, ready, Tag(cur)) ELSE lk
      left  == IF runs THEN [p EXCEPT ![cur].ticks = Priority, ![cur].status = "READY"] ELSE p
      next  == elem2entry(list_front(lists, ready))
  IN  IF (runs /\ node_find(lk, ready, Tag(cur))) \/ list_empty(lists, ready)
      THEN panic_spin
      ELSE /\ links' = list_pop(lists, ready)
           /\ pcb' = [left EXCEPT ![cur].kstack = Deep, ![next].status = "RUNNING"]
           /\ current' = next
           /\ resume' = res
           /\ intr' = (res[next] /\ pc[next] # "born")
           /\ process_activate(p, next)
           /\ UNCHANGED halted

(* Mutant of schedule: a task that blocks is also put on the ready list.   *)
schedule_always(cur, p, lk, res) == Switch(cur, TRUE, p, lk, res)

schedule(cur, p, lk, res) == Switch(cur, p[cur].status = "RUNNING", p, lk, res)

(* The timer interrupt: intr_timer_handler, if it is registered (the       *)
(* general handler never returns).  A new process builds its frame in less *)
(* than its first slice: at most Patience ticks come meanwhile.            *)
Timer ==
  LET cur == running_thread
      p   == [pcb EXCEPT ![cur].elapsed = Min({@ + 1, Patience})]
  IN  /\ ~ halted /\ intr /\ Clock \in unmasked
      /\ pc[current] = "fresh" => pcb[current].elapsed < Patience
      /\ IF handlers[Clock] # "intr_timer_handler" THEN panic_spin
         ELSE IF pcb[cur].ticks = 0
         THEN schedule(cur, p, links, [resume EXCEPT ![cur] = TRUE])
         ELSE /\ pcb' = [p EXCEPT ![cur].ticks = @ - 1]
              /\ UNCHANGED <<links, current, resume, intr, cr3, esp0, halted>>
      /\ UNCHANGED <<bootVars, pc, holder, next_pid, made, curr, frame, got>>
-----------------------------------------------------------------------------
(* Allocations.  Each takes the lock of a pool around its work: "page",    *)
(* "bitmap" and "dir" are get_kernel_pages for a task that main creates,   *)
(* "stack" get_a_page in start_process, "heap" sys_malloc or sys_free,     *)
(* and "trap" the same through int 0x80.                                   *)
Alloc == {"page", "bitmap", "dir", "stack", "heap", "trap"}
pool(t) == IF t \in Process THEN "user_pool" ELSE "kernel_pool"

(* The interrupt flag the allocation was called with: clear in a system    *)
(* call.                                                                   *)
Flag(t) == pc[t] # "trap"

(* sema_down of the pool's lock; a woken task comes here again.            *)
Down(t) ==
  /\ ~ halted /\ current = t /\ pc[t] \in Alloc
  /\ holder[pool(t)] # t
  /\ IF holder[pool(t)] = NULL
     THEN /\ holder' = [holder EXCEPT ![pool(t)] = t]
          /\ intr' = Flag(t)
          /\ UNCHANGED <<pcb, links, current, resume, cr3, esp0, halted>>
     ELSE /\ IF node_find(links, List(pool(t)), Tag(t)) THEN panic_spin
             ELSE schedule(t, [pcb EXCEPT ![t].status = "BLOCKED"],
                           list_append(links, List(pool(t)), Tag(t)),
                           [resume EXCEPT ![t] = FALSE])
          /\ UNCHANGED holder
  /\ UNCHANGED <<bootVars, pc, next_pid, made, curr, frame, got>>

(* thread_unblock(u), where the lists are lk, and what follows it: the     *)
(* flag is restored and, at the end of a system call, set by iret.         *)
thread_unblock(u, lk) ==
  IF pcb[u].status # "BLOCKED" \/ node_find(lk, ready, Tag(u)) THEN panic_spin
  ELSE /\ links' = list_push(lk, ready, Tag(u))
       /\ pcb' = [pcb EXCEPT ![u].status = "READY"]
       /\ intr' = TRUE
       /\ UNCHANGED <<current, resume, cr3, esp0, halted>>

After(t) == CASE pc[t] = "page" -> "init"    [] pc[t] = "bitmap" -> "create"
              [] pc[t] = "dir"  -> "pgdir"   [] pc[t] = "stack"  -> "iret"
              [] pc[t] \in {"heap", "trap"} -> IF t \in Process THEN "user" ELSE "work"

(* sema_up of the pool's lock.                                             *)
Up(t) ==
  LET waiters == List(pool(t))
  IN  /\ ~ halted /\ current = t /\ pc[t] \in Alloc
      /\ holder[pool(t)] = t
      /\ holder' = [holder EXCEPT ![pool(t)] = NULL]
      /\ IF list_empty(links, waiters)
         THEN intr' = TRUE /\ UNCHANGED <<pcb, links, current, resume, cr3, esp0, halted>>
         ELSE thread_unblock(elem2entry(list_front(links, waiters)), list_pop(links, waiters))
      /\ Goto(t, After(t))
      /\ UNCHANGED <<bootVars, next_pid, made, curr, frame, got>>
-----------------------------------------------------------------------------
(* main creates the tasks of Programme one after the other.                *)
new == Programme[made + 1]
PcbStep(label, after, p) ==
  /\ At(Main, label)
  /\ Goto(Main, after)
  /\ pcb' = [pcb EXCEPT ![new] = p]
  /\ UNCHANGED <<intr, bootVars, links, current, resume, holder, cr3, esp0, made, curr, frame, got, halted>>

(* init_thread up to allocate_pid, and next_pid++ under pid_lock, which    *)
(* only main uses.                                                         *)
InitThread == PcbStep("init", "pid", Fresh) /\ next_pid' = next_pid + 1

(* Mutant of allocate_pid: next_pid is not static.                         *)
allocate_pid_local == 1

(* The value allocate_pid returns is read after lock_release.              *)
allocate_pid == next_pid

(* Mutant of InitRest: ticks keeps the zero of memset.                     *)
InitRest_noticks ==
  PcbStep("pid", IF new \in Process THEN "bitmap" ELSE "create",
          [pcb[new] EXCEPT !.pid = allocate_pid]) /\ UNCHANGED next_pid

(* The rest of init_thread.                                                *)
InitRest ==
  PcbStep("pid", IF new \in Process THEN "bitmap" ELSE "create",
          [pcb[new] EXCEPT !.pid = allocate_pid, !.ticks = Priority]) /\ UNCHANGED next_pid

(* thread_create leaves room for an intr_stack and a thread_stack.         *)
ThreadCreate ==
  PcbStep("create", IF new \in Process THEN "dir" ELSE "find",
          [pcb[new] EXCEPT !.kstack = @ + Word * intr_stack + Word * thread_stack])
  /\ UNCHANGED next_pid

(* thread->pgdir = create_page_dir(), and block_desc_init.                 *)
SetPgdir == PcbStep("pgdir", "insert", [pcb[new] EXCEPT !.pgdir = TRUE]) /\ UNCHANGED next_pid

ListStep(label, after) ==
  /\ At(Main, label)
  /\ Goto(Main, after)
  /\ UNCHANGED <<intr, bootVars, pcb, current, resume, holder, cr3, esp0, next_pid, frame, got>>

AfterNew == IF made + 1 = Len(Programme) THEN "idle" ELSE "page"

(* The end of process_execute, with interrupts disabled.                   *)
InsertProcess ==
  /\ ListStep("insert", AfterNew)
  /\ IF node_find(links, ready, Tag(new)) \/ node_find(links, all, AllTag(new))
     THEN halted' = TRUE /\ UNCHANGED links
     ELSE /\ links' = list_append(list_append(links, ready, Tag(new)), all, AllTag(new))
          /\ UNCHANGED halted
  /\ made' = made + 1
  /\ UNCHANGED curr

(* The end of thread_start, with interrupts enabled: node_find goes from   *)
(* node to node, and only list_append is atomic.                           *)
FindFirst == /\ ListStep("find", "walk")
             /\ curr' = list_front(links, ready)
             /\ UNCHANGED <<links, made, halted>>

FindNext == /\ ListStep("walk", CASE curr = ready.tail -> "append"
                                  [] curr = NULL -> "lost"
                                  [] OTHER -> "walk")
            /\ halted' = (curr = Tag(new))
            /\ curr' = IF curr \in {ready.tail, NULL} THEN NULL ELSE links.next[curr]
            /\ UNCHANGED <<links, made>>

AppendReady == /\ ListStep("append", "all")
               /\ links' = list_append(links, ready, Tag(new))
               /\ UNCHANGED <<made, curr, halted>>

(* Only main uses thread_all_list, so this walk meets no change.           *)
AppendAll == /\ ListStep("all", AfterNew)
             /\ IF node_find(links, all, AllTag(new))
                THEN halted' = TRUE /\ UNCHANGED links
                ELSE links' = list_append(links, all, AllTag(new)) /\ UNCHANGED halted
             /\ made' = made + 1
             /\ UNCHANGED curr

(* The calls of init_all, and main's intr_enable.                          *)
Start == \/ InitNext /\ UNCHANGED taskVars
         \/ /\ Booted /\ At(Main, "boot")
            /\ Goto(Main, "page")
            /\ intr' = TRUE
            /\ UNCHANGED <<bootVars, pcb, links, current, resume, holder, cr3, esp0,
                           next_pid, made, curr, frame, got, halted>>

Create == \/ InitThread \/ InitRest \/ ThreadCreate \/ SetPgdir \/ InsertProcess
          \/ FindFirst \/ FindNext \/ AppendReady \/ AppendAll
-----------------------------------------------------------------------------
(* The tasks.  A task starts in kernel_thread, which enables interrupts.   *)
TaskStep(t, label, after) ==
  /\ At(t, label)
  /\ Goto(t, after)
  /\ UNCHANGED <<bootVars, links, current, resume, holder, cr3, esp0, next_pid, made, curr, halted>>

kernel_thread(t) == /\ TaskStep(t, "born", IF t \in Process THEN "fresh" ELSE "work")
                    /\ intr' = TRUE
                    /\ UNCHANGED <<pcb, frame, got>>

(* start_process finds the place of the interrupt stack from self_kstack,  *)
(* which every switch overwrites, allocates the user's stack ("stack") and *)
(* leaves through intr_exit.                                               *)
start_process(t) ==
  LET kstack == pcb[t].kstack - Word * thread_stack
  IN  /\ TaskStep(t, "fresh", "stack")
      /\ pcb' = [pcb EXCEPT ![t].kstack = kstack]
      /\ frame' = [frame EXCEPT ![t] = kstack]
      /\ UNCHANGED <<intr, got>>

ToUser(t) == TaskStep(t, "iret", "user") /\ intr' = TRUE /\ UNCHANGED <<pcb, frame, got>>

(* getpid, through int 0x80 and syscall_table.                             *)
Getpid(t) == /\ TaskStep(t, "user", "user")
             /\ "SYS_GETPID" \in syscall_table
             /\ got' = [got EXCEPT ![t] = pcb[running_thread].pid]
             /\ UNCHANGED <<intr, pcb, frame>>

(* malloc and free are system calls of processes; kernel threads call the *)
(* function sys_malloc, but also free.                                     *)
CallHeap(t) == /\ \/ /\ TaskStep(t, "user", "trap") \/ TaskStep(t, "work", "trap")
                     /\ {"SYS_MALLOC", "SYS_FREE"} \subseteq syscall_table
                     /\ intr' = FALSE
                  \/ TaskStep(t, "work", "heap") /\ UNCHANGED intr
               /\ UNCHANGED <<pcb, frame, got>>

Run(t) == \/ Down(t) \/ Up(t) \/ kernel_thread(t) \/ start_process(t)
          \/ ToUser(t) \/ Getpid(t) \/ CallHeap(t)

TasksNext == Start \/ Create \/ Timer \/ \E t \in Task : Run(t)

TasksSpec == TasksInit /\ [][TasksNext]_vars
-----------------------------------------------------------------------------
(* The tasks that exist for the scheduler.                                 *)
Born == {Main} \cup {Programme[i] : i \in 1..made}
        \cup IF pc[Main] = "all" THEN {new} ELSE {}

InList(list, ts) == /\ IsList(links, list, Visited(links, list))
                    /\ Range(Visited(links, list)) = {Tag(t) : t \in ts}

(* The pointers always form lists: the ready list holds exactly the tasks  *)
(* that are ready, the waiters of a lock those that are blocked on it, and *)
(* thread_all_list all tasks in the order of their creation, although a    *)
(* task's general_tag wanders between the lists.                           *)
WellLinked ==
  /\ InList(ready, {t \in Born : pcb[t].status = "READY"})
  /\ \A l \in Lock : InList(List(l), {t \in Born : pcb[t].status = "BLOCKED" /\ pool(t) = l})
  /\ IsList(links, all, Visited(links, all))
  /\ Visited(links, all) = <<AllTag(Main)>> \o [i \in 1..made |-> AllTag(Programme[i])]

(* No assertion of the scheduler or of the creation of tasks fails.        *)
TasksNoPanic == ~ halted

(* The interrupt stack that start_process fills in is the room that        *)
(* thread_create left for it, above everything the new process has on its  *)
(* stack: no switch has overwritten self_kstack before it is used.         *)
FrameInPlace == \A t \in Process : frame[t] \in {0, Word * intr_stack}

(* A process runs on its own page directory, and interrupts from user mode *)
(* find its own ring 0 stack in the TSS; a kernel task runs on the         *)
(* kernel's page directory.                                                *)
UserAtHome == /\ cr3 = IF current \in Process THEN current ELSE "kernel"
              /\ current \in Process => esp0 = current

(* Tasks have different pids from the moment allocate_pid returns, and     *)
(* getpid returns the caller's own.                                        *)
PidsTellApart ==
  /\ \A t, u \in Born : pcb[t].pid = pcb[u].pid => t = u
  /\ \A t \in Process : got[t] \in {0, pcb[t].pid}

(* While main is in the loop of node_find, the node it stands at is in the *)
(* ready list that it searches.                                            *)
WalkStaysInList ==
  At(Main, "walk") => curr = ready.tail \/ node_find(links, ready, curr)

(* The scheduler of module Threads: a sequence of ready tasks, no creation *)
(* in steps, and a new task that starts with interrupts enabled.           *)
readySeq == LET v == Visited(links, ready) IN [i \in DOMAIN v |-> elem2entry(v[i])]
bornStatus == [t \in Task |-> IF t \in Born THEN pcb[t].status ELSE "UNBORN"]
bornTicks == [t \in Task |-> IF t \in Born THEN pcb[t].ticks ELSE Priority]
enabled == intr \/ pc[current] = "born"

T == INSTANCE Threads WITH Thread <- Task, ready <- readySeq, status <- bornStatus,
                           ticks <- bornTicks, intr <- enabled

SchedulerStep ==
  \/ UNCHANGED <<current, readySeq, bornStatus, bornTicks, resume, halted>>
  \/ T!intr_timer_handler
  \/ \E t \in Task : T!thread_start(t)
  \/ T!thread_block(FALSE)
  \/ \E t \in Task : /\ T!CanUnblock(t) /\ T!thread_unblock(t)
                      /\ UNCHANGED <<current, bornTicks, resume, halted>>

(* Tasks with their pointers, stacks and page directories implement the    *)
(* scheduler that Sync and IoQueue are built on: each step is a step of    *)
(* module Threads, or changes at most the interrupt flag.                  *)
IsScheduler == [][SchedulerStep]_(T!schedVars)
=============================================================================
