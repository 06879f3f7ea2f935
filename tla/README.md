# GOOS: a TLA+ verification project

GOOS is a small 32-bit x86 kernel: a boot loader, preemptive threads on one CPU,
a binary semaphore and a recursive lock, a page allocator and a heap, user
processes with system calls, a keyboard driver and a console. This directory
holds TLA+ models of its core, the TLC configurations that check them on small
instances, and proofs that hold for every instance.

## 1. Inventory

| Part | State | Operations | Hard behaviour | What makes it correct |
|---|---|---|---|---|
| threads (`thread/thread.c`, `switch.S`) | `thread_ready_list`, `status`, `ticks`, the saved stack and flags | `thread_start`, `schedule`, `thread_block`, `thread_unblock` | preemption at any instruction with interrupts on; the woken thread goes to the *front* of the list; no idle thread | every thread is in the one list its status says; a ready thread runs; `schedule` always finds one |
| timer, interrupts (`device/timer.c`, `kernel/interrupt.c`, `kernel/kernel.S`) | the interrupt flag, handlers | `intr_timer_handler`, `intr_enable`/`disable`, entry and iret | the flag is saved by one thread and restored on a CPU that others have used | a thread's code runs with the flag it chose |
| locks (`thread/sync.c`) | `value`, `waiters`, `holder`, `holder_repeat_cnt` | `sema_down`, `sema_up`, `lock_acquire`, `lock_release` | `holder` is read and written outside critical sections; a third thread may overtake a woken waiter | mutual exclusion, no lost wakeup, no failing assertion, a waiter gets on |
| I/O queue (`device/ioqueue.c`) | ring, `head`, `tail`, `consumer`, `producer`, a lock | `ioq_getchar`, `ioq_putchar` | sleeps with the lock held; written by an interrupt handler | FIFO; nobody sleeps without reason or is forgotten |
| keyboard (`device/keyboard.c`) | modifier statuses, `ext_scancode` | `intr_keyboard_handler` | a code arrives as several interrupts; queue full | statuses follow the keys; the queue gets what was typed |
| bitmaps (`lib/kernel/bitmap.c`) | bytes | init, test, scan, set | runs across bytes; full bitmaps | first fit; neighbours untouched |
| page allocator (`kernel/memory.c`) | two frame bitmaps, virtual bitmaps, page tables, TLB, a lock per pool | `malloc_page`, `get_a_page`, `mfree_page` and their parts | threads preempted between finding and marking, and within the marking of a byte; a pool used without its lock; exhaustion; stale TLB | a frame has one use; what is given stays; nothing leaks; page tables keep their frames |
| heap (`kernel/memory.c`) | arenas, `cnt`, free lists | `sys_malloc`, `sys_free` | long sequences of calls, sizes at the limits | allocations do not overlap; counts and lists agree; pages come back |
| lists (`lib/kernel/list.c`) | two pointers per node | `list_push`, `append`, `pop`, `remove`, walks | one node (`general_tag`) wanders between lists; walks are not atomic | the pointers are the sequence they stand for; other lists are untouched |
| processes, TSS, system calls (`userprog/`, `lib/user/`) | PCB, `self_kstack`, page directory, `tss.esp0`, `syscall_table` | `process_execute`, `start_process`, `process_activate`, int 0x80 | a new task is preempted anywhere between its creation and its first `iret`; system calls run with interrupts off | a process finds its own frame, page directory, ring 0 stack and pid |
| console, print (`device/console.c`, `lib/kernel/print.S`) | cursor registers, video memory, a lock | `console_put_*`, `put_char`, `sys_write` | `put_char` reads, writes and sets in steps; handlers print without the lock | the screen is the last rows of what was printed; strings stay whole |
| strings, stdio (`lib/`) | none | `itoa`, `vsprintf`, `printf`, `put_int` | zero, the smallest integer | a number reads back |
| start-up (`kernel/init.c`, `main.c`) | `handlers[]`, the 8259A's mask, `syscall_table` | `init_all`, `main` | an interrupt before its handler or its data is there | when interrupts are enabled everything they use is initialised |
| boot loader (`boot/`) | page tables, `total_mem_bytes` | memory detection, `setup_page` | sums that wrap; sizes at the limits | the size is right; tables, pools and bitmaps do not overlap |

Interaction: the timer interrupt calls `schedule`; locks call `thread_block` and
`thread_unblock`; the queue, the pools, the console and the pid counter each have
a lock; the keyboard interrupt writes the queue that threads read; every system
call enters through an interrupt gate and so runs with interrupts off until it
blocks. Threads, interrupt handlers and system calls share everything.

`PROJECT.json` lists under `hazards` the places where this can go wrong.

## 2. Modules

```
Threads <--EXTENDS-- Sync <--EXTENDS-- IoQueue       BitmapOps <--EXTENDS-- Bitmap
   ^                  | M == INSTANCE     | F == INSTANCE          <--EXTENDS-- Pages
   | T == INSTANCE    v                   v                        <--EXTENDS-- Heap
 Tasks              Mutex               Fifo         Keyboard
   | EXTENDS Boot, INSTANCE Lists                    Stdio <--EXTENDS-- Console
                                                     Layout
Pages --P == INSTANCE, User == INSTANCE--> Allocator
SyncProofs EXTENDS Sync      ListProofs EXTENDS Lists
TasksProofs EXTENDS Tasks, LP == INSTANCE ListProofs
QueueProofs EXTENDS IoQueue, SyncProofs      BitmapProofs EXTENDS BitmapOps
PagesProofs EXTENDS Pages, BitmapProofs      HeapProofs EXTENDS Heap, BitmapProofs
LibProofs EXTENDS MCLib, BitmapProofs
MCSync, MCIoQueue, MCPages, MCTasks: constants for TLC (Heap needs none)
MCLib: Keyboard, Bitmap, Console (with Stdio) and Layout side by side
```

- **Threads**: the scheduler as the other modules use it. A CPU runs `current`;
  what a thread does with the flag clear is one step; with the flag set the timer
  may come between any two steps. `resume[t]` is the flag a thread that was
  switched out continues with (the `eflags` of its interrupt frame, or the clear
  flag inside `thread_block`). Lists are sequences, since every `list_*` that
  changes one disables interrupts; ListProofs and `IsScheduler` justify this.
- **Sync**: `lock_acquire` and `lock_release` in the steps that another thread can
  tell apart, and `sema_down` and `sema_up`, which run with interrupts off. Two steps
  have several accesses to fields of the lock, `FirstRepeat` (`sync.c:67-68`) and
  `ReleaseHolder` (`sync.c:77-86`); only the owner gets there and only the owner
  writes those fields. The assertions on `value` in `sema_down` and `sema_up` are left
  to `TypeOK`, which keeps it 0 or 1. `pc[t]` is the place in these functions,
  `depth[t]` what the thread has been granted, `mode[t]` the flag its own code runs
  with.
- **Mutex**: the abstract recursive lock that Sync implements (`IsMutex`): a
  thread acquires a free lock or its own, and releases its own. `owner` is
  `holder`, but nobody while `holder_repeat_cnt` is not yet, or no longer, set.
- **IoQueue**: both functions of the queue, on one lock of Sync, and the
  keyboard handler as a second writer. **Fifo** is the abstract bounded queue;
  the refinement mapping reads the ring from `tail` to `head`.
- **BitmapOps**, **Bitmap**: the four functions as operators, and a machine that
  reaches every bitmap to check them on.
- **Pages**: the allocator. Every read and every write of a byte of a bitmap of
  frames is a step: `ScanByte` and `ScanBit` are the loops of `bitmap_scan`,
  `SetLoad` and `SetStore` the two halves of `bitmap_set(..., 1)`, `pfree` and
  `ClearStore` those of `bitmap_set(..., 0)`. They are needed because
  `page_table_map` calls `palloc` on the kernel pool while it holds the lock of
  the user pool, so this bitmap is used by threads that do not exclude each
  other. `raced` records that this has happened: that a byte is stored over
  another than was loaded, that a frame is marked twice, that a search ends
  wrongly because the bitmap has changed behind it. `Sound(p)` is true of the user
  pool, and of the kernel pool until then. The loops over a bitmap of virtual pages
  are one step, since nobody else is at it, and so is entering a page table into
  the directory of one's own process. Pool locks are taken in one step, which
  `IsMutex` justifies. `cli` is a thread in a system call; `tlb` is what the CPU
  has cached since `cr3` was loaded. A kernel thread may free with interrupts on
  or, through `free`, off; the first includes the interleavings of the second.
- **Heap**: `sys_malloc` and `sys_free` are one step each, because all but the
  test of the size happens under the pool's lock. Addresses are numbers, so that
  overlap, headers and page borders are visible. Of `malloc_page` and `mfree_page`
  it keeps the bitmap of virtual pages and how many frames of the pool are free;
  page tables, stacks and other heaps take frames from the pool and give them
  back (`OthersTake`, `OthersGiveBack`), so either may run out first. The
  pool has whole bytes of frames while `pool_size` counts the remainder too. Left
  out: virtual pages that `get_kernel_pages`, or a process's stack, take from the
  same bitmap, and the races for the kernel pool's frames, which are the business of
  Pages. After a failed assertion about a list the state is left as it was
  before the call.
- **Allocator**: what Pages promises (`IsAllocator`). A block is a function from its
  addresses to the cells of memory behind them; it is handed out with cells that
  nobody holds, and stays as it is until it is taken back. In Pages the addresses
  of a region are mapped by `pte` to frames, so a step that maps a given page
  elsewhere, or gives a frame to two threads, is no step of the allocator. `User`
  is the allocator that processes see, `P` the one of all threads, whose steps are
  promised until the kernel pool is raced for.
- **Lists**: every function of `list.c` as an operator on the `next` and `prev`
  pointers of all nodes. `IsList(m, list, s)` says that the pointers in memory `m`
  link exactly the members of the sequence `s`.
  `list_push` and `list_pop` read `head.next` before they disable interrupts
  (`list.c:30`, `:52`); they are one step here, since their callers hold a lock or
  have interrupts off.
- **Boot**: `init_all` call by call, and what each leaves behind: handlers, the
  mask of the 8259A, the system call table, the structures that are initialised.
- **Tasks**: what `main` does once interrupts are on. `thread_start` and
  `process_execute` in the steps that preemption can separate; `schedule`,
  `switch_to` and `process_activate`; `kernel_thread`, `start_process` and the
  first `iret`; system calls on the stack that `tss.esp0` names. Lists are the
  pointers of Lists, `self_kstack` is a number of bytes below the end of the page
  (scaled by four as the pointer arithmetic in the code is), and a walk by
  `node_find` that runs with interrupts on is one step per node. The lock of a
  pool is taken and released in one step each; that the tasks of main.c also wait
  for each other at the console's lock is left out. `T` maps its state to Threads.
- **Stdio**: `put_int`, `itoa`, `vsprintf` and `printf` as operators, and reading
  a number back as their reference. Loops and recursion over digits are recursive
  functions, so that they can be proved about.
- **Console**: `put_char` in three steps for a kernel thread, one step for a
  system call or a handler. Beside it an endless roll of paper on which the same
  characters are put without any rolling; the screen must be a window on it.
- **Layout**: the arithmetic of the loader's memory detection, of its page tables
  and of `mem_pool_init`, in frames and bytes of the real sizes.
- **Keyboard**: the decoder, and a keyboard (outside the kernel) that sends the
  bytes of scan code set 1 together with the character that is meant. `live` are
  the held keys that count: the release of a modifier takes its partner, the other
  key of the pair, out of force until that is pressed or repeats.

Definitions whose names end in `_lifo`, `_not`, `_keep` and the like are
mutants: plausible bugs, each of which breaks the property it is paired with in
`PROJECT.json`.

## 3. Runs

| Run | Instance | Properties |
|---|---|---|
| `sync` | 3 threads, 2 locks, recursion 2, each may make system calls; 637k states | `TypeOK` `OneList` `MutualExclusion` `HolderIsOwner` `NoLostWakeup` `NoPanic` `IntrKept`, refinement `IsMutex` |
| `sync_live` | 3 threads, 1 lock; 18k states | `ReadyRuns`, `BlockedWakes` |
| `ioqueue` | 2 consumers, 1 producer, keyboard, ring of 3; 93k states | `NobodyForgotten` `QueueNoPanic`, refinement `IsFifo` |
| `ioqueue_keys` | 1 consumer, keyboard, another thread (the use the queue is made for; nothing calls `ioq_getchar` on `kbd_buf` yet) | `SleepsWithReason`, `ByteIsRead` |
| `pages` | 2 kernel threads, 1 process; 4 kernel frames, 2 user frames, 2 kernel and 4 user pages, a page table per page, requests of 1 and 2; 926k states | `MappedOnce` `GivenIsKept` `NothingLost` `PanicsOnlyWhenFull` `TablesApart`, refinement `IsAllocator` |
| `heap` | 3 pages, a pool of 6 frames shared with others, block sizes 2 and 4, six request sizes; 430k states | `BlocksApart` `CountsAgree` `NoPageKept` `ListsNeverPanic` |
| `tasks` | `init_all`, then main.c's two threads and two processes; 401k states | `WellLinked` `TasksNoPanic` `FrameInPlace` `UserAtHome` `PidsTellApart` `ReadyForInterrupts`, refinement `IsScheduler` |
| `lib` | the parts that share nothing, one per behaviour; 2.2M states | keyboard: `ModifiersMatch`, action property `CharIsMeant`; bitmaps: `BytesAreUsed` `ScanIsFirstFit`; console: `ScreenIsWindow` `TextsWhole`; conversions: `NumbersReadBack`; memory map: `MemoryFits` |

In `lib` the initial state chooses one of the parts and the others stand still, so
the run is the sum of five independent checks.

Four runs end in a counterexample, because the code does not do what one of its
comments says:

- `ioqueue_shared`: `ioq_getchar` and `ioq_putchar` sleep without testing the
  queue again after `lock_acquire`. With a consumer and a producer *thread* on
  one queue the producer can sleep on an empty queue with the lock held, and the
  consumer then waits for the lock for ever. The use that `kbd_buf` is made for,
  one consumer and the keyboard interrupt, is safe (`ioqueue_keys`); at this commit
  the interrupt writes the queue and nothing reads it.
- `pages_table`: `page_table_map` takes the frame of a new page table from the
  kernel pool without the kernel pool's lock, so the frame can also be given to
  a kernel thread. The byte of the bitmap is the second way there: a thread that
  is preempted between the load and the store of `bitmap_set` wipes out what
  others have marked in the byte since, or marks again what they have freed.
  The run `pages` says what still holds: all that concerns addresses and the user
  pool, and the rest until the first such race.
- `pages_tlb`: `invlpg` is given the address of the variable and not the page,
  so a page that is freed and mapped again is accessed through the old frame.
  One kernel thread that keeps the CPU is enough.
- `tasks_walk`: `thread_start` calls `node_find` with interrupts enabled. While
  the walk stands at the tag of a process, that process may run and block on the
  lock of the user pool; the walk then goes on in the list of waiters, never
  meets the end of the ready list, and follows a NULL pointer at its end.

Two disagreements are not runs of their own. A full bitmap fails the assertion at
`bitmap.c:27`, although the comments at `:20` and `:28` promise -1 and every caller
tests for it; `ScanIsFirstFit` therefore speaks only of bitmaps with a free bit, and
`PanicsOnlyWhenFull` and `ListsNeverPanic` show that exhaustion is the only way
into that assertion, not that it is harmless. And one status stands for the two keys of
a modifier: while one shift key is held, releasing the other clears
`shift_status`. No comment promises otherwise, and `ModifiersMatch` and `CharIsMeant`
state exactly what the statuses mean then, with both shift keys in the run.

### Bounds

Three threads are one that owns, one that waits and one that overtakes; with two
locks their waiters are different lists. Time slices (`Priority`) are 0 or 1, so
that a tick can and can not end one. A ring of 3 holds 2 bytes: empty, partly
full, full and every position of the wrap. Bitmaps have bytes of 3 bits, so runs
of all lengths start, cross and end at byte borders. In `pages` a byte has 2
bits and the kernel pool 2 bytes: searches pass full bytes, two threads meet in one
byte and in different ones, one thread fragments the pages of the other, a process
needs page tables, and pools and address spaces run out. That a search comes back with
NULL, so that a table is put at address 0 (`NullFrame`), is in the model and in the
proofs; no thread of the instance is unlucky enough for it to be entered. In
`heap` a page holds 3 blocks of the small size and 1 of the large, so arenas are
partly used, exhausted, dropped and made again; others can use up the six
frames while virtual pages are free, and the pages can run out first. `PgCntLimit`
(3840 in the code) is the number of pages, as on a machine with 32 MB; `pool_size`
is 7 pages, of which the bitmap has 6. `MaxPort` (bytes the
keyboard is ahead) is 3, one extended code and a half.

`tasks` is main.c's own programme, so nothing about the tasks is a bound but the
time slice: `Priority` (31 in the code) is 1, so that ticks that do and ticks that
do not end a slice happen. `Patience` is the one timing assumption of the project:
at most one whole slice of ticks comes before a new process has executed the few
instructions of `start_process` up to the reading of `self_kstack`. It is needed:
if a tick could end the slice there, `FrameInPlace` would fail. `Deep` stands for
any stack pointer that a switch saves below the two frames. Counters are bounded
by the programme, so next_pid does not wrap.

The console has 2 rows of 2 columns, so every text wraps or rolls; three strings
(`MaxTexts`) by two threads and a process and one print of the handler
(`MaxKeys`), of at most four characters (`TextLen`), meet each other at every
character. `Nibbles` is 2: all 256 values,
among them zero, the smallest integer and numbers with inner and leading zeros.
`Machines` are the smallest sizes that leave room for pools, sizes around 32 MB,
and the largest ones whose bitmaps end below the main thread's PCB, 343 MB;
beyond that `MemoryFits` fails, and nothing in `mem_pool_init` tests for it.

Symmetry is used for the threads other than `main` in `sync`, for the consumers
in `ioqueue` and for the kernel threads in `pages`; these runs check no liveness.

Runs in which a failed assertion stops the kernel (`heap`, and `pages` through its
`Spin` step) say so: memory exhaustion really ends in `panic_spin`. `lib` may stop
because the console's bounds run out and because a bitmap operation or a number
is checked in a single state.

### Fairness

Only `LiveSpec` (Sync) and `IoLiveSpec` (IoQueue) assume fairness. The timer is
strongly fair: the interrupt request stays pending in the 8259A while the flag
is clear, so if the flag is set again and again it is taken. A thread's steps in
lock and queue functions are strongly fair: a thread that gets the CPU again and
again executes its next instruction. Critical sections and system calls end:
the kernel contains no unbounded loop inside either. Weak fairness would not do
for steps of a thread, because they are disabled whenever another thread runs.
Nothing is assumed about clients calling functions or keys being pressed.

## 4. Proofs

`SyncProofs` proves, for every set of threads and locks, every time slice and
every depth of recursion, from `ThreadAssumption` and `LockAssumption` alone,
that `Spec` implies `[]` of each safety invariant of the run `sync`: `TypeOK`,
`OneList`, `MutualExclusion`, `HolderIsOwner`, `NoLostWakeup`, `NoPanic` and
`IntrKept`.

None of these is inductive. The invariant that is, `IInv`, is their conjunction
with four more facts:

- `Phases` says for each place in `lock_acquire` and `lock_release` what the
  fields of the lock are: for example that between `holder = NULL` and
  `holder_repeat_cnt = 0` the count is still 1 and the semaphore 0. This is what
  makes the unprotected accesses harmless: only the owner writes the fields.
- `FreeLocks`: a lock nobody owns has `holder` NULL and count 0.
- `Unborn`: threads that were not started are nowhere.
- `OldKept`: a sleeper's `old_status` is the flag of its client code.

`NoPanic` needs the others: `schedule` finds a ready thread because a thread that
blocks does so on a lock with an owner, the owner is not blocked (no thread
waits with a lock held), and so, by `OneList`, it is in the ready list. The proof
has lemmas on what appending, pushing and popping do to the members of a list, one
lemma per action of `Sync`, and one step per conjunct that the action can disturb.

It also proves the refinement, `Spec => IsMutex`, from the same assumptions.
`Phases` and `MutualExclusion` do the work: by them the last step of `lock_acquire`
is `Enter` or `EnterAgain` (`FirstRepeatEnters`, `AcquireAgainEnters`), the first of
`lock_release` is `Leave` or `LeaveInner` (`ReleaseHolderLeaves`), and all other
steps are `Quiet`: they change no set of callers, and a field of the lock only
while the other one says that the lock is free. So Pages and Heap may take a pool's
lock in one step.

`ListProofs` shows why sequences may stand for lists. For every set of nodes,
every list and every sequence `s` with `IsList(m, list, s)`: `list_append` and
`list_push` of a node that is not in the list leave a list that is `Append(s, node)` and
`<<node>> \o s`; `list_remove` of the i-th member leaves `s` without it, and
`list_pop` leaves `Tail(s)` and returns `Head(s)`; `list_empty` is `s = <<>>`. And
these functions change no other list that shares no node with this one
(`InsertKeepsOthers`, `PopKeepsOthers`), which is what lets a `general_tag` move
from the ready list to a list of waiters. The argument is one lemma, `InsertAt`:
inserting before the k-th place of a chain gives the chain with the node at that
place; it needs that `prev` leads back the way `next` leads, and that no node comes
twice, both of which `IsList` states. `VisitedImplements` says that a walk from node
to node visits `s`; it needs a bound on the length of the list, not its value.

### Tasks and their lists

`TasksProofs` proves all six invariants of the run `tasks` (`WellLinked`,
`TasksNoPanic`, `FrameInPlace`, `UserAtHome`, `PidsTellApart`, `ReadyForInterrupts`)
and the refinement `TasksSpec => IsScheduler`, for any finite set of tasks, any
programme in which main creates each task once, and any time slice
(`TaskAssumption`, `NodeAssumption`: NULL is no node). `Patience <= Priority` is the
timing assumption of section 3, without which `FrameInPlace` is false.

The invariant is `\E Q : TasksInv(Q)`: there are queues `Q`, a sequence of tasks for
the ready list and for the waiters of each lock, which the pointers hold. Its parts:

- `SchedInv(Q)`: `Holds(links, Q, AllMade)`, that is `IsList` for every queue and for
  thread_all_list, no task in two queues; a task is in the queue its status says
  (`Queued`); one task runs. `Known`: no pointer leads to the tag of a task that does
  not exist yet, so the walk of `thread_start`, even when it has left the ready list,
  never meets the node it is looking for and its assertion cannot fail.
- `LockInv`: who holds the lock of a pool is not blocked. So a task that blocks leaves
  at least the holder in the ready list, and `schedule`, which has no idle thread,
  finds one.
- `FrameInv`: before `start_process` has read `self_kstack` the ticks left and the
  ticks that came make up the slice, so the slice does not end and no switch
  overwrites `self_kstack`; before its first step a task runs with the flag clear.
- `MakeInv` (what main has made of the next task), `PidInv`, `HomeInv`, and `BootInv`:
  the tables that `init_all` has filled in after each call.

The lists come first: `HoldsMore`, `HoldsLess`, `HoldsAll` and `HoldsFind` lift the
theorems of ListProofs from one list to the memory in which all of them live, and
`Enters` and `Leaves` say what an insertion and a `list_pop` mean for the statuses.
Then there is a lemma per action. `Dispatch` is the second half of `schedule` with
`switch_to`, which the timer and `sema_down` share.

For the refinement the same lemmas say which step of Threads a step is: the end of
`thread_start` and of `process_execute` is `thread_start`, a tick is
`intr_timer_handler`, waiting for a lock `thread_block`, and waking a waiter
`thread_unblock`; every other step is `Unseen`. It needs one more invariant, `Awaits`:
a task that has not run yet is switched to as if interrupts were on, since the first
thing it does is to enable them. So what Sync and IoQueue assume of the scheduler is
what the functions of thread.c and list.c do with their pointers.

### Bitmaps

`BitmapProofs` is about the operators of BitmapOps, for every length of a byte and of
a bitmap and every content. `SetBit` and `SetRun` say that `bitmap_set` and the loops
around it change the bits they are asked to change and no others. `ScanFirstFit` says
that `bitmap_scan` is first fit if a bit is free and fails its assertion if none is
(where its comment promises -1, see section 3), `ScanResult` what a caller may rely
on. The loops are recursive functions. That such a function exists, and what it
computes, is proved from a least counterexample (`Least`, `UpTo`): a set of numbers
that is not empty has a least element, which needs no induction over a formula.
`LibProofs` adds `BytesStayRight` and `ScanStaysFirstFit` for the bitmaps that come
up.

### The page allocator

`PagesProofs` proves the invariants of the run `pages` (`MappedOnce`, `GivenIsKept`,
`NothingLost`, `PanicsOnlyWhenFull`, `TablesApart`) and the type invariant
`PagesTypeOK` from `PagesAssumption` (names differ, sizes are positive). They are
stated so that they are true of the code although `page_table_map` uses the kernel
pool without its lock. Without any condition: the virtual pages that are given are
marked, mapped and disjoint, no frame of the user pool is mapped twice or lost, and
nothing changes the entry of a page that is given. While `~ raced`: the same of the
kernel pool's frames, that page tables have frames of their own, and that only a
full bitmap ends in a panic. `raced` is not a device to hide failures: it is set by
the very step in which a stale byte is stored, a marked frame is marked, a byte is
freed that a search has passed as full, or a search that had seen a free bit finds
none. For the user pool the proof shows that none of these happens; for the kernel
pool they take a process in `page_table_map` (TLC finds none without a process).

There are two inductive invariants. `PagesInv` does not depend on the kernel pool. It
has a part for each thread, `Local(t)`: what its place in the code says about the
lock, the pages and the frame in its hands, what it was given, and, while it is
between the load and the store of a byte of the user pool, that the byte is still
the one in the bitmap. A step of `t` guarantees `Keeps(t)`, that it touches only
pages in its own hands or in nobody's; this is what the `Local(u)` of another thread
relies on (`OthersKeep`). So each action has one lemma, which shows `Keeps(t)` and the
new `Local(t)`.

`FramesInv` rests on it and counts, for each frame, its uses (`UsesOf`): in the hands
of a thread that has marked it, as a page table of a directory entry, behind a page
that is not just being unmapped. `FrameInv(f)` says that a frame of a sound pool has
at most one use, and has one exactly if it is marked. A step that stores a byte adds
or removes one mark and with it one use (`StoreMarks`, `SetStoreFrames`,
`ClearStoreFrames`), if the byte was not stale and the bit not set already, which is
`~ raced'`; entering a frame into a table turns one use into another
(`EntryFrames`). `PassedFull` (a search has passed only full bytes) is what makes the
assertion in `bitmap_scan` mean a full bitmap.

The refinement `PagesSpec => IsAllocator` rests on two facts. `GivenNeverMoves` is an
action property: no step changes the page table entry of a page that is given,
because an entry is only written for a page of the region in the writer's hands
(`EntryInHand`), and `HeldApart` keeps that region off all others. `RegionsStayApart`
says so of the regions that are given. So every step but `Finish` and `CallFree` is a
stutter of the allocator; `CallFree` takes a block back; and what `Finish` hands out
has frames of its own, because by `MappedOnce` a frame that is also behind another
region would make the two share a page. For processes (`AllProcesses`) this needs the
user pool only; for all threads (`AllThreads`) `~ raced`.

### The queue

`QueueProofs` proves, for every ring size and every set of threads, that the queue
implements Fifo (`QueueIsFifo`), that no sleeper is forgotten (`SleepersRemembered`)
and that no assertion fails (`QueueNeverPanics`). It reuses `SyncProofs`: there the
invariant is split into `Core`, which any client of the lock keeps, and `Accounted`,
which says that every blocked thread waits for a lock; the queue replaces the second
by its own accounts (`Sleepers`, `Places`), since a thread may also sleep in
`ioq_wait`. `QInv` is their conjunction. `schedule` finds a ready thread because
main never calls the queue and so never sleeps (`MainReady`): main.c ends in
`while(1)`, and `QueueAssumption` says so.

`ReaderHasReason` proves `SleepsWithReason` for one reader and the keyboard handler
as the only writer, the use that `kbd_buf` is made for: the reader finds the lock
free, keeps interrupts off from the test to `ioq_wait`, and so sleeps only on an
empty queue. With more readers or writers it is false, as the run
`ioqueue_shared` shows.

### The heap

`HeapProofs` proves the four invariants of the run `heap` and the type invariant
`HeapTypeOK`, for every size of a page, of a header, of the blocks, of the pool and of
a request (`HeapAssumption`: every block size fits into what a header leaves of a
page). The invariant `HInv` is stated over values (an assignment of arenas, of free
blocks and of allocations), so that an action which does two things, such as taking a
new arena and a block of it, is two lemmas with a state between them that nobody sees:
`OpenArena`, `TakeOne`, `GiveBack`, `CloseArena`, `OpenPages`, `ClosePages`. Its parts
speak of one page each, and `Elsewhere` says that a change within one page concerns
only the part of that page. `CountAt` uses the cardinality of the free blocks of an
arena: an arena is dropped exactly when all of its blocks are free, and the assertion
that each is found on the free list cannot fail.

`FramesOk` is the account of the pool: the free frames, those of others and one for
each marked page make up all of it. It and `MapOk`, which says that the marked pages
are those of the arenas, hold until an assertion fails: when the frames run out in the
middle of `malloc_page`, pages are left marked that no arena has.

### Keyboard, console, numbers, memory map

`LibProofs` proves `ModifiersMatch` and `CharIsMeant` for every set of keys of scan
code set 1, both keys of a pair of modifiers included. No code may be 0x60, whose
break code would be the prefix 0xe0; no key has it. The invariant `KbdInv` says
that there is a trace: a set of flags before and after each byte on its way, from
what the handler believes to what is true of the keys, in which each byte gives the
character that was meant when it was sent. Pressing and releasing make it longer,
the handler shorter.

`TextsStayWhole` proves `TextsWhole` for any threads, processes and texts:
a thread is inside `console_put_str` exactly while it holds the lock, and the last
character printed is of the holder or ends a string.

`ScreenStaysWindow` proves `ScreenIsWindow` for every size of the screen with at
least two rows and any texts in which a backspace comes right after a character it
can take back (`BackspacesFollow`; without it the cursor could go below 0, see
section 5). `CharIs` is the heart: one `put_char`, with its line break, its wrap at
the end of a row and its roll, takes a window on the paper to the window on the
paper with the character. `StringIs` repeats it along a text, for what a process or
the handler prints in one step. The invariant `ScreenInv` says what a thread in the
three steps of `put_char` has done so far, that a backspace that comes next finds
the cursor above 0, also when the handler prints first, and that no more characters
are printed than the paper has room for.

`EveryNumberReadsBack` proves `ReadsBack(v)` for every integer of a machine whose words
have any number of hexadecimal digits, the smallest integer included, and so
`NumbersReadBack`. The recursive functions of Stdio (`shr`, the text of `itoa`, the
reading of a text) are shown to exist and to satisfy their equations by a least
counterexample, as the loops of the bitmaps are; `ValueMore` says what one more digit
does to the number that a text stands for, and `GoodText` is what holds of `itoa`'s
text of every number: it has no leading zero and reads as that number. `ItoaReads`
takes the least number for which it fails, whose quotient by the base is smaller. For
put_int, `ShiftIs`: eax is 16 times what the shift leaves of it, plus the digit stored.

`LayoutFits` proves `Fits(n)` for every memory of 528 to 87903 frames, where the run
tries the borders.

### Only model-checked

The liveness properties `ReadyRuns`, `BlockedWakes` and `ByteIsRead`: fairness and
ENABLED are out of the prover's reach. Every other property of a passing run is a
theorem. `vsprintf` and `printf`, folds over a format, are used by the run's texts;
nothing is proved about them.

## 5. Not modelled

- The MBR, the reading of the disk, the switch to protected mode and the copying of
  the kernel's segments; the bits of the IDT, GDT and page table entries; the PIC
  and PIT commands; port I/O: code that runs once or single instructions. What they
  leave behind is in the initial states of Boot and Tasks.
- The contents of stacks and registers, except for the position of the frame that
  `start_process` fills in: control labels stand for them. So arguments of system
  calls are not passed in registers, and the fields of the first frame are not
  there.
- A walk of `node_find` that has left its list and reached NULL: the main thread is
  then `lost`, and nothing is claimed about what it reads.
- The two cursor registers are read and set in one step each. Once a handler has
  printed in the middle of a `put_char` (`torn`), the screen is not what it should
  be, and `ScreenIsWindow` says nothing any more; `TextsWhole` does.
- A backspace at the first cell (`print.S:53`), where the cursor becomes -1; a `%`
  at the end of a format; texts longer than `printf`'s 1024 bytes: they write or
  read outside their memory. The texts of the run avoid them.
- `memcmp`, `strcmp`, `strchr`, `strrchr`, `strcat` and `sprintf`, which nothing
  calls; `memset` and `memcpy` are assignments of the models. (`strcmp` does not stop
  at the end of equal strings, `string.c:64`, and `vsprintf` writes no zero byte,
  so `sprintf` leaves what was behind; `printf` zeroes its buffer first.)
- Builds without assertions (`NDEBUG`): the error paths they would reach
  (`memory.c:201` other than by a race, `memory.c:256`, `process.c:104`).

## 6. Plan

Order: scheduler and locks first, since everything rests on them; then what is
built on locks (queue, pages, heap), then the rest.

1. Done: Threads, Sync, Mutex, Fifo, IoQueue, BitmapOps, Bitmap, Pages, Heap,
   Keyboard; then Lists, Boot, Tasks, Stdio, Console, Layout; then Allocator; then
   the bytes of the frame bitmaps in Pages and the frames of the pool in Heap.
2. Done: SyncProofs (with the refinement of Mutex), ListProofs, BitmapProofs,
   PagesProofs, QueueProofs, HeapProofs, LibProofs, TasksProofs (with the refinement
   of Threads); then Allocator with the refinement of Pages, what no step of the page
   allocator may do, and the conversions of numbers.
3. Left: `vsprintf` over a format; what survives of the kernel pool after a race; the
   virtual pages that `get_kernel_pages` takes beside the kernel's heap.
