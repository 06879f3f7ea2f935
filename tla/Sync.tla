-------------------------------- MODULE Sync --------------------------------
(***************************************************************************)
(* The semaphore and the recursive lock of thread/sync.c, used by every    *)
(* thread of the scheduler of module Threads.                              *)
(*                                                                         *)
(* sema_down and sema_up run with the interrupt flag clear and are one     *)
(* step each (sema_down one step per pass of its loop, because             *)
(* thread_block gives the CPU away in the middle).  The rest of            *)
(* lock_acquire and lock_release runs with whatever flag the caller has,   *)
(* so every access to a field of the lock is a step of its own.            *)
(*                                                                         *)
(* A client takes a lock, may take the same lock again, and releases it as *)
(* often as it has taken it; no code path of the kernel holds two locks.   *)
(* A client may do so with interrupts disabled: a system call is entered   *)
(* through an interrupt gate and runs with the flag clear to its iret.     *)
(***************************************************************************)
EXTENDS Threads

CONSTANTS Lock,       \* the struct locks of the kernel
          User,       \* the threads that enter sections without interrupts
          NoThread,   \* NULL
          MaxDepth    \* how often a client takes a lock it already holds

ASSUME LockAssumption ==
  NoThread \notin Thread /\ User \subseteq Thread /\ MaxDepth \in Nat \ {0}

VARIABLES value,     \* semaphore.value
          waiters,   \* semaphore.waiters
          holder,    \* lock.holder
          repeat,    \* lock.holder_repeat_cnt
          pc,        \* where a thread is in lock_acquire or lock_release
          arg,       \* the lock those functions were called with
          old,       \* old_status of sema_down
          depth,     \* acquisitions of arg the thread has been granted and not given back
          mode       \* the interrupt flag the client code of the thread runs with

lockVars == <<value, waiters, holder, repeat>>
clientVars == <<pc, arg, old, depth, mode>>
vars == <<schedVars, lockVars, clientVars>>

Label == {"run",                                            \* client code
          "acquire", "again", "down", "woken", "own", "first", \* lock_acquire
          "release", "clear", "up"}                         \* lock_release

(* The type invariant.                                                     *)
TypeOK ==
  /\ SchedTypeOK
  /\ value \in [Lock -> 0..1]
  /\ waiters \in [Lock -> Seq(Thread)]
  /\ holder \in [Lock -> Thread \cup {NoThread}]
  /\ repeat \in [Lock -> 0..MaxDepth]
  /\ pc \in [Thread -> Label]
  /\ arg \in [Thread -> Lock]
  /\ old \in [Thread -> BOOLEAN]
  /\ depth \in [Thread -> 0..MaxDepth]
  /\ mode \in [Thread -> BOOLEAN]

(* lock_init and sema_init(1) for every lock.                              *)
lock_init ==
  /\ value = [l \in Lock |-> 1]
  /\ waiters = [l \in Lock |-> <<>>]
  /\ holder = [l \in Lock |-> NoThread]
  /\ repeat = [l \in Lock |-> 0]

Init ==
  /\ SchedInit
  /\ lock_init
  /\ pc = [t \in Thread |-> "run"]
  /\ \E l \in Lock : arg = [t \in Thread |-> l]
  /\ old = [t \in Thread |-> TRUE]
  /\ depth = [t \in Thread |-> 0]
  /\ mode = [t \in Thread |-> TRUE]
-----------------------------------------------------------------------------
(* Thread t has the CPU and is at label.                                   *)
At(t, label) == ~ halted /\ current = t /\ pc[t] = label
Goto(t, label) == pc' = [pc EXCEPT ![t] = label]

-----------------------------------------------------------------------------
(* lock_acquire(&l) is called.                                             *)
CallAcquire(t, l) ==
  /\ At(t, "run")
  /\ depth[t] < MaxDepth
  /\ depth[t] > 0 => l = arg[t]
  /\ arg' = [arg EXCEPT ![t] = l]
  /\ Goto(t, "acquire")
  /\ UNCHANGED <<schedVars, lockVars, old, depth, mode>>

(* The test of holder, outside any critical section.                       *)
TestHolder(t) ==
  /\ At(t, "acquire")
  /\ Goto(t, IF holder[arg[t]] # t THEN "down" ELSE "again")
  /\ UNCHANGED <<schedVars, lockVars, arg, old, depth, mode>>

AcquireAgain(t) ==
  /\ At(t, "again")
  /\ repeat' = [repeat EXCEPT ![arg[t]] = @ + 1]
  /\ depth' = [depth EXCEPT ![t] = @ + 1]
  /\ Goto(t, "run")
  /\ UNCHANGED <<schedVars, value, waiters, holder, arg, old, mode>>

(* Mutant: the waiters are a stack.                                        *)
SemaWait_lifo(t) ==
  /\ waiters' = [waiters EXCEPT ![arg[t]] = list_push(@, t)]
  /\ Goto(t, "woken")
  /\ thread_block(FALSE)
  /\ UNCHANGED <<value, depth>>

(* The body of the loop of sema_down: wait, blocked, among the waiters.    *)
SemaWait(t) ==
  IF node_find(waiters[arg[t]], t)
  THEN panic_spin /\ UNCHANGED <<value, waiters, pc, depth>>
  ELSE /\ waiters' = [waiters EXCEPT ![arg[t]] = list_append(@, t)]
       /\ Goto(t, "woken")
       /\ thread_block(FALSE)
       /\ UNCHANGED <<value, depth>>

(* Mutant: the flag is set instead of restored.                            *)
SemaTake_sti(t, saved) ==
  /\ value' = [value EXCEPT ![arg[t]] = @ - 1]
  /\ depth' = [depth EXCEPT ![t] = 1]
  /\ Goto(t, "own")
  /\ intr' = TRUE
  /\ UNCHANGED <<current, ready, status, ticks, resume, halted, waiters>>

(* What follows the loop: value is taken and the flag restored.            *)
SemaTake(t, saved) ==
  /\ value' = [value EXCEPT ![arg[t]] = @ - 1]
  /\ depth' = [depth EXCEPT ![t] = 1]
  /\ Goto(t, "own")
  /\ intr' = saved
  /\ UNCHANGED <<current, ready, status, ticks, resume, halted, waiters>>

(* Mutant: a woken waiter does not look at value a second time.            *)
sema_down_if(t, saved) ==
  /\ old' = [old EXCEPT ![t] = saved]
  /\ IF value[arg[t]] = 0 /\ pc[t] # "woken" THEN SemaWait(t) ELSE SemaTake(t, saved)
  /\ UNCHANGED <<holder, repeat, arg, mode>>

(* One pass of the loop of sema_down, with the flag clear.  The waiter     *)
(* that is woken comes back here and tests value again.                    *)
sema_down(t, saved) ==
  /\ old' = [old EXCEPT ![t] = saved]
  /\ IF value[arg[t]] = 0 THEN SemaWait(t) ELSE SemaTake(t, saved)
  /\ UNCHANGED <<holder, repeat, arg, mode>>

SemaDown(t) == At(t, "down") /\ sema_down(t, intr)
SemaWoken(t) == At(t, "woken") /\ sema_down(t, old[t])

SetHolder(t) ==
  /\ At(t, "own")
  /\ holder' = [holder EXCEPT ![arg[t]] = t]
  /\ Goto(t, "first")
  /\ UNCHANGED <<schedVars, value, waiters, repeat, arg, old, depth, mode>>

FirstRepeat(t) ==
  /\ At(t, "first")
  /\ IF repeat[arg[t]] # 0
     THEN panic_spin /\ UNCHANGED <<lockVars, clientVars>>
     ELSE /\ repeat' = [repeat EXCEPT ![arg[t]] = 1]
          /\ Goto(t, "run")
          /\ UNCHANGED <<schedVars, value, waiters, holder, arg, old, depth, mode>>
-----------------------------------------------------------------------------
(* lock_release(&arg[t]) is called by a thread that has acquired it.       *)
CallRelease(t) ==
  /\ At(t, "run")
  /\ depth[t] > 0
  /\ Goto(t, "release")
  /\ UNCHANGED <<schedVars, lockVars, arg, old, depth, mode>>

(* Mutants of lock_release: holder is never reset; there is no early       *)
(* return for an inner release.                                            *)
ReleaseHolder_keep(t) ==
  /\ At(t, "release")
  /\ IF repeat[arg[t]] > 1
     THEN /\ repeat' = [repeat EXCEPT ![arg[t]] = @ - 1]
          /\ depth' = [depth EXCEPT ![t] = @ - 1]
          /\ Goto(t, "run")
     ELSE Goto(t, "clear") /\ UNCHANGED <<repeat, depth>>
  /\ UNCHANGED <<schedVars, value, waiters, holder, arg, old, mode>>

ReleaseHolder_all(t) ==
  /\ At(t, "release")
  /\ holder' = [holder EXCEPT ![arg[t]] = NoThread]
  /\ Goto(t, "clear")
  /\ UNCHANGED <<schedVars, value, waiters, repeat, arg, old, depth, mode>>

(* The assertions, the early return of an inner release, holder = NULL.    *)
ReleaseHolder(t) ==
  LET l == arg[t]
  IN  /\ At(t, "release")
      /\ IF holder[l] # t \/ repeat[l] = 0
         THEN panic_spin /\ UNCHANGED <<lockVars, clientVars>>
         ELSE /\ IF repeat[l] > 1
                 THEN /\ repeat' = [repeat EXCEPT ![l] = @ - 1]
                      /\ depth' = [depth EXCEPT ![t] = @ - 1]
                      /\ Goto(t, "run")
                      /\ UNCHANGED holder
                 ELSE /\ holder' = [holder EXCEPT ![l] = NoThread]
                      /\ Goto(t, "clear")
                      /\ UNCHANGED <<repeat, depth>>
              /\ UNCHANGED <<schedVars, value, waiters, arg, old, mode>>

(* Mutant: holder_repeat_cnt is not reset.                                 *)
ClearRepeat_not(t) ==
  /\ At(t, "clear")
  /\ Goto(t, "up")
  /\ UNCHANGED <<schedVars, lockVars, arg, old, depth, mode>>

ClearRepeat(t) ==
  /\ At(t, "clear")
  /\ repeat' = [repeat EXCEPT ![arg[t]] = 0]
  /\ Goto(t, "up")
  /\ UNCHANGED <<schedVars, value, waiters, holder, arg, old, depth, mode>>

(* Mutants of sema_up: the waiter is made ready but stays among the        *)
(* waiters; it is taken off the waiters but not made ready.                *)
sema_up_stay(t) ==
  LET l == arg[t]
  IN  /\ At(t, "up")
      /\ IF waiters[l] # <<>>
         THEN thread_unblock(Head(waiters[l]))
         ELSE UNCHANGED <<ready, status>>
      /\ value' = [value EXCEPT ![l] = @ + 1]
      /\ depth' = [depth EXCEPT ![t] = 0]
      /\ Goto(t, "run")
      /\ UNCHANGED <<current, ticks, intr, resume, halted, waiters,
                     holder, repeat, arg, old, mode>>

sema_up_drop(t) ==
  LET l == arg[t]
  IN  /\ At(t, "up")
      /\ waiters' = [waiters EXCEPT ![l] = IF @ # <<>> THEN Tail(@) ELSE @]
      /\ value' = [value EXCEPT ![l] = @ + 1]
      /\ depth' = [depth EXCEPT ![t] = 0]
      /\ Goto(t, "run")
      /\ UNCHANGED <<schedVars, holder, repeat, arg, old, mode>>

(* sema_up: the first waiter, if there is one, is made ready; the value is *)
(* raised, so that any thread may take it before the waiter runs.          *)
sema_up(t) ==
  LET l == arg[t]
      w == Head(waiters[l])
      some == waiters[l] # <<>>
  IN  /\ At(t, "up")
      /\ IF value[l] # 0 \/ (some /\ ~ CanUnblock(w))
         THEN panic_spin /\ UNCHANGED <<lockVars, clientVars>>
         ELSE /\ IF some
                 THEN /\ waiters' = [waiters EXCEPT ![l] = Tail(@)]
                      /\ thread_unblock(w)
                 ELSE UNCHANGED <<waiters, ready, status>>
              /\ value' = [value EXCEPT ![l] = @ + 1]
              /\ depth' = [depth EXCEPT ![t] = 0]
              /\ Goto(t, "run")
              /\ UNCHANGED <<current, ticks, intr, resume, halted,
                             holder, repeat, arg, old, mode>>
-----------------------------------------------------------------------------
(* Client code that enters a section without interrupts (the interrupt     *)
(* gate of int 0x80, or intr_disable) and leaves it again (iret, or        *)
(* set_intr_status), holding no lock.                                      *)
EnterNoIntr(t) ==
  /\ t \in User
  /\ At(t, "run") /\ intr /\ depth[t] = 0
  /\ intr' = FALSE
  /\ mode' = [mode EXCEPT ![t] = FALSE]
  /\ UNCHANGED <<current, ready, status, ticks, resume, halted,
                 lockVars, pc, arg, old, depth>>

LeaveNoIntr(t) ==
  /\ At(t, "run") /\ ~ intr /\ depth[t] = 0
  /\ intr' = TRUE
  /\ mode' = [mode EXCEPT ![t] = TRUE]
  /\ UNCHANGED <<current, ready, status, ticks, resume, halted,
                 lockVars, pc, arg, old, depth>>

StartThread(t, u) ==
  /\ At(t, "run")
  /\ thread_start(u)
  /\ UNCHANGED <<lockVars, clientVars>>

Timer == intr_timer_handler /\ UNCHANGED <<lockVars, clientVars>>

(* The steps that finish what the thread has begun.                        *)
LockStep(t) ==
  \/ TestHolder(t) \/ AcquireAgain(t) \/ SemaDown(t) \/ SemaWoken(t)
  \/ SetHolder(t) \/ FirstRepeat(t)
  \/ ReleaseHolder(t) \/ ClearRepeat(t) \/ sema_up(t)

ThreadStep(t) ==
  \/ LockStep(t)
  \/ \E l \in Lock : CallAcquire(t, l)
  \/ CallRelease(t)
  \/ EnterNoIntr(t) \/ LeaveNoIntr(t)
  \/ \E u \in Thread : StartThread(t, u)

Next == Timer \/ \E t \in Thread : ThreadStep(t)

Spec == Init /\ [][Next]_vars
-----------------------------------------------------------------------------
(* Fairness.  The timer interrupt stays pending until the flag is set, so  *)
(* a flag that is set again and again lets it in; a thread that is given   *)
(* the CPU again and again gets on with the function it is in; a critical  *)
(* section ends; a section without interrupts ends.                        *)
EndSection(t) == CallRelease(t) /\ depth[t] = 1

Fairness ==
  /\ SF_vars(Timer)
  /\ \A t \in Thread : SF_vars(LockStep(t)) /\ SF_vars(EndSection(t))
  /\ \A t \in User : SF_vars(LeaveNoIntr(t))

LiveSpec == Spec /\ Fairness
-----------------------------------------------------------------------------
Owns(t, l) == arg[t] = l /\ depth[t] > 0
Waiting(t, l) == arg[t] = l /\ pc[t] = "woken"

(* Every thread is in the one list its status says: exactly the READY      *)
(* threads are in the ready list, exactly the BLOCKED ones in the waiters  *)
(* of the lock they want, none twice, and the CPU runs the only RUNNING    *)
(* one.  general_tag links a thread into both kinds of list, so a thread   *)
(* in two of them would corrupt both.                                      *)
OneList ==
  /\ \A t \in Thread : status[t] = "RUNNING" <=> t = current
  /\ \A t \in Thread : status[t] = "READY" <=> node_find(ready, t)
  /\ \A t \in Thread, l \in Lock : node_find(waiters[l], t) => Waiting(t, l)
  /\ \A t \in Thread : status[t] = "BLOCKED" <=> \E l \in Lock : node_find(waiters[l], t)
  /\ IsInjective(ready)
  /\ \A l \in Lock : IsInjective(waiters[l])

(* No two threads own a lock, from the moment sema_down grants it to the   *)
(* moment sema_up gives it back, and the semaphore is 1 exactly when       *)
(* nobody does.                                                            *)
MutualExclusion ==
  \A l \in Lock : /\ \A t, u \in Thread : Owns(t, l) /\ Owns(u, l) => t = u
                  /\ value[l] = 1 <=> \A t \in Thread : ~ Owns(t, l)

(* The unprotected reads of holder and holder_repeat_cnt are right: holder *)
(* names a thread only while that thread owns the lock, and client code    *)
(* inside the lock is the holder, counted as often as it has acquired.     *)
HolderIsOwner ==
  /\ \A l \in Lock : holder[l] # NoThread => Owns(holder[l], l)
  /\ \A t \in Thread : pc[t] = "run" /\ depth[t] > 0
                         => holder[arg[t]] = t /\ repeat[arg[t]] = depth[t]

(* A free lock with waiters has a waiter that sema_up has made ready and   *)
(* that will take it or go back to the waiters: no wakeup is lost.         *)
NoLostWakeup ==
  \A l \in Lock : value[l] = 1 /\ waiters[l] # <<>>
                    => \E t \in Thread : Waiting(t, l) /\ status[t] # "BLOCKED"

(* No assertion of thread.c, sync.c fails.  In particular schedule()       *)
(* always finds a ready thread although there is no idle thread: whoever   *)
(* blocks leaves the owner of the lock behind, and no owner is blocked.    *)
NoPanic == ~ halted

(* The interrupt flag survives blocking, waking and preemption: client     *)
(* code always runs with the flag it has set for itself, and a waiter      *)
(* comes back into the loop of sema_down with the flag clear.              *)
IntrKept == /\ intr = (mode[current] /\ pc[current] # "woken")
            /\ \A t \in Thread : t # current => resume[t] = (mode[t] /\ pc[t] # "woken")

(* Every ready thread gets the CPU, although thread_unblock lets others    *)
(* jump the queue again and again.                                         *)
ReadyRuns == \A t \in Thread : status[t] = "READY" ~> status[t] = "RUNNING"

(* Every blocked thread is made ready: owners release, and sema_up serves  *)
(* the waiters in the order they came.                                     *)
BlockedWakes == \A t \in Thread : status[t] = "BLOCKED" ~> status[t] = "READY"

(* lock_acquire and lock_release are a recursive lock: the thread owns it  *)
(* while holder and holder_repeat_cnt both say so, which is from the last  *)
(* step of lock_acquire to the first of the outermost lock_release.        *)
Callers(l) == {t \in Thread : /\ arg[t] = l /\ depth[t] > 0
                              /\ pc[t] \in {"run", "acquire", "again", "release"}}

M == INSTANCE Mutex WITH
       owner <- [l \in Lock |-> IF repeat[l] = 0 THEN NoThread ELSE holder[l]],
       count <- [l \in Lock |-> IF holder[l] = NoThread THEN 0 ELSE repeat[l]],
       inside <- [l \in Lock |-> Callers(l)]

IsMutex == M!MutexSpec
=============================================================================
