------------------------------- MODULE IoQueue -------------------------------
(***************************************************************************)
(* The ring buffer of device/ioqueue.c between threads that read and write *)
(* it and the keyboard interrupt that writes it (the end of                *)
(* intr_keyboard_handler in device/keyboard.c).                            *)
(*                                                                         *)
(* ioq_getchar and ioq_putchar assert that interrupts are off, so a thread *)
(* disables them around the call; control still passes to other threads,   *)
(* and with it interrupts, wherever the functions block: in lock_acquire   *)
(* and in ioq_wait.  The steps of the lock are those of Sync, on the one   *)
(* lock of the queue.                                                      *)
(***************************************************************************)
EXTENDS Sync

CONSTANTS QueueLock,   \* ioqueue.lock
          Consumer,    \* threads that call ioq_getchar
          Producer,    \* threads that call ioq_putchar
          Byte, NoByte,
          bufsize      \* 64 in the code

(* The main thread spins at the end of main and never calls the queue.     *)
ASSUME QueueAssumption ==
  /\ QueueLock \in Lock
  /\ Consumer \subseteq Thread \ {Main} /\ Producer \subseteq Thread \ {Main}
  /\ NoByte \notin Byte
  /\ bufsize \in Nat \ {0}

VARIABLES buf, head, tail,   \* the ring: written at head, read at tail
          consumer,          \* the thread that sleeps until there is a byte
          producer,          \* the thread that sleeps until there is room
          io,                \* where a thread is in ioq_getchar or ioq_putchar
          byte,              \* the argument of ioq_putchar
          got                \* the byte that ioq_getchar returned last

ringVars == <<buf, head, tail, got>>
ioVars == <<ringVars, consumer, producer, io, byte>>
allVars == <<vars, ioVars>>

(* ioqueue_init, called by keyboard_init.                                  *)
ioqueue_init ==
  /\ head = 0 /\ tail = 0
  /\ consumer = NoThread /\ producer = NoThread
  /\ buf = [i \in 0..(bufsize - 1) |-> NoByte]

IoInit ==
  /\ Init
  /\ ioqueue_init
  /\ io = [t \in Thread |-> "out"]
  /\ byte = [t \in Thread |-> NoByte]
  /\ got = NoByte
-----------------------------------------------------------------------------
next_pos(pos) == (pos + 1) % bufsize
ioq_full == next_pos(head) = tail
ioq_empty == head = tail

(* Thread t is in the queue's code at label, and in none of the lock's.    *)
IoAt(t, label) == At(t, "run") /\ io[t] = label
IoGoto(t, label) == io' = [io EXCEPT ![t] = label]
Failed == panic_spin /\ UNCHANGED <<lockVars, clientVars, ioVars>>

(* Mutant of wakeup: the waiter is forgotten, not woken.                   *)
wakeup_only_null(waiter) == UNCHANGED <<ready, status>>

(* wakeup(&waiter), if there is a waiter.                                  *)
wakeup(waiter) == IF waiter = NoThread THEN UNCHANGED <<ready, status>>
                                       ELSE thread_unblock(waiter)

(* The end of ioq_getchar: take a byte, wake the producer.                 *)
TakeByte ==
  /\ got' = buf[tail]
  /\ tail' = next_pos(tail)
  /\ wakeup(producer)
  /\ producer' = NoThread
  /\ UNCHANGED <<buf, head, consumer, byte>>

(* Mutants: the consumer is not woken; it is woken but not forgotten.      *)
StoreByte_no_wake(b) ==
  /\ buf' = [buf EXCEPT ![head] = b]
  /\ head' = next_pos(head)
  /\ UNCHANGED <<ready, status, consumer, tail, got, producer, byte>>

StoreByte_keep(b) ==
  /\ buf' = [buf EXCEPT ![head] = b]
  /\ head' = next_pos(head)
  /\ wakeup(consumer)
  /\ UNCHANGED <<tail, got, consumer, producer, byte>>

(* The end of ioq_putchar: store the byte, wake the consumer.              *)
StoreByte(b) ==
  /\ buf' = [buf EXCEPT ![head] = b]
  /\ head' = next_pos(head)
  /\ wakeup(consumer)
  /\ consumer' = NoThread
  /\ UNCHANGED <<tail, got, producer, byte>>

(* The queue calls lock_acquire; when it has returned, the thread goes on  *)
(* at label.                                                               *)
LockQueue(t, label) ==
  /\ arg' = [arg EXCEPT ![t] = QueueLock]
  /\ Goto(t, "acquire")
  /\ IoGoto(t, label)
  /\ UNCHANGED <<schedVars, lockVars, old, depth, mode,
                 ringVars, consumer, producer, byte>>
-----------------------------------------------------------------------------
(* Client code disables interrupts and calls ioq_getchar or ioq_putchar.   *)
CallGet(t) ==
  /\ io[t] = "out" /\ t \in Consumer
  /\ EnterNoIntr(t)
  /\ IoGoto(t, "get")
  /\ UNCHANGED <<ringVars, consumer, producer, byte>>

CallPut(t, b) ==
  /\ io[t] = "out" /\ t \in Producer
  /\ EnterNoIntr(t)
  /\ IoGoto(t, "put")
  /\ byte' = [byte EXCEPT ![t] = b]
  /\ UNCHANGED <<ringVars, consumer, producer>>

(* It has returned, and client code restores the interrupt flag.           *)
Leave(t) ==
  /\ io[t] = "out"
  /\ LeaveNoIntr(t)
  /\ UNCHANGED ioVars

(* Client code starts another thread.                                      *)
Start(t, u) ==
  /\ io[t] = "out"
  /\ StartThread(t, u)
  /\ UNCHANGED ioVars

(* The loop condition of ioq_getchar: lock the queue to wait, or take a    *)
(* byte and return.                                                        *)
GetTest(t) ==
  /\ IoAt(t, "get")
  /\ IF intr \/ (~ ioq_empty /\ producer # NoThread /\ ~ CanUnblock(producer))
     THEN Failed
     ELSE IF ioq_empty
     THEN LockQueue(t, "getwait")
     ELSE /\ TakeByte
          /\ IoGoto(t, "out")
          /\ UNCHANGED <<current, ticks, intr, resume, halted, lockVars, clientVars>>

(* ioq_wait(&ioq->consumer): the wait itself, without another look at the  *)
(* queue.                                                                  *)
GetWait(t) ==
  /\ IoAt(t, "getwait")
  /\ IF consumer # NoThread
     THEN Failed
     ELSE /\ consumer' = t
          /\ IoGoto(t, "getwoken")
          /\ thread_block(FALSE)
          /\ UNCHANGED <<lockVars, clientVars, ringVars, producer, byte>>

(* Woken: lock_release, and back to the loop condition.                    *)
GetWoken(t) ==
  /\ io[t] = "getwoken"
  /\ CallRelease(t)
  /\ IoGoto(t, "get")
  /\ UNCHANGED <<ringVars, consumer, producer, byte>>

PutTest(t) ==
  /\ IoAt(t, "put")
  /\ IF intr \/ (~ ioq_full /\ consumer # NoThread /\ ~ CanUnblock(consumer))
     THEN Failed
     ELSE IF ioq_full
     THEN LockQueue(t, "putwait")
     ELSE /\ StoreByte(byte[t])
          /\ IoGoto(t, "out")
          /\ UNCHANGED <<current, ticks, intr, resume, halted, lockVars, clientVars>>

PutWait(t) ==
  /\ IoAt(t, "putwait")
  /\ IF producer # NoThread
     THEN Failed
     ELSE /\ producer' = t
          /\ IoGoto(t, "putwoken")
          /\ thread_block(FALSE)
          /\ UNCHANGED <<lockVars, clientVars, ringVars, consumer, byte>>

PutWoken(t) ==
  /\ io[t] = "putwoken"
  /\ CallRelease(t)
  /\ IoGoto(t, "put")
  /\ UNCHANGED <<ringVars, consumer, producer, byte>>

(* Mutant of the keyboard handler: no test for room.                       *)
KeyPressed_blind(b) ==
  /\ ~ halted /\ intr
  /\ StoreByte(b)
  /\ UNCHANGED <<current, ticks, intr, resume, halted, lockVars, clientVars, io>>

(* A key with a visible character: the handler drops it if the queue is    *)
(* full and so never waits.                                                *)
KeyPressed(b) ==
  /\ ~ halted /\ intr
  /\ ~ ioq_full
  /\ IF consumer # NoThread /\ ~ CanUnblock(consumer)
     THEN Failed
     ELSE /\ StoreByte(b)
          /\ UNCHANGED <<current, ticks, intr, resume, halted, lockVars, clientVars, io>>

QueueStep(t) ==
  \/ GetTest(t) \/ GetWait(t) \/ GetWoken(t)
  \/ PutTest(t) \/ PutWait(t) \/ PutWoken(t)
  \/ LockStep(t) /\ UNCHANGED ioVars

IoNext ==
  \/ Timer /\ UNCHANGED ioVars
  \/ \E b \in Byte : KeyPressed(b)
  \/ \E t \in Thread :
       \/ QueueStep(t)
       \/ CallGet(t) \/ Leave(t)
       \/ \E b \in Byte : CallPut(t, b)
       \/ \E u \in Thread : Start(t, u)

IoSpec == IoInit /\ [][IoNext]_allVars

(* The timer interrupt is pending until it is let in; a thread that is     *)
(* given the CPU again and again gets on with the function it is in.       *)
IoLiveSpec ==
  /\ IoSpec
  /\ SF_allVars(Timer /\ UNCHANGED ioVars)
  /\ \A t \in Thread : SF_allVars(QueueStep(t) \/ Leave(t))
-----------------------------------------------------------------------------
(* Nobody who sleeps is forgotten: a blocked thread is among the waiters   *)
(* of the lock, or the queue remembers it and will wake it.                *)
NobodyForgotten ==
  \A t \in Thread : status[t] = "BLOCKED"
                      => \/ node_find(waiters[QueueLock], t)
                         \/ consumer = t \/ producer = t

(* A thread sleeps on the queue only while it has reason to: the comments  *)
(* of ioq_getchar and ioq_putchar, "if the queue is empty the consumer     *)
(* blocks", "if the queue is full the producer blocks".                    *)
SleepsWithReason == /\ consumer # NoThread => ioq_empty
                    /\ producer # NoThread => ioq_full

(* No assertion fails, neither the queue's own (interrupts off, no second  *)
(* sleeper) nor those of the lock and the scheduler below it.              *)
QueueNoPanic == ~ halted

(* The ring is a bounded queue of bufsize - 1 bytes.                       *)
Stored == [i \in 1..((head + bufsize - tail) % bufsize) |-> buf[(tail + i - 1) % bufsize]]

F == INSTANCE Fifo WITH queue <- Stored, taken <- got, Capacity <- bufsize - 1

IsFifo == F!FifoSpec

(* A consumer that is in ioq_getchar when there is a byte returns: what    *)
(* was put wakes it, and it is scheduled and finds its way out.            *)
ByteIsRead == \A t \in Consumer :
                (io[t] \in {"get", "getwait", "getwoken"} /\ ~ ioq_empty) ~> (io[t] = "out")
=============================================================================
