---------------------------- MODULE QueueProofs -----------------------------
(***************************************************************************)
(* Proofs about the ring buffer of IoQueue, for a ring of any size.        *)
(***************************************************************************)
EXTENDS IoQueue, SyncProofs

(* Where a thread is in lock_acquire and lock_release goes with where it   *)
(* is in ioq_getchar and ioq_putchar: it waits holding the lock, tests the *)
(* ring without it, and takes it once.                                     *)
Places ==
  \A t \in Thread :
    /\ io[t] = "out" => pc[t] = "run"
    /\ io[t] # "out" => ~ mode[t] /\ t \in Consumer \cup Producer /\ status[t] # "UNBORN"
    /\ pc[t] = "run" /\ io[t] \in {"out", "get", "put"} => depth[t] = 0
    /\ pc[t] = "run" /\ io[t] \notin {"out", "get", "put"} => depth[t] = 1
    /\ pc[t] = "acquire" => depth[t] = 0
    /\ pc[t] # "again" /\ depth[t] \in 0..1
    /\ depth[t] = 1 \/ pc[t] \in {"acquire", "down", "woken"} => arg[t] = QueueLock
    /\ pc[t] \in {"acquire", "down", "woken", "own", "first"} => io[t] \in {"getwait", "putwait"}
    /\ pc[t] \in {"release", "clear", "up"} => io[t] \in {"get", "put"}

(* Whom the queue remembers sleeps in ioq_wait.                            *)
Sleeps(t, label) == /\ t \in Thread /\ status[t] = "BLOCKED"
                    /\ pc[t] = "run" /\ io[t] = label
Sleepers == /\ consumer # NoThread => Sleeps(consumer, "getwoken")
            /\ producer # NoThread => Sleeps(producer, "putwoken")

(* The remainder of a position that is at most once too large.             *)
LEMMA Wraps ==
  ASSUME NEW n \in Nat \ {0}, NEW i \in Nat, i < n + n
  PROVE  i % n = IF i < n THEN i ELSE i - n
<1>1. CASE i < n
  BY <1>1
<1>2. CASE i >= n
  <2>1. PICK k \in 0..(n - 1) : i = n + k
    <3>1. i - n \in 0..(n - 1) /\ i = n + (i - n)
      BY <1>2
    <3> QED BY <3>1
  <2>2. (n + k) % n = k
    OBVIOUS
  <2> QED BY <1>2, <2>1, <2>2
<1> QED BY <1>1, <1>2
-----------------------------------------------------------------------------
(* The cells of the ring, the number of bytes in it when it is written at  *)
(* h and read at t, and those bytes.                                       *)
Cells == 0..(bufsize - 1)
Wrap(i) == IF i < bufsize THEN i ELSE i - bufsize
Count(h, t) == IF t <= h THEN h - t ELSE h + bufsize - t
Content(b, h, t) == [i \in 1..Count(h, t) |-> b[Wrap(t + i - 1)]]

(* What the ring's variables and the arguments of ioq_putchar may be.      *)
RingOK ==
  /\ head \in Cells /\ tail \in Cells
  /\ buf \in [Cells -> Byte \cup {NoByte}]
  /\ io \in [Thread -> {"out", "get", "getwait", "getwoken", "put", "putwait", "putwoken"}]
  /\ byte \in [Thread -> Byte \cup {NoByte}]
  /\ \A t \in Thread : io[t] \in {"put", "putwait", "putwoken"} => byte[t] \in Byte

(* The remainders of the code, as the case distinctions they are.          *)
LEMMA RingArithmetic ==
  ASSUME NEW h \in Cells, NEW t \in Cells
  PROVE  /\ next_pos(h) = Wrap(h + 1) /\ next_pos(h) \in Cells
         /\ (h + bufsize - t) % bufsize = Count(h, t)
         /\ Count(h, t) \in Cells
         /\ h = t <=> Count(h, t) = 0
         /\ next_pos(h) = t <=> Count(h, t) = bufsize - 1
<1> USE DEF Cells
<1>0. bufsize \in Nat \ {0}
  BY QueueAssumption
<1>1. next_pos(h) = Wrap(h + 1) /\ next_pos(h) \in Cells
  <2> DEFINE k == h + 1
  <2>1. k \in Nat /\ k < bufsize + bufsize
    BY <1>0
  <2>2. k % bufsize = IF k < bufsize THEN k ELSE k - bufsize
    <3> HIDE DEF k
    <3> QED BY <1>0, <2>1, Wraps
  <2> QED BY <1>0, <2>2 DEF next_pos, Wrap
<1>2. (h + bufsize - t) % bufsize = Count(h, t)
  <2> DEFINE k == h + bufsize - t
  <2>1. k \in Nat /\ k < bufsize + bufsize
    BY <1>0
  <2>2. k % bufsize = IF k < bufsize THEN k ELSE k - bufsize
    <3> HIDE DEF k
    <3> QED BY <1>0, <2>1, Wraps
  <2> QED BY <1>0, <2>2 DEF Count
<1>3. Count(h, t) \in Cells
  BY <1>0 DEF Count
<1>4. h = t <=> Count(h, t) = 0
  BY <1>0 DEF Count
<1>5. next_pos(h) = t <=> Count(h, t) = bufsize - 1
  BY <1>0, <1>1 DEF Count, Wrap
<1> QED BY <1>1, <1>2, <1>3, <1>4, <1>5

(* The cell of the byte at position i.                                     *)
LEMMA RingCell ==
  ASSUME NEW h \in Cells, NEW t \in Cells, NEW i \in 1..Count(h, t)
  PROVE  (t + i - 1) % bufsize = Wrap(t + i - 1) /\ Wrap(t + i - 1) \in Cells
<1> USE DEF Cells
<1> DEFINE k == t + i - 1
<1>0. bufsize \in Nat \ {0}
  BY QueueAssumption
<1>1. k \in Nat /\ k < bufsize + bufsize
  BY <1>0, RingArithmetic
<1>2. k % bufsize = IF k < bufsize THEN k ELSE k - bufsize
  <2> HIDE DEF k
  <2> QED BY <1>0, <1>1, Wraps
<1> QED BY <1>0, <1>1, <1>2 DEF Wrap

(* What is stored, by position.                                            *)
LEMMA ContentIs ==
  ASSUME NEW h \in Cells, NEW t \in Cells, NEW b \in [Cells -> Byte \cup {NoByte}]
  PROVE  /\ [i \in 1..((h + bufsize - t) % bufsize) |-> b[(t + i - 1) % bufsize]]
              = Content(b, h, t)
         /\ Content(b, h, t) \in Seq(Byte \cup {NoByte})
         /\ Len(Content(b, h, t)) = Count(h, t)
<1>0. /\ (h + bufsize - t) % bufsize = Count(h, t)
      /\ Count(h, t) \in Cells
      /\ \A i \in 1..Count(h, t) : (t + i - 1) % bufsize = Wrap(t + i - 1)
  <2>1. (h + bufsize - t) % bufsize = Count(h, t)
    BY RingArithmetic
  <2>2. Count(h, t) \in Cells
    BY RingArithmetic
  <2>3. ASSUME NEW i \in 1..Count(h, t) PROVE (t + i - 1) % bufsize = Wrap(t + i - 1)
    BY RingCell
  <2> QED BY <2>1, <2>2, <2>3
<1>1. [i \in 1..((h + bufsize - t) % bufsize) |-> b[(t + i - 1) % bufsize]] = Content(b, h, t)
  BY <1>0 DEF Content
<1>2. Count(h, t) \in Nat
  BY <1>0, QueueAssumption DEF Cells
<1>3. \A i \in 1..Count(h, t) : b[Wrap(t + i - 1)] \in Byte \cup {NoByte}
  BY RingCell
<1> QED BY <1>1, <1>2, <1>3 DEF Content

(* Storing a byte in a ring that is not full appends it.                   *)
LEMMA StoreAppends ==
  ASSUME NEW h \in Cells, NEW t \in Cells, NEW f \in [Cells -> Byte \cup {NoByte}],
         NEW b \in Byte, next_pos(h) # t
  PROVE  /\ Content([f EXCEPT ![h] = b], next_pos(h), t) = Append(Content(f, h, t), b)
         /\ Len(Content(f, h, t)) < bufsize - 1
<1> USE DEF Cells
<1> DEFINE n == Count(h, t)
           s == Content(f, h, t)
           g == [f EXCEPT ![h] = b]
<1>0. bufsize \in Nat \ {0}
  BY QueueAssumption
<1>1. n \in Cells /\ n # bufsize - 1 /\ next_pos(h) = Wrap(h + 1)
  BY RingArithmetic
<1>2. Count(next_pos(h), t) = n + 1
  BY <1>0, <1>1 DEF Count, Wrap
<1>3. s \in Seq(Byte \cup {NoByte}) /\ Len(s) = n /\ s = [i \in 1..n |-> f[Wrap(t + i - 1)]]
  BY ContentIs DEF Content
<1>4. Wrap(t + (n + 1) - 1) = h
  BY <1>0, <1>1 DEF Count, Wrap
<1>5. \A i \in 1..n : Wrap(t + i - 1) # h /\ Wrap(t + i - 1) \in Cells
  BY <1>0, <1>1 DEF Count, Wrap
<1>6. \A i \in 1..n : g[Wrap(t + i - 1)] = s[i]
  BY <1>3, <1>5
<1>7. g[Wrap(t + (n + 1) - 1)] = b
  BY <1>4
<1> HIDE DEF s, n
<1>8. /\ Append(s, b) = [i \in 1..(n + 1) |-> Append(s, b)[i]]
      /\ \A i \in 1..n : Append(s, b)[i] = s[i]
      /\ Append(s, b)[n + 1] = b
  BY <1>0, <1>1, <1>3
<1>9. ASSUME NEW i \in 1..(n + 1) PROVE g[Wrap(t + i - 1)] = Append(s, b)[i]
  <2>1. i \in 1..n \/ i = n + 1
    BY <1>0, <1>1
  <2> QED BY <1>6, <1>7, <1>8, <2>1
<1>10. Content(g, next_pos(h), t) = [i \in 1..(n + 1) |-> g[Wrap(t + i - 1)]]
  BY <1>2 DEF Content
<1>11. Content(g, next_pos(h), t) = Append(s, b)
  <2>1. \A i \in 1..(n + 1) : g[Wrap(t + i - 1)] = Append(s, b)[i]
    BY <1>9
  <2>2. [i \in 1..(n + 1) |-> g[Wrap(t + i - 1)]] = [i \in 1..(n + 1) |-> Append(s, b)[i]]
    <3> HIDE DEF g
    <3> QED BY <2>1
  <2> HIDE DEF g
  <2> QED BY <1>8, <1>10, <2>2
<1>12. Len(s) < bufsize - 1
  BY <1>0, <1>1, <1>3
<1> QED BY <1>11, <1>12 DEF s

(* Taking a byte from a ring that is not empty removes the first.          *)
LEMMA TakeRemoves ==
  ASSUME NEW h \in Cells, NEW t \in Cells, NEW f \in [Cells -> Byte \cup {NoByte}],
         h # t
  PROVE  /\ Content(f, h, t) # <<>>
         /\ Content(f, h, next_pos(t)) = Tail(Content(f, h, t))
         /\ f[t] = Head(Content(f, h, t))
<1> USE DEF Cells
<1> DEFINE n == Count(h, t)
           s == Content(f, h, t)
<1>0. bufsize \in Nat \ {0}
  BY QueueAssumption
<1>1. n \in Cells /\ n # 0 /\ next_pos(t) = Wrap(t + 1)
  BY RingArithmetic
<1>2. Count(h, next_pos(t)) = n - 1
  BY <1>0, <1>1 DEF Count, Wrap
<1>3. s \in Seq(Byte \cup {NoByte}) /\ Len(s) = n /\ s = [i \in 1..n |-> f[Wrap(t + i - 1)]]
  BY ContentIs DEF Content
<1>4. \A i \in 1..(n - 1) : Wrap(next_pos(t) + i - 1) = Wrap(t + (i + 1) - 1)
  BY <1>0, <1>1 DEF Count, Wrap
<1>5. 1 \in 1..n /\ Wrap(t + 1 - 1) = t
  BY <1>0, <1>1 DEF Wrap
<1>6. s[1] = f[t]
  BY <1>3, <1>5
<1>7. Content(f, h, next_pos(t)) = [i \in 1..(n - 1) |-> f[Wrap(next_pos(t) + i - 1)]]
  BY <1>2 DEF Content
<1>8. \A i \in 1..(n - 1) : f[Wrap(next_pos(t) + i - 1)] = s[i + 1]
  <2> SUFFICES ASSUME NEW i \in 1..(n - 1)
               PROVE  f[Wrap(next_pos(t) + i - 1)] = s[i + 1]
    OBVIOUS
  <2>1. i + 1 \in 1..n
    BY <1>0, <1>1
  <2>2. s[i + 1] = f[Wrap(t + (i + 1) - 1)]
    BY <1>3, <2>1
  <2> QED BY <1>4, <2>2
<1> HIDE DEF s, n
<1>9. /\ s # <<>> /\ Head(s) = s[1]
      /\ Tail(s) = [i \in 1..(n - 1) |-> s[i + 1]]
  BY <1>0, <1>1, <1>3
<1>10. Content(f, h, next_pos(t)) = Tail(s)
  BY <1>7, <1>8, <1>9
<1> QED BY <1>6, <1>9, <1>10 DEF s
-----------------------------------------------------------------------------
(* What a step does to the ring: nothing, or it stores a byte, or it takes *)
(* one.                                                                    *)
Stores(b) == /\ ~ ioq_full
             /\ buf' = [buf EXCEPT ![head] = b] /\ head' = next_pos(head)
             /\ UNCHANGED <<tail, got>>
Takes == /\ ~ ioq_empty
         /\ got' = buf[tail] /\ tail' = next_pos(tail)
         /\ UNCHANGED <<buf, head>>

(* A step stores one byte, takes one, or leaves the ring alone.            *)
LEMMA RingStep ==
  ASSUME RingOK, [IoNext]_allVars
  PROVE  RingOK' /\ (UNCHANGED ringVars \/ Takes \/ \E b \in Byte : Stores(b))
<1> USE DEF ringVars, ioVars
<1>1. CASE UNCHANGED ioVars
  BY <1>1 DEF RingOK
<1>2. ASSUME UNCHANGED ringVars, NEW t \in Thread, NEW label, IoGoto(t, label),
             label \in {"out", "get", "getwait", "getwoken", "put", "putwait", "putwoken"},
             UNCHANGED byte,
             label \in {"put", "putwait", "putwoken"}
                => io[t] \in {"put", "putwait", "putwoken"}
      PROVE  RingOK'
  BY <1>2 DEF RingOK, IoGoto
<1>3. ASSUME NEW t \in Thread, QueueStep(t)
      PROVE  RingOK' /\ (UNCHANGED ringVars \/ Takes \/ \E b \in Byte : Stores(b))
  <2>1. CASE GetTest(t)
    <3>1. CASE UNCHANGED ioVars
      BY <1>1, <3>1
    <3>2. CASE LockQueue(t, "getwait")
      BY <1>2, <3>2 DEF LockQueue
    <3>3. CASE TakeByte /\ IoGoto(t, "out") /\ ~ ioq_empty
      <4>1. Takes
        BY <3>3 DEF TakeByte, Takes
      <4>2. next_pos(tail) \in Cells
        BY RingArithmetic DEF RingOK
      <4>3. RingOK'
        BY <3>3, <4>2 DEF TakeByte, IoGoto, RingOK
      <4> QED BY <4>1, <4>3
    <3> QED BY <2>1, <3>1, <3>2, <3>3 DEF GetTest, Failed
  <2>2. CASE GetWait(t)
    <3>1. CASE UNCHANGED ioVars
      BY <1>1, <3>1
    <3>2. CASE IoGoto(t, "getwoken") /\ UNCHANGED <<ringVars, byte>>
      BY <1>2, <3>2
    <3> QED BY <2>2, <3>1, <3>2 DEF GetWait, Failed
  <2>3. CASE GetWoken(t)
    BY <1>2, <2>3 DEF GetWoken
  <2>4. CASE PutTest(t)
    <3>0. io[t] = "put" /\ byte[t] \in Byte
      BY <2>4 DEF PutTest, IoAt, RingOK
    <3>1. CASE UNCHANGED ioVars
      BY <1>1, <3>1
    <3>2. CASE LockQueue(t, "putwait")
      BY <1>2, <3>0, <3>2 DEF LockQueue
    <3>3. CASE StoreByte(byte[t]) /\ IoGoto(t, "out") /\ ~ ioq_full
      <4>1. Stores(byte[t])
        BY <3>3 DEF StoreByte, Stores
      <4>2. next_pos(head) \in Cells
        BY RingArithmetic DEF RingOK
      <4>3. RingOK'
        BY <3>0, <3>3, <4>2 DEF StoreByte, IoGoto, RingOK
      <4> QED BY <3>0, <4>1, <4>3
    <3> QED BY <2>4, <3>1, <3>2, <3>3 DEF PutTest, Failed
  <2>5. CASE PutWait(t)
    <3>1. CASE UNCHANGED ioVars
      BY <1>1, <3>1
    <3>2. CASE IoGoto(t, "putwoken") /\ UNCHANGED <<ringVars, byte>> /\ io[t] = "putwait"
      BY <1>2, <3>2
    <3> QED BY <2>5, <3>1, <3>2 DEF PutWait, Failed, IoAt
  <2>6. CASE PutWoken(t)
    BY <1>2, <2>6 DEF PutWoken
  <2>7. CASE LockStep(t) /\ UNCHANGED ioVars
    BY <1>1, <2>7
  <2> QED BY <1>3, <2>1, <2>2, <2>3, <2>4, <2>5, <2>6, <2>7 DEF QueueStep
<1>4. ASSUME NEW b \in Byte, KeyPressed(b)
      PROVE  RingOK' /\ (UNCHANGED ringVars \/ \E c \in Byte : Stores(c))
  <2>1. CASE UNCHANGED ioVars
    BY <1>1, <2>1
  <2>2. CASE StoreByte(b) /\ UNCHANGED io /\ ~ ioq_full
    <3>1. Stores(b)
      BY <2>2 DEF StoreByte, Stores
    <3>2. next_pos(head) \in Cells
      BY RingArithmetic DEF RingOK
    <3>3. RingOK'
      BY <2>2, <3>2 DEF StoreByte, RingOK
    <3> QED BY <3>1, <3>3
  <2> QED BY <1>4, <2>1, <2>2 DEF KeyPressed, Failed
<1>5. ASSUME NEW t \in Thread, CallGet(t) PROVE RingOK' /\ UNCHANGED ringVars
  BY <1>2, <1>5 DEF CallGet
<1>6. ASSUME NEW t \in Thread, NEW b \in Byte, CallPut(t, b) PROVE RingOK' /\ UNCHANGED ringVars
  BY <1>6 DEF CallPut, IoGoto, RingOK
<1>7. ASSUME NEW t \in Thread, Leave(t) PROVE RingOK' /\ UNCHANGED ringVars
  BY <1>1, <1>7 DEF Leave
<1>8. CASE UNCHANGED allVars
  BY <1>1, <1>8 DEF allVars
<1>9. ASSUME NEW t \in Thread, NEW u \in Thread, Start(t, u) PROVE RingOK' /\ UNCHANGED ringVars
  BY <1>1, <1>9 DEF Start
<1> QED BY <1>1, <1>3, <1>4, <1>5, <1>6, <1>7, <1>8, <1>9 DEF IoNext

(* The ring is empty at first, and so is the abstract queue.               *)
LEMMA RingInit == IoInit => RingOK /\ F!FifoInit
<1> SUFFICES ASSUME IoInit PROVE RingOK /\ F!FifoInit
  OBVIOUS
<1>1. bufsize \in Nat \ {0} /\ 0 \in Cells
  BY QueueAssumption DEF Cells
<1>2. RingOK
  BY <1>1 DEF IoInit, ioqueue_init, RingOK, Cells
<1>3. Stored = Content(buf, head, tail) /\ Len(Stored) = Count(head, tail)
  BY <1>2, ContentIs DEF Stored, RingOK
<1>4. Stored = <<>>
  BY <1>1, <1>3 DEF IoInit, ioqueue_init, Count, Content, Cells
<1> QED BY <1>2, <1>4 DEF F!FifoInit, IoInit

(* Storing and taking a byte are steps of the abstract queue.              *)
LEMMA RingRefines ==
  ASSUME RingOK, [IoNext]_allVars
  PROVE  [F!FifoNext]_(F!fifoVars)
<1> USE DEF F!fifoVars
<1>1. RingOK'
  BY RingStep
<1>2. Stored = Content(buf, head, tail)
  BY ContentIs DEF Stored, RingOK
<1>3. Stored' = Content(buf', head', tail')
  <2>1. head' \in Cells /\ tail' \in Cells /\ buf' \in [Cells -> Byte \cup {NoByte}]
    BY <1>1 DEF RingOK, Cells
  <2>2. Stored' = [i \in 1..((head' + bufsize - tail') % bufsize) |->
                     buf'[(tail' + i - 1) % bufsize]]
    BY DEF Stored
  <2> QED BY <2>1, <2>2, ContentIs
<1>4. CASE UNCHANGED ringVars
  BY <1>2, <1>3, <1>4 DEF ringVars
<1>5. CASE Takes
  <2>1. Stored # <<>> /\ Stored' = Tail(Stored) /\ got' = Head(Stored)
    BY <1>2, <1>3, <1>5, TakeRemoves DEF RingOK, Takes, ioq_empty
  <2> QED BY <2>1 DEF F!FifoNext, F!Get
<1>6. ASSUME NEW b \in Byte, Stores(b) PROVE F!FifoNext
  <2>1. Stored' = Append(Stored, b) /\ Len(Stored) < bufsize - 1 /\ got' = got
    BY <1>2, <1>3, <1>6, StoreAppends DEF RingOK, Stores, ioq_full
  <2> QED BY <2>1 DEF F!FifoNext, F!Put
<1> QED BY <1>4, <1>5, <1>6, RingStep

(* The ring is a bounded queue, whatever its size and whoever reads and    *)
(* writes it: a byte that ioq_putchar or the keyboard handler has stored   *)
(* is returned by ioq_getchar once and in order, and none is overwritten.  *)
THEOREM QueueIsFifo == IoSpec => IsFifo
<1>1. IoInit => RingOK /\ F!FifoInit
  BY RingInit
<1>2. RingOK /\ [IoNext]_allVars => RingOK'
  BY RingStep
<1>3. RingOK /\ [IoNext]_allVars => [F!FifoNext]_(F!fifoVars)
  BY RingRefines
<1> QED BY <1>1, <1>2, <1>3, PTL DEF IoSpec, IsFifo, F!FifoSpec
-----------------------------------------------------------------------------
(* The inductive invariant: that of the locks, with a thread that is       *)
(* blocked accounted for by a lock or by the queue.                        *)
QRest == /\ Core
         /\ Places /\ Sleepers /\ NobodyForgotten
         /\ status[Main] # "UNBORN"
QInv == RingOK /\ QRest

(* Somebody can run whenever another thread than main has the CPU: main,   *)
(* which never sleeps.                                                     *)
LEMMA MainReady ==
  ASSUME QInv, current # Main
  PROVE  ready # <<>>
<1>1. Main \in Thread /\ io[Main] = "out" /\ pc[Main] = "run"
  BY ThreadAssumption, QueueAssumption DEF QInv, QRest, Places
<1>2. status[Main] # "BLOCKED"
  <2>1. ~ node_find(waiters[QueueLock], Main)
    BY <1>1, QueueAssumption DEF QInv, QRest, Core, Listed, Waiting
  <2>2. consumer # Main /\ producer # Main
    BY <1>1, LockAssumption DEF QInv, QRest, Sleepers, Sleeps
  <2> QED BY <1>1, <2>1, <2>2 DEF QInv, QRest, NobodyForgotten
<1>3. status[Main] = "READY"
  BY <1>1, <1>2 DEF QInv, QRest, Core, TypeOK, SchedTypeOK, Status, Listed
<1>4. Main \in Range(ready)
  BY <1>1, <1>3 DEF QInv, QRest, Core, Listed, node_find
<1> QED BY <1>4, EmptyRange DEF QInv, QRest, Core, TypeOK, SchedTypeOK

(* What thread_block does when somebody is ready.                          *)
LEMMA BlockEffect ==
  ASSUME Core, ready # <<>>, thread_block(FALSE), NEW n, n = Head(ready)
  PROVE  /\ current \in Thread /\ status[current] = "RUNNING"
         /\ n \in Thread /\ n # current /\ status[n] = "READY"
         /\ ready' \in Seq(Thread) /\ Range(ready') = Range(ready) \ {n} /\ IsInjective(ready')
         /\ current' = n
         /\ status' = [status EXCEPT ![current] = "BLOCKED", ![n] = "RUNNING"]
         /\ resume' = [resume EXCEPT ![current] = FALSE]
         /\ intr' = resume[n]
         /\ UNCHANGED <<ticks, halted>>
<1>1. ready \in Seq(Thread) /\ IsInjective(ready) /\ current \in Thread
  BY DEF Core, TypeOK, SchedTypeOK, Listed
<1>2. /\ n \in Thread /\ n \in Range(ready) /\ Tail(ready) \in Seq(Thread)
      /\ Range(Tail(ready)) = Range(ready) \ {n}
      /\ IsInjective(Tail(ready))
  BY <1>1, PopRange
<1>3. n # current /\ status[n] = "READY" /\ status[current] = "RUNNING"
  BY <1>2, CurrentFree DEF Core, Listed, node_find
<1>4. [status EXCEPT ![current] = "BLOCKED"][current] # "RUNNING"
  BY DEF Core, TypeOK, SchedTypeOK
<1>5. [resume EXCEPT ![current] = FALSE][n] = resume[n]
  BY <1>2, <1>3 DEF Core, TypeOK, SchedTypeOK
<1>6. /\ ready' = Tail(ready) /\ current' = n
      /\ status' = [status EXCEPT ![current] = "BLOCKED", ![n] = "RUNNING"]
      /\ resume' = [resume EXCEPT ![current] = FALSE]
      /\ intr' = resume[n]
      /\ UNCHANGED <<ticks, halted>>
  BY <1>4, <1>5 DEF thread_block, schedule
<1> QED BY <1>1, <1>2, <1>3, <1>6

(* A thread that blocks outside the locks, with interrupts off, keeps      *)
(* their invariant.                                                        *)
LEMMA BlockCore ==
  ASSUME Core, ready # <<>>, thread_block(FALSE),
         pc[current] = "run", ~ mode[current], UNCHANGED <<lockVars, clientVars>>
  PROVE  Core'
<1> USE DEF lockVars, clientVars
<1>0. PICK n : n = Head(ready)
  OBVIOUS
<1>1. /\ current \in Thread /\ status[current] = "RUNNING"
      /\ n \in Thread /\ n # current /\ status[n] = "READY"
      /\ ready' \in Seq(Thread) /\ Range(ready') = Range(ready) \ {n} /\ IsInjective(ready')
      /\ current' = n
      /\ status' = [status EXCEPT ![current] = "BLOCKED", ![n] = "RUNNING"]
      /\ resume' = [resume EXCEPT ![current] = FALSE]
      /\ intr' = resume[n]
      /\ UNCHANGED <<ticks, halted>>
  BY <1>0, BlockEffect
<1>2. TypeOK' /\ NoPanic'
  BY <1>1 DEF Core, TypeOK, SchedTypeOK, NoPanic, Status
<1>3. Listed'
  <2>1. \A u \in Thread : status'[u] = "RUNNING" <=> u = current'
    BY <1>1 DEF Core, TypeOK, SchedTypeOK, Listed
  <2>2. \A u \in Thread : status'[u] = "READY" <=> u \in Range(ready')
    BY <1>1 DEF Core, TypeOK, SchedTypeOK, Listed, node_find
  <2>3. \A u \in Thread, k \in Lock : u \in Range(waiters[k])
                                        => Waiting(u, k)' /\ status'[u] = "BLOCKED"
    BY <1>1 DEF Core, TypeOK, SchedTypeOK, Listed, node_find, Waiting
  <2> QED BY <1>1, <2>1, <2>2, <2>3 DEF Core, Listed, node_find
<1>4. MutualExclusion' /\ FreeLocks'
  BY DEF Core, MutualExclusion, FreeLocks, Owns
<1>5. Phases'
  BY DEF Core, Phases
<1>6. NoLostWakeup'
  <2>1. \A u \in Thread, k \in Lock : Waiting(u, k) /\ status[u] # "BLOCKED"
                                        => Waiting(u, k)' /\ status'[u] # "BLOCKED"
    BY <1>1 DEF Core, TypeOK, SchedTypeOK, Waiting
  <2> QED BY <2>1 DEF Core, NoLostWakeup
<1>7. Unborn'
  BY <1>1 DEF Core, TypeOK, SchedTypeOK, Unborn
<1>8. IntrKept'
  BY <1>1 DEF Core, TypeOK, SchedTypeOK, IntrKept
<1>9. OldKept'
  BY DEF Core, OldKept
<1> QED BY <1>2, <1>3, <1>4, <1>5, <1>6, <1>7, <1>8, <1>9 DEF Core

(* So does making such a thread ready.                                     *)
LEMMA UnblockCore ==
  ASSUME Core, NEW w \in Thread, status[w] = "BLOCKED", pc[w] = "run", thread_unblock(w),
         UNCHANGED <<current, ticks, intr, resume, halted, lockVars, clientVars>>
  PROVE  Core'
<1> USE DEF lockVars, clientVars
<1>0. /\ w # current /\ w \notin Range(ready)
      /\ ready \in Seq(Thread) /\ IsInjective(ready)
      /\ \A k \in Lock : w \notin Range(waiters[k])
  BY DEF Core, TypeOK, SchedTypeOK, Listed, node_find, Waiting
<1>1. /\ ready' \in Seq(Thread) /\ Range(ready') = Range(ready) \cup {w} /\ IsInjective(ready')
      /\ status' = [status EXCEPT ![w] = "READY"]
  BY <1>0, PushRange DEF thread_unblock
<1>2. TypeOK' /\ NoPanic'
  BY <1>1 DEF Core, TypeOK, SchedTypeOK, NoPanic, Status
<1>3. Listed'
  <2>1. \A u \in Thread : status'[u] = "RUNNING" <=> u = current'
    BY <1>0, <1>1 DEF Core, TypeOK, SchedTypeOK, Listed
  <2>2. \A u \in Thread : status'[u] = "READY" <=> u \in Range(ready')
    BY <1>0, <1>1 DEF Core, TypeOK, SchedTypeOK, Listed, node_find
  <2>3. \A u \in Thread, k \in Lock : u \in Range(waiters[k])
                                        => Waiting(u, k)' /\ status'[u] = "BLOCKED"
    BY <1>0, <1>1 DEF Core, TypeOK, SchedTypeOK, Listed, node_find, Waiting
  <2> QED BY <1>1, <2>1, <2>2, <2>3 DEF Core, Listed, node_find
<1>4. MutualExclusion' /\ FreeLocks'
  BY DEF Core, MutualExclusion, FreeLocks, Owns
<1>5. Phases' /\ OldKept'
  BY DEF Core, Phases, OldKept
<1>6. NoLostWakeup'
  <2>1. \A u \in Thread, k \in Lock : Waiting(u, k) /\ status[u] # "BLOCKED"
                                        => Waiting(u, k)' /\ status'[u] # "BLOCKED"
    BY <1>1 DEF Core, TypeOK, SchedTypeOK, Waiting
  <2> QED BY <2>1 DEF Core, NoLostWakeup
<1>7. Unborn'
  BY <1>1 DEF Core, TypeOK, SchedTypeOK, Unborn
<1>8. IntrKept'
  BY DEF Core, IntrKept
<1> QED BY <1>2, <1>3, <1>4, <1>5, <1>6, <1>7, <1>8 DEF Core

(* The locks and the scheduler wake nobody who sleeps outside a lock, and  *)
(* no thread returns to being unborn.                                      *)
LetSleep == \A u \in Thread : /\ status'[u] = "UNBORN" => status[u] = "UNBORN"
                              /\ status[u] = "BLOCKED" /\ pc[u] = "run"
                                   => status'[u] = "BLOCKED"

(* What a step of thread t leaves alone of the other threads.              *)
OthersStay(t) == \A u \in Thread \ {t} : /\ pc'[u] = pc[u] /\ depth'[u] = depth[u]
                                         /\ arg'[u] = arg[u] /\ mode'[u] = mode[u]

(* sema_down, whether it takes the semaphore or blocks.                    *)
LEMMA SemaDownLets ==
  ASSUME QInv, NEW t \in Thread, current = t, pc[t] \in {"down", "woken"},
         NEW saved, sema_down(t, saved)
  PROVE  /\ LetSleep /\ OthersStay(t)
         /\ arg' = arg /\ mode' = mode
         /\ \/ pc'[t] = "woken" /\ depth'[t] = 0
            \/ pc'[t] = "own" /\ depth'[t] = 1
<1> USE DEF QInv, QRest, Core, TypeOK, SchedTypeOK
<1>0. depth[t] = 0 /\ arg' = arg /\ mode' = mode /\ arg[t] \in Lock
  BY DEF Phases, sema_down
<1>1. CASE SemaWait(t)
  <2>1. ~ node_find(waiters[arg[t]], t)
    BY <1>0, CurrentFree DEF node_find
  <2>2. thread_block(FALSE) /\ pc' = [pc EXCEPT ![t] = "woken"] /\ depth' = depth
    BY <1>1, <2>1 DEF SemaWait, Goto
  <2>3. current # Main
    BY QueueAssumption DEF Places
  <2>4. PICK n : n = Head(ready)
    OBVIOUS
  <2>5. /\ status[n] = "READY" /\ n \in Thread
        /\ status' = [status EXCEPT ![current] = "BLOCKED", ![n] = "RUNNING"]
    BY <2>2, <2>3, <2>4, BlockEffect, MainReady
  <2>6. LetSleep
    BY <2>5 DEF LetSleep
  <2> QED BY <1>0, <2>2, <2>6 DEF OthersStay
<1>2. CASE SemaTake(t, saved)
  BY <1>0, <1>2 DEF SemaTake, Goto, LetSleep, OthersStay
<1> QED BY <1>1, <1>2 DEF sema_down

(* A step of the locks keeps the places.                                   *)
LEMMA LockStepPlaces ==
  ASSUME QInv, NEW t \in Thread, LockStep(t), UNCHANGED ioVars
  PROVE  Places' /\ LetSleep /\ OthersStay(t)
<1>a. holder[arg[t]] = t /\ arg[t] \in Lock => depth[t] > 0
  BY HolderOwner, LockAssumption DEF QInv, QRest, HolderIsOwner, Owns
<1> USE LockAssumption DEF QInv, QRest, Core, TypeOK, SchedTypeOK, At, Goto, schedVars, lockVars, ioVars
<1>0. current = t /\ arg[t] \in Lock
  BY DEF LockStep, TestHolder, AcquireAgain, SemaDown, SemaWoken, SetHolder, FirstRepeat,
         ReleaseHolder, ClearRepeat, sema_up
<1>1. ASSUME LetSleep, OthersStay(t), arg' = arg, mode' = mode,
             pc[t] # "run" /\ pc'[t] # "again" /\ pc'[t] # "acquire" /\ depth'[t] \in 0..1,
             pc'[t] = "run" => depth'[t] = IF io[t] \in {"out", "get", "put"} THEN 0 ELSE 1,
             depth'[t] = 1 \/ pc'[t] \in {"down", "woken"} => arg[t] = QueueLock,
             pc'[t] \in {"down", "woken", "own", "first"} => io[t] \in {"getwait", "putwait"},
             pc'[t] \in {"release", "clear", "up"} => io[t] \in {"get", "put"}
      PROVE  Places'
  <2> SUFFICES ASSUME NEW u \in Thread PROVE Places!(u)'
    BY DEF Places
  <2>1. CASE u = t
    BY <1>1, <2>1 DEF Places, LetSleep
  <2>2. CASE u # t
    BY <1>1, <2>2 DEF Places, LetSleep, OthersStay
  <2> QED BY <2>1, <2>2
<1>2. CASE TestHolder(t)
  <2>1. depth[t] = 0 /\ pc[t] = "acquire"
    BY <1>2 DEF TestHolder, Places
  <2>2. holder[arg[t]] # t
    BY <1>0, <1>a, <2>1
  <2>3. pc' = [pc EXCEPT ![t] = "down"] /\ UNCHANGED <<status, depth, arg, mode>>
    BY <1>2, <2>2 DEF TestHolder
  <2>4. LetSleep /\ OthersStay(t)
    BY <2>3 DEF LetSleep, OthersStay
  <2> QED BY <1>1, <2>1, <2>3, <2>4 DEF Places
<1>3. CASE AcquireAgain(t)
  BY <1>3 DEF AcquireAgain, Places
<1>4. ASSUME NEW saved, pc[t] \in {"down", "woken"}, sema_down(t, saved)
      PROVE  Places' /\ LetSleep /\ OthersStay(t)
  <2>1. /\ LetSleep /\ OthersStay(t) /\ arg' = arg /\ mode' = mode
        /\ \/ pc'[t] = "woken" /\ depth'[t] = 0
           \/ pc'[t] = "own" /\ depth'[t] = 1
    BY <1>0, <1>4, SemaDownLets
  <2> QED BY <1>1, <1>4, <2>1 DEF Places
<1>5. CASE SetHolder(t)
  <2>1. depth[t] = 1 /\ pc[t] = "own"
    BY <1>5 DEF SetHolder, Phases
  <2>2. pc' = [pc EXCEPT ![t] = "first"] /\ UNCHANGED <<status, depth, arg, mode>>
    BY <1>5 DEF SetHolder
  <2>3. LetSleep /\ OthersStay(t)
    BY <2>2 DEF LetSleep, OthersStay
  <2> QED BY <1>1, <2>1, <2>2, <2>3 DEF Places
<1>6. CASE FirstRepeat(t)
  <2>1. depth[t] = 1 /\ pc[t] = "first" /\ repeat[arg[t]] = 0
    BY <1>6 DEF FirstRepeat, Phases
  <2>2. pc' = [pc EXCEPT ![t] = "run"] /\ UNCHANGED <<status, depth, arg, mode>>
    BY <1>6, <2>1 DEF FirstRepeat
  <2>3. LetSleep /\ OthersStay(t)
    BY <2>2 DEF LetSleep, OthersStay
  <2> QED BY <1>1, <2>1, <2>2, <2>3 DEF Places
<1>7. CASE ReleaseHolder(t)
  <2>1. pc[t] = "release" /\ depth[t] = 1 /\ repeat[arg[t]] = 1 /\ holder[arg[t]] = t
    BY <1>7 DEF ReleaseHolder, Phases, Places
  <2>2. pc' = [pc EXCEPT ![t] = "clear"] /\ UNCHANGED <<status, depth, arg, mode>>
    BY <1>7, <2>1 DEF ReleaseHolder
  <2>3. LetSleep /\ OthersStay(t)
    BY <2>2 DEF LetSleep, OthersStay
  <2> QED BY <1>1, <2>1, <2>2, <2>3 DEF Places
<1>8. CASE ClearRepeat(t)
  <2>1. pc[t] = "clear" /\ depth[t] = 1
    BY <1>8 DEF ClearRepeat, Phases
  <2>2. pc' = [pc EXCEPT ![t] = "up"] /\ UNCHANGED <<status, depth, arg, mode>>
    BY <1>8 DEF ClearRepeat
  <2>3. LetSleep /\ OthersStay(t)
    BY <2>2 DEF LetSleep, OthersStay
  <2> QED BY <1>1, <2>1, <2>2, <2>3 DEF Places
<1>9. CASE sema_up(t)
  <2>1. pc[t] = "up"
    BY <1>9 DEF sema_up
  <2>2. /\ value[arg[t]] = 0
        /\ waiters[arg[t]] # <<>> => /\ Head(waiters[arg[t]]) \in Thread
                                     /\ CanUnblock(Head(waiters[arg[t]]))
                                     /\ pc[Head(waiters[arg[t]])] = "woken"
    <3>1. depth[t] = 1
      BY <2>1 DEF Phases
    <3>2. value[arg[t]] = 0
      BY <1>0, <3>1 DEF MutualExclusion, Owns
    <3>3. ASSUME waiters[arg[t]] # <<>>
          PROVE  /\ Head(waiters[arg[t]]) \in Thread
                 /\ Head(waiters[arg[t]]) \in Range(waiters[arg[t]])
      <4>1. waiters[arg[t]] \in Seq(Thread) /\ IsInjective(waiters[arg[t]])
        BY <1>0 DEF Listed
      <4> QED BY <3>3, <4>1, PopRange
    <3>4. ASSUME waiters[arg[t]] # <<>>
          PROVE  /\ status[Head(waiters[arg[t]])] = "BLOCKED"
                 /\ pc[Head(waiters[arg[t]])] = "woken"
                 /\ ~ node_find(ready, Head(waiters[arg[t]]))
      BY <1>0, <3>3, <3>4 DEF Listed, node_find, Waiting
    <3> QED BY <3>2, <3>3, <3>4 DEF CanUnblock
  <2>3. /\ pc' = [pc EXCEPT ![t] = "run"] /\ depth' = [depth EXCEPT ![t] = 0]
        /\ UNCHANGED <<arg, mode>>
        /\ \/ UNCHANGED status
           \/ /\ waiters[arg[t]] # <<>>
              /\ status' = [status EXCEPT ![Head(waiters[arg[t]])] = "READY"]
    BY <1>9, <2>2 DEF sema_up, thread_unblock
  <2>4. LetSleep /\ OthersStay(t)
    BY <2>2, <2>3 DEF LetSleep, OthersStay
  <2> QED BY <1>1, <2>1, <2>3, <2>4 DEF Places
<1> QED BY <1>2, <1>3, <1>4, <1>5, <1>6, <1>7, <1>8, <1>9 DEF LockStep, SemaDown, SemaWoken

(* A step that keeps the places and the locks' invariant, wakes nobody who *)
(* sleeps in ioq_wait and does not touch what the queue remembers, keeps   *)
(* the rest.                                                               *)
LEMMA QueueKept ==
  ASSUME QInv, Core', Places', StillFound, LetSleep, UNCHANGED <<consumer, producer>>,
         \A u \in Thread : status[u] = "BLOCKED" => pc'[u] = pc[u] /\ io'[u] = io[u]
  PROVE  QRest'
<1>1. Sleepers'
  BY DEF QInv, QRest, Sleepers, Sleeps, LetSleep
<1>2. NobodyForgotten'
  <2> SUFFICES ASSUME NEW u \in Thread, status'[u] = "BLOCKED",
                      ~ node_find(waiters'[QueueLock], u)
               PROVE  consumer = u \/ producer = u
    BY DEF NobodyForgotten
  <2>1. ASSUME NEW l \in Lock, node_find(waiters'[l], u) PROVE FALSE
    <3>1. arg'[u] = l /\ pc'[u] = "woken"
      BY <2>1 DEF Core, Listed, Waiting
    <3>2. arg'[u] = QueueLock
      BY <3>1 DEF Places
    <3> QED BY <2>1, <3>1, <3>2
  <2>2. status[u] = "BLOCKED" /\ \A l \in Lock : ~ node_find(waiters[l], u)
    BY <2>1 DEF StillFound
  <2> QED BY <2>2, QueueAssumption DEF QInv, QRest, NobodyForgotten
<1>3. status'[Main] # "UNBORN"
  BY ThreadAssumption DEF QInv, QRest, LetSleep
<1> QED BY <1>1, <1>2, <1>3 DEF QRest

(* A step of the locks.                                                    *)
LEMMA LockStepQueue ==
  ASSUME QInv, NEW t \in Thread, LockStep(t), UNCHANGED ioVars
  PROVE  QRest'
<1>1. Places' /\ LetSleep /\ OthersStay(t)
  BY LockStepPlaces
<1>2. current = t /\ status[t] # "BLOCKED"
  BY CurrentFree DEF QInv, QRest, LockStep, TestHolder, AcquireAgain, SemaDown, SemaWoken, SetHolder,
     FirstRepeat, ReleaseHolder, ClearRepeat, sema_up, At
<1>3. pc[t] \in {"down", "woken"} => ready # <<>>
  <2>1. pc[t] \in {"down", "woken"} => t # Main
    BY QueueAssumption DEF QInv, QRest, Places
  <2> QED BY <1>2, <2>1, MainReady
<1>4. Core' /\ StillFound
  BY <1>3, LockStepCore DEF QInv, QRest
<1> QED BY <1>1, <1>2, <1>4, QueueKept DEF OthersStay, ioVars

(* The timer.                                                              *)
LEMMA TimerQueue ==
  ASSUME QInv, Timer, UNCHANGED ioVars
  PROVE  QRest'
<1> USE DEF ioVars, lockVars, clientVars
<1>1. Core' /\ StillFound
  BY TimerStep DEF QInv, QRest
<1>2. UNCHANGED <<pc, arg, depth, mode, io, consumer, producer>>
  BY DEF Timer
<1>3. LetSleep
  <2>0. /\ status[current] = "RUNNING" /\ current \in Thread /\ status \in [Thread -> Status]
        /\ ready \in Seq(Thread) /\ IsInjective(ready) /\ current \notin Range(ready)
        /\ \A u \in Thread : u \in Range(ready) => status[u] = "READY"
    BY CurrentFree DEF QInv, QRest, Core, TypeOK, SchedTypeOK, Listed, node_find
  <2>1. CASE ticks[current] = 0
    <3> DEFINE q == list_append(ready, current)
               n == Head(q)
    <3>1. /\ q \in Seq(Thread) /\ q # <<>> /\ IsInjective(q)
          /\ Range(q) = Range(ready) \cup {current}
      BY <2>0, AppendRange
    <3>2. n \in Thread /\ n \in Range(q)
      BY <3>1, PopRange
    <3>3. status' = [status EXCEPT ![current] = "READY", ![n] = "RUNNING"]
      BY <2>0, <2>1, <3>1 DEF Timer, intr_timer_handler, schedule, node_find
    <3>4. n = current \/ status[n] = "READY"
      BY <2>0, <3>1, <3>2
    <3> HIDE DEF n
    <3> QED BY <2>0, <3>2, <3>3, <3>4 DEF LetSleep
  <2>2. CASE ticks[current] # 0
    BY <2>2 DEF Timer, intr_timer_handler, LetSleep
  <2> QED BY <2>1, <2>2
<1>4. Places'
  BY <1>2, <1>3 DEF QInv, QRest, Places, LetSleep
<1> QED BY <1>1, <1>2, <1>3, <1>4, QueueKept

(* A step of the running thread that changes neither statuses nor waiters. *)
LEMMA QuietQueue ==
  ASSUME QInv, Core', NEW t \in Thread, current = t, OthersStay(t),
         UNCHANGED <<status, waiters, consumer, producer>>,
         \A u \in Thread \ {t} : io'[u] = io[u],
         Places!(t)'
  PROVE  QRest'
<1>1. LetSleep /\ StillFound
  BY QuietFound DEF LetSleep
<1>2. status[t] # "BLOCKED"
  BY CurrentFree DEF QInv, QRest
<1>3. Places'
  <2> SUFFICES ASSUME NEW u \in Thread PROVE Places!(u)'
    BY DEF Places
  <2>1. CASE u # t
    BY <2>1 DEF QInv, QRest, Places, OthersStay
  <2> QED BY <2>1
<1> QED BY <1>1, <1>2, <1>3, QueueKept DEF OthersStay

(* The call of lock_acquire.                                               *)
LEMMA LockQueueStep ==
  ASSUME QInv, NEW t \in Thread, NEW label \in {"getwait", "putwait"},
         At(t, "run"), io[t] \in {"get", "put"}, LockQueue(t, label)
  PROVE  QRest'
<1> USE DEF At, LockQueue, Goto, IoGoto, schedVars, lockVars
<1>1. depth[t] = 0 /\ current = t /\ pc[t] = "run"
  BY DEF QInv, QRest, Places
<1>2. CallAcquire(t, QueueLock)
  BY <1>1, LockAssumption DEF CallAcquire
<1>3. Core'
  BY <1>2, CallAcquireStep, QueueAssumption DEF QInv, QRest
<1>4. OthersStay(t)
  BY DEF QInv, QRest, Core, TypeOK, OthersStay
<1>5. \A u \in Thread \ {t} : io'[u] = io[u]
  BY DEF QInv, RingOK
<1>6. /\ pc'[t] = "acquire" /\ io'[t] = label /\ arg'[t] = QueueLock
      /\ UNCHANGED <<depth, mode, status>>
  BY DEF QInv, QRest, Core, TypeOK, RingOK
<1>7. Places!(t)'
  BY <1>1, <1>6 DEF QInv, QRest, Places
<1> QED BY <1>1, <1>3, <1>4, <1>5, <1>7, QuietQueue

(* The call of lock_release.                                               *)
LEMMA WokenStep ==
  ASSUME QInv, NEW t \in Thread, NEW label \in {"get", "put"},
         io[t] \in {"getwoken", "putwoken"}, CallRelease(t), IoGoto(t, label),
         UNCHANGED <<consumer, producer>>
  PROVE  QRest'
<1> USE DEF At, CallRelease, Goto, IoGoto, schedVars, lockVars
<1>1. depth[t] = 1 /\ current = t /\ pc[t] = "run"
  BY DEF QInv, QRest, Places
<1>3. Core'
  BY CallReleaseStep DEF QInv, QRest
<1>4. OthersStay(t)
  BY DEF QInv, QRest, Core, TypeOK, OthersStay
<1>5. \A u \in Thread \ {t} : io'[u] = io[u]
  BY DEF QInv, RingOK
<1>6. /\ pc'[t] = "release" /\ io'[t] = label
      /\ UNCHANGED <<arg, depth, mode, status>>
  BY DEF QInv, QRest, Core, TypeOK, RingOK
<1>7. Places!(t)'
  BY <1>1, <1>6 DEF QInv, QRest, Places
<1> QED BY <1>1, <1>3, <1>4, <1>5, <1>7, QuietQueue

(* Client code turns interrupts off to call the queue,                     *)
LEMMA CallStep ==
  ASSUME QInv, NEW t \in Consumer \cup Producer, NEW label \in {"get", "put"},
         io[t] = "out", EnterNoIntr(t), IoGoto(t, label), UNCHANGED <<consumer, producer>>
  PROVE  QRest'
<1> USE DEF At, EnterNoIntr, IoGoto, lockVars
<1>0. t \in Thread
  BY QueueAssumption
<1>1. depth[t] = 0 /\ current = t /\ pc[t] = "run" /\ status[t] = "RUNNING"
  BY CurrentFree DEF QInv, QRest, Places
<1>3. Core'
  BY <1>0, EnterNoIntrStep DEF QInv, QRest
<1>4. OthersStay(t)
  BY DEF QInv, QRest, Core, TypeOK, OthersStay
<1>5. \A u \in Thread \ {t} : io'[u] = io[u]
  BY DEF QInv, RingOK
<1>6. /\ mode'[t] = FALSE /\ io'[t] = label
      /\ UNCHANGED <<arg, depth, pc, status>>
  BY <1>0 DEF QInv, QRest, Core, TypeOK, RingOK
<1>7. Places!(t)'
  BY <1>0, <1>1, <1>6 DEF QInv, QRest, Places
<1> QED BY <1>0, <1>1, <1>3, <1>4, <1>5, <1>7, QuietQueue

(* and on again.                                                           *)
LEMMA LeaveStep ==
  ASSUME QInv, NEW t \in Thread, Leave(t)
  PROVE  QRest'
<1> USE DEF At, Leave, LeaveNoIntr, ioVars, lockVars
<1>3. Core'
  BY LeaveNoIntrStep DEF QInv, QRest
<1>4. OthersStay(t)
  BY DEF QInv, QRest, Core, TypeOK, OthersStay
<1>7. Places!(t)'
  BY DEF QInv, QRest, Places
<1> QED BY <1>3, <1>4, <1>7, QuietQueue

(* A new thread.                                                           *)
LEMMA StartStep ==
  ASSUME QInv, NEW t \in Thread, NEW u \in Thread, Start(t, u)
  PROVE  QRest'
<1> USE DEF ioVars, lockVars, clientVars
<1>1. Core' /\ StillFound
  BY StartThreadStep DEF QInv, QRest, Start
<1>2. UNCHANGED <<pc, arg, depth, mode, io, consumer, producer>>
  BY DEF Start, StartThread
<1>3. LetSleep
  BY DEF QInv, QRest, Core, TypeOK, SchedTypeOK, Start, StartThread, thread_start, panic_spin, LetSleep
<1>4. Places'
  BY <1>2, <1>3 DEF QInv, QRest, Places, LetSleep
<1> QED BY <1>1, <1>2, <1>3, <1>4, QueueKept

(* ioq_wait: the thread that holds the lock is the only one that can wait, *)
(* so the queue remembers nobody yet, and it is remembered from now on.    *)
LEMMA NobodySleeps ==
  ASSUME QInv, NEW t \in Thread, current = t, pc[t] = "run",
         io[t] \in {"getwait", "putwait"}
  PROVE  consumer = NoThread /\ producer = NoThread
<1>1. Owns(t, QueueLock) /\ status[t] # "BLOCKED"
  BY CurrentFree DEF QInv, QRest, Places, Owns
<1>2. ASSUME NEW u \in Thread, NEW label \in {"getwoken", "putwoken"}, Sleeps(u, label)
      PROVE  FALSE
  <2>1. depth[u] = 1 /\ u # t
    BY <1>1, <1>2 DEF QInv, QRest, Places, Sleeps
  <2>2. Owns(u, QueueLock)
    BY <2>1 DEF QInv, QRest, Places, Owns
  <2> QED BY <1>1, <2>1, <2>2, QueueAssumption DEF QInv, QRest, Core, MutualExclusion
<1> QED BY <1>2 DEF QInv, QRest, Sleepers, Sleeps

(* ioq_wait: the thread goes to sleep and the queue remembers it.          *)
LEMMA WaitStep ==
  ASSUME QInv, NEW t \in Thread, current = t, pc[t] = "run", ~ halted,
         NEW label \in {"getwoken", "putwoken"},
         io[t] = IF label = "getwoken" THEN "getwait" ELSE "putwait",
         thread_block(FALSE), IoGoto(t, label), UNCHANGED <<lockVars, clientVars>>,
         consumer' = IF label = "getwoken" THEN t ELSE NoThread,
         producer' = IF label = "getwoken" THEN NoThread ELSE t
  PROVE  QRest'
<1> USE DEF lockVars, clientVars
<1>1. consumer = NoThread /\ producer = NoThread
  BY NobodySleeps
<1>2. t # Main /\ ~ mode[t]
  BY QueueAssumption DEF QInv, QRest, Places
<1>3. ready # <<>>
  BY <1>2, MainReady
<1>4. Core'
  BY <1>2, <1>3, BlockCore DEF QInv, QRest
<1>5. PICK n : n = Head(ready)
  OBVIOUS
<1>6. /\ status[t] = "RUNNING" /\ n \in Thread /\ n # t /\ status[n] = "READY"
      /\ status' = [status EXCEPT ![t] = "BLOCKED", ![n] = "RUNNING"]
  BY <1>3, <1>5, BlockEffect DEF QInv, QRest
<1>7. io'[t] = label /\ \A u \in Thread \ {t} : io'[u] = io[u]
  BY DEF QInv, RingOK, IoGoto
<1>8. /\ status'[t] = "BLOCKED" /\ status'[n] = "RUNNING"
      /\ \A u \in Thread \ {t, n} : status'[u] = status[u]
  BY <1>6 DEF QInv, QRest, Core, TypeOK, SchedTypeOK
<1>9. Places'
  <2> SUFFICES ASSUME NEW u \in Thread PROVE Places!(u)'
    BY DEF Places
  <2>1. CASE u = t
    BY <1>7, <1>8, <2>1 DEF QInv, QRest, Places
  <2>2. CASE u # t
    <3>1. status'[u] = "UNBORN" => status[u] = "UNBORN"
      BY <1>8, <2>2
    <3> QED BY <1>7, <2>2, <3>1 DEF QInv, QRest, Places
  <2> QED BY <2>1, <2>2
<1>10. Sleepers'
  BY <1>7, <1>8, LockAssumption DEF Sleepers, Sleeps
<1>11. NobodyForgotten'
  BY <1>1, <1>8, LockAssumption DEF QInv, QRest, NobodyForgotten
<1>12. status'[Main] # "UNBORN"
  BY <1>8, ThreadAssumption DEF QInv, QRest
<1> QED BY <1>4, <1>9, <1>10, <1>11, <1>12 DEF QRest

(* What the queue remembers can be woken: the assertions of                *)
(* thread_unblock hold.                                                    *)
LEMMA Wakeable ==
  ASSUME QInv
  PROVE  /\ consumer # NoThread => CanUnblock(consumer)
         /\ producer # NoThread => CanUnblock(producer)
BY DEF QInv, QRest, Core, Listed, Sleepers, Sleeps, CanUnblock

(* The end of ioq_getchar and of ioq_putchar: the sleeper, if there is     *)
(* one, is woken and forgotten.                                            *)
Wakes(w) ==
  /\ wakeup(w)
  /\ UNCHANGED <<current, ticks, intr, resume, halted, lockVars, clientVars>>
  /\ \/ w = consumer /\ consumer' = NoThread /\ producer' = producer
     \/ w = producer /\ producer' = NoThread /\ consumer' = consumer

(* wakeup: the thread that the queue remembers becomes ready and is        *)
(* forgotten.                                                              *)
LEMMA WakeStep ==
  ASSUME QInv, NEW w, Wakes(w),
         \/ UNCHANGED io
         \/ \E t \in Thread : current = t /\ pc[t] = "run" /\ io[t] \in {"get", "put"}
                                /\ IoGoto(t, "out")
  PROVE  QRest'
<1> USE DEF Wakes, lockVars, clientVars
<1>0. \A u \in Thread : \/ io'[u] = io[u]
                        \/ u = current /\ pc[u] = "run" /\ depth[u] = 0 /\ io'[u] = "out"
  BY DEF QInv, QRest, RingOK, Places, IoGoto
<1>1. CASE w = NoThread
  <2>1. UNCHANGED vars /\ UNCHANGED <<consumer, producer>>
    BY <1>1 DEF wakeup, vars, schedVars
  <2>2. Core' /\ StillFound
    BY <2>1, StutterCore DEF QInv, QRest
  <2>3. LetSleep
    BY <2>1 DEF LetSleep, vars, schedVars
  <2>4. Places'
    BY <1>0, <2>1 DEF QInv, QRest, Places, vars, schedVars
  <2>5. \A u \in Thread : status[u] = "BLOCKED" => pc'[u] = pc[u] /\ io'[u] = io[u]
    BY <1>0, CurrentFree DEF QInv, QRest
  <2> QED BY <2>1, <2>2, <2>3, <2>4, <2>5, QueueKept
<1>2. CASE w # NoThread
  <2>1. w \in Thread /\ status[w] = "BLOCKED" /\ pc[w] = "run" /\ io[w] # "out"
    BY <1>2 DEF QInv, QRest, Sleepers, Sleeps
  <2>2. thread_unblock(w)
    BY <1>2 DEF wakeup
  <2>3. Core'
    BY <2>1, <2>2, UnblockCore DEF QInv, QRest
  <2>4. \A u \in Thread : status'[u] = IF u = w THEN "READY" ELSE status[u]
    BY <2>2 DEF thread_unblock, QInv, QRest, Core, TypeOK, SchedTypeOK
  <2>5. Places'
    BY <1>0, <2>4 DEF QInv, QRest, Places
  <2>6. status[current] # "BLOCKED"
    BY CurrentFree DEF QInv, QRest
  <2>7. Sleepers'
    <3>1. consumer # NoThread => consumer # producer
      BY DEF QInv, QRest, Sleepers, Sleeps
    <3> QED BY <1>0, <2>4, <2>6, <3>1 DEF QInv, QRest, Sleepers, Sleeps
  <2>8. NobodyForgotten'
    BY <2>4 DEF QInv, QRest, NobodyForgotten
  <2>9. status'[Main] # "UNBORN"
    BY <2>4, ThreadAssumption DEF QInv, QRest
  <2> QED BY <2>3, <2>5, <2>7, <2>8, <2>9 DEF QRest
<1> QED BY <1>1, <1>2

(* The functions test the ring with interrupts off.                        *)
LEMMA FlagClear ==
  ASSUME QInv, NEW t \in Thread, current = t, io[t] # "out"
  PROVE  ~ intr
BY DEF QInv, QRest, Core, IntrKept, Places

(* The invariant holds when only main runs and the queue is empty.         *)
LEMMA QInvInit == IoInit => QInv
<1> SUFFICES ASSUME IoInit PROVE QInv
  OBVIOUS
<1>1. RingOK
  BY RingInit
<1>2. Core
  BY InitCore DEF IoInit
<1>3. Places
  BY DEF IoInit, Init, Places
<1>4. Sleepers /\ NobodyForgotten /\ status[Main] # "UNBORN"
  BY ThreadAssumption DEF IoInit, ioqueue_init, Init, SchedInit, Sleepers, NobodyForgotten
<1> QED BY <1>1, <1>2, <1>3, <1>4 DEF QInv, QRest

(* Every step of every thread, of the timer and of the keyboard keeps it.  *)
LEMMA QInvNext == QInv /\ [IoNext]_allVars => QInv'
<1> SUFFICES ASSUME QInv, [IoNext]_allVars PROVE QInv'
  OBVIOUS
<1>1. RingOK'
  BY RingStep DEF QInv
<1>2. QRest'
  <2>1. CASE Timer /\ UNCHANGED ioVars
    BY <2>1, TimerQueue
  <2>2. ASSUME NEW b \in Byte, KeyPressed(b) PROVE QRest'
    <3>1. StoreByte(b) /\ UNCHANGED <<current, ticks, intr, resume, halted, lockVars, clientVars, io>>
      BY <2>2, Wakeable DEF KeyPressed
    <3>2. Wakes(consumer)
      BY <3>1 DEF StoreByte, Wakes
    <3> QED BY <3>1, <3>2, WakeStep
  <2>3. ASSUME NEW t \in Thread, QueueStep(t) PROVE QRest'
    <3>1. CASE GetTest(t)
      <4>1. current = t /\ pc[t] = "run" /\ io[t] = "get" /\ At(t, "run")
        BY <3>1 DEF GetTest, IoAt, At
      <4>2. ~ intr
        BY <4>1, FlagClear
      <4>3. CASE LockQueue(t, "getwait")
        BY <4>1, <4>3, LockQueueStep
      <4>4. CASE /\ TakeByte /\ IoGoto(t, "out")
                 /\ UNCHANGED <<current, ticks, intr, resume, halted, lockVars, clientVars>>
        <5>1. Wakes(producer)
          BY <4>4 DEF TakeByte, Wakes
        <5> QED BY <4>1, <4>4, <5>1, WakeStep
      <4> QED BY <3>1, <4>2, <4>3, <4>4, Wakeable DEF GetTest
    <3>2. CASE PutTest(t)
      <4>1. current = t /\ pc[t] = "run" /\ io[t] = "put" /\ At(t, "run")
        BY <3>2 DEF PutTest, IoAt, At
      <4>2. ~ intr
        BY <4>1, FlagClear
      <4>3. CASE LockQueue(t, "putwait")
        BY <4>1, <4>3, LockQueueStep
      <4>4. CASE /\ StoreByte(byte[t]) /\ IoGoto(t, "out")
                 /\ UNCHANGED <<current, ticks, intr, resume, halted, lockVars, clientVars>>
        <5>1. Wakes(consumer)
          BY <4>4 DEF StoreByte, Wakes
        <5> QED BY <4>1, <4>4, <5>1, WakeStep
      <4> QED BY <3>2, <4>2, <4>3, <4>4, Wakeable DEF PutTest
    <3>3. CASE GetWait(t)
      <4>1. current = t /\ pc[t] = "run" /\ ~ halted /\ io[t] = "getwait"
        BY <3>3 DEF GetWait, IoAt, At
      <4>2. consumer = NoThread /\ producer = NoThread
        BY <4>1, NobodySleeps
      <4> QED BY <3>3, <4>1, <4>2, WaitStep DEF GetWait
    <3>4. CASE PutWait(t)
      <4>1. current = t /\ pc[t] = "run" /\ ~ halted /\ io[t] = "putwait"
        BY <3>4 DEF PutWait, IoAt, At
      <4>2. consumer = NoThread /\ producer = NoThread
        BY <4>1, NobodySleeps
      <4> QED BY <3>4, <4>1, <4>2, WaitStep DEF PutWait
    <3>5. CASE GetWoken(t)
      BY <3>5, WokenStep DEF GetWoken
    <3>6. CASE PutWoken(t)
      BY <3>6, WokenStep DEF PutWoken
    <3>7. CASE LockStep(t) /\ UNCHANGED ioVars
      BY <3>7, LockStepQueue
    <3> QED BY <2>3, <3>1, <3>2, <3>3, <3>4, <3>5, <3>6, <3>7 DEF QueueStep
  <2>4. ASSUME NEW t \in Thread, CallGet(t) PROVE QRest'
    BY <2>4, CallStep DEF CallGet
  <2>5. ASSUME NEW t \in Thread, NEW b \in Byte, CallPut(t, b) PROVE QRest'
    BY <2>5, CallStep DEF CallPut
  <2>6. ASSUME NEW t \in Thread, Leave(t) PROVE QRest'
    BY <2>6, LeaveStep
  <2>7. ASSUME NEW t \in Thread, NEW u \in Thread, Start(t, u) PROVE QRest'
    BY <2>7, StartStep
  <2>8. CASE UNCHANGED allVars
    <3> USE <2>8 DEF allVars, ioVars, ringVars
    <3>1. Core' /\ StillFound
      BY StutterCore DEF QInv, QRest
    <3>2. LetSleep /\ UNCHANGED <<pc, io>>
      BY DEF LetSleep, vars, schedVars, clientVars
    <3>3. Places'
      BY DEF QInv, QRest, Places, vars, schedVars, clientVars
    <3> QED BY <3>1, <3>2, <3>3, QueueKept
  <2> QED BY <2>1, <2>2, <2>3, <2>4, <2>5, <2>6, <2>7, <2>8 DEF IoNext
<1> QED BY <1>1, <1>2 DEF QInv

(* The inductive invariant of the queue holds in every reachable state.    *)
THEOREM QueueInvariance == IoSpec => []QInv
BY QInvInit, QInvNext, PTL DEF IoSpec

(* ioq_wait, wakeup and the waiters of the queue's lock lose no sleeper,   *)
(* for any number of readers and writers.                                  *)
THEOREM SleepersRemembered == IoSpec => []NobodyForgotten
<1>1. QInv => NobodyForgotten
  BY DEF QInv, QRest
<1> QED BY <1>1, QueueInvariance, PTL

(* No assertion of ioqueue.c, sync.c and thread.c fails under the queue:   *)
(* there is never a second sleeper, and main is left to run.               *)
THEOREM QueueNeverPanics == IoSpec => []QueueNoPanic
<1>1. QInv => QueueNoPanic
  BY DEF QInv, QRest, Core, NoPanic, QueueNoPanic
<1> QED BY <1>1, QueueInvariance, PTL
-----------------------------------------------------------------------------
(* One reader and no writer but the keyboard, as in the kernel.  The       *)
(* reader finds the lock free, so it keeps the CPU from the test of the    *)
(* ring to ioq_wait, and what it saw is still true.                        *)
OneReader == Producer = {} /\ \A c, d \in Consumer : c = d

ReaderInv ==
  /\ producer = NoThread
  /\ consumer # NoThread => ioq_empty
  /\ \A t \in Thread : /\ io[t] \in {"out", "get", "getwait", "getwoken"}
                       /\ io[t] = "getwait" => current = t /\ ioq_empty

(* A step that does not change the ring keeps this if it neither takes the *)
(* CPU away from the reader nor lets one into ioq_wait's place.            *)
LEMMA ReaderKept ==
  ASSUME ReaderInv, UNCHANGED <<head, tail, consumer, producer>>,
         \A t \in Thread : /\ io'[t] \in {"out", "get", "getwait", "getwoken"}
                           /\ io'[t] = "getwait" => io[t] = "getwait" /\ current' = current
  PROVE  ReaderInv'
BY DEF ReaderInv, ioq_empty

(* The lock is free when the reader wants it.                              *)
LEMMA ReaderKeepsCpu ==
  ASSUME OneReader, QInv, ReaderInv, NEW t \in Thread, LockStep(t), io[t] = "getwait"
  PROVE  current' = current
<1> USE DEF At, schedVars
<1>1. ASSUME NEW saved, sema_down(t, saved), pc[t] \in {"down", "woken"}
      PROVE  current' = current
  <2>1. arg[t] = QueueLock /\ depth[t] = 0 /\ t \in Consumer
    BY <1>1 DEF OneReader, QInv, QRest, Places, Core, Phases
  <2>2. ASSUME NEW u \in Thread, Owns(u, QueueLock) PROVE FALSE
    <3>1. depth[u] > 0
      BY <2>2 DEF Owns
    <3>2. io[u] # "out"
      BY <3>1 DEF QInv, QRest, Places
    <3>3. u = t
      BY <2>1, <3>2 DEF OneReader, QInv, QRest, Places
    <3> QED BY <2>1, <3>1, <3>3
  <2>3. value[arg[t]] = 1
    BY <2>1, <2>2, QueueAssumption DEF QInv, QRest, Core, MutualExclusion
  <2>4. SemaTake(t, saved)
    BY <1>1, <2>3 DEF sema_down
  <2> QED BY <2>4 DEF SemaTake
<1>2. CASE SemaDown(t) \/ SemaWoken(t)
  BY <1>1, <1>2 DEF SemaDown, SemaWoken
<1> QED BY <1>2 DEF LockStep, TestHolder, AcquireAgain, SetHolder, FirstRepeat, ReleaseHolder,
           ClearRepeat, sema_up, panic_spin

(* Every step keeps it while nobody else reads or writes.                  *)
LEMMA ReaderNext ==
  ASSUME OneReader, QInv, QInv', ReaderInv, [IoNext]_allVars
  PROVE  ReaderInv'
<1> USE DEF ioVars, ringVars
<1>1. ASSUME intr PROVE \A t \in Thread : io[t] # "getwait"
  BY <1>1, FlagClear DEF ReaderInv
<1>2. CASE Timer /\ UNCHANGED ioVars
  <2>1. intr
    BY <1>2 DEF Timer, intr_timer_handler
  <2> QED BY <1>1, <1>2, <2>1, ReaderKept DEF ReaderInv
<1>3. ASSUME NEW b \in Byte, KeyPressed(b) PROVE ReaderInv'
  <2>1. intr
    BY <1>3 DEF KeyPressed
  <2>2. StoreByte(b) /\ UNCHANGED io
    BY <1>3, Wakeable DEF KeyPressed
  <2>3. consumer' = NoThread /\ producer' = producer
    BY <2>2 DEF StoreByte
  <2> QED BY <1>1, <2>1, <2>2, <2>3 DEF ReaderInv
<1>4. ASSUME NEW t \in Thread, NEW u \in Thread, io[t] # "out", io[u] # "out" PROVE t = u
  BY <1>4 DEF OneReader, QInv, QRest, Places
<1>5. ASSUME NEW t \in Thread, GetTest(t) PROVE ReaderInv'
  <2>1. current = t /\ io[t] = "get" /\ status[t] # "BLOCKED"
    BY <1>5, CurrentFree DEF GetTest, IoAt, At, QInv, QRest
  <2>2. ~ intr
    BY <2>1, FlagClear
  <2>3. \A u \in Thread \ {t} : io[u] = "out"
    BY <1>4, <2>1
  <2>4. consumer = NoThread
    BY <2>1, <2>3 DEF QInv, QRest, Sleepers, Sleeps
  <2>5. CASE LockQueue(t, "getwait") /\ ioq_empty
    <3>1. /\ UNCHANGED <<head, tail, current, consumer, producer>>
          /\ io' = [io EXCEPT ![t] = "getwait"]
      BY <2>5 DEF LockQueue, IoGoto, schedVars
    <3> QED BY <2>1, <2>3, <2>5, <3>1 DEF ReaderInv, ioq_empty, QInv, RingOK
  <2>6. CASE TakeByte /\ IoGoto(t, "out")
    <3>1. consumer' = consumer /\ producer' = NoThread /\ io' = [io EXCEPT ![t] = "out"]
      BY <2>6 DEF TakeByte, IoGoto
    <3> QED BY <2>1, <2>3, <2>4, <3>1 DEF ReaderInv, QInv, RingOK
  <2> QED BY <1>5, <2>2, <2>5, <2>6, Wakeable DEF GetTest
<1>6. ASSUME NEW t \in Thread, GetWait(t) PROVE ReaderInv'
  <2>1. current = t /\ io[t] = "getwait" /\ pc[t] = "run"
    BY <1>6 DEF GetWait, IoAt, At
  <2>2. consumer = NoThread
    BY <2>1, NobodySleeps
  <2>3. /\ UNCHANGED <<head, tail, producer>>
        /\ io' = [io EXCEPT ![t] = "getwoken"]
    BY <1>6, <2>2 DEF GetWait, IoGoto
  <2>4. \A u \in Thread \ {t} : io[u] = "out"
    BY <1>4, <2>1
  <2> QED BY <2>1, <2>3, <2>4 DEF ReaderInv, ioq_empty, QInv, RingOK
<1>7. ASSUME NEW t \in Thread, GetWoken(t) PROVE ReaderInv'
  <2>1. io' = [io EXCEPT ![t] = "get"] /\ UNCHANGED <<current, head, tail, consumer, producer>>
    BY <1>7 DEF GetWoken, IoGoto, CallRelease, schedVars
  <2> QED BY <2>1, ReaderKept DEF ReaderInv, QInv, RingOK
<1>8. ASSUME NEW t \in Thread, LockStep(t), UNCHANGED ioVars PROVE ReaderInv'
  <2>1. current = t
    BY <1>8 DEF LockStep, TestHolder, AcquireAgain, SemaDown, SemaWoken, SetHolder,
       FirstRepeat, ReleaseHolder, ClearRepeat, sema_up, At
  <2>2. \A u \in Thread : io[u] = "getwait" => u = t
    BY <2>1 DEF ReaderInv
  <2> QED BY <1>8, <2>2, ReaderKeepsCpu, ReaderKept DEF ReaderInv
<1>9. ASSUME NEW t \in Thread, PutTest(t) \/ PutWait(t) \/ PutWoken(t) PROVE FALSE
  BY <1>9 DEF PutTest, PutWait, PutWoken, IoAt, ReaderInv
<1>10. ASSUME NEW t \in Thread, CallGet(t) PROVE ReaderInv'
  <2>1. io' = [io EXCEPT ![t] = "get"] /\ UNCHANGED <<current, head, tail, consumer, producer>>
    BY <1>10 DEF CallGet, IoGoto, EnterNoIntr
  <2> QED BY <2>1, ReaderKept DEF ReaderInv, QInv, RingOK
<1>11. ASSUME NEW t \in Thread, NEW b \in Byte, CallPut(t, b) PROVE FALSE
  BY <1>11 DEF CallPut, OneReader
<1>12. ASSUME NEW t \in Thread, Leave(t) PROVE ReaderInv'
  <2>1. UNCHANGED <<io, current, head, tail, consumer, producer>>
    BY <1>12 DEF Leave, LeaveNoIntr
  <2> QED BY <2>1, ReaderKept DEF ReaderInv
<1>13. ASSUME NEW t \in Thread, NEW u \in Thread, Start(t, u) PROVE ReaderInv'
  <2>1. UNCHANGED <<io, current, head, tail, consumer, producer>>
    BY <1>13 DEF Start, StartThread, thread_start, panic_spin
  <2> QED BY <2>1, ReaderKept DEF ReaderInv
<1>14. CASE UNCHANGED allVars
  <2>1. UNCHANGED <<io, current, head, tail, consumer, producer>>
    BY <1>14 DEF allVars, vars, schedVars
  <2> QED BY <2>1, ReaderKept DEF ReaderInv
<1> QED BY <1>2, <1>3, <1>5, <1>6, <1>7, <1>8, <1>9, <1>10, <1>11, <1>12, <1>13, <1>14
        DEF IoNext, QueueStep

(* The comments of ioq_getchar and ioq_putchar are right where one thread  *)
(* reads what the keyboard writes, for a ring of any size and any number   *)
(* of other threads: the reader sleeps only while the ring is empty.       *)
THEOREM ReaderHasReason ==
  ASSUME OneReader
  PROVE  IoSpec => []SleepsWithReason
<1>1. IoInit => ReaderInv
  BY DEF IoInit, ioqueue_init, ReaderInv
<1>2. QInv /\ QInv' /\ ReaderInv /\ [IoNext]_allVars => ReaderInv'
  BY ReaderNext
<1>3. ReaderInv => SleepsWithReason
  BY DEF ReaderInv, SleepsWithReason
<1> QED BY <1>1, <1>2, <1>3, QueueInvariance, PTL DEF IoSpec
=============================================================================
