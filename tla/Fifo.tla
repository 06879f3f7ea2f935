-------------------------------- MODULE Fifo --------------------------------
(***************************************************************************)
(* What struct ioqueue promises: a bounded queue of bytes.  A byte comes   *)
(* out once, in the order in which it went in.                             *)
(***************************************************************************)
EXTENDS Naturals, Sequences

CONSTANTS Byte, NoByte, Capacity

VARIABLES queue,   \* the bytes that are in the queue
          taken    \* the byte taken out last

fifoVars == <<queue, taken>>

FifoInit == queue = <<>> /\ taken = NoByte

Put(b) == /\ Len(queue) < Capacity
          /\ queue' = Append(queue, b)
          /\ UNCHANGED taken

Get == /\ queue # <<>>
       /\ taken' = Head(queue)
       /\ queue' = Tail(queue)

FifoNext == Get \/ \E b \in Byte : Put(b)

FifoSpec == FifoInit /\ [][FifoNext]_fifoVars
=============================================================================
