------------------------------ MODULE MCIoQueue ------------------------------
(* The instances of IoQueue that TLC checks: a buffer of three cells, one  *)
(* or two consumers, the keyboard and a producer thread.                   *)
EXTENDS IoQueue, TLC

Alike == Permutations(Byte) \cup Permutations(Consumer)
=============================================================================
