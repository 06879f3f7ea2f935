------------------------------- MODULE MCPages -------------------------------
(* The instances of Pages that TLC checks.                                 *)
EXTENDS Pages, TLC

Alike == Permutations(Kernel) \cup Permutations(Process)
=============================================================================
