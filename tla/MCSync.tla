------------------------------- MODULE MCSync -------------------------------
(* The instance of Sync that TLC checks.  The threads other than the main  *)
(* thread are interchangeable.                                             *)
EXTENDS Sync, TLC

Symmetric == Permutations(Thread \ {Main})
=============================================================================
