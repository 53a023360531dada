------------------------------ MODULE MCKTimer ------------------------------
(* Small instances of KTimer.                                              *)
EXTENDS KTimer, TLC

Alike == Permutations(Threads)
=============================================================================
