---------------------------- MODULE MCTaskEngine ----------------------------
(* TaskEngine on a few interchangeable tasks, errors and retry keys. *)
EXTENDS TaskEngine, TLC

Symmetry == Permutations(Tasks) \cup Permutations(RetryKeys)
=============================================================================
