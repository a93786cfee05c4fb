---------------------------- MODULE MCCycleSearch ----------------------------
(* CycleSearch on every acyclic graph of the tasks the configuration names. *)
EXTENDS CycleSearch
=============================================================================
