---------------------------- MODULE MCTaskOutbox ----------------------------
(* TaskOutbox on one task and two dispatchers. *)
EXTENDS TaskOutbox
=============================================================================
