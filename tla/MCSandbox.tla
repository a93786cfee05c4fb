------------------------------ MODULE MCSandbox ------------------------------
(* One execution with one worker, which maintenance races. *)
EXTENDS SandboxExecution

CONSTANTS w1, m1
MCWorkers == {w1}
MCClients == {w1, m1}
=============================================================================
