-------------------------- MODULE GovernedExecution --------------------------
(***************************************************************************)
(* What the sandbox promises for one execution of generated code, without  *)
(* the runner's receipts, calls, jobs or recoveries (ADR-0026): the code   *)
(* runs at most once and only as granted, and the owner is told one        *)
(* outcome; a success is told only when the code has run and nothing of it *)
(* is left.                                                                *)
(*                                                                         *)
(* An outcome other than a success may be told before the run is over, and *)
(* even before it begins: the row may end as cancelled or failed while a   *)
(* request is still on its way to the runner.                              *)
(***************************************************************************)
EXTENDS Naturals

CONSTANTS Outcomes

VARIABLES
    granted,    \* governance has authorized the execution
    phase,      \* of the run: "none", "underway" or "over"
    launches,   \* how often the code was started
    outcome,    \* what the row says, "open" as long as nothing is decided
    event       \* what the event of its end says

vars == <<granted, phase, launches, outcome, event>>

Init ==
    /\ granted = FALSE /\ phase = "none" /\ launches = 0
    /\ outcome = "open" /\ event = "none"

Reject ==
    /\ outcome = "open" /\ ~granted /\ phase = "none"
    /\ outcome' = "rejected"
    /\ UNCHANGED <<granted, phase, launches, event>>

Grant ==
    /\ ~granted /\ outcome # "rejected"
    /\ granted' = TRUE
    /\ UNCHANGED <<phase, launches, outcome, event>>

Begin ==
    /\ granted /\ phase = "none"
    /\ phase' = "underway"
    /\ UNCHANGED <<granted, launches, outcome, event>>

Launch ==
    /\ phase = "underway" /\ launches = 0
    /\ launches' = 1
    /\ UNCHANGED <<granted, phase, outcome, event>>

\* Nothing of the run is left, and nothing comes after it.
End ==
    /\ phase = "underway"
    /\ phase' = "over"
    /\ UNCHANGED <<granted, launches, outcome, event>>

Tell(o) ==
    /\ outcome = "open"
    /\ o = "succeeded" => phase = "over" /\ launches = 1
    /\ outcome' = o /\ event' = o
    /\ UNCHANGED <<granted, phase, launches>>

Next == Reject \/ Grant \/ Begin \/ Launch \/ End \/ \E o \in Outcomes : Tell(o)

Spec == Init /\ [][Next]_vars
=============================================================================
