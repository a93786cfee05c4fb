---------------------------- MODULE MCGovernance ----------------------------
(* Governance on requests that differ in what the decision looks at. *)
EXTENDS Governance, TLC

CONSTANTS Tool

MCTools == {Tool}
MCToolRisk == [t \in {Tool} |-> 1]

Plain == [declared |-> 0, minimum |-> 0, tool |-> NoTool, spend |-> 0,
          restricted |-> FALSE, autonomous |-> FALSE, forced |-> FALSE]

MCRequests ==
    {[Plain EXCEPT !.tool = Tool, !.autonomous = TRUE],
     [Plain EXCEPT !.forced = TRUE],
     [Plain EXCEPT !.spend = 1],
     [Plain EXCEPT !.minimum = 2, !.restricted = TRUE],
     [Plain EXCEPT !.declared = 5]}

MCLimits == {0, 1}
Symmetry == Permutations(Actions)
=============================================================================
