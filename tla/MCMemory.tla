------------------------------ MODULE MCMemory ------------------------------
(***************************************************************************)
(* One text claimed as an assumption for a while, by two executions, and   *)
(* as a fact, by the founder or from a document.  Uploads, failures and    *)
(* invalidations in full as long as nothing is proposed; next to           *)
(* proposals, a document that is cited until its source is invalidated.    *)
(***************************************************************************)
EXTENDS Memory, TLC

CONSTANTS web, notes, research, coding, text

Assumed == [type |-> "working", epistemic |-> "assumption", text |-> text]
Known == [type |-> "semantic", epistemic |-> "fact", text |-> text]

\* What the system claims is less certain than what the founder does.
MCInputs ==
    {[claim |-> Assumed, confidence |-> 1, evidence |-> Execution],
     [claim |-> Known, confidence |-> 1, evidence |-> Chunk(1)],
     [claim |-> Assumed, confidence |-> 2, evidence |-> Founder],
     [claim |-> Known, confidence |-> 2, evidence |-> Founder]}
MCPolicyTypes == {{"working"}}

CitedOrNot ==
    /\ issued <= 1 /\ Unlocked /\ leftover = {}
    /\ issued = 0 => \A s \in Sources : source[s] = "none"
    /\ issued = 1 => /\ document[1] # NoDocument
                     /\ document[1].status = "indexed" <=> source[document[1].source] = "active"
                     /\ \A s \in Sources : source[s] # "none" => document[1].source = s

Bounded == proposal[1] # NoProposal \/ policy.revision # 0 \/ now # 0 => CitedOrNot

Alike == Permutations(Sources) \cup Permutations(Executions)
=============================================================================
