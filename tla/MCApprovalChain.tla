-------------------------- MODULE MCApprovalChain --------------------------
(***************************************************************************)
(* Instances of ApprovalChain: onboarding in full while the chain is at    *)
(* rest, then up to MaxNewRuns runs on a chain of any length, while the    *)
(* founder approves what she likes and may renew the profile once.         *)
(***************************************************************************)
EXTENDS ApprovalChain

CONSTANTS left, right, competitors, market, audience, guess

MCWeight == [k \in Kinds |-> 1]
\* The strategist's context has no room for the brand.
MCContextBudget == [k \in Agents |-> IF k = "strategy" THEN 2 ELSE 5]
MCResearch ==
    competitors :> [agent |-> "competitors", supported |-> TRUE] @@
    market :> [agent |-> "market", supported |-> TRUE] @@
    audience :> [agent |-> "audience", supported |-> TRUE] @@
    guess :> [agent |-> "audience", supported |-> FALSE]
MCResearchAgents == {"competitors", "market", "audience"}
MCFiles == {Root, "about"}

\* A page under the root, a page on its own, a cycle, an unknown parent.
MCSitemaps ==
    {Root :> NoParent @@ "about" :> Root,
     Root :> NoParent @@ "about" :> NoParent,
     Root :> NoParent @@ "about" :> "jobs" @@ "jobs" :> "about",
     Root :> NoParent @@ "about" :> "jobs"}

\* Next to a chain the left tab may approve the renewed profile, and that is all.
Bounded ==
    \/ runs = <<>> /\ request = NoRequest
    \/ draft.status # "draft" /\ tab[right].revision = Cardinality(Sections) + 4
=============================================================================
