------------------------------- MODULE Memory -------------------------------
(***************************************************************************)
(* The memory of one business (memory/service.py): proposals, the policy   *)
(* under which some are accepted at once, the founder's decisions on the   *)
(* others, the records they create or merge into and the revision and      *)
(* provenance rows that say why a record exists.                           *)
(*                                                                         *)
(* Every command locks the business row and is one step.  Time passes      *)
(* between commands; expiry needs no step, it is compared where it counts. *)
(*                                                                         *)
(* The title and content of a claim are one text.  A record is named by    *)
(* the proposal that created it (originating_proposal_id is unique), a     *)
(* revision row and its provenance by the proposal they were written for.  *)
(***************************************************************************)
EXTENDS Knowledge, FiniteSetsExt

CONSTANTS
    Texts,          \* titles and contents, normalised
    Executions,     \* tasks, agent runs and workflow runs, which always exist
    Confidences,    \* confidence in a claim, and the floor of the policy
    Inputs,         \* what is proposed: claim, confidence and evidence
    PolicyTypes,    \* types that a policy accepts automatically
    Lifetime,       \* MAX_WORKING_LIFETIME
    MaxTime,        \* bound: time
    MaxProposals,   \* bound: proposals
    MaxPolicies     \* bound: saves of the policy

VARIABLES
    policy,         \* memory_policies
    proposal,       \* memory_proposals
    memory,         \* memory_records
    row,            \* memory_revisions and memory_provenance
    page,           \* the revisions that the founder's page shows
    now

memoryVars == <<policy, proposal, memory, row, page, now>>
vars == <<knowledgeVars, memoryVars>>

EpistemicByType ==
    [working |-> {"observation", "assumption"}, episodic |-> {"observation"},
     semantic |-> {"fact", "assumption"}, decision |-> {"decision"},
     preference |-> {"preference"}, workflow |-> {"procedure"}, evaluation |-> {"evaluation"}]
EpistemicStatuses == UNION {EpistemicByType[t] : t \in DOMAIN EpistemicByType}
Claims == [type : DOMAIN EpistemicByType, epistemic : EpistemicStatuses, text : Texts]
AutomaticEligible == {"working", "episodic", "workflow", "evaluation"}

\* ADR-0019: what only the founder may accept.
FounderOnly == {"fact", "decision", "preference"}

Proposals == 1 .. MaxProposals
Nobody == "none"            \* the execution of anything but working memory
Never == MaxTime + 1        \* no expiry
Founder == [kind |-> "founder_input"]
Execution == [kind |-> "execution"]     \* whichever
Chunk(d) == [kind |-> "knowledge_chunk", id |-> d]
Evidence == {Founder} \cup {Execution} \cup {Chunk(d) : d \in Documents}

ASSUME MemoryAssumption ==
    /\ Confidences \subseteq Nat /\ Confidences # {}
    /\ Nobody \notin Executions
    /\ Inputs \subseteq [claim : Claims, confidence : Confidences, evidence : Evidence]
    /\ PolicyTypes \subseteq SUBSET AutomaticEligible
    /\ {Lifetime, MaxTime, MaxProposals, MaxPolicies} \subseteq Nat

NoProposal == [status |-> "none"]
NoRecord == [status |-> "none", revision |-> 0]
NoRow == [memory |-> 0]

Proposal ==
    [status : {"pending", "accepted", "merged", "rejected"}, claim : Claims,
     confidence : Confidences, execution : Executions \cup {Nobody},
     expires : 1 .. Never, evidence : Evidence]
Record ==
    [status : {"active", "invalidated"}, claim : Claims, confidence : Confidences,
     execution : Executions \cup {Nobody}, expires : 1 .. Never, revision : Nat]
Row ==
    [memory : Proposals, revision : Nat, confidence : Confidences,
     by : {"founder", "automatic"}, evidence : Evidence]

MemoryTypeOK ==
    /\ KnowledgeTypeOK
    /\ policy \in [types : SUBSET AutomaticEligible, floor : Confidences, revision : Nat]
    /\ proposal \in [Proposals -> {NoProposal} \cup Proposal]
    /\ memory \in [Proposals -> {NoRecord} \cup Record]
    /\ row \in [Proposals -> {NoRow} \cup Row]
    /\ page \in [policy : Nat, memory : [Proposals -> Nat]]
    /\ now \in 0 .. MaxTime

Init ==
    /\ KnowledgeInit
    /\ policy = [types |-> {}, floor |-> Max(Confidences), revision |-> 0]
    /\ proposal = [p \in Proposals |-> NoProposal]
    /\ memory = [p \in Proposals |-> NoRecord]
    /\ row = [p \in Proposals |-> NoRow]
    /\ page = [policy |-> 0, memory |-> [p \in Proposals |-> 0]]
    /\ now = 0

-----------------------------------------------------------------------------
(* The policy. *)

LoadPage ==
    /\ page' = [policy |-> policy.revision, memory |-> [m \in Proposals |-> memory[m].revision]]
    /\ UNCHANGED <<knowledgeVars, policy, proposal, memory, row, now>>

UpdatePolicy(types, floor) ==
    /\ Unlocked
    /\ policy.revision < MaxPolicies
    /\ page.policy = policy.revision
    /\ policy' = [types |-> types, floor |-> floor, revision |-> policy.revision + 1]
    /\ page' = [page EXCEPT !.policy = policy'.revision]
    /\ UNCHANGED <<knowledgeVars, proposal, memory, row, now>>

\* Whether a proposal is accepted as soon as it is made.
Automatic(p) ==
    /\ policy.revision # 0
    /\ p.claim.type \in policy.types
    /\ p.claim.type \in AutomaticEligible
    /\ p.confidence >= policy.floor
    /\ p.evidence # Founder
    /\ p.claim.epistemic # "fact"

-----------------------------------------------------------------------------
(* Proposals. *)

Normalized(p) ==
    /\ p.claim.epistemic \in EpistemicByType[p.claim.type]
    /\ p.expires > now
    /\ IF p.claim.type = "working"
       THEN /\ p.execution \in Executions
            /\ p.expires # Never /\ p.expires <= now + Lifetime
       ELSE p.execution = Nobody

ResolvedSource(p) == \A d \in Documents : p.evidence = Chunk(d) => Citable(d)

\* Seeded fault: the key is the text alone.
TextKey(claim) == claim.text
\* Neither execution nor expiry is part of it.
CanonicalKey(claim) == <<claim.type, claim.epistemic, claim.text>>

\* Seeded fault: what was invalidated is still found.
Unexpired(m) == memory[m].status # "none" /\ memory[m].expires > now
Live(m) == memory[m].status = "active" /\ memory[m].expires > now

\* Seeded fault: a memory without expiry is not found.
Expiring(p) ==
    {m \in Proposals : Live(m) /\ memory[m].expires # Never
                       /\ CanonicalKey(memory[m].claim) = CanonicalKey(p.claim)}
Duplicates(p) ==
    {m \in Proposals : Live(m) /\ CanonicalKey(memory[m].claim) = CanonicalKey(p.claim)}

NewRecord(p) ==
    [status |-> "active", claim |-> p.claim, confidence |-> p.confidence,
     execution |-> p.execution, expires |-> p.expires, revision |-> 1]

\* Everything else of the record stays as its first proposal had it.
MergedRecord(m, p) ==
    [memory[m] EXCEPT !.revision = @ + 1, !.confidence = IF p.confidence > @ THEN p.confidence ELSE @]

\* p becomes proposal i, decided, and its claim the record m with its row.
Settle(i, p, m, record, outcome, by) ==
    /\ proposal' = [proposal EXCEPT ![i] = [p EXCEPT !.status = outcome]]
    /\ memory' = [memory EXCEPT ![m] = record]
    /\ row' = [row EXCEPT ![i] =
           [memory |-> m, revision |-> record.revision, confidence |-> record.confidence,
            by |-> by, evidence |-> p.evidence]]

AcceptLocked(i, p, by) ==
    /\ by = "automatic" => p.claim.epistemic # "fact"
    /\ p.expires > now
    /\ \/ Duplicates(p) = {} /\ Settle(i, p, i, NewRecord(p), "accepted", by)
       \/ \E m \in Duplicates(p) : Settle(i, p, m, MergedRecord(m, p), "merged", by)

Propose(i, p) ==
    /\ Unlocked
    /\ proposal[i] = NoProposal /\ \A j \in 1 .. i - 1 : proposal[j] # NoProposal
    /\ Normalized(p) /\ ResolvedSource(p)
    /\ \/ Automatic(p) /\ AcceptLocked(i, p, "automatic")
       \/ /\ ~Automatic(p)
          /\ proposal' = [proposal EXCEPT ![i] = p]
          /\ UNCHANGED <<memory, row>>
    /\ UNCHANGED <<knowledgeVars, policy, page, now>>

\* A pending proposal has revision 1, which is what any page shows of it.
DecideProposal(i, accept) ==
    /\ Unlocked
    /\ proposal[i].status = "pending"
    /\ \/ accept /\ AcceptLocked(i, proposal[i], "founder")
       \/ /\ ~accept
          /\ proposal' = [proposal EXCEPT ![i].status = "rejected"]
          /\ UNCHANGED <<memory, row>>
    /\ UNCHANGED <<knowledgeVars, policy, page, now>>

\* The record gets a new revision, but no row.
Invalidate(m) ==
    /\ Unlocked
    /\ memory[m].status = "active"
    /\ page.memory[m] = memory[m].revision
    /\ memory' = [memory EXCEPT ![m].status = "invalidated", ![m].revision = @ + 1]
    /\ UNCHANGED <<knowledgeVars, policy, proposal, row, page, now>>

TimePasses ==
    /\ now < MaxTime
    /\ now' = now + 1
    /\ UNCHANGED <<knowledgeVars, policy, proposal, memory, row, page>>

\* What the agent of an execution is shown; Nobody for the context of the business.
Retrieved(e) ==
    {m \in Proposals : Live(m) /\ (memory[m].claim.type = "working" => memory[m].execution = e)}

\* authority of a context candidate
Authority(m) ==
    IF memory[m].claim.epistemic = "fact" THEN "founder_approved_fact"
    ELSE memory[m].claim.epistemic

ProposalOf(input, e, t) ==
    [status |-> "pending", claim |-> input.claim, confidence |-> input.confidence,
     execution |-> e, expires |-> t, evidence |-> input.evidence]

ProposeStep ==
    \E i \in Proposals, input \in Inputs, e \in Executions \cup {Nobody}, t \in 1 .. Never :
        Propose(i, ProposalOf(input, e, t))

MemoryStep ==
    \/ LoadPage \/ TimePasses \/ ProposeStep
    \/ \E types \in PolicyTypes, floor \in Confidences : UpdatePolicy(types, floor)
    \/ \E i \in Proposals, accept \in BOOLEAN : DecideProposal(i, accept)
    \/ \E m \in Proposals : Invalidate(m)

Next ==
    \/ KnowledgeStep /\ UNCHANGED memoryVars
    \/ MemoryStep

Spec == Init /\ [][Next]_vars

-----------------------------------------------------------------------------
RowsOf(m) == {p \in Proposals : row[p].memory = m}

(* What is shown as a fact, a decision or a preference was accepted by the founder each *)
(* time it was claimed, and no assumption or automatic proposal ever merged into it     *)
(* (ADR-0019).                                                                          *)
AuthorityIsTheFounders ==
    \A e \in Executions \cup {Nobody} : \A m \in Retrieved(e) : \A p \in RowsOf(m) :
        /\ proposal[p].claim = memory[m].claim
        /\ Authority(m) \in FounderOnly \cup {"founder_approved_fact"} => row[p].by = "founder"

(* The rows of a record are its revisions from 1 without gap, they hold every proposal  *)
(* that was accepted for it and nothing else, and explain its confidence; a record      *)
(* gains no evidence once it is invalidated.                                            *)
HistoryIsComplete ==
    /\ \A p \in Proposals : row[p] # NoRow <=> proposal[p].status \in {"accepted", "merged"}
    /\ \A m \in Proposals : memory[m] # NoRecord =>
          LET rows == RowsOf(m)
              last == IF memory[m].status = "active" THEN memory[m].revision
                      ELSE memory[m].revision - 1
          IN /\ {row[p].revision : p \in rows} = 1 .. last
             /\ \A p, q \in rows : row[p].revision = row[q].revision => p = q
             /\ memory[m].confidence = Max({proposal[p].confidence : p \in rows})

(* However proposals, decisions, expiry and invalidation mix: a claim is in effect once. *)
OneMemoryPerClaim ==
    \A m, n \in Proposals :
        Live(m) /\ Live(n) /\ memory[m].claim = memory[n].claim => m = n

(* What was accepted is remembered, by the execution it is for, until it expires or its  *)
(* record is invalidated.  The code merges by a key without execution and expiry.        *)
AcceptedIsRemembered ==
    \A p \in Proposals :
        proposal[p].status \in {"accepted", "merged"} /\ proposal[p].expires > now
        => \/ memory[row[p].memory].status = "invalidated"
           \/ row[p].memory \in Retrieved(proposal[p].execution)
=============================================================================
