-------------------------- MODULE BusinessContext --------------------------
(***************************************************************************)
(* What a business has approved and which of it an agent is shown          *)
(* (business_brain/service.py).  Records are named by their kind and       *)
(* version; the context of a run is the set of records that fitted it.     *)
(*                                                                         *)
(* Goals, tasks, knowledge and memories come after the approved records in *)
(* the list of candidates and cannot displace them; they are left out.  So *)
(* is the website project, which no agent may read.                        *)
(***************************************************************************)
EXTENDS Naturals, Sequences, SequencesExt

CONSTANTS
    Weight,         \* bytes of a record of a kind
    ContextBudget   \* context_token_budget of an agent

Kinds == {"profile", "strategy", "offer", "brand", "specification", "project"}
Agents == Kinds \ {"profile"}   \* an agent is named by what it proposes

ASSUME ContextAssumption ==
    /\ Weight \in [Kinds -> Nat]
    /\ ContextBudget \in [Agents -> Nat]

Versions == [Kinds -> Nat]
Nothing == [k \in Kinds |-> 0]

\* The records that a version of a kind is derived from: the source_ columns of its table.
StrategySources == {"profile"}
OfferSources == {"strategy"}
BrandSources == {"strategy", "offer"}
SpecificationSources == {"strategy", "offer", "brand"}
ProjectSources == {"specification"}
Sources ==
    [profile |-> {}, strategy |-> StrategySources, offer |-> OfferSources,
     brand |-> BrandSources, specification |-> SpecificationSources,
     project |-> ProjectSources]

\* data_access_scope: the kinds whose source type the agent may read.
Readable ==
    [strategy |-> {"profile", "offer", "brand"}, offer |-> {"profile", "strategy"},
     brand |-> {"profile", "strategy", "offer", "brand"},
     specification |-> {"profile", "strategy", "offer", "brand"},
     project |-> {"profile", "strategy", "offer", "brand", "specification"}]

\* The order in which build reads and lists them.
Listed == <<"profile", "strategy", "offer", "brand", "specification">>

\* The specification is stale unless it was derived from just what was read.
Fresh(read, specificationOf) ==
    \A k \in Sources["specification"] : read[k] # 0 /\ specificationOf[k] = read[k]

Validity(k, read, specificationOf) ==
    IF k = "specification" /\ ~Fresh(read, specificationOf) THEN "stale" ELSE "current"

Candidate(k, read, specificationOf) ==
    [kind |-> k, validity |-> Validity(k, read, specificationOf)]

Candidates(read, specificationOf) ==
    LET Exists(k) == read[k] # 0
        kinds == SelectSeq(Listed, Exists)
    IN [i \in DOMAIN kinds |-> Candidate(kinds[i], read, specificationOf)]

\* In the order of the list, whatever still fits.
SelectContext(agent, candidates) ==
    LET Add(context, c) ==
            IF /\ c.validity = "current"
               /\ c.kind \in Readable[agent]
               /\ context.size + Weight[c.kind] <= ContextBudget[agent]
            THEN [size |-> context.size + Weight[c.kind], kinds |-> context.kinds \cup {c.kind}]
            ELSE context
    IN FoldLeft(Add, [size |-> 0, kinds |-> {}], candidates).kinds

\* The compiled context: the versions it holds.
Compiled(agent, read, specificationOf) ==
    LET kinds == SelectContext(agent, Candidates(read, specificationOf))
    IN [k \in Kinds |-> IF k \in kinds THEN read[k] ELSE 0]
=============================================================================
