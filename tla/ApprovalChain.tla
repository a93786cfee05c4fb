--------------------------- MODULE ApprovalChain ---------------------------
(***************************************************************************)
(* From the approved profile to the website: the strategy, the offer, the  *)
(* brand, the website specification and the website project of one         *)
(* business.  An agent proposes each from the approved records before it   *)
(* (AgentService.create_run), the founder approves the first four          *)
(* (strategy, product_offers, brand, website_specification services), the  *)
(* project is built by the run that proposes it (SqlRuntimeRepository).    *)
(*                                                                         *)
(* Approvals and builds lock what they compare, each is one step.          *)
(* create_run locks nothing and reads one record per statement: each read  *)
(* is a step, and approvals may come between any two.                      *)
(*                                                                         *)
(* Of a run only its input, its answer and its end matter here; AgentRuns  *)
(* has the rest.  The strategy and the profile are single rows, updated in *)
(* place: that their former versions stay in `approved' is a history.      *)
(***************************************************************************)
EXTENDS Onboarding, AgentOutputs

CONSTANTS
    Research,       \* completed research runs: the agent of each and whether it has support
    ResearchAgents, \* RESEARCH_AGENT_IDS
    Sitemaps,       \* sitemaps that a specification agent may propose
    Established,    \* how much of the chain exists initially
    MaxNewRuns,     \* bound: runs requested after that
    MaxVersions     \* bound: versions of a kind (two strategies may replace each other for ever)

VARIABLES
    approved,       \* the versions of every kind; the last one is the active one
    runs,           \* agent_runs of the five agents
    request         \* the create_run in progress

chainVars == <<approved, runs, request>>
vars == <<onboardingVars, approved, runs, request>>

Chain == <<"strategy", "offer", "brand", "specification", "project">>

Version(k) == IF k = "profile" THEN profile.version ELSE Len(approved[k])
\* A record never changes, so its version tells what it was derived from.
SourcesOf(k, v) == IF v = 0 \/ k = "profile" THEN Nothing ELSE approved[k][v].sources
TreeOf(v) == IF v = 0 THEN NoTree ELSE approved["project"][v].tree

NoRequest == [agent |-> "none"]

-----------------------------------------------------------------------------
(* What the columns hold. *)

Operations == {"none", "generate", "modify"}
Citable == (Kinds \X Nat) \cup DOMAIN Research
Routes == {Root} \cup UNION {DOMAIN s : s \in Sitemaps}
ChangeSets == UNION {[S -> {"add", "update", "delete"}] : S \in SUBSET Files}

AnswerRecords ==
    [cites : SUBSET Citable, sitemap : Sitemaps \cup {Empty}, specified : SUBSET Routes,
     operation : Operations, changes : ChangeSets \cup {Empty}, traced : SUBSET Routes,
     tested : SUBSET Routes]

RunRecords ==
    [agent : Agents, status : {"queued", "completed", "failed"}, context : Versions,
     pins : Versions, operation : Operations, base : Nat, findings : SUBSET DOMAIN Research,
     answer : AnswerRecords, established : BOOLEAN]

VersionRecords ==
    [run : Nat, sources : Versions, cites : SUBSET Citable, tree : [Files -> Nat]]

RequestRecords ==
    [agent : Agents, operation : Operations, base : Nat, findings : SUBSET DOMAIN Research,
     done : Nat, context : Versions, evidence : Versions]

TypeOK ==
    /\ OnboardingTypeOK
    /\ approved \in [Agents -> Seq(VersionRecords)]
    /\ runs \in Seq(RunRecords)
    /\ request \in RequestRecords \cup {NoRequest}

-----------------------------------------------------------------------------
(* What is read: for the context, in the order of build, and then as evidence. *)

ContextReads(agent) == LET Seen(k) == k \in Readable[agent] IN SelectSeq(Listed, Seen)
EvidenceReads ==
    [strategy |-> <<>>, offer |-> <<"strategy">>, brand |-> <<"strategy", "offer">>,
     specification |-> <<"strategy", "offer", "brand">>,
     project |-> <<"specification", "project">>]
Reads(agent) == ContextReads(agent) \o EvidenceReads[agent]
ReadsDone(r) == r.done = Len(Reads(r.agent))

ContextOf(r) == Compiled(r.agent, r.context, SourcesOf("specification", r.context["specification"]))

\* The profile of a strategy is the one in its context; the other agents read theirs.
PinsOf(r) ==
    [k \in Kinds |-> IF k \notin Sources[r.agent] THEN 0
                     ELSE IF r.agent = "strategy" THEN ContextOf(r)[k] ELSE r.evidence[k]]

\* Seeded fault: what was read as evidence is not compared with the context.
ReadOnce(context, pins, agent) == \A k \in Sources[agent] : pins[k] # 0
\* What is pinned exists, and is what the context shows.
InContext(context, pins, agent) ==
    \A k \in Sources[agent] : pins[k] # 0 /\ pins[k] = context[k]

\* Seeded fault: a brand is not compared with the offer it was made for.
OneStrategy(pins, agent) ==
    \A k \in Sources[agent] \ {"strategy"} :
        "strategy" \in Sources[agent] => SourcesOf(k, pins[k])["strategy"] = pins["strategy"]
\* The pinned records were derived from each other.
OneLineage(pins, agent) ==
    \A k \in Sources[agent] : \A j \in Sources[agent] \cap Sources[k] :
        SourcesOf(k, pins[k])[j] = pins[j]

\* A project of the specification can only be modified, from its current version.
Aligned(project, specification) ==
    project # 0 /\ SourcesOf("project", project)["specification"] = specification

\* Of every research agent a completed run with a supported finding.
UsableResearch(chosen) ==
    /\ {Research[f].agent : f \in chosen} = ResearchAgents
    /\ \A f \in chosen : Research[f].supported

(* The evidence that create_run accepts, agent by agent. *)
StrategyEvidence(r) ==
    /\ InContext(ContextOf(r), PinsOf(r), "strategy")
    /\ UsableResearch(r.findings)

OfferEvidence(r) == InContext(ContextOf(r), PinsOf(r), "offer")

BrandEvidence(r) ==
    /\ OneLineage(PinsOf(r), "brand")
    /\ InContext(ContextOf(r), PinsOf(r), "brand")

SpecificationEvidence(r) ==
    /\ OneLineage(PinsOf(r), "specification")
    /\ InContext(ContextOf(r), PinsOf(r), "specification")

CodingEvidence(r) ==
    /\ InContext(ContextOf(r), PinsOf(r), "project")
    /\ LET aligned == Aligned(r.evidence["project"], r.evidence["specification"]) IN
       \/ r.operation = "generate" /\ ~aligned
       \/ r.operation = "modify" /\ aligned /\ r.base = r.evidence["project"]

Admissible(r) ==
    \/ r.agent = "strategy" /\ StrategyEvidence(r)
    \/ r.agent = "offer" /\ OfferEvidence(r)
    \/ r.agent = "brand" /\ BrandEvidence(r)
    \/ r.agent = "specification" /\ SpecificationEvidence(r)
    \/ r.agent = "project" /\ CodingEvidence(r)

-----------------------------------------------------------------------------
(* create_run *)

\* Only the strategist is given research runs, only the coding agent an operation.
RequestRun(agent, operation, base, findings) ==
    /\ request = NoRequest
    /\ Len(runs) < MaxNewRuns + Cardinality({i \in DOMAIN runs : runs[i].established})
    /\ Cardinality(findings) = IF agent = "strategy" THEN Cardinality(ResearchAgents) ELSE 0
    /\ agent = "project" <=> operation # "none"
    /\ operation # "modify" => base = 0
    /\ request' = [agent |-> agent, operation |-> operation, base |-> base,
                   findings |-> findings, done |-> 0, context |-> Nothing, evidence |-> Nothing]
    /\ UNCHANGED <<onboardingVars, approved, runs>>

ReadRecord ==
    /\ request # NoRequest /\ ~ReadsDone(request)
    /\ LET k == Reads(request.agent)[request.done + 1]
           inContext == request.done < Len(ContextReads(request.agent))
       IN request' = [request EXCEPT
              !.done = @ + 1,
              !.context = IF inContext THEN [@ EXCEPT ![k] = Version(k)] ELSE @,
              !.evidence = IF inContext THEN @ ELSE [@ EXCEPT ![k] = Version(k)]]
    /\ UNCHANGED <<onboardingVars, approved, runs>>

RunOf(r) ==
    [agent |-> r.agent, status |-> "queued", context |-> ContextOf(r), pins |-> PinsOf(r),
     operation |-> r.operation, base |-> r.base, findings |-> r.findings,
     answer |-> NoAnswer, established |-> FALSE]

CreateRun ==
    /\ request # NoRequest /\ ReadsDone(request)
    /\ runs' = IF Admissible(request) THEN Append(runs, RunOf(request)) ELSE runs
    /\ request' = NoRequest
    /\ UNCHANGED <<onboardingVars, approved>>

-----------------------------------------------------------------------------
(* The end of a run *)

SiteOf(run) ==
    IF run.agent # "project" THEN Empty
    ELSE runs[approved["specification"][run.pins["specification"]].run].answer.sitemap

\* The validator of the agent; the pinned payloads are those of the pinned versions.
Valid(run, answer) ==
    \/ run.agent = "strategy" /\ ValidStrategy(answer, run.pins, run.findings)
    \/ run.agent = "offer" /\ ValidOffer(answer, run.pins)
    \/ run.agent = "brand" /\ ValidBrand(answer, run.pins)
    \/ run.agent = "specification" /\ ValidSpecification(answer, run.pins)
    \/ /\ run.agent = "project"
       /\ ValidChanges(answer, run.pins, run.operation, TreeOf(run.base), SiteOf(run))

Ends(i, status, answer) == runs' = [runs EXCEPT ![i].status = status, ![i].answer = answer]

\* A provider's failure, a cancellation, an invalid answer or a refused build.
FailRun(i) ==
    /\ runs[i].status = "queued"
    /\ Ends(i, "failed", NoAnswer)
    /\ UNCHANGED <<onboardingVars, approved, request>>

CompleteRun(i, answer) ==
    /\ runs[i].status = "queued" /\ runs[i].agent # "project"
    /\ Valid(runs[i], answer)
    /\ Ends(i, "completed", answer)
    /\ UNCHANGED <<onboardingVars, approved, request>>

\* Seeded fault: the project that is modified is not compared with the current one.
AnyBase(run) == Aligned(Version("project"), run.pins["specification"])
SameBase(run) ==
    /\ Version("project") = run.base
    /\ Aligned(Version("project"), run.pins["specification"])

StillBuildable(run) ==
    /\ Version("specification") = run.pins["specification"]
    /\ IF run.operation = "modify" THEN SameBase(run)
       ELSE ~Aligned(Version("project"), run.pins["specification"])

CompleteWebsiteBuild(i, answer) ==
    /\ runs[i].status = "queued" /\ runs[i].agent = "project"
    /\ Valid(runs[i], answer)
    /\ StillBuildable(runs[i])
    /\ LET tree == Resulting(TreeOf(runs[i].base), answer.changes, i) IN
       /\ Builds(tree, SiteOf(runs[i]))
       /\ approved' = [approved EXCEPT !["project"] =
              Append(@, [run |-> i, sources |-> runs[i].pins, cites |-> answer.cites,
                         tree |-> tree])]
    /\ Ends(i, "completed", answer)
    /\ UNCHANGED <<onboardingVars, request>>

-----------------------------------------------------------------------------
(* The founder's approvals *)

CurrentPins(k) == [j \in Kinds |-> IF j \in Sources[k] THEN Version(j) ELSE 0]

\* What the run was given is still current, as one lineage, and its answer is valid.
Approvable(i, k) ==
    /\ runs[i].agent = k /\ runs[i].status = "completed"
    /\ Valid(runs[i], runs[i].answer)
    /\ \A j \in Sources[k] : Version(j) # 0
    /\ OneLineage(CurrentPins(k), k)
    /\ runs[i].pins = CurrentPins(k)

\* A run founds one version for ever: source_agent_run_id is unique.
Unused(i, k) == \A v \in DOMAIN approved[k] : approved[k][v].run # i

Approved(i, k) ==
    /\ Len(approved[k]) < MaxVersions
    /\ approved' = [approved EXCEPT ![k] =
           Append(@, [run |-> i, sources |-> CurrentPins(k), cites |-> runs[i].answer.cites,
                      tree |-> NoTree])]
    /\ UNCHANGED <<onboardingVars, runs, request>>

\* The row is overwritten, only its present run is excluded.
ApproveStrategy(i) ==
    /\ Approvable(i, "strategy")
    /\ Version("strategy") # 0 => approved["strategy"][Version("strategy")].run # i
    /\ Approved(i, "strategy")

ApproveOffer(i) == Approvable(i, "offer") /\ Unused(i, "offer") /\ Approved(i, "offer")

ApproveBrand(i) == Approvable(i, "brand") /\ Unused(i, "brand") /\ Approved(i, "brand")

ApproveSpecification(i) ==
    /\ Approvable(i, "specification") /\ Unused(i, "specification")
    /\ Approved(i, "specification")

-----------------------------------------------------------------------------
(* Answers that agents may give, those that are not valid among them. *)

Cited(run) ==
    LET pinned == Refs(run.agent, run.pins)
    IN {pinned, pinned \cup run.findings, pinned \cup run.findings \cup {<<"strategy", 1>>}}

Answers(run) ==
    LET specifies == run.agent = "specification"
        codes == run.agent = "project"
    IN [cites : Cited(run),
        sitemap : IF specifies THEN Sitemaps ELSE {Empty},
        specified : IF specifies THEN {{Root}} \cup {DOMAIN s : s \in Sitemaps} ELSE {{}},
        operation : {run.operation},
        changes : IF codes THEN ChangeSets ELSE {Empty},
        traced : IF codes THEN {{Root}} ELSE {{}},
        tested : IF codes THEN {{Root}, DOMAIN SiteOf(run)} ELSE {{}}]

-----------------------------------------------------------------------------
(* Initially nothing, or a profile and the first kinds of the chain in their first version. *)

FirstPins(k) == [j \in Kinds |-> IF j \in Sources[k] THEN 1 ELSE 0]
FirstContext(k, n) ==
    LET read == [j \in Kinds |-> IF j = "profile" \/ \E i \in 1..n : Chain[i] = j THEN 1 ELSE 0]
    IN Compiled(k, read, FirstPins("specification"))
FirstFindings == CHOOSE chosen \in SUBSET DOMAIN Research : UsableResearch(chosen)
FirstSitemap == CHOOSE s \in Sitemaps : IsSitemap(s) /\ Cardinality(DOMAIN s) > 1
FirstTree(run) == [f \in Files |-> IF f \in DOMAIN FirstSitemap THEN run ELSE 0]

FirstRun(n) ==
    LET k == Chain[n]
        findings == IF k = "strategy" THEN FirstFindings ELSE {}
    IN [agent |-> k, status |-> "completed", context |-> FirstContext(k, n - 1),
        pins |-> FirstPins(k), operation |-> IF k = "project" THEN "generate" ELSE "none",
        base |-> 0, findings |-> findings, established |-> TRUE,
        answer |-> [NoAnswer EXCEPT !.cites = Refs(k, FirstPins(k)) \cup findings,
                        !.sitemap = IF k = "specification" THEN FirstSitemap ELSE Empty]]

FirstVersion(n) ==
    [run |-> n, sources |-> FirstPins(Chain[n]),
     cites |-> Refs(Chain[n], FirstPins(Chain[n])) \cup FirstRun(n).findings,
     tree |-> IF Chain[n] = "project" THEN FirstTree(n) ELSE NoTree]

\* The chain that exists initially is one that could have been built.
ASSUME ChainAssumption ==
    /\ IsFiniteSet(Sections) /\ IsFiniteSet(DOMAIN Research)
    /\ Established \subseteq 0..Len(Chain)
    /\ \A n \in Established :
           /\ n >= 1 => \E chosen \in SUBSET DOMAIN Research : UsableResearch(chosen)
           /\ n >= 4 => \E s \in Sitemaps : IsSitemap(s) /\ Cardinality(DOMAIN s) > 1
           /\ n = 5 => DOMAIN FirstSitemap \subseteq Files
           /\ \A i \in 1..n : \A k \in Sources[Chain[i]] : FirstContext(Chain[i], i - 1)[k] = 1

\* The profile was approved, the draft reopened and submitted again without a change.
Founded ==
    LET pages == Cardinality(Sections)
        text == CHOOSE t \in [Sections -> 1..pages] : \A s, u \in Sections : s # u => t[s] # t[u]
    IN /\ draft = [status |-> "review", revision |-> pages + 4, text |-> text]
       /\ profile = [version |-> 1, text |-> text, shown |-> text]
       /\ tab = [t \in Tabs |-> draft]

InitWith(n) ==
    /\ runs = [i \in 1..n |-> FirstRun(i)]
    /\ approved = [k \in Agents |->
           IF \E i \in 1..n : Chain[i] = k
           THEN <<FirstVersion(CHOOSE i \in 1..n : Chain[i] = k)>> ELSE <<>>]
    /\ request = NoRequest

Init ==
    \/ OnboardingInit /\ InitWith(0)
    \/ Founded /\ \E n \in Established : InitWith(n)

Requests ==
    \E agent \in Agents, operation \in Operations,
       base \in 0..Version("project"), findings \in SUBSET DOMAIN Research :
           RequestRun(agent, operation, base, findings)

Ending ==
    \E i \in DOMAIN runs :
        \/ FailRun(i)
        \/ \E answer \in Answers(runs[i]) :
               CompleteRun(i, answer) \/ CompleteWebsiteBuild(i, answer)

Approval ==
    \E i \in DOMAIN runs :
        ApproveStrategy(i) \/ ApproveOffer(i) \/ ApproveBrand(i) \/ ApproveSpecification(i)

Next ==
    \/ OnboardingStep /\ UNCHANGED chainVars
    \/ Requests \/ ReadRecord \/ CreateRun
    \/ Ending \/ Approval

Spec == Init /\ [][Next]_vars

-----------------------------------------------------------------------------
(* A version rests on what the agent was shown and on nothing else: what it is derived *)
(* from is what the context of its run held, and it cites these records and the        *)
(* supported findings that the run was given (ADR-0021 to ADR-0025), whatever was      *)
(* approved between the reads of create_run, and before the run ended.                 *)
RecordsRestOnContext ==
    \A k \in Agents : \A v \in DOMAIN approved[k] :
        LET record == approved[k][v]
            run == runs[record.run]
        IN /\ \A j \in Sources[k] : record.sources[j] # 0 /\ record.sources[j] = run.context[j]
           /\ record.cites \subseteq Refs(k, record.sources) \cup run.findings
           /\ \A f \in run.findings : Research[f].supported

(* The versions that one version is derived from were derived from each other: a       *)
(* specification never joins a brand to an offer that it was not made for (ADR-0024),  *)
(* however approvals of new offers and strategies come between.                        *)
LineageAgrees ==
    \A k \in Agents : \A v \in DOMAIN approved[k] : \A j \in Sources[k] \ {"profile"} :
        LET derived == approved[k][v].sources IN
        \A i \in Sources[j] \cap Sources[k] :
            approved[j][derived[j]].sources[i] = derived[i]

(* A modification changes the current website: the files that it does not name are     *)
(* those of the version before it, also when two modifications of one base race.       *)
ModificationsAreKept ==
    \A v \in DOMAIN approved["project"] :
        LET run == runs[approved["project"][v].run] IN
        run.operation = "modify" =>
            \A f \in Files \ DOMAIN run.answer.changes :
                approved["project"][v].tree[f] = TreeOf(v - 1)[f]

(* Every page of the specification a website was built from has its document, after    *)
(* any number of modifications.                                                        *)
PagesAreBuilt ==
    \A v \in DOMAIN approved["project"] :
        DOMAIN SiteOf(runs[approved["project"][v].run]) \subseteq Present(TreeOf(v))

(* "One rooted acyclic sitemap" (ADR-0024): every page of an approved sitemap but the  *)
(* page at "/" has a parent.  The check wants the root and lets other pages stand      *)
(* alone.                                                                              *)
SitemapIsRooted ==
    \A v \in DOMAIN approved["specification"] :
        LET sitemap == runs[approved["specification"][v].run].answer.sitemap IN
        \A p \in DOMAIN sitemap \ {Root} : sitemap[p] # NoParent
=============================================================================
