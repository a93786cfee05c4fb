------------------------ MODULE ApprovalChain_proofs ------------------------
(***************************************************************************)
(* Theorems about Onboarding and ApprovalChain for any pages, tabs,        *)
(* research, sitemaps, context budgets and number of runs.                 *)
(***************************************************************************)
EXTENDS ApprovalChain, FiniteSetTheorems, TLAPS

(* Onboarding. *)

\* A tab lags behind the draft or shows it.
TabsLag ==
    \A t \in Tabs : /\ tab[t].revision <= draft.revision
                    /\ tab[t].revision = draft.revision => tab[t].text = draft.text

OnboardingInv == OnboardingTypeOK /\ TabsLag

LEMMA OnboardingInitHolds == OnboardingInit => OnboardingInv
BY DEF OnboardingInit, OnboardingInv, OnboardingTypeOK, TabsLag, NoDraft, Drafts, Profiles,
       Pages, Blank

\* There are as many texts as pages, so one text can tell the pages apart.
LEMMA DistinctTextsExist ==
    \E t \in [Sections -> 1..Cardinality(Sections)] : \A s, u \in Sections : s # u => t[s] # t[u]
<1> DEFINE n == Cardinality(Sections)
<1>1. n \in Nat /\ ExistsBijection(1..n, Sections)
  BY ChainAssumption, FS_CardinalityType
<1>2. PICK f \in Bijection(1..n, Sections) : TRUE
  BY <1>1 DEF ExistsBijection
<1>3. /\ f \in [1..n -> Sections]
      /\ \A s \in Sections : \E i \in 1..n : f[i] = s
  BY <1>2 DEF Bijection, Surjection
<1> DEFINE t == [s \in Sections |-> CHOOSE i \in 1..n : f[i] = s]
<1>4. \A s \in Sections : t[s] \in 1..n /\ f[t[s]] = s
  BY <1>3
<1>5. t \in [Sections -> 1..n]
  BY <1>4
<1> HIDE DEF t
<1> QED BY <1>4, <1>5

LEMMA FoundedHolds == Founded => OnboardingInv
<1> SUFFICES ASSUME Founded PROVE OnboardingInv
  OBVIOUS
<1> DEFINE n == Cardinality(Sections)
           text == CHOOSE t \in [Sections -> 1..n] : \A s, u \in Sections : s # u => t[s] # t[u]
<1>1. n \in Nat
  BY ChainAssumption, FS_CardinalityType
<1>2. text \in [Sections -> 1..n]
  BY DistinctTextsExist
<1>3. /\ draft = [status |-> "review", revision |-> n + 4, text |-> text]
      /\ profile = [version |-> 1, text |-> text, shown |-> text]
      /\ tab = [t \in Tabs |-> draft]
  BY DEF Founded
<1> HIDE DEF text, n
<1>4. text \in Pages
  BY <1>1, <1>2 DEF Pages
<1>5. n + 4 \in Nat
  BY <1>1
<1> QED BY <1>3, <1>4, <1>5 DEF OnboardingInv, OnboardingTypeOK, TabsLag, Drafts, Profiles

LEMMA OnboardingStepHolds ==
    ASSUME OnboardingInv, OnboardingStep
    PROVE  OnboardingInv'
<1> USE DEF OnboardingInv, OnboardingTypeOK, TabsLag
<1>1. ASSUME NEW t \in Tabs, Open(t) PROVE OnboardingInv'
  BY <1>1 DEF Open, Drafts
<1>2. ASSUME NEW t \in Tabs, NEW status \in {"draft", "review", "approved"}, NEW text \in Pages,
             Becomes(t, status, text), profile' \in Profiles
      PROVE  OnboardingInv'
  <2>1. draft' \in Drafts /\ draft'.revision = draft.revision + 1 /\ draft.revision \in Nat
    BY <1>2 DEF Becomes, Drafts
  <2>2. tab' = [tab EXCEPT ![t] = draft']
    BY <1>2 DEF Becomes
  <2> QED BY <1>2, <2>1, <2>2 DEF Drafts
<1>3. draft.text \in Pages /\ draft.revision \in Nat /\ profile.version \in Nat
  BY DEF Drafts, Profiles
<1>4. ASSUME NEW t \in Tabs, NEW s \in Sections, Save(t, s) PROVE OnboardingInv'
  <2>1. [draft.text EXCEPT ![s] = draft.revision + 1] \in Pages
    BY <1>3 DEF Pages
  <2> QED BY <1>2, <1>4, <2>1 DEF Save
<1>5. ASSUME NEW t \in Tabs, SubmitForReview(t) PROVE OnboardingInv'
  BY <1>2, <1>3, <1>5 DEF SubmitForReview
<1>6. ASSUME NEW t \in Tabs, ApproveProfile(t) PROVE OnboardingInv'
  <2>1. profile' \in Profiles
    BY <1>3, <1>6 DEF ApproveProfile, Profiles, Drafts
  <2> QED BY <1>2, <1>3, <1>6, <2>1 DEF ApproveProfile
<1>7. ASSUME NEW t \in Tabs, Reopen(t) PROVE OnboardingInv'
  BY <1>2, <1>3, <1>7 DEF Reopen
<1> QED BY <1>1, <1>4, <1>5, <1>6, <1>7 DEF OnboardingStep

\* The step itself: a command passes only from a tab that shows the draft.
LEMMA FounderStep ==
    ASSUME OnboardingInv, OnboardingStep
    PROVE  /\ profile' # profile => profile'.shown = profile'.text
           /\ draft'.text # draft.text
                => \E t \in Tabs : tab'[t] # tab[t] /\ tab[t].text = draft.text
<1> USE DEF OnboardingInv, OnboardingTypeOK, TabsLag
<1>1. draft.revision \in Nat
  BY DEF Drafts
<1>2. ASSUME NEW t \in Tabs, Open(t) PROVE UNCHANGED <<draft, profile>>
  BY <1>2 DEF Open
<1>3. ASSUME NEW t \in Tabs, SubmitForReview(t) \/ Reopen(t)
      PROVE  profile' = profile /\ draft'.text = draft.text
  <2>1. CASE SubmitForReview(t)
    BY <2>1 DEF SubmitForReview, Becomes
  <2>2. CASE Reopen(t)
    BY <2>2 DEF Reopen, Becomes
  <2> QED BY <1>3, <2>1, <2>2
<1>4. ASSUME NEW t \in Tabs, ApproveProfile(t)
      PROVE  profile'.shown = profile'.text /\ draft'.text = draft.text
  BY <1>4 DEF ApproveProfile, Becomes, Current
<1>5. ASSUME NEW t \in Tabs, NEW s \in Sections, Save(t, s)
      PROVE  profile' = profile /\ tab'[t] # tab[t] /\ tab[t].text = draft.text
  <2>1. tab[t].revision = draft.revision /\ tab[t].text = draft.text
    BY <1>5 DEF Save, Editable, Current
  <2>2. tab'[t].revision = draft.revision + 1
    BY <1>5 DEF Save, Becomes
  <2> QED BY <1>1, <1>5, <2>1, <2>2 DEF Save
<1> QED BY <1>2, <1>3, <1>4, <1>5 DEF OnboardingStep

\* What is approved, and what a save overwrites, is what the founder's tab shows.
THEOREM FounderSeesWhatSheActsOn == Spec => FounderActsOnWhatSheSees
<1>1. Init => OnboardingInv
  BY OnboardingInitHolds, FoundedHolds DEF Init
<1>2. [Next]_vars => OnboardingStep \/ UNCHANGED onboardingVars
  BY DEF Next, vars, onboardingVars, Requests, RequestRun, ReadRecord, CreateRun, Ending, FailRun,
         CompleteRun, CompleteWebsiteBuild, Approval, ApproveStrategy, ApproveOffer,
         ApproveBrand, ApproveSpecification, Approved
<1>3. ASSUME OnboardingInv, UNCHANGED onboardingVars PROVE OnboardingInv'
  BY <1>3 DEF OnboardingInv, OnboardingTypeOK, TabsLag, onboardingVars
<1>4. ASSUME OnboardingInv, [Next]_vars PROVE OnboardingInv'
  BY <1>2, <1>3, <1>4, OnboardingStepHolds
<1>5. ASSUME OnboardingInv, [Next]_vars
      PROVE  [/\ profile' # profile => profile'.shown = profile'.text
              /\ draft'.text # draft.text
                 => \E t \in Tabs : tab'[t] # tab[t] /\ tab[t].text = draft.text]_onboardingVars
  BY <1>2, <1>5, FounderStep
<1> QED BY <1>1, <1>4, <1>5, PTL DEF Spec, FounderActsOnWhatSheSees

-----------------------------------------------------------------------------
(* The chain: the inductive invariant. *)

\* What a run was given when it was made: the pins exist, are what its context showed,
\* and its findings have support.
RunRests(run) ==
    /\ run.base <= Len(approved["project"])
    /\ run.agent # "strategy" => run.findings = {}
    /\ \A f \in run.findings : Research[f].supported
    /\ \A j \in Sources[run.agent] : run.pins[j] # 0 /\ run.pins[j] = run.context[j]
    /\ \A j \in Sources[run.agent] \ {"profile"} : run.pins[j] <= Len(approved[j])

RequestRests ==
    request # NoRequest =>
        /\ request.base <= Len(approved["project"])
        /\ request.agent # "strategy" => request.findings = {}
        /\ \A j \in Agents : request.evidence[j] <= Len(approved[j])

\* A version is what its run proposed, from what the run pinned.
VersionRests(k, v) ==
    LET record == approved[k][v]
        run == runs[record.run]
    IN /\ record.run \in DOMAIN runs
       /\ run.agent = k /\ run.status = "completed"
       /\ record.sources = run.pins
       /\ record.cites \subseteq Refs(k, run.pins) \cup run.findings

OneLineageOf(k, v) ==
    \A j \in Sources[k] \ {"profile"} : \A i \in Sources[j] \cap Sources[k] :
        approved[j][approved[k][v].sources[j]].sources[i] = approved[k][v].sources[i]

Kept(v) ==
    LET run == runs[approved["project"][v].run] IN
    run.operation = "modify" =>
        \A f \in Files \ DOMAIN run.answer.changes :
            approved["project"][v].tree[f] = TreeOf(v - 1)[f]

Built(v) == DOMAIN SiteOf(runs[approved["project"][v].run]) \subseteq Present(TreeOf(v))

ChainInv ==
    /\ TypeOK /\ TabsLag
    /\ \A i \in DOMAIN runs : RunRests(runs[i])
    /\ RequestRests
    /\ \A k \in Agents : \A v \in DOMAIN approved[k] : VersionRests(k, v) /\ OneLineageOf(k, v)
    /\ \A v \in DOMAIN approved["project"] : Kept(v) /\ Built(v)

LEMMA KindTables ==
    /\ \A k \in Agents : k \in Kinds /\ k # "profile" /\ Sources[k] \subseteq Kinds
    /\ \A k \in Agents : Sources[k] \ {"profile"} \subseteq Agents
    /\ Sources["profile"] = {} /\ Sources["strategy"] = {"profile"}
    /\ Sources["project"] = {"specification"}
    /\ {"strategy", "offer", "brand", "specification", "project"} = Agents
    /\ Agents \cup {"profile"} = Kinds
BY DEF Agents, Kinds, Sources, StrategySources, OfferSources, BrandSources,
       SpecificationSources, ProjectSources

LEMMA VersionsAreNumbers ==
    ASSUME TypeOK, NEW k \in Kinds
    PROVE  /\ Version(k) \in Nat
           /\ k # "profile" => Version(k) = Len(approved[k]) /\ k \in Agents
           /\ k = "profile" => Version(k) = profile.version
BY KindTables DEF TypeOK, OnboardingTypeOK, Profiles, Version

LEMMA PinsTyped ==
    ASSUME NEW r, r.context \in Versions, r.evidence \in Versions
    PROVE  ContextOf(r) \in Versions /\ PinsOf(r) \in Versions
BY DEF ContextOf, Compiled, PinsOf, Versions

LEMMA RefsTyped ==
    ASSUME NEW k \in Agents, NEW pins \in Versions
    PROVE  Refs(k, pins) \subseteq Kinds \X Nat
BY KindTables DEF Refs, Versions

-----------------------------------------------------------------------------
(* What a step may add: runs and versions, never changing what a version rests on. *)

SameInput(i) ==
    /\ runs'[i].agent = runs[i].agent /\ runs'[i].pins = runs[i].pins
    /\ runs'[i].context = runs[i].context /\ runs'[i].base = runs[i].base
    /\ runs'[i].findings = runs[i].findings /\ runs'[i].operation = runs[i].operation

Grown ==
    /\ \A i \in DOMAIN runs : /\ i \in DOMAIN runs' /\ SameInput(i)
                              /\ runs[i].status = "completed" => runs'[i] = runs[i]
    /\ \A k \in Agents : /\ Len(approved[k]) <= Len(approved'[k])
                         /\ \A v \in DOMAIN approved[k] : approved'[k][v] = approved[k][v]

LEMMA TypesOfRuns ==
    ASSUME TypeOK, NEW i \in DOMAIN runs
    PROVE  /\ runs[i] \in RunRecords /\ runs[i].agent \in Agents
           /\ runs[i].pins \in Versions /\ runs[i].context \in Versions
           /\ runs[i].base \in Nat /\ runs[i].findings \subseteq DOMAIN Research
           /\ runs[i].answer \in AnswerRecords /\ runs[i].operation \in Operations
<1>1. runs[i] \in RunRecords
  BY DEF TypeOK
<1> QED BY <1>1 DEF RunRecords

LEMMA TypesOfVersions ==
    ASSUME TypeOK, NEW k \in Agents
    PROVE  /\ approved[k] \in Seq(VersionRecords) /\ Len(approved[k]) \in Nat
           /\ DOMAIN approved[k] = 1..Len(approved[k])
           /\ \A v \in DOMAIN approved[k] :
                  /\ approved[k][v].sources \in Versions
                  /\ approved[k][v].tree \in [Files -> Nat]
<1>1. approved[k] \in Seq(VersionRecords)
  BY DEF TypeOK
<1>2. \A v \in DOMAIN approved[k] : approved[k][v] \in VersionRecords
  BY <1>1
<1> QED BY <1>1, <1>2 DEF VersionRecords

\* The runs of old keep resting on what they pinned.
LEMMA RunsKeepResting ==
    ASSUME ChainInv, TypeOK', Grown, NEW i \in DOMAIN runs
    PROVE  RunRests(runs[i])'
<1>1. RunRests(runs[i]) /\ SameInput(i) /\ i \in DOMAIN runs'
  BY DEF ChainInv, Grown
<1>2. /\ runs[i].agent \in Agents /\ runs[i].pins \in Versions
      /\ runs[i].base \in Nat
  BY TypesOfRuns DEF ChainInv
<1>3. \A k \in Agents : /\ Len(approved[k]) \in Nat /\ Len(approved'[k]) \in Nat
                        /\ Len(approved[k]) <= Len(approved'[k])
  BY TypesOfVersions DEF ChainInv, Grown, TypeOK
<1>4. \A j \in Sources[runs[i].agent] \ {"profile"} : j \in Agents /\ runs[i].pins[j] \in Nat
  BY <1>2, KindTables DEF Versions
<1>5. "project" \in Agents
  BY KindTables
<1> QED BY <1>1, <1>2, <1>3, <1>4, <1>5 DEF RunRests, SameInput

LEMMA PinnedVersionsExist ==
    ASSUME ChainInv, NEW i \in DOMAIN runs, NEW j \in Sources[runs[i].agent] \ {"profile"}
    PROVE  j \in Agents /\ runs[i].pins[j] \in DOMAIN approved[j]
<1>1. RunRests(runs[i]) /\ TypeOK
  BY DEF ChainInv
<1>2. runs[i].agent \in Agents /\ runs[i].pins \in Versions
  BY <1>1, TypesOfRuns
<1>3. j \in Agents /\ runs[i].pins[j] \in Nat
  BY <1>2, KindTables DEF Versions
<1>4. DOMAIN approved[j] = 1..Len(approved[j]) /\ Len(approved[j]) \in Nat
  BY <1>1, <1>3, TypesOfVersions
<1> QED BY <1>1, <1>3, <1>4 DEF RunRests

LEMMA SourcesExist ==
    ASSUME ChainInv, NEW k \in Agents, NEW v \in DOMAIN approved[k],
           NEW j \in Sources[k] \ {"profile"}
    PROVE  j \in Agents /\ approved[k][v].sources[j] \in DOMAIN approved[j]
<1>1. VersionRests(k, v)
  BY DEF ChainInv
<1> QED BY <1>1, PinnedVersionsExist DEF VersionRests

\* Versions of old keep resting on their run, and on each other.
LEMMA VersionsKeepResting ==
    ASSUME ChainInv, Grown, NEW k \in Agents, NEW v \in DOMAIN approved[k]
    PROVE  VersionRests(k, v)' /\ OneLineageOf(k, v)'
<1>1. VersionRests(k, v) /\ OneLineageOf(k, v)
  BY DEF ChainInv
<1>2. approved'[k][v] = approved[k][v]
  BY DEF Grown
<1>3. VersionRests(k, v)'
  BY <1>1, <1>2 DEF VersionRests, Grown, SameInput
<1>4. ASSUME NEW j \in Sources[k] \ {"profile"}
      PROVE  /\ approved'[k][v].sources[j] = approved[k][v].sources[j]
             /\ approved'[j][approved[k][v].sources[j]] = approved[j][approved[k][v].sources[j]]
  BY <1>2, SourcesExist DEF Grown
<1>5. OneLineageOf(k, v)'
  BY <1>1, <1>2, <1>4 DEF OneLineageOf
<1> QED BY <1>3, <1>5

\* The website a run starts from, and the sitemap it builds, stay what they were.
LEMMA SitesStay ==
    ASSUME ChainInv, Grown, NEW i \in DOMAIN runs
    PROVE  SiteOf(runs[i])' = SiteOf(runs[i])
<1>1. SameInput(i)
  BY DEF Grown
<1>2. CASE runs[i].agent # "project"
  BY <1>1, <1>2 DEF SiteOf, SameInput
<1>3. CASE runs[i].agent = "project"
  <2> DEFINE s == runs[i].pins["specification"]
             r == approved["specification"][s].run
  <2>1. "specification" \in Agents /\ s \in DOMAIN approved["specification"]
    BY <1>3, PinnedVersionsExist, KindTables
  <2>2. VersionRests("specification", s)
    BY <2>1 DEF ChainInv
  <2>3. approved'["specification"][s] = approved["specification"][s] /\ runs'[r] = runs[r]
    BY <2>1, <2>2 DEF Grown, VersionRests
  <2>4. /\ SiteOf(runs[i]) = runs[r].answer.sitemap
        /\ SiteOf(runs[i])' = runs'[approved'["specification"][s].run].answer.sitemap
    BY <1>1, <1>3 DEF SiteOf, SameInput
  <2> QED BY <2>3, <2>4
<1> QED BY <1>2, <1>3

LEMMA TreesStay ==
    ASSUME TypeOK, Grown, NEW v \in 0..Len(approved["project"])
    PROVE  TreeOf(v)' = TreeOf(v) /\ TreeOf(v) \in [Files -> Nat]
<1>1. "project" \in Agents
  BY KindTables
<1>2. v # 0 => v \in DOMAIN approved["project"]
  BY <1>1, TypesOfVersions
<1> QED BY <1>1, <1>2, TypesOfVersions DEF TreeOf, Grown, NoTree

LEMMA WebsitesStay ==
    ASSUME ChainInv, Grown, NEW v \in DOMAIN approved["project"]
    PROVE  Kept(v)' /\ Built(v)'
<1>1. Kept(v) /\ Built(v) /\ TypeOK /\ "project" \in Agents
  BY KindTables DEF ChainInv
<1>2. VersionRests("project", v)
  BY <1>1 DEF ChainInv
<1> DEFINE r == approved["project"][v].run
<1>3. /\ approved'["project"][v] = approved["project"][v]
      /\ r \in DOMAIN runs /\ runs'[r] = runs[r]
  BY <1>1, <1>2 DEF Grown, VersionRests
<1>4. v \in 0..Len(approved["project"]) /\ v - 1 \in 0..Len(approved["project"])
  BY <1>1, TypesOfVersions
<1>5. TreeOf(v)' = TreeOf(v) /\ TreeOf(v - 1)' = TreeOf(v - 1)
  BY <1>1, <1>4, TreesStay
<1>6. SiteOf(runs[r])' = SiteOf(runs[r])
  BY <1>3, SitesStay
<1>7. Kept(v)'
  BY <1>1, <1>3, <1>5 DEF Kept
<1>8. Built(v)'
  BY <1>1, <1>3, <1>5, <1>6 DEF Built, Present
<1> QED BY <1>7, <1>8

\* So a step that only grows the tables has to account for what it adds.
LEMMA GrowthHolds ==
    ASSUME ChainInv, TypeOK', TabsLag', Grown, RequestRests',
           \A i \in DOMAIN runs' \ DOMAIN runs : RunRests(runs[i])',
           \A k \in Agents : \A v \in DOMAIN approved'[k] \ DOMAIN approved[k] :
               VersionRests(k, v)' /\ OneLineageOf(k, v)',
           \A v \in DOMAIN approved'["project"] \ DOMAIN approved["project"] :
               Kept(v)' /\ Built(v)'
    PROVE  ChainInv'
<1>1. \A i \in DOMAIN runs' : RunRests(runs[i])'
  BY RunsKeepResting
<1>2. \A k \in Agents : \A v \in DOMAIN approved'[k] : VersionRests(k, v)' /\ OneLineageOf(k, v)'
  BY VersionsKeepResting
<1>3. \A v \in DOMAIN approved'["project"] : Kept(v)' /\ Built(v)'
  BY WebsitesStay
<1> QED BY <1>1, <1>2, <1>3 DEF ChainInv

-----------------------------------------------------------------------------
(* The steps: create_run. *)

LEMMA NothingGrown ==
    ASSUME ChainInv, UNCHANGED <<approved, runs>>, TypeOK', TabsLag', RequestRests'
    PROVE  ChainInv'
<1>1. Grown
  BY TypesOfVersions DEF Grown, SameInput, ChainInv
<1> QED BY <1>1, GrowthHolds

LEMMA OnboardingKeepsChain ==
    ASSUME ChainInv, OnboardingStep, UNCHANGED chainVars
    PROVE  ChainInv'
<1>1. OnboardingInv'
  BY OnboardingStepHolds DEF ChainInv, TypeOK, OnboardingInv
<1>2. UNCHANGED <<approved, runs, request>>
  BY DEF chainVars
<1>3. TypeOK' /\ TabsLag'
  BY <1>1, <1>2 DEF ChainInv, TypeOK, OnboardingInv
<1>4. RequestRests'
  BY <1>2 DEF ChainInv, RequestRests
<1> QED BY <1>2, <1>3, <1>4, NothingGrown

\* Only the strategist's request holds findings.
LEMMA RequestRunHolds ==
    ASSUME ChainInv, NEW agent \in Agents, NEW operation \in Operations,
           NEW base \in 0..Version("project"), NEW findings \in SUBSET DOMAIN Research,
           RequestRun(agent, operation, base, findings)
    PROVE  ChainInv'
<1>1. "project" \in Agents /\ TypeOK /\ TabsLag
  BY KindTables DEF ChainInv
<1>2. base \in Nat /\ base <= Len(approved["project"])
  BY <1>1, KindTables, VersionsAreNumbers
<1>3. Nothing \in Versions /\ \A k \in Agents : Nothing[k] = 0 /\ Len(approved[k]) \in Nat
  BY <1>1, KindTables, TypesOfVersions DEF Nothing, Versions
<1>4. request' = [agent |-> agent, operation |-> operation, base |-> base,
                  findings |-> findings, done |-> 0, context |-> Nothing,
                  evidence |-> Nothing]
      /\ UNCHANGED <<onboardingVars, approved, runs>>
      /\ Cardinality(findings) = IF agent = "strategy" THEN Cardinality(ResearchAgents) ELSE 0
  BY DEF RequestRun
<1>5. request' \in RequestRecords
  BY <1>2, <1>3, <1>4 DEF RequestRecords
<1>6. TypeOK' /\ TabsLag'
  BY <1>1, <1>4, <1>5 DEF TypeOK, TabsLag, OnboardingTypeOK, onboardingVars
<1>7. agent # "strategy" => findings = {}
  BY <1>4, ChainAssumption, FS_Subset, FS_EmptySet
<1>8. RequestRests'
  BY <1>2, <1>3, <1>4, <1>7 DEF RequestRests
<1> QED BY <1>4, <1>6, <1>8, NothingGrown

\* A record that is read exists by then, and stays.
LEMMA ReadRecordHolds ==
    ASSUME ChainInv, ReadRecord
    PROVE  ChainInv'
<1>1. TypeOK /\ TabsLag /\ RequestRests /\ request # NoRequest
  BY DEF ChainInv, ReadRecord
<1>2. request \in RequestRecords
  BY <1>1 DEF TypeOK
<1> DEFINE k == Reads(request.agent)[request.done + 1]
           inContext == request.done < Len(ContextReads(request.agent))
<1>3. /\ request' = [request EXCEPT
             !.done = @ + 1,
             !.context = IF inContext THEN [@ EXCEPT ![k] = Version(k)] ELSE @,
             !.evidence = IF inContext THEN @ ELSE [@ EXCEPT ![k] = Version(k)]]
      /\ UNCHANGED <<onboardingVars, approved, runs>>
  BY DEF ReadRecord
<1> HIDE DEF k, inContext
<1>4. ASSUME NEW f \in Versions
      PROVE  /\ [f EXCEPT ![k] = Version(k)] \in Versions
             /\ \A j \in Agents : \/ [f EXCEPT ![k] = Version(k)][j] = f[j]
                                  \/ [f EXCEPT ![k] = Version(k)][j] = Len(approved[j])
  BY <1>1, KindTables, VersionsAreNumbers DEF Versions
<1>5. /\ request.context \in Versions /\ request.evidence \in Versions
      /\ request.done + 1 \in Nat
  BY <1>2 DEF RequestRecords
<1>6. /\ request'.agent = request.agent /\ request'.base = request.base
      /\ request'.findings = request.findings
      /\ request'.evidence \in {request.evidence, [request.evidence EXCEPT ![k] = Version(k)]}
      /\ request' \in RequestRecords
  <2> DEFINE context == IF inContext THEN [request.context EXCEPT ![k] = Version(k)]
                        ELSE request.context
             evidence == IF inContext THEN request.evidence
                         ELSE [request.evidence EXCEPT ![k] = Version(k)]
  <2>1. context \in Versions /\ evidence \in Versions
    BY <1>4, <1>5
  <2>2. request' = [request EXCEPT !.done = @ + 1, !.context = context, !.evidence = evidence]
    BY <1>3, <1>2 DEF RequestRecords
  <2>3. evidence \in {request.evidence, [request.evidence EXCEPT ![k] = Version(k)]}
    OBVIOUS
  <2> HIDE DEF context, evidence
  <2> QED BY <1>2, <1>5, <2>1, <2>2, <2>3 DEF RequestRecords
<1>7. TypeOK' /\ TabsLag'
  BY <1>1, <1>3, <1>6 DEF TypeOK, TabsLag, OnboardingTypeOK, onboardingVars
<1>8. \A j \in Agents : request'.evidence[j] <= Len(approved[j])
  <2>1. \A j \in Agents : /\ Len(approved[j]) \in Nat
                          /\ request.evidence[j] <= Len(approved[j])
    BY <1>1, TypesOfVersions DEF RequestRests
  <2>2. CASE request'.evidence = request.evidence
    BY <2>1, <2>2
  <2>3. CASE request'.evidence = [request.evidence EXCEPT ![k] = Version(k)]
    BY <1>4, <1>5, <2>1, <2>3
  <2> QED BY <1>6, <2>2, <2>3
<1>9. RequestRests'
  BY <1>1, <1>3, <1>6, <1>8 DEF RequestRests
<1> QED BY <1>3, <1>7, <1>9, NothingGrown

LEMMA NoAnswerTyped == NoAnswer \in AnswerRecords
BY DEF NoAnswer, AnswerRecords, Operations

\* What create_run compares is what the invariant remembers of a run.
LEMMA AdmissibleRests ==
    ASSUME TypeOK, RequestRests, request # NoRequest, Admissible(request)
    PROVE  RunOf(request) \in RunRecords /\ RunRests(RunOf(request))
<1> DEFINE run == RunOf(request)
<1>1. request \in RequestRecords
  BY DEF TypeOK
<1>2. /\ request.agent \in Agents /\ request.operation \in Operations /\ request.base \in Nat
      /\ request.findings \subseteq DOMAIN Research
      /\ request.context \in Versions /\ request.evidence \in Versions
  BY <1>1 DEF RequestRecords
<1>3. ContextOf(request) \in Versions /\ PinsOf(request) \in Versions
  BY <1>2, PinsTyped
<1>4. /\ run.agent = request.agent /\ run.base = request.base
      /\ run.findings = request.findings
      /\ run.context = ContextOf(request) /\ run.pins = PinsOf(request)
  BY DEF RunOf
<1>5. run \in RunRecords
  BY <1>2, <1>3, NoAnswerTyped DEF RunOf, RunRecords
<1>6. InContext(ContextOf(request), PinsOf(request), request.agent)
  BY DEF Admissible, StrategyEvidence, OfferEvidence, BrandEvidence, SpecificationEvidence,
         CodingEvidence
<1>7. \A j \in Sources[request.agent] :
          PinsOf(request)[j] # 0 /\ PinsOf(request)[j] = ContextOf(request)[j]
  BY <1>6 DEF InContext
<1>8. \A f \in request.findings : Research[f].supported
  BY DEF Admissible, StrategyEvidence, UsableResearch, RequestRests
<1>9. ASSUME NEW j \in Sources[request.agent] \ {"profile"}
      PROVE  PinsOf(request)[j] <= Len(approved[j])
  <2>1. j \in Agents /\ j \in Kinds /\ request.agent # "strategy"
    BY <1>2, KindTables
  <2>2. PinsOf(request)[j] = request.evidence[j]
    BY <2>1 DEF PinsOf
  <2> QED BY <2>1, <2>2 DEF RequestRests
<1>10. /\ request.base <= Len(approved["project"])
       /\ request.agent # "strategy" => request.findings = {}
  BY DEF RequestRests
<1> HIDE DEF run
<1>11. RunRests(run)
  BY <1>4, <1>7, <1>8, <1>9, <1>10 DEF RunRests
<1> QED BY <1>5, <1>11 DEF run

LEMMA CreateRunHolds ==
    ASSUME ChainInv, CreateRun
    PROVE  ChainInv'
<1>1. /\ TypeOK /\ TabsLag /\ RequestRests /\ request # NoRequest
      /\ runs \in Seq(RunRecords)
      /\ request' = NoRequest /\ UNCHANGED <<onboardingVars, approved>>
  BY DEF ChainInv, CreateRun, TypeOK
<1>2. RequestRests'
  BY <1>1 DEF RequestRests
<1>3. CASE ~Admissible(request)
  <2>1. runs' = runs
    BY <1>3 DEF CreateRun
  <2>2. TypeOK' /\ TabsLag'
    BY <1>1, <2>1 DEF TypeOK, TabsLag, OnboardingTypeOK, onboardingVars
  <2> QED BY <1>1, <1>2, <2>1, <2>2, NothingGrown
<1>4. CASE Admissible(request)
  <2> DEFINE run == RunOf(request)
             n == Len(runs)
  <2>1. runs' = Append(runs, run) /\ run \in RunRecords /\ RunRests(run)
    BY <1>1, <1>4, AdmissibleRests DEF CreateRun
  <2> HIDE DEF run
  <2>2. /\ runs' \in Seq(RunRecords) /\ n \in Nat
        /\ DOMAIN runs = 1..n /\ DOMAIN runs' = 1..(n + 1)
        /\ \A i \in 1..n : runs'[i] = runs[i]
        /\ runs'[n + 1] = run
    BY <1>1, <2>1
  <2>3. TypeOK' /\ TabsLag'
    BY <1>1, <2>2 DEF TypeOK, TabsLag, OnboardingTypeOK, onboardingVars
  <2>4. Grown
    BY <1>1, <2>2, TypesOfVersions DEF Grown, SameInput
  <2>5. ASSUME NEW i \in DOMAIN runs' \ DOMAIN runs PROVE RunRests(runs[i])'
    <3>1. runs'[i] = run
      BY <2>2, <2>5
    <3> QED BY <1>1, <2>1, <3>1 DEF RunRests
  <2>6. approved' = approved
    BY <1>1
  <2> QED BY <1>2, <2>3, <2>4, <2>5, <2>6, GrowthHolds
<1> QED BY <1>3, <1>4

-----------------------------------------------------------------------------
(* The steps: the end of a run. *)

\* The sitemap a run builds was proposed by a run.
LEMMA SitesTyped ==
    ASSUME ChainInv, NEW i \in DOMAIN runs
    PROVE  DOMAIN SiteOf(runs[i]) \subseteq Routes
<1>1. CASE runs[i].agent # "project"
  BY <1>1 DEF SiteOf, Empty
<1>2. CASE runs[i].agent = "project"
  <2> DEFINE s == runs[i].pins["specification"]
             r == approved["specification"][s].run
  <2>1. "specification" \in Agents /\ s \in DOMAIN approved["specification"]
    BY <1>2, PinnedVersionsExist, KindTables
  <2>2. r \in DOMAIN runs
    BY <2>1 DEF ChainInv, VersionRests
  <2>3. runs[r].answer \in AnswerRecords
    BY <2>2, TypesOfRuns DEF ChainInv
  <2>4. runs[r].answer.sitemap \in Sitemaps \cup {Empty}
    BY <2>3 DEF AnswerRecords
  <2>5. SiteOf(runs[i]) = runs[r].answer.sitemap
    BY <1>2 DEF SiteOf
  <2> QED BY <2>4, <2>5 DEF Routes, Empty
<1> QED BY <1>1, <1>2

LEMMA AnswersTyped ==
    ASSUME ChainInv, NEW i \in DOMAIN runs, NEW answer \in Answers(runs[i])
    PROVE  answer \in AnswerRecords
<1> DEFINE run == runs[i]
<1>1. /\ run.agent \in Agents /\ run.pins \in Versions /\ run.operation \in Operations
      /\ run.findings \subseteq DOMAIN Research
  BY TypesOfRuns DEF ChainInv
<1>2. \A cites \in Cited(run) : cites \in SUBSET Citable
  <2>1. Refs(run.agent, run.pins) \subseteq Kinds \X Nat
    BY <1>1, RefsTyped
  <2>2. <<"strategy", 1>> \in Kinds \X Nat
    BY DEF Kinds
  <2> QED BY <1>1, <2>1, <2>2 DEF Cited, Citable
<1>3. DOMAIN SiteOf(run) \subseteq Routes /\ Root \in Routes
  BY SitesTyped DEF Routes
<1>4. answer \in [cites : SUBSET Citable, sitemap : Sitemaps \cup {Empty},
                  specified : SUBSET Routes, operation : Operations,
                  changes : ChangeSets \cup {Empty}, traced : SUBSET Routes,
                  tested : SUBSET Routes]
  <2>1. \A S \in {{Root}} \cup {DOMAIN s : s \in Sitemaps} : S \in SUBSET Routes
    BY DEF Routes
  <2> QED BY <1>1, <1>2, <1>3, <2>1 DEF Answers
<1> QED BY <1>4 DEF AnswerRecords

\* The end of a run changes nothing else of it, and never a completed one.
LEMMA EndsTyped ==
    ASSUME TypeOK, NEW i \in DOMAIN runs, NEW status \in {"failed", "completed"},
           NEW answer \in AnswerRecords, runs[i].status = "queued", Ends(i, status, answer)
    PROVE  /\ runs' \in Seq(RunRecords) /\ DOMAIN runs' = DOMAIN runs
           /\ \A j \in DOMAIN runs : SameInput(j)
           /\ \A j \in DOMAIN runs \ {i} : runs'[j] = runs[j]
           /\ \A j \in DOMAIN runs : runs[j].status = "completed" => runs'[j] = runs[j]
           /\ runs'[i].status = status /\ runs'[i].answer = answer
<1>1. runs \in Seq(RunRecords) /\ runs[i] \in RunRecords
  BY DEF TypeOK
<1> DEFINE ended == [runs[i] EXCEPT !.status = status, !.answer = answer]
<1>2. /\ ended \in RunRecords /\ ended.status = status /\ ended.answer = answer
      /\ ended.agent = runs[i].agent /\ ended.pins = runs[i].pins
      /\ ended.context = runs[i].context /\ ended.base = runs[i].base
      /\ ended.findings = runs[i].findings /\ ended.operation = runs[i].operation
  BY <1>1 DEF RunRecords
<1>3. runs' = [runs EXCEPT ![i] = ended]
  BY DEF Ends
<1> HIDE DEF ended
<1>4. /\ runs' \in Seq(RunRecords) /\ DOMAIN runs' = DOMAIN runs /\ runs'[i] = ended
      /\ \A j \in DOMAIN runs \ {i} : runs'[j] = runs[j]
  BY <1>1, <1>2, <1>3
<1> QED BY <1>2, <1>4 DEF SameInput

LEMMA EndOfRunHolds ==
    ASSUME ChainInv, NEW i \in DOMAIN runs,
           FailRun(i) \/ \E answer \in Answers(runs[i]) : CompleteRun(i, answer)
    PROVE  ChainInv'
<1>1. TypeOK /\ TabsLag /\ RequestRests
  BY DEF ChainInv
<1>2. PICK status \in {"failed", "completed"}, answer \in AnswerRecords :
          /\ runs[i].status = "queued" /\ Ends(i, status, answer)
          /\ UNCHANGED <<onboardingVars, approved, request>>
  BY NoAnswerTyped, AnswersTyped DEF FailRun, CompleteRun
<1>3. /\ runs' \in Seq(RunRecords) /\ DOMAIN runs' = DOMAIN runs
      /\ \A j \in DOMAIN runs : SameInput(j)
      /\ \A j \in DOMAIN runs : runs[j].status = "completed" => runs'[j] = runs[j]
  BY <1>1, <1>2, EndsTyped
<1>4. TypeOK' /\ TabsLag' /\ RequestRests'
  BY <1>1, <1>2, <1>3 DEF TypeOK, TabsLag, RequestRests, OnboardingTypeOK, onboardingVars
<1>5. Grown
  BY <1>1, <1>2, <1>3, TypesOfVersions DEF Grown
<1>6. approved' = approved
  BY <1>2
<1> QED BY <1>3, <1>4, <1>5, <1>6, GrowthHolds

-----------------------------------------------------------------------------
(* The steps: approvals and builds add a version. *)

LEMMA AppendedVersion ==
    ASSUME TypeOK, NEW k \in Agents, NEW record \in VersionRecords,
           approved' = [approved EXCEPT ![k] = Append(@, record)]
    PROVE  /\ approved' \in [Agents -> Seq(VersionRecords)]
           /\ Len(approved[k]) \in Nat /\ Len(approved'[k]) = Len(approved[k]) + 1
           /\ approved'[k][Len(approved[k]) + 1] = record
           /\ DOMAIN approved[k] = 1..Len(approved[k])
           /\ DOMAIN approved'[k] = 1..(Len(approved[k]) + 1)
           /\ \A v \in DOMAIN approved[k] : approved'[k][v] = approved[k][v]
           /\ \A j \in Agents \ {k} : approved'[j] = approved[j]
<1>1. approved \in [Agents -> Seq(VersionRecords)] /\ approved[k] \in Seq(VersionRecords)
  BY DEF TypeOK
<1> DEFINE longer == Append(approved[k], record)
<1>2. /\ longer \in Seq(VersionRecords) /\ Len(approved[k]) \in Nat
      /\ Len(longer) = Len(approved[k]) + 1
      /\ DOMAIN approved[k] = 1..Len(approved[k])
      /\ DOMAIN longer = 1..(Len(approved[k]) + 1)
      /\ longer[Len(approved[k]) + 1] = record
      /\ \A v \in DOMAIN approved[k] : longer[v] = approved[k][v]
  BY <1>1
<1>3. approved' = [approved EXCEPT ![k] = longer]
  OBVIOUS
<1> HIDE DEF longer
<1>4. approved'[k] = longer
  BY <1>1, <1>3
<1> QED BY <1>1, <1>2, <1>3, <1>4

LEMMA RequestKeepsResting ==
    ASSUME ChainInv, Grown, TypeOK', request' = request
    PROVE  RequestRests'
<1>1. TypeOK /\ RequestRests /\ "project" \in Agents
  BY KindTables DEF ChainInv
<1>2. \A j \in Agents : /\ Len(approved[j]) \in Nat /\ Len(approved'[j]) \in Nat
                        /\ Len(approved[j]) <= Len(approved'[j])
  BY <1>1, TypesOfVersions DEF Grown, TypeOK
<1>3. request # NoRequest => /\ request.base \in Nat
                             /\ \A j \in Agents : request.evidence[j] \in Nat
  BY <1>1, KindTables DEF TypeOK, RequestRecords, Versions
<1> QED BY <1>1, <1>2, <1>3 DEF RequestRests

LEMMA ValidCites ==
    ASSUME NEW run, NEW answer, Valid(run, answer)
    PROVE  answer.cites \subseteq Refs(run.agent, run.pins) \cup run.findings
BY DEF Valid, ValidStrategy, ValidOffer, ValidBrand, ValidSpecification, ValidChanges, CitesOnly

LEMMA ApprovalHolds ==
    ASSUME ChainInv, NEW k \in Agents \ {"project"}, NEW i \in DOMAIN runs,
           Approvable(i, k), Approved(i, k)
    PROVE  ChainInv'
<1> DEFINE record == [run |-> i, sources |-> CurrentPins(k), cites |-> runs[i].answer.cites,
                      tree |-> NoTree]
<1>1. /\ TypeOK /\ TabsLag /\ RequestRests
      /\ UNCHANGED <<onboardingVars, runs, request>>
      /\ approved' = [approved EXCEPT ![k] = Append(@, record)]
  BY DEF ChainInv, Approved
<1>2. /\ runs[i].agent = k /\ runs[i].status = "completed" /\ runs[i].pins = CurrentPins(k)
      /\ runs[i].answer.cites \subseteq Refs(k, runs[i].pins) \cup runs[i].findings
  BY ValidCites DEF Approvable
<1>3. record \in VersionRecords
  <2>1. i \in Nat
    BY <1>1 DEF TypeOK
  <2>2. runs[i].pins \in Versions /\ runs[i].answer \in AnswerRecords
    BY <1>1, TypesOfRuns
  <2>3. runs[i].answer.cites \in SUBSET Citable
    BY <2>2 DEF AnswerRecords
  <2>4. NoTree \in [Files -> Nat]
    BY DEF NoTree
  <2> QED BY <1>2, <2>1, <2>2, <2>3, <2>4 DEF VersionRecords
<1>4. record.run = i /\ record.sources = runs[i].pins /\ record.cites = runs[i].answer.cites
  BY <1>2
<1> HIDE DEF record
<1>5. PICK new \in Nat :
      /\ approved' \in [Agents -> Seq(VersionRecords)]
      /\ Len(approved'[k]) = Len(approved[k]) + 1 /\ Len(approved[k]) \in Nat
      /\ approved'[k][new] = record
      /\ DOMAIN approved'[k] \ DOMAIN approved[k] = {new}
      /\ \A v \in DOMAIN approved[k] : approved'[k][v] = approved[k][v]
      /\ \A j \in Agents \ {k} : approved'[j] = approved[j]
  <2>1. \A m \in Nat : (1..(m + 1)) \ (1..m) = {m + 1} /\ m + 1 \in Nat
    OBVIOUS
  <2> QED BY <1>1, <1>3, <2>1, AppendedVersion
<1>6. TypeOK' /\ TabsLag'
  BY <1>1, <1>5 DEF TypeOK, TabsLag, OnboardingTypeOK, onboardingVars
<1>7. Grown
  <2>1. \A j \in Agents : Len(approved[j]) <= Len(approved'[j])
    BY <1>1, <1>5, TypesOfVersions
  <2> QED BY <1>1, <1>5, <2>1 DEF Grown, SameInput
<1>8. RequestRests'
  BY <1>1, <1>6, <1>7, RequestKeepsResting
<1>9. VersionRests(k, new)'
  BY <1>1, <1>2, <1>4, <1>5 DEF VersionRests, Refs
<1>10. OneLineageOf(k, new)'
  <2> SUFFICES ASSUME NEW j \in Sources[k] \ {"profile"}, NEW m \in Sources[j] \cap Sources[k]
               PROVE  approved'[j][record.sources[j]].sources[m] = record.sources[m]
    BY <1>5 DEF OneLineageOf
  <2>1. j \in Agents /\ runs[i].pins[j] \in DOMAIN approved[j]
    BY <1>2, PinnedVersionsExist
  <2>2. approved'[j][record.sources[j]] = approved[j][runs[i].pins[j]]
    BY <1>4, <1>7, <2>1 DEF Grown
  <2>3. runs[i].pins[j] # 0
    BY <1>2 DEF ChainInv, RunRests
  <2>4. SourcesOf(j, runs[i].pins[j])[m] = runs[i].pins[m]
    BY <1>2 DEF Approvable, OneLineage
  <2>5. SourcesOf(j, runs[i].pins[j]) = approved[j][runs[i].pins[j]].sources
    BY <2>1, <2>3 DEF SourcesOf
  <2> QED BY <1>4, <2>2, <2>4, <2>5
<1>11. \A j \in Agents : \A v \in DOMAIN approved'[j] \ DOMAIN approved[j] :
           VersionRests(j, v)' /\ OneLineageOf(j, v)'
  BY <1>5, <1>9, <1>10
<1>12. DOMAIN approved'["project"] = DOMAIN approved["project"]
  BY <1>5, KindTables
<1> QED BY <1>1, <1>6, <1>7, <1>8, <1>11, <1>12, GrowthHolds

LEMMA BuildHolds ==
    ASSUME ChainInv, NEW i \in DOMAIN runs, NEW answer \in Answers(runs[i]),
           CompleteWebsiteBuild(i, answer)
    PROVE  ChainInv'
<1> DEFINE tree == Resulting(TreeOf(runs[i].base), answer.changes, i)
           record == [run |-> i, sources |-> runs[i].pins, cites |-> answer.cites,
                      tree |-> tree]
<1>1. /\ TypeOK /\ TabsLag /\ RequestRests /\ "project" \in Agents
      /\ UNCHANGED <<onboardingVars, request>>
      /\ runs[i].status = "queued" /\ runs[i].agent = "project"
      /\ Valid(runs[i], answer) /\ StillBuildable(runs[i]) /\ Builds(tree, SiteOf(runs[i]))
      /\ approved' = [approved EXCEPT !["project"] = Append(@, record)]
      /\ Ends(i, "completed", answer)
  BY KindTables DEF ChainInv, CompleteWebsiteBuild
<1>2. answer \in AnswerRecords /\ answer.cites \in SUBSET Citable
  BY AnswersTyped DEF AnswerRecords
<1>3. /\ runs[i].pins \in Versions /\ runs[i].base \in Nat /\ i \in Nat
      /\ runs[i].base \in 0..Len(approved["project"])
  BY <1>1, TypesOfRuns, TypesOfVersions DEF ChainInv, RunRests, TypeOK
<1>4. TreeOf(runs[i].base) \in [Files -> Nat]
  <2>1. runs[i].base # 0 => runs[i].base \in DOMAIN approved["project"]
    BY <1>1, <1>3, TypesOfVersions
  <2> QED BY <1>1, <2>1, TypesOfVersions DEF TreeOf, NoTree
<1>5. tree \in [Files -> Nat]
  BY <1>3, <1>4 DEF Resulting
<1>6. \A f \in Files \ DOMAIN answer.changes : tree[f] = TreeOf(runs[i].base)[f]
  BY DEF Resulting
<1> HIDE DEF tree
<1>7. /\ record \in VersionRecords /\ record.run = i /\ record.sources = runs[i].pins
      /\ record.cites = answer.cites /\ record.tree = tree
  BY <1>2, <1>3, <1>5 DEF VersionRecords
<1> HIDE DEF record
<1>8. PICK new \in Nat :
      /\ new = Len(approved["project"]) + 1 /\ new \in DOMAIN approved'["project"]
      /\ approved' \in [Agents -> Seq(VersionRecords)]
      /\ Len(approved'["project"]) = Len(approved["project"]) + 1
      /\ approved'["project"][new] = record
      /\ DOMAIN approved'["project"] \ DOMAIN approved["project"] = {new}
      /\ \A v \in DOMAIN approved["project"] :
             approved'["project"][v] = approved["project"][v]
      /\ \A j \in Agents \ {"project"} : approved'[j] = approved[j]
  <2>1. \A m \in Nat : /\ (1..(m + 1)) \ (1..m) = {m + 1} /\ m + 1 \in Nat
                       /\ m + 1 \in 1..(m + 1)
    OBVIOUS
  <2>2. /\ approved' \in [Agents -> Seq(VersionRecords)]
        /\ Len(approved["project"]) \in Nat
        /\ Len(approved'["project"]) = Len(approved["project"]) + 1
        /\ approved'["project"][Len(approved["project"]) + 1] = record
        /\ DOMAIN approved["project"] = 1..Len(approved["project"])
        /\ DOMAIN approved'["project"] = 1..(Len(approved["project"]) + 1)
        /\ \A v \in DOMAIN approved["project"] :
               approved'["project"][v] = approved["project"][v]
        /\ \A j \in Agents \ {"project"} : approved'[j] = approved[j]
    BY <1>1, <1>7, AppendedVersion
  <2> QED BY <2>1, <2>2
<1>9. /\ runs' \in Seq(RunRecords) /\ DOMAIN runs' = DOMAIN runs
      /\ \A j \in DOMAIN runs : SameInput(j)
      /\ \A j \in DOMAIN runs : runs[j].status = "completed" => runs'[j] = runs[j]
      /\ runs'[i].status = "completed" /\ runs'[i].answer = answer
  BY <1>1, <1>2, EndsTyped
<1>10. TypeOK' /\ TabsLag'
  BY <1>1, <1>8, <1>9 DEF TypeOK, TabsLag, OnboardingTypeOK, onboardingVars
<1>11. Grown
  <2>1. \A j \in Agents : Len(approved[j]) <= Len(approved'[j])
    BY <1>1, <1>8, TypesOfVersions
  <2> QED BY <1>8, <1>9, <2>1 DEF Grown
<1>12. RequestRests'
  BY <1>1, <1>10, <1>11, RequestKeepsResting
<1>13. VersionRests("project", new)'
  <2>1. answer.cites \subseteq Refs("project", runs[i].pins) \cup runs[i].findings
    BY <1>1, ValidCites
  <2> QED BY <1>1, <1>7, <1>8, <1>9, <2>1 DEF VersionRests, SameInput, Refs
<1>14. OneLineageOf("project", new)'
  BY DEF OneLineageOf, Sources, ProjectSources, SpecificationSources
<1>15. Kept(new)'
  <2> SUFFICES ASSUME runs[i].operation = "modify", NEW f \in Files \ DOMAIN answer.changes
               PROVE  tree[f] = TreeOf(new - 1)'[f]
    BY <1>7, <1>8, <1>9 DEF Kept, SameInput
  <2>1. Version("project") = runs[i].base
    BY <1>1 DEF StillBuildable, SameBase
  <2>2. new - 1 = runs[i].base
    BY <1>1, <1>3, <1>8, <2>1, VersionsAreNumbers, KindTables
  <2>3. TreeOf(new - 1)' = TreeOf(new - 1)
    BY <1>1, <1>3, <1>11, <2>2, TreesStay
  <2> QED BY <1>6, <2>2, <2>3
<1>16. Built(new)'
  <2>1. SiteOf(runs[i])' = SiteOf(runs[i])
    BY <1>11, SitesStay
  <2>2. TreeOf(new)' = tree
    BY <1>7, <1>8 DEF TreeOf
  <2> QED BY <1>1, <1>7, <1>8, <2>1, <2>2 DEF Built, Builds, Present
<1>17. \A j \in Agents : \A v \in DOMAIN approved'[j] \ DOMAIN approved[j] :
           VersionRests(j, v)' /\ OneLineageOf(j, v)'
  <2>1. \A j \in Agents \ {"project"} : DOMAIN approved'[j] \ DOMAIN approved[j] = {}
    BY <1>8
  <2> QED BY <1>8, <1>13, <1>14, <2>1
<1>18. \A v \in DOMAIN approved'["project"] \ DOMAIN approved["project"] : Kept(v)' /\ Built(v)'
  BY <1>8, <1>15, <1>16
<1> QED BY <1>9, <1>10, <1>11, <1>12, <1>17, <1>18, GrowthHolds

-----------------------------------------------------------------------------
(* The initial chain. *)

LEMMA ChainOrder ==
    /\ Len(Chain) = 5 /\ \A i \in 1..5 : Chain[i] \in Agents
    /\ \A i, m \in 1..5 : Chain[i] = Chain[m] => i = m
    /\ Chain[1] = "strategy" /\ Chain[4] = "specification" /\ Chain[5] = "project"
    /\ \A i \in 1..5 : \A j \in Sources[Chain[i]] \ {"profile"} :
           \E m \in 1..5 : m < i /\ j = Chain[m]
<1>1. /\ Len(Chain) = 5 /\ Chain[1] = "strategy" /\ Chain[2] = "offer" /\ Chain[3] = "brand"
      /\ Chain[4] = "specification" /\ Chain[5] = "project"
  BY DEF Chain
<1>2. /\ Sources["strategy"] = {"profile"} /\ Sources["offer"] = {"strategy"}
      /\ Sources["brand"] = {"strategy", "offer"}
      /\ Sources["specification"] = {"strategy", "offer", "brand"}
      /\ Sources["project"] = {"specification"}
  BY DEF Sources, StrategySources, OfferSources, BrandSources, SpecificationSources,
         ProjectSources
<1>3. \A i \in 1..5 : i \in {1, 2, 3, 4, 5}
  OBVIOUS
<1> HIDE DEF Chain
<1>4. \A i, m \in 1..5 : Chain[i] = Chain[m] => i = m
  BY <1>1, <1>3
<1>5. ASSUME NEW i \in 1..5, NEW j \in Sources[Chain[i]] \ {"profile"}
      PROVE  \E m \in 1..5 : m < i /\ j = Chain[m]
  <2>1. CASE i = 1
    BY <1>1, <1>2, <2>1
  <2>2. CASE i = 2
    BY <1>1, <1>2, <2>2
  <2>3. CASE i = 3
    BY <1>1, <1>2, <2>3
  <2>4. CASE i = 4
    BY <1>1, <1>2, <2>4
  <2>5. CASE i = 5
    BY <1>1, <1>2, <2>5
  <2> QED BY <1>3, <2>1, <2>2, <2>3, <2>4, <2>5
<1> QED BY <1>1, <1>3, <1>4, <1>5, KindTables

LEMMA FirstPinsAre ==
    ASSUME NEW k \in Agents
    PROVE  /\ FirstPins(k) \in Versions /\ \A j \in Sources[k] : FirstPins(k)[j] = 1
           /\ \A m \in Nat : FirstContext(k, m) \in Versions
BY KindTables DEF FirstPins, FirstContext, Compiled, Versions

\* The chain of n kinds could have been built (ChainAssumption).
Buildable(n) ==
    /\ n >= 1 => \E chosen \in SUBSET DOMAIN Research : UsableResearch(chosen)
    /\ n >= 4 => \E s \in Sitemaps : IsSitemap(s) /\ Cardinality(DOMAIN s) > 1
    /\ n = 5 => DOMAIN FirstSitemap \subseteq Files
    /\ \A i \in 1..n : \A k \in Sources[Chain[i]] : FirstContext(Chain[i], i - 1)[k] = 1

LEMMA FirstRecordsTyped ==
    ASSUME NEW n \in 0..5, Buildable(n), NEW i \in 1..n
    PROVE  /\ FirstRun(i) \in RunRecords /\ FirstVersion(i) \in VersionRecords
           /\ Chain[i] # "strategy" => FirstRun(i).findings = {}
           /\ \A f \in FirstRun(i).findings : Research[f].supported
<1> DEFINE k == Chain[i]
           run == FirstRun(i)
<1>1. i \in 1..5 /\ k \in Agents /\ n >= 1 /\ i - 1 \in Nat
  BY ChainOrder
<1>2. FirstPins(k) \in Versions /\ FirstContext(k, i - 1) \in Versions
  BY <1>1, FirstPinsAre
<1>3. /\ run.findings = IF k = "strategy" THEN FirstFindings ELSE {}
      /\ run.findings \in SUBSET DOMAIN Research
      /\ \A f \in run.findings : Research[f].supported
  <2>1. FirstFindings \in SUBSET DOMAIN Research /\ UsableResearch(FirstFindings)
    BY <1>1 DEF FirstFindings, Buildable
  <2>2. run.findings = IF k = "strategy" THEN FirstFindings ELSE {}
    BY DEF FirstRun
  <2> QED BY <2>1, <2>2 DEF UsableResearch
<1>4. k = "specification" => FirstSitemap \in Sitemaps
  <2>1. k = "specification" => n >= 4
    BY <1>1, ChainOrder
  <2> QED BY <2>1 DEF Buildable, FirstSitemap
<1>5. Refs(k, FirstPins(k)) \cup run.findings \in SUBSET Citable
  BY <1>1, <1>2, <1>3, RefsTyped DEF Citable
<1> DEFINE sitemap == IF k = "specification" THEN FirstSitemap ELSE Empty
           cites == Refs(k, FirstPins(k)) \cup run.findings
           answer == [NoAnswer EXCEPT !.cites = cites, !.sitemap = sitemap]
           operation == IF k = "project" THEN "generate" ELSE "none"
<1>6. answer \in AnswerRecords
  <2>1. sitemap \in Sitemaps \cup {Empty}
    BY <1>4
  <2> HIDE DEF sitemap, cites
  <2> QED BY <1>5, <2>1, NoAnswerTyped DEF AnswerRecords, cites
<1>7. run = [agent |-> k, status |-> "completed", context |-> FirstContext(k, i - 1),
             pins |-> FirstPins(k), operation |-> operation,
             base |-> 0, findings |-> run.findings, established |-> TRUE, answer |-> answer]
  BY DEF FirstRun
<1>8. operation \in Operations
  BY DEF Operations
<1> HIDE DEF answer, operation
<1>9. run \in RunRecords
  <2>1. ASSUME NEW findings \in SUBSET DOMAIN Research
        PROVE  [agent |-> k, status |-> "completed", context |-> FirstContext(k, i - 1),
                pins |-> FirstPins(k), operation |-> operation, base |-> 0,
                findings |-> findings, established |-> TRUE, answer |-> answer] \in RunRecords
    BY <1>1, <1>2, <1>6, <1>8 DEF RunRecords
  <2> HIDE DEF run
  <2> QED BY <1>3, <1>7, <2>1
<1>10. FirstVersion(i) \in VersionRecords
  <2>1. FirstTree(i) \in [Files -> Nat] /\ NoTree \in [Files -> Nat]
    BY DEF FirstTree, NoTree
  <2> QED BY <1>1, <1>2, <1>5, <2>1 DEF FirstVersion, VersionRecords
<1> QED BY <1>3, <1>9, <1>10

\* A chain that could have been built satisfies the invariant.
LEMMA InitialChainHolds ==
    ASSUME NEW n \in 0..5, Buildable(n), InitWith(n), OnboardingInv
    PROVE  ChainInv
<1>1. /\ runs = [i \in 1..n |-> FirstRun(i)] /\ request = NoRequest
      /\ approved = [k \in Agents |->
             IF \E i \in 1..n : Chain[i] = k
             THEN <<FirstVersion(CHOOSE i \in 1..n : Chain[i] = k)>> ELSE <<>>]
  BY DEF InitWith
<1>2. \A i \in 1..n : /\ i \in 1..5 /\ Chain[i] \in Agents
                      /\ FirstRun(i) \in RunRecords /\ FirstVersion(i) \in VersionRecords
  BY ChainOrder, FirstRecordsTyped
<1>3. ASSUME NEW k \in Agents
      PROVE  \/ \E i \in 1..n : k = Chain[i] /\ approved[k] = <<FirstVersion(i)>>
             \/ approved[k] = <<>> /\ \A i \in 1..n : k # Chain[i]
  <2>1. CASE \E i \in 1..n : Chain[i] = k
    <3> DEFINE i == CHOOSE i \in 1..n : Chain[i] = k
    <3>1. i \in 1..n /\ Chain[i] = k
      BY <2>1
    <3>2. approved[k] = <<FirstVersion(i)>>
      BY <1>1, <2>1
    <3> HIDE DEF i
    <3> QED BY <3>1, <3>2
  <2>2. CASE ~ \E i \in 1..n : Chain[i] = k
    BY <1>1, <2>2
  <2> QED BY <2>1, <2>2
<1>4. \A i \in 1..n : approved[Chain[i]] = <<FirstVersion(i)>>
  <2> SUFFICES ASSUME NEW i \in 1..n PROVE approved[Chain[i]] = <<FirstVersion(i)>>
    OBVIOUS
  <2>1. PICK m \in 1..n : Chain[i] = Chain[m] /\ approved[Chain[i]] = <<FirstVersion(m)>>
    BY <1>2, <1>3
  <2>2. m = i
    BY <1>2, <2>1, ChainOrder
  <2> QED BY <2>1, <2>2
<1>5. approved \in [Agents -> Seq(VersionRecords)]
  <2>1. ASSUME NEW k \in Agents PROVE approved[k] \in Seq(VersionRecords)
    <3>1. ASSUME NEW record \in VersionRecords PROVE <<record>> \in Seq(VersionRecords)
      OBVIOUS
    <3>2. <<>> \in Seq(VersionRecords)
      OBVIOUS
    <3>3. CASE \E i \in 1..n : approved[k] = <<FirstVersion(i)>>
      <4>1. PICK i \in 1..n : approved[k] = <<FirstVersion(i)>>
        BY <3>3
      <4>2. FirstVersion(i) \in VersionRecords
        BY <1>2
      <4> QED BY <4>1, <4>2, <3>1
    <3> QED BY <1>3, <3>2, <3>3
  <2> QED BY <1>1, <2>1
<1>6. runs \in Seq(RunRecords) /\ DOMAIN runs = 1..n /\ \A i \in 1..n : runs[i] = FirstRun(i)
  BY <1>1, <1>2
<1>7. TypeOK /\ TabsLag
  BY <1>1, <1>5, <1>6 DEF TypeOK, OnboardingInv
<1>8. RequestRests
  BY <1>1 DEF RequestRests
<1>9. \A i \in 1..n : /\ FirstRun(i).agent = Chain[i] /\ FirstRun(i).status = "completed"
                      /\ FirstRun(i).pins = FirstPins(Chain[i])
                      /\ FirstRun(i).context = FirstContext(Chain[i], i - 1)
                      /\ FirstRun(i).base = 0 /\ FirstRun(i).operation # "modify"
                      /\ FirstVersion(i).run = i
                      /\ FirstVersion(i).sources = FirstPins(Chain[i])
                      /\ FirstVersion(i).cites =
                             Refs(Chain[i], FirstPins(Chain[i])) \cup FirstRun(i).findings
  BY DEF FirstRun, FirstVersion
<1>10. ASSUME NEW i \in 1..n, NEW j \in Sources[Chain[i]] \ {"profile"}
       PROVE  \E m \in 1..n : m < i /\ j = Chain[m] /\ approved[j] = <<FirstVersion(m)>>
                              /\ FirstPins(Chain[i])[j] = 1
  <2>1. PICK m \in 1..5 : m < i /\ j = Chain[m]
    BY <1>2, ChainOrder
  <2>2. m \in 1..n
    BY <2>1
  <2> QED BY <1>2, <1>4, <2>1, <2>2, FirstPinsAre
<1>11. ASSUME NEW i \in DOMAIN runs PROVE RunRests(runs[i])
  <2>1. i \in 1..n /\ runs[i] = FirstRun(i) /\ Chain[i] \in Agents
    BY <1>2, <1>6
  <2>2. /\ Chain[i] # "strategy" => FirstRun(i).findings = {}
        /\ \A f \in FirstRun(i).findings : Research[f].supported
    BY <2>1, FirstRecordsTyped
  <2>3. \A j \in Sources[Chain[i]] :
            FirstPins(Chain[i])[j] = 1 /\ FirstContext(Chain[i], i - 1)[j] = 1
    BY <2>1, FirstPinsAre DEF Buildable
  <2>4. \A j \in Sources[Chain[i]] \ {"profile"} : FirstPins(Chain[i])[j] <= Len(approved[j])
    BY <1>10, <2>1
  <2>5. 0 <= Len(approved["project"])
    BY <1>7, TypesOfVersions, KindTables
  <2>6. /\ runs[i].agent = Chain[i] /\ runs[i].findings = FirstRun(i).findings
        /\ runs[i].pins = FirstPins(Chain[i]) /\ runs[i].base = 0
        /\ runs[i].context = FirstContext(Chain[i], i - 1)
    BY <1>9, <2>1
  <2> QED BY <2>2, <2>3, <2>4, <2>5, <2>6 DEF RunRests
<1>12. ASSUME NEW k \in Agents, NEW v \in DOMAIN approved[k]
       PROVE  VersionRests(k, v) /\ OneLineageOf(k, v)
  <2>1. PICK i \in 1..n : k = Chain[i] /\ approved[k] = <<FirstVersion(i)>>
    BY <1>3
  <2>2. v = 1 /\ approved[k][v] = FirstVersion(i)
    BY <2>1
  <2>3. VersionRests(k, v)
    BY <1>6, <1>9, <2>1, <2>2 DEF VersionRests
  <2>4. ASSUME NEW j \in Sources[k] \ {"profile"}, NEW m \in Sources[j] \cap Sources[k]
        PROVE  approved[j][FirstPins(k)[j]].sources[m] = FirstPins(k)[m]
    <3>1. PICK l \in 1..n : /\ j = Chain[l] /\ approved[j] = <<FirstVersion(l)>>
                            /\ FirstPins(Chain[i])[j] = 1
      BY <1>10, <2>1
    <3>2. approved[j][FirstPins(k)[j]].sources = FirstPins(j)
      BY <1>9, <2>1, <3>1
    <3>3. FirstPins(j)[m] = 1 /\ FirstPins(k)[m] = 1
      BY <1>2, <2>1, <3>1, FirstPinsAre
    <3> QED BY <3>2, <3>3
  <2>5. OneLineageOf(k, v)
    BY <1>9, <2>1, <2>2, <2>4 DEF OneLineageOf
  <2> QED BY <2>3, <2>5
<1>13. ASSUME NEW v \in DOMAIN approved["project"] PROVE Kept(v) /\ Built(v)
  <2>1. PICK i \in 1..n : "project" = Chain[i] /\ approved["project"] = <<FirstVersion(i)>>
    BY <1>3, KindTables
  <2>2. i = 5 /\ n = 5
    BY <1>2, <2>1, ChainOrder
  <2>3. v = 1 /\ approved["project"][v] = FirstVersion(5) /\ runs[5] = FirstRun(5)
    BY <1>6, <2>1, <2>2
  <2>4. Kept(v)
    BY <1>9, <2>2, <2>3 DEF Kept
  <2>5. /\ approved["specification"] = <<FirstVersion(4)>> /\ runs[4] = FirstRun(4)
        /\ FirstVersion(4).run = 4 /\ FirstVersion(5).run = 5
        /\ FirstRun(5).agent = "project" /\ FirstRun(5).pins["specification"] = 1
    BY <1>4, <1>6, <1>9, <2>2, ChainOrder, KindTables, FirstPinsAre
  <2>6. FirstRun(4).answer.sitemap = FirstSitemap
    BY ChainOrder DEF FirstRun, NoAnswer
  <2>7. SiteOf(runs[5]) = FirstSitemap
    BY <2>3, <2>5, <2>6 DEF SiteOf
  <2>8. FirstVersion(5).tree = FirstTree(5)
    BY ChainOrder DEF FirstVersion
  <2>9. TreeOf(v) = FirstTree(5)
    BY <2>3, <2>8 DEF TreeOf
  <2>10. Present(FirstTree(5)) = {f \in Files : f \in DOMAIN FirstSitemap}
    BY DEF Present, FirstTree
  <2> QED BY <2>2, <2>3, <2>4, <2>5, <2>7, <2>9, <2>10 DEF Built, Buildable
<1> QED BY <1>7, <1>8, <1>11, <1>12, <1>13 DEF ChainInv

LEMMA ChainInitHolds == Init => ChainInv
<1>1. ASSUME NEW n \in 0..5, Buildable(n), InitWith(n), OnboardingInv PROVE ChainInv
  BY <1>1, InitialChainHolds
<1>2. Buildable(0)
  BY DEF Buildable
<1>3. \A n \in Established : n \in 0..5 /\ Buildable(n)
  BY ChainAssumption, ChainOrder DEF Buildable
<1>4. CASE OnboardingInit /\ InitWith(0)
  BY <1>1, <1>2, <1>4, OnboardingInitHolds
<1>5. CASE Founded /\ \E n \in Established : InitWith(n)
  BY <1>1, <1>3, <1>5, FoundedHolds
<1> QED BY <1>4, <1>5 DEF Init

LEMMA ChainStepHolds == ChainInv /\ [Next]_vars => ChainInv'
<1> SUFFICES ASSUME ChainInv, [Next]_vars PROVE ChainInv'
  OBVIOUS
<1>1. CASE OnboardingStep /\ UNCHANGED chainVars
  BY <1>1, OnboardingKeepsChain
<1>2. CASE Requests
  BY <1>2, RequestRunHolds DEF Requests
<1>3. CASE ReadRecord
  BY <1>3, ReadRecordHolds
<1>4. CASE CreateRun
  BY <1>4, CreateRunHolds
<1>5. CASE Ending
  BY <1>5, EndOfRunHolds, BuildHolds DEF Ending
<1>6. CASE Approval
  <2>1. PICK i \in DOMAIN runs : \/ ApproveStrategy(i) \/ ApproveOffer(i)
                                 \/ ApproveBrand(i) \/ ApproveSpecification(i)
    BY <1>6 DEF Approval
  <2>2. \E k \in Agents \ {"project"} : Approvable(i, k) /\ Approved(i, k)
    BY <2>1, KindTables
       DEF ApproveStrategy, ApproveOffer, ApproveBrand, ApproveSpecification
  <2> QED BY <2>2, ApprovalHolds
<1>7. CASE UNCHANGED vars
  <2>1. UNCHANGED <<approved, runs, request, draft, profile, tab>>
    BY <1>7 DEF vars, onboardingVars
  <2>2. TypeOK' /\ TabsLag' /\ RequestRests'
    BY <2>1 DEF ChainInv, TypeOK, OnboardingTypeOK, TabsLag, RequestRests
  <2> QED BY <2>1, <2>2, NothingGrown
<1> QED BY <1>1, <1>2, <1>3, <1>4, <1>5, <1>6, <1>7 DEF Next

-----------------------------------------------------------------------------
(* The theorems. *)

\* Drafts, profiles, requests, runs and versions hold values of their columns.
THEOREM TypeCorrect == Spec => []TypeOK
BY ChainInitHolds, ChainStepHolds, PTL DEF Spec, ChainInv

\* A version is derived from just what its run's context showed, and cites nothing else
\* but findings with support: create_run compares what it read, and nothing it compared
\* can change before the approval, for the approval compares the pins with what is current.
THEOREM RecordsRest == Spec => []RecordsRestOnContext
<1>1. ASSUME ChainInv, NEW k \in Agents, NEW v \in DOMAIN approved[k]
      PROVE  /\ \A j \in Sources[k] :
                    /\ approved[k][v].sources[j] # 0
                    /\ approved[k][v].sources[j] = runs[approved[k][v].run].context[j]
             /\ approved[k][v].cites \subseteq
                    Refs(k, approved[k][v].sources) \cup runs[approved[k][v].run].findings
             /\ \A f \in runs[approved[k][v].run].findings : Research[f].supported
  <2>1. VersionRests(k, v) /\ \A i \in DOMAIN runs : RunRests(runs[i])
    BY <1>1 DEF ChainInv
  <2> QED BY <2>1 DEF VersionRests, RunRests
<1>2. ChainInv => RecordsRestOnContext
  BY <1>1 DEF RecordsRestOnContext
<1> QED BY <1>2, ChainInitHolds, ChainStepHolds, PTL DEF Spec

\* The versions that a version is derived from were derived from each other.
THEOREM LineageHolds == Spec => []LineageAgrees
<1>1. ChainInv => LineageAgrees
  BY DEF ChainInv, OneLineageOf, LineageAgrees
<1> QED BY <1>1, ChainInitHolds, ChainStepHolds, PTL DEF Spec

\* A modification keeps the files it does not name, of the version just before it: the
\* build refuses a base that is not current any more.
THEOREM ModificationsHold == Spec => []ModificationsAreKept
<1>1. ChainInv => ModificationsAreKept
  BY DEF ChainInv, Kept, ModificationsAreKept
<1> QED BY <1>1, ChainInitHolds, ChainStepHolds, PTL DEF Spec

\* Every page of the specification has its document in every version of the website.
THEOREM PagesHold == Spec => []PagesAreBuilt
<1>1. ChainInv => PagesAreBuilt
  BY DEF ChainInv, Built, PagesAreBuilt
<1> QED BY <1>1, ChainInitHolds, ChainStepHolds, PTL DEF Spec
=============================================================================
