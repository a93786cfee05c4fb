------------------------- MODULE Governance_proofs -------------------------
(* Proofs about Governance. *)
EXTENDS Governance, FiniteSetTheorems, TLAPS

\* The decision is one of the four outcomes.
LEMMA DecisionType ==
    ASSUME NEW r, NEW autonomous, NEW forced
    PROVE InitialDecision(r, autonomous, forced) \in
              {"blocked", "denied", "approval_required", "authorized"}
  BY DEF InitialDecision

\* The recheck of an action is one of the four outcomes.
LEMMA RecheckType ==
    ASSUME NEW a
    PROVE Recheck(a) \in {"blocked", "denied", "approval_required", "authorized"}
  BY DecisionType DEF Recheck

\* Every reachable state of the governed actions is well typed.
THEOREM TypeCorrect == Spec => []TypeOK
<1>1. Init => TypeOK
  <2> SUFFICES ASSUME Init
               PROVE TypeOK
    OBVIOUS
  <2>1. killSwitch \in BOOLEAN /\ toolEnabled \in [Tools -> BOOLEAN]
    BY Zenon DEF Init
  <2> QED
    BY <2>1 DEF Init, TypeOK, Levels
<1>2. ASSUME TypeOK, [Next]_vars
      PROVE TypeOK'
  <2> USE <1>2 DEF TypeOK
  <2>1. ASSUME NEW a \in Actions, NEW r \in Requests, Evaluate(a, r)
        PROVE TypeOK'
    BY <2>1, DecisionType DEF Evaluate, controlVars, ActionStatus
  <2>2. ASSUME NEW a \in Actions, NEW d \in {"approved", "rejected"}, Decide(a, d)
        PROVE TypeOK'
    BY <2>2 DEF Decide, controlVars, ActionStatus
  <2>3. ASSUME NEW a \in Actions, NEW recheck \in BOOLEAN, Authorize(a, recheck)
        PROVE TypeOK'
    BY <2>3 DEF Authorize, Refusals, controlVars, ActionStatus
  <2>4. ASSUME NEW l \in Levels, NEW daily \in Limits, NEW perAction \in Limits,
               UpdateSettings(l, daily, perAction)
        PROVE TypeOK'
    BY <2>4, GovernanceAssumption DEF UpdateSettings, actionVars
  <2>5. ASSUME NEW t \in Tools, NEW b \in BOOLEAN, SetToolPermission(t, b)
        PROVE TypeOK'
    BY <2>5 DEF SetToolPermission, actionVars
  <2>6. ASSUME NEW b \in BOOLEAN, SetKillSwitch(b)
        PROVE TypeOK'
    BY <2>6 DEF SetKillSwitch, actionVars
  <2>7. CASE AdoptPolicy
    BY <2>7 DEF AdoptPolicy, actionVars, controlVars
  <2>8. CASE NextDay
    BY <2>8 DEF NextDay, actionVars, controlVars
  <2>9. CASE UNCHANGED vars
    BY <2>9 DEF vars, actionVars, controlVars
  <2> QED
    BY <2>1, <2>2, <2>3, <2>4, <2>5, <2>6, <2>7, <2>8, <2>9 DEF Next
<1> QED
  BY <1>1, <1>2, PTL DEF Spec

-----------------------------------------------------------------------------
(* The approval row and the action agree: one conjunct for each action. *)

\* An approved approval outlives its action's authority, so the converse of
\* "approved => approval" is spelt out by the states the action may be in.
Agrees(a) ==
    /\ status[a] = "absent" => approval[a] = "none"
    /\ status[a] # "absent" => request[a] # NoRequest
    /\ approval[a] = "none" => status[a] \in {"absent", "authorized", "blocked", "denied"}
    /\ approval[a] = "none" /\ status[a] = "authorized"
          => ~AtLeast(request[a], 2) /\ ~request[a].forced
    /\ approval[a] = "pending" <=> status[a] = "approval_required"
    /\ approval[a] = "rejected" <=> status[a] = "rejected"
    /\ approval[a] = "approved" => status[a] \in {"approved", "authorized", "blocked", "denied"}

Prohibited(r) == AtLeast(r, 5) \/ (r.restricted /\ AtLeast(r, 2))

\* A request the decision does not refuse is not prohibited.
LEMMA DecisionRefusesProhibited ==
    ASSUME NEW r, NEW autonomous, NEW forced, Prohibited(r)
    PROVE InitialDecision(r, autonomous, forced) \in Refusals
  BY DEF InitialDecision, Denied, Prohibited, Refusals

\* A request that is authorized at once is of low class and not forced.
LEMMA DecisionNeedsOwner ==
    ASSUME NEW r, NEW autonomous, NEW forced \in BOOLEAN,
           InitialDecision(r, autonomous, forced) = "authorized"
    PROVE ~AtLeast(r, 2) /\ ~forced
  BY DEF InitialDecision, NeedsOwner

\* The approval row and the action agree in every reachable state.
THEOREM RowsAgree == Spec => [](\A a \in Actions : Agrees(a))
<1>1. Init => \A a \in Actions : Agrees(a)
  BY DEF Init, Agrees
<1>2. ASSUME TypeOK, \A a \in Actions : Agrees(a), [Next]_vars
      PROVE (\A a \in Actions : Agrees(a))'
  <2> SUFFICES ASSUME NEW b \in Actions
               PROVE Agrees(b)'
    OBVIOUS
  <2>0. Agrees(b)
    BY <1>2
  <2>1. ASSUME NEW a \in Actions, NEW r \in Requests, Evaluate(a, r)
        PROVE Agrees(b)'
    <3>1. CASE a = b
      <4> DEFINE d == InitialDecision(r, r.autonomous, r.forced)
      <4>1. /\ request'[b] = r /\ status'[b] = d
            /\ approval'[b] = IF d = "approval_required" THEN "pending" ELSE "none"
        BY <2>1, <3>1, <1>2 DEF Evaluate, TypeOK
      <4>2. r.forced \in BOOLEAN /\ r # NoRequest
        BY GovernanceAssumption DEF RequestSet
      <4>3. d \in {"blocked", "denied", "approval_required", "authorized"}
        BY DecisionType
      <4>4. d = "authorized" => ~AtLeast(r, 2) /\ ~r.forced
        BY <4>2, DecisionNeedsOwner
      <4> HIDE DEF d
      <4> QED
        BY <4>1, <4>2, <4>3, <4>4 DEF Agrees, AtLeast
    <3>2. CASE a # b
      <4>1. request'[b] = request[b] /\ status'[b] = status[b] /\ approval'[b] = approval[b]
        BY <2>1, <3>2, <1>2 DEF Evaluate, TypeOK
      <4> QED
        BY <4>1, <2>0 DEF Agrees, AtLeast
    <3> QED
      BY <3>1, <3>2
  <2>2. ASSUME NEW a \in Actions, NEW d \in {"approved", "rejected"}, Decide(a, d)
        PROVE Agrees(b)'
    BY <2>0, <2>2, <1>2 DEF Agrees, Decide, Decidable, TypeOK, AtLeast
  <2>3. ASSUME NEW a \in Actions, NEW recheck \in BOOLEAN, Authorize(a, recheck)
        PROVE Agrees(b)'
    BY <2>0, <2>3, <1>2 DEF Agrees, Authorize, Authorizable, Refusals, TypeOK, AtLeast
  <2>4. CASE UNCHANGED actionVars
    BY <2>0, <2>4 DEF Agrees, actionVars, AtLeast
  <2> QED
    BY <2>1, <2>2, <2>3, <2>4, <1>2
    DEF Next, vars, UpdateSettings, SetToolPermission, SetKillSwitch, AdoptPolicy, NextDay
<1> QED
  BY <1>1, <1>2, TypeCorrect, PTL DEF Spec

\* The owner's decision backs every authority of class R2 or more, and the
\* approval row agrees with the action.
THEOREM AuthorityIsBacked == Spec => []ApprovalBacksAuthority
<1>1. TypeOK /\ (\A a \in Actions : Agrees(a)) => ApprovalBacksAuthority
  <2> SUFFICES ASSUME TypeOK, NEW a \in Actions, Agrees(a)
               PROVE /\ status[a] = "authorized" /\ (AtLeast(request[a], 2) \/ request[a].forced)
                           => approval[a] = "approved"
                     /\ approval[a] = "pending" <=> status[a] = "approval_required"
                     /\ approval[a] = "rejected" <=> status[a] = "rejected"
                     /\ status[a] = "approved" => approval[a] = "approved"
    BY DEF ApprovalBacksAuthority
  <2>1. /\ approval[a] = "pending" <=> status[a] = "approval_required"
        /\ approval[a] = "rejected" <=> status[a] = "rejected"
        /\ status[a] = "approved" => approval[a] = "approved"
        /\ status[a] = "authorized" => approval[a] \in {"none", "approved"}
    BY DEF Agrees, TypeOK
  <2>2. status[a] = "authorized" /\ (AtLeast(request[a], 2) \/ request[a].forced)
           => approval[a] # "none"
    BY Zenon DEF Agrees
  <2>3. status[a] = "authorized" /\ (AtLeast(request[a], 2) \/ request[a].forced)
           => approval[a] = "approved"
    BY <2>1, <2>2, Zenon
  <2> QED
    BY <2>1, <2>3, Zenon
<1> QED
  BY <1>1, RowsAgree, TypeCorrect, PTL

-----------------------------------------------------------------------------
\* Prohibited requests are refused when they are evaluated, and a refused
\* action never moves on, so no prohibited action is ever waiting or granted.
THEOREM ProhibitedStaysOut == Spec => []ProhibitedIsUnreachable
<1> DEFINE Permitted(a) ==
      status[a] \notin {"absent"} \cup Refusals => ~Prohibited(request[a])
<1>1. Init => \A a \in Actions : Permitted(a)
  BY DEF Init
<1>2. ASSUME TypeOK, \A a \in Actions : Permitted(a), [Next]_vars
      PROVE (\A a \in Actions : Permitted(a))'
  <2> SUFFICES ASSUME NEW b \in Actions
               PROVE Permitted(b)'
    OBVIOUS
  <2>0. Permitted(b)
    BY <1>2
  <2>1. ASSUME NEW a \in Actions, NEW r \in Requests, Evaluate(a, r)
        PROVE Permitted(b)'
    <3>1. CASE a = b
      <4>1. request'[b] = r /\ status'[b] = InitialDecision(r, r.autonomous, r.forced)
        BY <2>1, <3>1, <1>2 DEF Evaluate, TypeOK
      <4>2. Prohibited(r) => status'[b] \in Refusals
        BY <4>1, DecisionRefusesProhibited
      <4> QED
        BY <4>1, <4>2, Zenon DEF Prohibited, AtLeast
    <3>2. CASE a # b
      <4>1. request'[b] = request[b] /\ status'[b] = status[b]
        BY <2>1, <3>2, <1>2 DEF Evaluate, TypeOK
      <4> QED
        BY <4>1, <2>0 DEF Prohibited, AtLeast
    <3> QED
      BY <3>1, <3>2
  <2>2. ASSUME request' = request,
               status'[b] = status[b] \/ status[b] \notin {"absent"} \cup Refusals
                                     \/ status'[b] \in Refusals
        PROVE Permitted(b)'
    BY <2>0, <2>2 DEF Prohibited, AtLeast
  <2>3. ASSUME NEW a \in Actions, NEW d \in {"approved", "rejected"}, Decide(a, d)
        PROVE Permitted(b)'
    BY <2>2, <2>3, <1>2 DEF Decide, Decidable, TypeOK, Refusals
  <2>4. ASSUME NEW a \in Actions, NEW recheck \in BOOLEAN, Authorize(a, recheck)
        PROVE Permitted(b)'
    BY <2>2, <2>4, <1>2 DEF Authorize, Authorizable, TypeOK, Refusals
  <2>5. CASE UNCHANGED actionVars
    BY <2>2, <2>5 DEF actionVars
  <2> QED
    BY <2>1, <2>3, <2>4, <2>5, <1>2
    DEF Next, vars, UpdateSettings, SetToolPermission, SetKillSwitch, AdoptPolicy, NextDay
<1>3. (\A a \in Actions : Permitted(a)) => ProhibitedIsUnreachable
  BY Zenon DEF ProhibitedIsUnreachable, Prohibited
<1> QED
  BY <1>1, <1>2, <1>3, TypeCorrect, PTL DEF Spec

\* No step revises a refusal or an owner's decision.
THEOREM DecisionsStand == Spec => DecisionsAreFinal
<1>1. TypeOK /\ (\A a \in Actions : Agrees(a)) /\ [Next]_vars
        => [\A a \in Actions :
              /\ status[a] \in {"rejected", "blocked", "denied"} => status'[a] = status[a]
              /\ approval[a] \in {"approved", "rejected"} => approval'[a] = approval[a]]_vars
  <2> SUFFICES ASSUME TypeOK, \A a \in Actions : Agrees(a), [Next]_vars, NEW b \in Actions
               PROVE /\ status[b] \in {"rejected", "blocked", "denied"} => status'[b] = status[b]
                     /\ approval[b] \in {"approved", "rejected"} => approval'[b] = approval[b]
    OBVIOUS
  <2> DEFINE Stands ==
        /\ status[b] \in {"rejected", "blocked", "denied"} => status'[b] = status[b]
        /\ approval[b] \in {"approved", "rejected"} => approval'[b] = approval[b]
  <2>0. status[b] = "absent" => approval[b] = "none"
    BY DEF Agrees
  <2>1. ASSUME NEW a \in Actions, NEW r \in Requests, Evaluate(a, r)
        PROVE Stands
    BY <2>0, <2>1 DEF Evaluate, TypeOK
  <2>2. ASSUME NEW a \in Actions, NEW d \in {"approved", "rejected"}, Decide(a, d)
        PROVE Stands
    BY <2>2 DEF Decide, Decidable, TypeOK
  <2>3. ASSUME NEW a \in Actions, NEW recheck \in BOOLEAN, Authorize(a, recheck)
        PROVE Stands
    BY <2>3 DEF Authorize, Authorizable, TypeOK
  <2>4. CASE UNCHANGED actionVars
    BY <2>4 DEF actionVars
  <2> QED
    BY <2>1, <2>2, <2>3, <2>4
    DEF Next, vars, UpdateSettings, SetToolPermission, SetKillSwitch, AdoptPolicy, NextDay
<1> QED
  BY <1>1, TypeCorrect, RowsAgree, PTL DEF Spec, DecisionsAreFinal

\* Nothing is granted against the controls of the moment of the grant.
THEOREM GrantsAreControlled == Spec => GrantsRespectControls
<1> DEFINE Respects(b) ==
      Granted(b) =>
         /\ ~killSwitch
         /\ request'[b].tool # NoTool => toolEnabled[request'[b].tool]
         /\ version'[b] = policyVersion
         /\ request'[b].spend <= actionLimit
         /\ request'[b].autonomous /\ approval'[b] = "none"
               => autonomy = "AUTONOMOUS_LOW_RISK"
<1>0. ASSUME NEW r \in Requests, NEW autonomous \in BOOLEAN, NEW forced \in BOOLEAN, TypeOK,
             InitialDecision(r, autonomous, forced) \notin Refusals
      PROVE /\ ~killSwitch
            /\ r.tool # NoTool => toolEnabled[r.tool]
            /\ r.spend <= actionLimit
            /\ autonomous => autonomy # "OFF"
  <2>1. ~killSwitch /\ ~Denied(r, autonomous)
    BY <1>0 DEF InitialDecision, Refusals
  <2>2. r.spend \in Nat /\ actionLimit \in Nat
    BY <1>0, GovernanceAssumption DEF RequestSet, TypeOK
  <2>3. ~(r.spend > actionLimit)
    BY <2>1 DEF Denied
  <2>4. r.spend <= actionLimit
    BY <2>2, <2>3
  <2> QED
    BY <2>1, <2>4, Zenon DEF Denied
<1>1. ASSUME TypeOK, \A a \in Actions : Agrees(a), [Next]_vars
      PROVE [\A b \in Actions : Respects(b)]_vars
  <2> SUFFICES ASSUME NEW b \in Actions, Granted(b)
               PROVE Respects(b)
    OBVIOUS
  <2>1. ASSUME NEW a \in Actions, NEW r \in Requests, Evaluate(a, r)
        PROVE Respects(b)
    <3>1. a = b
      BY <2>1, <1>1 DEF Evaluate, TypeOK, Granted
    <3> DEFINE d == InitialDecision(r, r.autonomous, r.forced)
    <3>2. request'[b] = r /\ status'[b] = d /\ version'[b] = policyVersion
      BY <2>1, <3>1, <1>1 DEF Evaluate, TypeOK
    <3>3. d = "authorized"
      BY <3>2 DEF Granted
    <3>4. r.autonomous \in BOOLEAN /\ r.forced \in BOOLEAN
      BY GovernanceAssumption DEF RequestSet
    <3>5. d \notin Refusals
      BY <3>3 DEF Refusals
    <3>6. /\ ~killSwitch
          /\ r.tool # NoTool => toolEnabled[r.tool]
          /\ r.spend <= actionLimit
          /\ r.autonomous => autonomy # "OFF"
      BY <3>4, <3>5, <1>0, <1>1
    <3>7. r.autonomous => autonomy \notin {"RECOMMEND", "ASSISTED"}
      BY <3>3, Zenon DEF InitialDecision, NeedsOwner
    <3>8. r.autonomous => autonomy = "AUTONOMOUS_LOW_RISK"
      BY <3>6, <3>7, <1>1 DEF TypeOK, Levels
    <3> QED
      BY <3>2, <3>6, <3>8, Zenon
  <2>2. ASSUME NEW a \in Actions, NEW d \in {"approved", "rejected"}, Decide(a, d)
        PROVE Respects(b)
    BY <2>2, <1>1 DEF Decide, Granted, TypeOK
  <2>3. ASSUME NEW a \in Actions, NEW recheck \in BOOLEAN, Authorize(a, recheck)
        PROVE Respects(b)
    <3>1. a = b /\ status[b] = "approved"
      BY <2>3, <1>1 DEF Authorize, Authorizable, TypeOK, Granted, Refusals
    <3>2. Recheck(b) \notin Refusals
      BY <2>3, <3>1 DEF Authorize
    <3>3. request' = request /\ version' = version /\ approval' = approval
      BY <2>3 DEF Authorize
    <3>4. version[b] = policyVersion /\ InitialDecision(request[b], FALSE, FALSE) \notin Refusals
      BY <3>2 DEF Recheck, Refusals
    <3>5. request[b] \in Requests /\ approval[b] # "none"
      BY <3>1, <1>1 DEF Agrees, TypeOK
    <3>6. /\ ~killSwitch
          /\ request[b].tool # NoTool => toolEnabled[request[b].tool]
          /\ request[b].spend <= actionLimit
      BY <3>4, <3>5, <1>0, <1>1
    <3> QED
      BY <3>3, <3>4, <3>5, <3>6, Zenon
  <2>4. CASE UNCHANGED actionVars
    BY <2>4 DEF actionVars, Granted
  <2> QED
    BY <2>1, <2>2, <2>3, <2>4, <1>1
    DEF Next, vars, UpdateSettings, SetToolPermission, SetKillSwitch, AdoptPolicy, NextDay
<1>2. TypeOK /\ (\A a \in Actions : Agrees(a)) /\ [Next]_vars
        => [\A a \in Actions : Granted(a) =>
              /\ ~killSwitch
              /\ request'[a].tool # NoTool => toolEnabled[request'[a].tool]
              /\ version'[a] = policyVersion
              /\ request'[a].spend <= actionLimit
              /\ request'[a].autonomous /\ approval'[a] = "none"
                    => autonomy = "AUTONOMOUS_LOW_RISK"]_vars
  BY <1>1, Zenon
<1> QED
  BY <1>2, TypeCorrect, RowsAgree, PTL DEF Spec, GrantsRespectControls

-----------------------------------------------------------------------------
(* The day's limit. *)

\* The units an action of spend n has are n.
LEMMA UnitsOfAnAction ==
    ASSUME NEW a, NEW n \in Nat
    PROVE  IsFiniteSet({a} \X (1..n)) /\ Cardinality({a} \X (1..n)) = n
<1>1. IsFiniteSet(1..n) /\ Cardinality(1..n) = IF 1 > n THEN 0 ELSE n - 1 + 1
  BY FS_Interval
<1>2. Cardinality(1..n) = n
  BY <1>1
<1>3. IsFiniteSet({a}) /\ Cardinality({a}) = 1
  BY FS_Singleton
<1>4. /\ IsFiniteSet({a} \X (1..n))
      /\ Cardinality({a} \X (1..n)) = Cardinality({a}) * Cardinality(1..n)
  BY <1>1, <1>3, FS_Product
<1>5. 1 * n = n
  OBVIOUS
<1> QED BY <1>2, <1>3, <1>4, <1>5

LEMMA UnitsAreFinite ==
    ASSUME TypeOK, \A a \in Actions : Agrees(a)
    PROVE  /\ \A a \in AuthorizedToday : request[a].spend \in Nat /\ IsFiniteSet(Units(a))
           /\ IsFiniteSet(UNION {Units(a) : a \in AuthorizedToday})
<1>1. \A a \in AuthorizedToday : request[a].spend \in Nat
  BY GovernanceAssumption DEF AuthorizedToday, Agrees, TypeOK, RequestSet
<1>2. \A a \in AuthorizedToday : IsFiniteSet(Units(a))
  BY <1>1, UnitsOfAnAction DEF Units
<1>3. IsFiniteSet(AuthorizedToday)
  BY GovernanceAssumption, FS_Subset DEF AuthorizedToday
<1>4. IsFiniteSet({Units(a) : a \in AuthorizedToday})
  <2> DEFINE units == {Units(a) : a \in AuthorizedToday}
             f == [a \in AuthorizedToday |-> Units(a)]
  <2>1. f \in Surjection(AuthorizedToday, units)
    BY DEF Surjection
  <2> QED BY <1>3, <2>1, FS_Surjection
<1>5. IsFiniteSet(UNION {Units(a) : a \in AuthorizedToday})
  BY <1>2, <1>4, FS_UNION
<1> QED BY <1>1, <1>2, <1>5

\* A grant adds what the action spends to the day's sum.
LEMMA GrantAdds ==
    ASSUME TypeOK, \A a \in Actions : Agrees(a), NEW b \in Actions, Granted(b),
           today' = today, authorizedOn'[b] = today, request'[b].spend \in Nat,
           \A a \in Actions \ {b} : /\ status'[a] = status[a] /\ request'[a] = request[a]
                                    /\ authorizedOn'[a] = authorizedOn[a]
    PROVE  AuthorizedSpendToday' = AuthorizedSpendToday + request'[b].spend
<1> DEFINE before == UNION {Units(a) : a \in AuthorizedToday}
           added == {b} \X (1..request'[b].spend)
<1>1. IsFiniteSet(before)
  BY UnitsAreFinite
<1>2. b \notin AuthorizedToday /\ AuthorizedToday' = AuthorizedToday \cup {b}
  BY DEF AuthorizedToday, Granted, TypeOK
<1>3. /\ \A a \in AuthorizedToday : Units(a)' = Units(a)
      /\ Units(b)' = added
  BY <1>2 DEF Units, AuthorizedToday
<1>4. (UNION {Units(a) : a \in AuthorizedToday})' = before \cup added
  BY <1>2, <1>3
<1>5. before \cap added = {}
  BY <1>2 DEF Units
<1>6. IsFiniteSet(added) /\ Cardinality(added) = request'[b].spend
  BY UnitsOfAnAction
<1> HIDE DEF before, added
<1>7. Cardinality(before \cup added) = Cardinality(before) + Cardinality(added)
  <2>1. Cardinality(before \cup added)
          = Cardinality(before) + Cardinality(added) - Cardinality(before \cap added)
    BY <1>1, <1>6, FS_Union
  <2>2. Cardinality(before \cap added) = 0
    BY <1>5, FS_EmptySet
  <2>3. Cardinality(before) \in Nat /\ Cardinality(added) \in Nat
    BY <1>1, <1>6, FS_CardinalityType
  <2> QED BY <2>1, <2>2, <2>3
<1> QED BY <1>4, <1>6, <1>7 DEF AuthorizedSpendToday, before

\* No grant, whoever made the ones before it, takes the day's sum over the limit.
THEOREM DailySpendHolds == Spec => DailySpendIsCapped
<1>1. ASSUME TypeOK, TypeOK', \A a \in Actions : Agrees(a), [Next]_vars
      PROVE [\A a \in Actions : Granted(a) => AuthorizedSpendToday' <= dailyLimit]_vars
  <2> SUFFICES ASSUME NEW b \in Actions, Granted(b)
               PROVE AuthorizedSpendToday' <= dailyLimit
    OBVIOUS
  <2>0. ASSUME NEW r \in Requests, NEW autonomous, NEW forced,
               InitialDecision(r, autonomous, forced) \notin Refusals
        PROVE  AuthorizedSpendToday + r.spend <= dailyLimit /\ r.spend \in Nat
    <3>1. ~(AuthorizedSpendToday + r.spend > dailyLimit)
      BY <2>0 DEF InitialDecision, Refusals, Denied
    <3>2. AuthorizedSpendToday \in Nat
      BY <1>1, UnitsAreFinite, FS_CardinalityType DEF AuthorizedSpendToday
    <3>3. r.spend \in Nat /\ dailyLimit \in Nat
      BY <1>1, GovernanceAssumption DEF RequestSet, TypeOK
    <3> QED BY <3>1, <3>2, <3>3
  <2>1. ASSUME NEW a \in Actions, NEW r \in Requests, Evaluate(a, r)
        PROVE AuthorizedSpendToday' <= dailyLimit
    <3>1. a = b
      BY <2>1, <1>1 DEF Evaluate, TypeOK, Granted
    <3> DEFINE d == InitialDecision(r, r.autonomous, r.forced)
    <3>2. /\ request' = [request EXCEPT ![b] = r] /\ status' = [status EXCEPT ![b] = d]
          /\ authorizedOn' = [authorizedOn EXCEPT ![b] = IF d = "authorized" THEN today ELSE 0]
          /\ today' = today
      BY <2>1, <3>1 DEF Evaluate
    <3> HIDE DEF d
    <3>3. d = "authorized" /\ request'[b] = r /\ authorizedOn'[b] = today
      BY <1>1, <3>2 DEF Granted, TypeOK
    <3>4. AuthorizedSpendToday + r.spend <= dailyLimit /\ r.spend \in Nat
      BY <2>0, <3>3 DEF d, Refusals
    <3>5. \A c \in Actions \ {b} : /\ status'[c] = status[c] /\ request'[c] = request[c]
                                   /\ authorizedOn'[c] = authorizedOn[c]
      BY <1>1, <3>2 DEF TypeOK
    <3>6. AuthorizedSpendToday' = AuthorizedSpendToday + request'[b].spend
      BY <1>1, <3>2, <3>3, <3>4, <3>5, GrantAdds
    <3> QED BY <3>3, <3>4, <3>6
  <2>2. ASSUME NEW a \in Actions, NEW recheck \in BOOLEAN, Authorize(a, recheck)
        PROVE AuthorizedSpendToday' <= dailyLimit
    <3>1. a = b /\ status[b] = "approved"
      BY <2>2, <1>1 DEF Authorize, Authorizable, TypeOK, Granted, Refusals
    <3>2. Recheck(b) \notin Refusals
      BY <2>2, <3>1 DEF Authorize
    <3>3. /\ request' = request /\ today' = today
          /\ status' = [status EXCEPT ![b] = "authorized"]
          /\ authorizedOn' = [authorizedOn EXCEPT ![b] = today]
      BY <2>2, <3>1, <3>2 DEF Authorize
    <3>4. request[b] \in Requests
      BY <3>1, <1>1 DEF Agrees, TypeOK
    <3>5. AuthorizedSpendToday + request[b].spend <= dailyLimit /\ request[b].spend \in Nat
      <4>1. InitialDecision(request[b], FALSE, FALSE) \notin Refusals
        BY <3>2 DEF Recheck, Refusals
      <4> QED BY <2>0, <3>4, <4>1
    <3>6. authorizedOn'[b] = today
      BY <1>1, <3>3 DEF TypeOK
    <3>7. \A c \in Actions \ {b} : /\ status'[c] = status[c] /\ request'[c] = request[c]
                                   /\ authorizedOn'[c] = authorizedOn[c]
      BY <1>1, <3>3 DEF TypeOK
    <3>8. AuthorizedSpendToday' = AuthorizedSpendToday + request'[b].spend
      BY <1>1, <3>3, <3>5, <3>6, <3>7, GrantAdds
    <3> QED BY <3>3, <3>5, <3>8
  <2>3. ASSUME NEW a \in Actions, NEW d \in {"approved", "rejected"}, Decide(a, d)
        PROVE FALSE
    BY <2>3, <1>1 DEF Decide, Granted, TypeOK
  <2>4. CASE UNCHANGED actionVars
    BY <2>4 DEF actionVars, Granted
  <2> QED
    BY <2>1, <2>2, <2>3, <2>4, <1>1
    DEF Next, vars, UpdateSettings, SetToolPermission, SetKillSwitch, AdoptPolicy, NextDay
<1> QED
  BY <1>1, TypeCorrect, RowsAgree, PTL DEF Spec, DailySpendIsCapped
=============================================================================
