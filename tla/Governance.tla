----------------------------- MODULE Governance -----------------------------
(***************************************************************************)
(* Governed actions of one business: governance/service.py, registry.py.   *)
(* Every operation is one transaction that locks the rows it decides on    *)
(* (the action, the global controls, the business' settings and tool       *)
(* permissions), so each is one atomic action.  A refused or replayed      *)
(* request, and a save based on an outdated revision, change nothing but   *)
(* the audit trail and are left out.                                       *)
(***************************************************************************)
EXTENDS Integers, FiniteSets

CONSTANTS
    Actions,        \* action identities: (business, idempotency key)
    Tools, NoTool,
    ToolRisk,       \* risk class of each catalogued tool
    Requests,       \* the requests that may be evaluated
    NoRequest,      \* no governance_actions row
    Limits,         \* spend limits the owner may set
    MaxVersion,     \* bound: versions of the default policy
    MaxDay          \* bound: UTC days that pass

RequestSet ==
    [declared : 0..5, minimum : 0..5, tool : Tools \cup {NoTool}, spend : Nat,
     restricted : BOOLEAN, autonomous : BOOLEAN, forced : BOOLEAN]

ASSUME GovernanceAssumption ==
    /\ IsFiniteSet(Actions)
    /\ NoTool \notin Tools
    /\ ToolRisk \in [Tools -> 0..5]
    /\ Requests \subseteq RequestSet /\ NoRequest \notin Requests
    /\ Limits \subseteq Nat
    /\ MaxVersion \in Nat /\ MaxDay \in Nat

VARIABLES
    request,        \* the immutable contents of governance_actions
    status,         \* governance_actions.status, "absent" without a row
    version,        \* the policy version that evaluated the action
    authorizedOn,   \* day of authorized_at, 0 for NULL
    approval,       \* approval_requests.status, "none" without a row
    killSwitch,     \* global_governance_controls
    autonomy, dailyLimit, actionLimit,  \* governance_settings
    toolEnabled,    \* governance_tool_permissions
    policyVersion,  \* policies.current_version
    today

actionVars == <<request, status, version, authorizedOn, approval>>
controlVars == <<killSwitch, autonomy, dailyLimit, actionLimit, toolEnabled>>
vars == <<actionVars, controlVars, policyVersion, today>>

Levels == {"OFF", "RECOMMEND", "ASSISTED", "AUTONOMOUS_LOW_RISK"}

ActionStatus ==
    {"approval_required", "approved", "rejected", "authorized", "denied", "blocked"}

TypeOK ==
    /\ request \in [Actions -> Requests \cup {NoRequest}]
    /\ status \in [Actions -> ActionStatus \cup {"absent"}]
    /\ version \in [Actions -> Nat]
    /\ authorizedOn \in [Actions -> Nat]
    /\ approval \in [Actions -> {"none", "pending", "approved", "rejected"}]
    /\ killSwitch \in BOOLEAN /\ autonomy \in Levels
    /\ dailyLimit \in Nat /\ actionLimit \in Nat
    /\ toolEnabled \in [Tools -> BOOLEAN]
    /\ policyVersion \in Nat /\ today \in Nat \ {0}

-----------------------------------------------------------------------------
(* Classification and the decision. *)

\* classify_action: the highest class of any of the contributions.
AtLeast(r, class) ==
    \/ r.declared >= class
    \/ r.minimum >= class
    \/ r.tool # NoTool /\ ToolRisk[r.tool] >= class
    \/ r.spend > 0 /\ class <= 4

\* The units of what is authorized today, each of them once: their number is the sum.
AuthorizedToday == {a \in Actions : status[a] = "authorized" /\ authorizedOn[a] >= today}
Units(a) == {a} \X (1..request[a].spend)
AuthorizedSpendToday == Cardinality(UNION {Units(a) : a \in AuthorizedToday})

\* Seeded fault: the day's limit is compared with this request alone.
DeniedAlone(r, autonomous) ==
    \/ AtLeast(r, 5)
    \/ r.spend > actionLimit \/ r.spend > dailyLimit
Denied(r, autonomous) ==
    \/ AtLeast(r, 5)
    \/ r.tool # NoTool /\ ~toolEnabled[r.tool]
    \/ r.restricted /\ AtLeast(r, 2)
    \/ r.spend > actionLimit
    \/ AuthorizedSpendToday + r.spend > dailyLimit
    \/ autonomous /\ autonomy = "OFF"

NeedsOwner(r, autonomous, forced) ==
    \/ autonomous /\ autonomy \in {"RECOMMEND", "ASSISTED"}
    \/ forced \/ AtLeast(r, 2)

InitialDecision(r, autonomous, forced) ==
    IF killSwitch THEN "blocked"
    ELSE IF Denied(r, autonomous) THEN "denied"
    ELSE IF NeedsOwner(r, autonomous, forced) THEN "approval_required"
    ELSE "authorized"

-----------------------------------------------------------------------------
Init ==
    /\ request = [a \in Actions |-> NoRequest]
    /\ status = [a \in Actions |-> "absent"]
    /\ version = [a \in Actions |-> 0]
    /\ authorizedOn = [a \in Actions |-> 0]
    /\ approval = [a \in Actions |-> "none"]
    /\ killSwitch = FALSE
    /\ autonomy = "OFF" /\ dailyLimit = 0 /\ actionLimit = 0
    /\ toolEnabled = [t \in Tools |-> TRUE]
    /\ policyVersion = 1 /\ today = 1

\* evaluate_in_session for a new idempotency key; a known key returns the
\* stored decision, or is refused when the request differs.
Evaluate(a, r) ==
    LET decision == InitialDecision(r, r.autonomous, r.forced) IN
    /\ status[a] = "absent"
    /\ request' = [request EXCEPT ![a] = r]
    /\ status' = [status EXCEPT ![a] = decision]
    /\ version' = [version EXCEPT ![a] = policyVersion]
    /\ authorizedOn' = [authorizedOn EXCEPT ![a] = IF decision = "authorized" THEN today ELSE 0]
    /\ approval' = [approval EXCEPT ![a] =
                       IF decision = "approval_required" THEN "pending" ELSE "none"]
    /\ UNCHANGED <<controlVars, policyVersion, today>>

Decidable(a) == approval[a] = "pending" /\ status[a] = "approval_required"

Decide(a, decision) ==
    /\ Decidable(a)
    /\ approval' = [approval EXCEPT ![a] = decision]
    /\ status' = [status EXCEPT ![a] = decision]
    /\ UNCHANGED <<request, version, authorizedOn, controlVars, policyVersion, today>>

\* Seeded fault: an approval freezes authority, later controls are not read.
ApprovalIsEnough(a) == "authorized"
\* The decision of the execution-time recheck, on the controls of that moment.
Recheck(a) ==
    IF version[a] # policyVersion THEN "blocked"
    ELSE InitialDecision(request[a], FALSE, FALSE)

\* Seeded fault: whatever is not refused may be authorized.
AuthorizableUnlessRefused(a, recheck) ==
    status[a] \in {"approval_required", "approved"} \/ (status[a] = "authorized" /\ recheck)
Authorizable(a, recheck) ==
    status[a] = "approved" \/ (status[a] = "authorized" /\ recheck)

Refusals == {"blocked", "denied"}

\* authorize_in_session.  An approved action that is refused keeps its approval
\* and may be tried again; an authorized one that is refused loses authority.
Authorize(a, recheck) ==
    /\ Authorizable(a, recheck)
    /\ \/ /\ Recheck(a) \notin Refusals
          /\ status' = [status EXCEPT ![a] = "authorized"]
          /\ authorizedOn' = [authorizedOn EXCEPT ![a] = today]
       \/ /\ Recheck(a) \in Refusals /\ status[a] = "authorized"
          /\ status' = [status EXCEPT ![a] = Recheck(a)]
          /\ authorizedOn' = [authorizedOn EXCEPT ![a] = 0]
    /\ UNCHANGED <<request, version, approval, controlVars, policyVersion, today>>

UpdateSettings(level, daily, perAction) ==
    /\ autonomy' = level /\ dailyLimit' = daily /\ actionLimit' = perAction
    /\ UNCHANGED <<actionVars, killSwitch, toolEnabled, policyVersion, today>>

SetToolPermission(t, enabled) ==
    /\ toolEnabled' = [toolEnabled EXCEPT ![t] = enabled]
    /\ UNCHANGED <<actionVars, killSwitch, autonomy, dailyLimit, actionLimit,
                   policyVersion, today>>

SetKillSwitch(enabled) ==
    /\ killSwitch' = enabled
    /\ UNCHANGED <<actionVars, autonomy, dailyLimit, actionLimit, toolEnabled,
                   policyVersion, today>>

\* A migration publishes a new version of the default policy.
AdoptPolicy ==
    /\ policyVersion < MaxVersion
    /\ policyVersion' = policyVersion + 1
    /\ UNCHANGED <<actionVars, controlVars, today>>

NextDay ==
    /\ today < MaxDay
    /\ today' = today + 1
    /\ UNCHANGED <<actionVars, controlVars, policyVersion>>

Next ==
    \/ \E a \in Actions, r \in Requests : Evaluate(a, r)
    \/ \E a \in Actions, d \in {"approved", "rejected"} : Decide(a, d)
    \/ \E a \in Actions, recheck \in BOOLEAN : Authorize(a, recheck)
    \/ \E l \in Levels, daily, perAction \in Limits : UpdateSettings(l, daily, perAction)
    \/ \E t \in Tools, b \in BOOLEAN : SetToolPermission(t, b)
    \/ \E b \in BOOLEAN : SetKillSwitch(b)
    \/ AdoptPolicy
    \/ NextDay

Spec == Init /\ [][Next]_vars

-----------------------------------------------------------------------------
(* Properties. *)

\* Authority rests on the owner: an action of class R2 or more holds, or has
\* held, authority only with an approval the owner gave, a forced checkpoint
\* too; the approval row and the action never tell different stories.
ApprovalBacksAuthority ==
    \A a \in Actions :
        /\ status[a] = "authorized" /\ (AtLeast(request[a], 2) \/ request[a].forced)
              => approval[a] = "approved"
        /\ approval[a] = "pending" <=> status[a] = "approval_required"
        /\ approval[a] = "rejected" <=> status[a] = "rejected"
        /\ status[a] = "approved" => approval[a] = "approved"

\* R5 actions, and actions of class R2 or more on restricted data, never reach
\* the owner's desk, let alone authority.
ProhibitedIsUnreachable ==
    \A a \in Actions :
        /\ status[a] \notin {"absent"} \cup Refusals
        => /\ ~AtLeast(request[a], 5)
           /\ ~(request[a].restricted /\ AtLeast(request[a], 2))

\* What is refused stays refused, and a decision is never revised.
DecisionsAreFinal ==
    [][\A a \in Actions :
         /\ status[a] \in {"rejected", "blocked", "denied"} => status'[a] = status[a]
         /\ approval[a] \in {"approved", "rejected"} => approval'[a] = approval[a]]_vars

Granted(a) == status[a] # "authorized" /\ status'[a] = "authorized"

\* Authority is granted only under the controls of that moment: the kill
\* switch, the tool permission, the policy version that evaluated the action,
\* the limit for one action and, for autonomous work the owner has not
\* approved, the autonomy level.  An approval given earlier changes none of it.
GrantsRespectControls ==
    [][\A a \in Actions : Granted(a) =>
         /\ ~killSwitch
         /\ request'[a].tool # NoTool => toolEnabled[request'[a].tool]
         /\ version'[a] = policyVersion
         /\ request'[a].spend <= actionLimit
         /\ request'[a].autonomous /\ approval'[a] = "none"
               => autonomy = "AUTONOMOUS_LOW_RISK"]_vars

\* Whoever is granted authority, and however often, the spend authorized today,
\* with the new action's, stays within the day's limit.
DailySpendIsCapped ==
    [][\A a \in Actions : Granted(a) => AuthorizedSpendToday' <= dailyLimit]_vars
=============================================================================
