----------------------------- MODULE Onboarding -----------------------------
(***************************************************************************)
(* The onboarding of one business (onboarding/service.py): a draft that    *)
(* several browser tabs edit page by page, its review, and the profile     *)
(* that the founder approves from it.  Every command locks the draft row,  *)
(* the saves and the approval lock the business before it, so each command *)
(* is one step; what is not atomic is the founder, who acts on the         *)
(* revision that her tab loaded.                                           *)
(***************************************************************************)
EXTENDS Naturals

CONSTANTS
    Sections,       \* the pages of the form
    Tabs,           \* browser tabs of the founder
    MaxRevision     \* bound: revisions of the draft

ASSUME OnboardingAssumption == MaxRevision \in Nat

VARIABLES
    draft,          \* business_onboarding_drafts
    profile,        \* approved_business_profiles
    tab             \* the draft that each tab shows

onboardingVars == <<draft, profile, tab>>

\* The text of a page is named by the revision that wrote it; 0 is an empty page.
Pages == [Sections -> Nat]
Blank == [s \in Sections |-> 0]
Drafts == [status : {"none", "draft", "review", "approved"}, revision : Nat, text : Pages]
NoDraft == [status |-> "none", revision |-> 0, text |-> Blank]
\* shown: the text in the tab that approved this version.
Profiles == [version : Nat, text : Pages, shown : Pages]

OnboardingTypeOK ==
    /\ draft \in Drafts
    /\ profile \in Profiles
    /\ tab \in [Tabs -> Drafts]

OnboardingInit ==
    /\ draft = NoDraft
    /\ profile = [version |-> 0, text |-> Blank, shown |-> Blank]
    /\ tab = [t \in Tabs |-> NoDraft]

-----------------------------------------------------------------------------
\* Seeded fault: the revision that the tab sends is not compared.
AnyRevision(t) == TRUE
Current(t) == tab[t].revision = draft.revision

\* A first save of revision 0 creates the draft.
Editable(t, creates) ==
    /\ draft.status = "draft" \/ (creates /\ draft.status = "none")
    /\ Current(t)

Filled == \A s \in Sections : draft.text[s] # 0

\* Every command answers with the draft it leaves, and the tab shows it.
Becomes(t, status, text) ==
    /\ draft.revision < MaxRevision
    /\ draft' = [status |-> status, revision |-> draft.revision + 1, text |-> text]
    /\ tab' = [tab EXCEPT ![t] = draft']

Open(t) ==
    /\ tab' = [tab EXCEPT ![t] = draft]
    /\ UNCHANGED <<draft, profile>>

Save(t, s) ==
    /\ Editable(t, TRUE)
    /\ Becomes(t, "draft", [draft.text EXCEPT ![s] = draft.revision + 1])
    /\ UNCHANGED profile

SubmitForReview(t) ==
    /\ Editable(t, FALSE) /\ Filled
    /\ Becomes(t, "review", draft.text)
    /\ UNCHANGED profile

\* The profile is one row, overwritten in place; the business takes its name.
ApproveProfile(t) ==
    /\ draft.status = "review" /\ Current(t) /\ Filled
    /\ profile' = [version |-> profile.version + 1, text |-> draft.text,
                   shown |-> tab[t].text]
    /\ Becomes(t, "approved", draft.text)

Reopen(t) ==
    /\ draft.status \in {"review", "approved"} /\ Current(t)
    /\ Becomes(t, "draft", draft.text)
    /\ UNCHANGED profile

OnboardingStep ==
    \E t \in Tabs :
        \/ Open(t) \/ SubmitForReview(t) \/ ApproveProfile(t) \/ Reopen(t)
        \/ \E s \in Sections : Save(t, s)

-----------------------------------------------------------------------------
(* What the founder approves, and what a save overwrites, is what her tab shows: two   *)
(* tabs never silently undo each other (ADR-0009), whatever one of them did between    *)
(* the other's load and its command.                                                   *)
FounderActsOnWhatSheSees ==
    [][/\ profile' # profile => profile'.shown = profile'.text
       /\ draft'.text # draft.text
          => \E t \in Tabs : tab'[t] # tab[t] /\ tab[t].text = draft.text]_onboardingVars
=============================================================================
