---------------------------- MODULE SandboxRunner ----------------------------
(***************************************************************************)
(* The sandbox runner, apps/sandbox-runner/src/runner.mjs, as it treats    *)
(* one execution identifier: execute requests that are claimed once and    *)
(* replayed from the receipt, the child's lifecycle with its cleanup,      *)
(* cancellation, absence proofs, the janitor, and crashes of the process.  *)
(*                                                                         *)
(* The runner is one thread, so code between two awaits is one step.  The  *)
(* handlers of cancel and of the janitor work on a copy of the receipt     *)
(* that they read before an await and write back after it.  A second       *)
(* request always carries the same digest (the caller pins it), so the     *)
(* conflict branch is not modelled; acknowledgement and metrics are not    *)
(* either.                                                                 *)
(***************************************************************************)
EXTENDS Naturals, FiniteSets

CONSTANTS
    Clients,        \* callers: workers and their maintenance
    HarnessOutcomes,\* outcomes of a child that is not cancelled
    MaxFaults       \* bound on what goes wrong: crashes, failing calls, changing controls

ASSUME RunnerAssumption ==
    /\ HarnessOutcomes \subseteq {"succeeded", "failed", "resource_exhausted", "timed_out"}
    /\ MaxFaults \in Nat

VARIABLES
    up,             \* the process is listening
    receipt,        \* the receipt file
    memory,         \* the receipt object of the run under way, or of the last
    task,           \* where execute and run are
    verdict,        \* outcome of run, once it is cleaning
    cancelled,      \* control.cancelled
    resources,      \* labeled containers and volumes in the engine
    launches,       \* children created so far
    inbox,          \* clients whose execute request is on its way
    call,           \* per client: its cancel call, or what it last read
    sweep,          \* the janitor, with its copy of the receipt
    faults          \* what went wrong so far

processVars == <<up, receipt, memory, task, verdict, cancelled, resources,
                 launches, inbox, call, sweep>>
runnerVars == <<processVars, faults>>

ChildOutcomes == {"succeeded", "failed", "cancelled", "timed_out",
                  "resource_exhausted", "infrastructure_failed"}
Outcomes == ChildOutcomes \cup {"cleanup_failed"}
\* image: runtime_image_id is set; counted: the final resource count is known.
Receipts == [state : {"none", "received", "creating", "running", "cleaning", "terminal"},
             outcome : Outcomes \cup {"pending"}, image : BOOLEAN, counted : BOOLEAN]
Phases == {"none", "claimed", "resolving", "creating", "created", "running", "cleaning"}
Stages == {"none", "sent", "writing", "proving", "done", "absent"}

NoReceipt == [state |-> "none", outcome |-> "pending", image |-> FALSE, counted |-> FALSE]
Received == [NoReceipt EXCEPT !.state = "received"]
IsTerminal(r) == r.state = "terminal"
Underway(r) == r.state \notin {"none", "terminal"}
Quiet == [stage |-> "none", copy |-> NoReceipt]

\* this.claims and this.active hold the execution.
Claimed == task = "claimed"
Active == task \notin {"none", "claimed"}

Fault == faults < MaxFaults /\ faults' = faults + 1

RunnerTypeOK ==
    /\ up \in BOOLEAN /\ cancelled \in BOOLEAN
    /\ receipt \in Receipts /\ memory \in Receipts
    /\ task \in Phases
    /\ verdict \in ChildOutcomes \cup {"pending"}
    /\ resources \subseteq {"source", "child"}
    /\ launches \in Nat
    /\ inbox \subseteq Clients
    /\ call \in [Clients -> [stage : Stages, copy : Receipts]]
    /\ sweep \in [stage : {"none", "listed", "proved"}, copy : Receipts]
    /\ faults \in Nat

RunnerInit ==
    /\ up = TRUE
    /\ receipt = NoReceipt /\ memory = NoReceipt
    /\ task = "none" /\ verdict = "pending" /\ cancelled = FALSE
    /\ resources = {} /\ launches = 0
    /\ inbox = {}
    /\ call = [c \in Clients |-> Quiet]
    /\ sweep = Quiet
    /\ faults = 0

\* prepareSource leaves a labeled volume, create adds the child's container.
Source == {"source"}
SourceAndChild == Source \cup {"child"}

-----------------------------------------------------------------------------
(* execute: one request claims the execution, the others are replays. *)

\* Seeded fault: only executions under way count as known.
UnknownUnlessRunning == ~Active /\ ~Claimed
Unknown == receipt = NoReceipt /\ task = "none"

ExecuteArrives(c) ==
    /\ up /\ c \in inbox
    /\ inbox' = inbox \ {c}
    /\ task' = IF Unknown THEN "claimed" ELSE task
    /\ UNCHANGED <<up, receipt, memory, verdict, cancelled, resources, launches, call, sweep, faults>>

\* The first receipt is stored, and run starts at once.
BeginRun ==
    /\ task = "claimed"
    /\ task' = "resolving" /\ cancelled' = FALSE
    /\ memory' = Received /\ receipt' = Received
    /\ UNCHANGED <<up, verdict, resources, launches, inbox, call, sweep, faults>>

\* run moves to a phase and stores its receipt.
Advance(phase, r) ==
    /\ task' = phase
    /\ memory' = r /\ receipt' = r
    /\ UNCHANGED <<up, inbox, call, sweep>>

EnterCleaning(outcome) ==
    /\ verdict' = outcome
    /\ Advance("cleaning", [memory EXCEPT !.state = "cleaning"])
    /\ UNCHANGED cancelled

ResolveRuntime ==
    /\ task = "resolving"
    /\ Advance("creating", [memory EXCEPT !.state = "creating", !.image = TRUE])
    /\ UNCHANGED <<verdict, cancelled, resources, launches, faults>>

\* prepareSource and create, unless a cancellation came first.
CreateChild ==
    /\ task = "creating"
    /\ IF cancelled
       THEN EnterCleaning("cancelled") /\ UNCHANGED <<resources, launches>>
       ELSE /\ resources' = SourceAndChild
            /\ launches' = launches + 1
            /\ Advance("created", memory)
            /\ UNCHANGED <<verdict, cancelled>>
    /\ UNCHANGED faults

StartChild ==
    /\ task = "created"
    /\ IF cancelled
       THEN EnterCleaning("cancelled")
       ELSE Advance("running", [memory EXCEPT !.state = "running"]) /\ UNCHANGED <<verdict, cancelled>>
    /\ UNCHANGED <<resources, launches, faults>>

\* The child ended by itself or was stopped: cancelled, out of memory, or as
\* the harness says; or the wall timeout came first.
ChildEnds ==
    /\ task = "running"
    /\ \E outcome \in IF cancelled THEN {"cancelled"} \cup (HarnessOutcomes \cap {"timed_out"})
                      ELSE HarnessOutcomes :
          EnterCleaning(outcome)
    /\ UNCHANGED <<resources, launches, faults>>

\* An engine call throws anywhere in run; a failing create may leave a volume.
RunFails ==
    /\ task \in {"resolving", "creating", "created", "running"} /\ Fault
    /\ EnterCleaning(IF cancelled THEN "cancelled" ELSE "infrastructure_failed")
    /\ resources' \in {resources, IF task = "creating" THEN Source ELSE resources}
    /\ UNCHANGED launches

Finish(r) ==
    /\ Advance("none", r)
    /\ verdict' = "pending" /\ cancelled' = FALSE
    /\ UNCHANGED launches

\* Seeded fault: the outcome is kept although resources remain.
KeepOutcome(outcome) == outcome
\* Three attempts; without a proof of zero resources the outcome is replaced.
OutcomeWithout(outcome) == "cleanup_failed"

Clean ==
    /\ task = "cleaning"
    /\ \/ /\ resources' = {} /\ UNCHANGED faults
          /\ Finish([memory EXCEPT !.state = "terminal", !.outcome = verdict, !.counted = TRUE])
       \/ /\ UNCHANGED resources /\ Fault
          /\ \E counted \in IF resources = {} THEN {FALSE} ELSE BOOLEAN :
                Finish([memory EXCEPT !.state = "terminal", !.outcome = OutcomeWithout(verdict),
                                      !.counted = counted])

\* The last write fails: run rejects and leaves the receipt cleaning.
CleanUnrecorded ==
    /\ task = "cleaning" /\ Fault
    /\ resources' = {}
    /\ task' = "none" /\ memory' = NoReceipt /\ verdict' = "pending" /\ cancelled' = FALSE
    /\ UNCHANGED <<up, receipt, launches, inbox, call, sweep>>

-----------------------------------------------------------------------------
(* cancel and verifyAbsent.  A cancel that meets a claim without a receipt
   waits for the receipt. *)

SetCall(c, stage, copy) == call' = [call EXCEPT ![c] = [stage |-> stage, copy |-> copy]]

CancelArrives(c) ==
    /\ up /\ call[c].stage = "sent"
    /\ \/ /\ receipt = NoReceipt /\ task = "none"
          /\ SetCall(c, "proving", NoReceipt)
       \/ IsTerminal(receipt) /\ SetCall(c, "done", receipt)
       \/ Underway(receipt) /\ SetCall(c, "writing", receipt)
    /\ UNCHANGED <<up, receipt, memory, task, verdict, cancelled, resources, launches, inbox, sweep, faults>>

CancelWrites(c) ==
    /\ call[c].stage = "writing"
    /\ receipt' = call[c].copy
    /\ cancelled' = (cancelled \/ Active)
    /\ SetCall(c, "done", call[c].copy)
    /\ UNCHANGED <<up, memory, task, verdict, resources, launches, inbox, sweep, faults>>

\* The check that nothing is active was made when the call arrived.
ProveAbsent(c) ==
    /\ call[c].stage = "proving"
    /\ resources' = {}
    /\ SetCall(c, "absent", NoReceipt)
    /\ UNCHANGED <<up, receipt, memory, task, verdict, cancelled, launches, inbox, sweep, faults>>

-----------------------------------------------------------------------------
(* The janitor, every 30 seconds and at start, and crashes. *)

Reconciled(r) == [r EXCEPT !.state = "terminal", !.outcome = "infrastructure_failed", !.counted = TRUE]

JanitorLists ==
    /\ up /\ sweep.stage = "none"
    /\ resources' = IF Active THEN resources ELSE {}
    /\ sweep' = IF Underway(receipt) THEN [stage |-> "listed", copy |-> receipt] ELSE Quiet
    /\ UNCHANGED <<up, receipt, memory, task, verdict, cancelled, launches, inbox, call, faults>>

JanitorChecks ==
    /\ sweep.stage = "listed"
    /\ sweep' = IF Active \/ resources # {} THEN Quiet ELSE [sweep EXCEPT !.stage = "proved"]
    /\ UNCHANGED <<up, receipt, memory, task, verdict, cancelled, resources, launches, inbox, call, faults>>

JanitorWrites ==
    /\ sweep.stage = "proved"
    /\ receipt' = Reconciled(sweep.copy)
    /\ sweep' = Quiet
    /\ UNCHANGED <<up, memory, task, verdict, cancelled, resources, launches, inbox, call, faults>>

\* Whatever is in memory or on its way is lost; answers the clients have are not.
RunnerCrash ==
    /\ up /\ Fault
    /\ up' = FALSE
    /\ task' = "none" /\ memory' = NoReceipt /\ verdict' = "pending" /\ cancelled' = FALSE
    /\ inbox' = {}
    /\ call' = [c \in Clients |-> IF call[c].stage \in {"done", "absent"} THEN call[c] ELSE Quiet]
    /\ sweep' = Quiet
    /\ UNCHANGED <<receipt, resources, launches>>

\* The startup janitor runs before the server listens.
RunnerStart ==
    /\ ~up
    /\ up' = TRUE
    /\ resources' = {}
    /\ receipt' = IF Underway(receipt) THEN Reconciled(receipt) ELSE receipt
    /\ UNCHANGED <<memory, task, verdict, cancelled, launches, inbox, call, sweep, faults>>

RunStep == \/ BeginRun \/ ResolveRuntime \/ CreateChild \/ StartChild
           \/ ChildEnds \/ RunFails \/ Clean \/ CleanUnrecorded
JanitorStep == JanitorLists \/ JanitorChecks \/ JanitorWrites
ServeStep(c) == ExecuteArrives(c) \/ CancelArrives(c) \/ CancelWrites(c) \/ ProveAbsent(c)

RunnerNext == \/ RunStep \/ JanitorStep \/ RunnerCrash \/ RunnerStart
              \/ \E c \in Clients : ServeStep(c)

-----------------------------------------------------------------------------
(* Clients as the runner sees them: they may send anything at any time. *)

SendExecute(c) ==
    /\ inbox' = inbox \cup {c}
    /\ UNCHANGED <<up, receipt, memory, task, verdict, cancelled, resources, launches, call, sweep, faults>>

SendCancel(c) ==
    /\ call[c].stage \in {"none", "done", "absent"}
    /\ SetCall(c, "sent", NoReceipt)
    /\ UNCHANGED <<up, receipt, memory, task, verdict, cancelled, resources, launches, inbox, sweep, faults>>

RunnerSpec == RunnerInit /\ [][RunnerNext \/ \E c \in Clients : SendExecute(c) \/ SendCancel(c)]_runnerVars

-----------------------------------------------------------------------------
(* Properties. *)

\* Generated code runs at most once per execution: at most one child is ever
\* created, through replayed and concurrent requests, cancellations that write
\* back an old receipt, absence proofs, janitor runs and crashes of the runner.
LaunchedOnce == launches <= 1
=============================================================================
