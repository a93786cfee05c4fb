--------------------------- MODULE SandboxExecution ---------------------------
(***************************************************************************)
(* One sandbox execution end to end: the owner's commands                  *)
(* (sandbox/service.py), the workers (sandbox/runtime.py) and maintenance  *)
(* (sandbox/recovery.py), which drive the runner of SandboxRunner through  *)
(* sandbox/runner_client.py and keep the row that the owner sees.          *)
(*                                                                         *)
(* A transaction on the row is one step; a call to the runner is not: what *)
(* a client read (call[c].copy) may be old when it acts on it.             *)
(***************************************************************************)
EXTENDS SandboxRunner

CONSTANTS
    Workers,
    Maintenance,    \* the client that runs recover_sandbox_executions
    MaxRecoveries   \* MAX_WORKER_RECOVERIES

ASSUME ExecutionAssumption ==
    /\ Clients = Workers \cup {Maintenance} /\ Maintenance \notin Workers
    /\ MaxRecoveries \in Nat

VARIABLES
    status,         \* sandbox_executions.status, "absent" before the request
    wanted,         \* cancellation_requested_at is set
    recoveries,     \* worker_recovery_count
    fresh,          \* the heartbeat is younger than 90 seconds
    decision,       \* status of the governance action
    allowed,        \* kill switch, tool permission, policy version and data class allow it
    pinned,         \* the pinned project and specification are still the active ones
    jobs,           \* RQ jobs that are queued, by recovery number
    mine,           \* the job a worker has taken, the number maintenance read
    pc,             \* what a client is doing
    sent,           \* what a worker has sent since it took its job
    finished        \* outcome in the sandbox.execution.finished event

rowVars == <<status, wanted, recoveries, fresh, finished>>
ownerVars == <<decision, allowed, pinned>>
clientVars == <<jobs, mine, pc, sent>>
vars == <<runnerVars, rowVars, ownerVars, clientVars>>

Terminal == Outcomes \cup {"rejected"}
InFlight == {"authorizing", "running", "cleaning"}
Activities == {"idle", "inspecting", "claiming", "polling", "monitoring", "finishing",
               "cancelling", "withdrawing", "refusing", "clearing", "preparing", "requeueing", "exhausting"}
Jobs == 0..MaxRecoveries

TypeOK ==
    /\ RunnerTypeOK
    /\ status \in {"absent", "waiting_approval", "queued"} \cup InFlight \cup Terminal
    /\ wanted \in BOOLEAN /\ fresh \in BOOLEAN /\ allowed \in BOOLEAN
    /\ pinned \in BOOLEAN
    /\ recoveries \in Jobs
    /\ decision \in {"none", "approval_required", "approved", "rejected", "authorized", "blocked"}
    /\ jobs \subseteq Jobs
    /\ mine \in [Clients -> Jobs]
    /\ pc \in [Clients -> Activities]
    /\ sent \in [Clients -> SUBSET {"submission", "cancellation"}]
    /\ finished \in Outcomes \cup {"none"}

Init ==
    /\ RunnerInit
    /\ status = "absent" /\ wanted = FALSE /\ recoveries = 0 /\ fresh = FALSE
    /\ decision = "none" /\ allowed = TRUE /\ pinned = TRUE
    /\ jobs = {}
    /\ mine = [c \in Clients |-> 0]
    /\ pc = [c \in Clients |-> "idle"]
    /\ sent = [c \in Clients |-> {}]
    /\ finished = "none"

Go(c, activity) == pc' = [pc EXCEPT ![c] = activity]

\* A client is done with the execution; a cancel call it gave up on goes on.
Leave(c) ==
    /\ Go(c, "idle")
    /\ call' = IF call[c].stage \in {"done", "absent"} THEN [call EXCEPT ![c] = Quiet] ELSE call
    /\ mine' = [mine EXCEPT ![c] = 0]
    /\ sent' = [sent EXCEPT ![c] = {}]

-----------------------------------------------------------------------------
(* The owner: request, decide, start, cancel. *)

\* A job id that is queued or started is not enqueued again.
Put(n) == IF n \in jobs \/ \E w \in Workers : pc[w] # "idle" /\ mine[w] = n
          THEN jobs ELSE jobs \cup {n}

\* Redis takes a job or refuses it.
Arrives(n) == \/ jobs' = Put(n) /\ UNCHANGED faults
              \/ UNCHANGED jobs /\ Fault

\* force_approval: governance asks the owner or refuses at once.
RequestExecution ==
    /\ status = "absent" /\ pinned
    /\ status' = IF allowed THEN "waiting_approval" ELSE "rejected"
    /\ decision' = IF allowed THEN "approval_required" ELSE "blocked"
    /\ UNCHANGED <<runnerVars, wanted, recoveries, fresh, finished, allowed, pinned, clientVars>>

\* The governance console: decide, and authorize after an approval.
DecideAction ==
    /\ \/ decision = "approval_required" /\ decision' \in {"approved", "rejected"}
       \/ decision = "approved" /\ allowed /\ decision' = "authorized"
    /\ UNCHANGED <<runnerVars, rowVars, allowed, pinned, clientVars>>

\* The owner's controls, and a new project or specification version.
ControlsChange ==
    /\ Fault
    /\ \/ allowed' = ~allowed /\ UNCHANGED pinned
       \/ pinned /\ pinned' = FALSE /\ UNCHANGED allowed
    /\ UNCHANGED <<processVars, rowVars, decision, clientVars>>

MayStart == decision \in {"approved", "authorized"} /\ pinned

StartExecution ==
    /\ \/ status = "waiting_approval" /\ MayStart
       \/ status = "queued"
    /\ status' = "queued"
    /\ Arrives(0)
    /\ UNCHANGED <<processVars, wanted, recoveries, fresh, finished, ownerVars, mine, pc, sent>>

CancelExecution ==
    /\ status \notin Terminal \cup {"absent"}
    /\ wanted' = TRUE
    /\ status' = IF status = "waiting_approval" THEN "queued" ELSE status
    /\ Arrives(0)
    /\ UNCHANGED <<processVars, recoveries, fresh, finished, ownerVars, mine, pc, sent>>

-----------------------------------------------------------------------------
(* Reading the runner, for workers and maintenance. *)

\* What the strict client accepts: RunnerReceipt.validate_receipt and
\* RunnerCleanupEvidence.validate_cleanup.
Readable(r) == IsTerminal(r) => r.image /\ r.counted

TakeJob(w) ==
    /\ pc[w] = "idle" /\ call[w] = Quiet
    /\ \E n \in jobs : jobs' = jobs \ {n} /\ mine' = [mine EXCEPT ![w] = n]
    /\ Go(w, "inspecting")
    /\ UNCHANGED <<runnerVars, rowVars, ownerVars, sent>>

\* The first inspection decides between finishing, watching and claiming.
Inspect(c) ==
    /\ pc[c] = "inspecting" /\ up
    /\ IF ~Readable(receipt)
       THEN Leave(c)
       ELSE UNCHANGED <<mine, sent>> /\
       IF IsTerminal(receipt)
       THEN Go(c, "finishing") /\ SetCall(c, "done", receipt)
       ELSE IF Underway(receipt)
       THEN IF c = Maintenance THEN Go(c, "clearing") /\ SetCall(c, "sent", NoReceipt)
            ELSE Go(c, "monitoring") /\ SetCall(c, "done", receipt)
       ELSE Go(c, IF c = Maintenance THEN "preparing" ELSE "claiming") /\ UNCHANGED call
    /\ UNCHANGED <<up, receipt, memory, task, verdict, cancelled, resources, launches,
                   inbox, sweep, faults, rowVars, ownerVars, jobs>>

\* Seeded fault: the recheck that force_recheck asks for is not made.
TrustApproval ==
    /\ decision \in {"approved", "authorized"} /\ pinned
    /\ UNCHANGED decision
\* The pinned evidence is current and governance authorizes it once more.
Authorize ==
    /\ decision \in {"approved", "authorized"} /\ pinned /\ allowed
    /\ decision' = "authorized"
\* Stale evidence, or a recheck that refuses and revokes an authorization.
Refuse ==
    \/ ~pinned /\ UNCHANGED decision
    \/ pinned /\ ~(decision \in {"approved", "authorized"} /\ allowed)
       /\ decision' = IF decision = "authorized" THEN "blocked" ELSE decision

\* claim: the runner knows nothing of the execution, as far as the worker saw.
Claim(w) ==
    /\ pc[w] = "claiming"
    /\ IF status \in Terminal
       THEN Leave(w) /\ UNCHANGED <<status, fresh, decision, inbox>>
       ELSE /\ UNCHANGED mine
            /\ status' = IF status = "queued" THEN "authorizing" ELSE status
            /\ fresh' = TRUE
            /\ \/ /\ wanted
                  /\ Go(w, "withdrawing") /\ SetCall(w, "sent", NoReceipt)
                  /\ UNCHANGED <<decision, inbox, sent>>
               \/ /\ ~wanted
                  /\ \/ status \in {"running", "cleaning"} /\ UNCHANGED decision
                     \/ status \notin {"running", "cleaning"} /\ Refuse
                  /\ Go(w, "refusing") /\ SetCall(w, "sent", NoReceipt)
                  /\ UNCHANGED <<inbox, sent>>
               \/ /\ ~wanted /\ status \notin {"running", "cleaning"} /\ Authorize
                  /\ Go(w, "monitoring") /\ SetCall(w, "done", NoReceipt)
                  /\ inbox' = inbox \cup {w}
                  /\ sent' = [sent EXCEPT ![w] = {"submission"}]
    /\ UNCHANGED <<up, receipt, memory, task, verdict, cancelled, resources, launches, sweep,
                   faults, wanted, recoveries, finished, allowed, pinned, jobs>>

\* What was read before does not matter any more: receipts do not disappear.
WatchOn(w) == Go(w, "polling") /\ SetCall(w, "done", NoReceipt)

\* record_progress, which also tells whether the owner wants to cancel.
RecordProgress(w) ==
    /\ pc[w] = "monitoring" /\ ~IsTerminal(call[w].copy)
    /\ IF status \in Terminal
       THEN WatchOn(w) /\ UNCHANGED <<status, fresh, sent>>
       ELSE /\ status' = IF call[w].copy.state = "running" /\ status = "authorizing" THEN "running"
                         ELSE IF call[w].copy.state = "cleaning" /\ status \in {"authorizing", "running"}
                         THEN "cleaning" ELSE status
            /\ fresh' = TRUE
            /\ IF wanted /\ "cancellation" \notin sent[w]
               THEN /\ sent' = [sent EXCEPT ![w] = @ \cup {"cancellation"}]
                    /\ Go(w, "cancelling") /\ SetCall(w, "sent", NoReceipt)
               ELSE WatchOn(w) /\ UNCHANGED sent
    /\ UNCHANGED <<up, receipt, memory, task, verdict, cancelled, resources, launches, inbox, sweep,
                   faults, wanted, recoveries, finished, ownerVars, jobs, mine>>

\* The next inspection, or the answer to the submission, which is the result
\* of the run as the runner still holds it.
Poll(w) ==
    /\ pc[w] = "polling" /\ up
    /\ \E r \in {receipt} \cup (IF "submission" \in sent[w] /\ task = "none" /\ IsTerminal(memory)
                              THEN {memory} ELSE {}) :
          IF ~Readable(r) THEN Leave(w)
          ELSE /\ Go(w, "monitoring") /\ UNCHANGED <<mine, sent>>
               /\ SetCall(w, "done", r)
    /\ UNCHANGED <<up, receipt, memory, task, verdict, cancelled, resources, launches, inbox, sweep,
                   faults, rowVars, ownerVars, jobs>>

SawTheEnd(w) ==
    /\ pc[w] = "monitoring" /\ IsTerminal(call[w].copy)
    /\ Go(w, "finishing")
    /\ UNCHANGED <<runnerVars, rowVars, ownerVars, jobs, mine, sent>>

\* The answer to a cancel call that is not an absence proof: a terminal receipt
\* is recorded; otherwise the worker watches on, unless it only withdrew.
AfterCancel(c) ==
    IF IsTerminal(call[c].copy) THEN "finishing"
    ELSE CASE pc[c] = "cancelling" -> "polling"
           [] pc[c] = "refusing" -> "monitoring"
           [] pc[c] = "clearing" -> "requeueing"
           [] pc[c] \in {"withdrawing", "exhausting"} -> "idle"

CancelAnswered(c) ==
    /\ pc[c] \in {"cancelling", "withdrawing", "refusing", "clearing", "exhausting"}
    /\ call[c].stage = "done"
    /\ IF ~Readable(call[c].copy) \/ AfterCancel(c) = "idle"
       THEN Leave(c)
       ELSE /\ UNCHANGED <<mine, sent>>
            /\ IF AfterCancel(c) = "polling" THEN WatchOn(c) ELSE Go(c, AfterCancel(c)) /\ UNCHANGED call
    /\ IF c = Maintenance /\ AfterCancel(c) = "idle" THEN Arrives(mine[c]) ELSE UNCHANGED <<jobs, faults>>
    /\ UNCHANGED <<up, receipt, memory, task, verdict, cancelled, resources, launches, inbox, sweep,
                   rowVars, ownerVars>>

\* The runner died with the call: the client's job fails.
CallFails(c) ==
    /\ pc[c] \in {"cancelling", "withdrawing", "refusing", "clearing", "exhausting"}
    /\ call[c] = Quiet
    /\ Leave(c)
    /\ UNCHANGED <<up, receipt, memory, task, verdict, cancelled, resources, launches, inbox, sweep,
                   faults, rowVars, ownerVars, jobs>>

-----------------------------------------------------------------------------
(* Recording the end. *)

\* Seeded fault: a row that already ended takes the newer outcome.
RecordAlways(outcome) ==
    status' = outcome /\ finished' = outcome /\ fresh' = TRUE
\* A row ends once; the event is written in the same transaction.
Record(outcome) ==
    IF status \in Terminal THEN UNCHANGED <<status, finished, fresh>>
    ELSE status' = outcome /\ finished' = outcome /\ fresh' = TRUE

CompleteReceipt(c) ==
    /\ pc[c] = "finishing"
    /\ Record(call[c].copy.outcome)
    /\ Leave(c)
    /\ UNCHANGED <<up, receipt, memory, task, verdict, cancelled, resources, launches, inbox, sweep,
                   faults, wanted, recoveries, ownerVars, jobs>>

CompleteAbsence(c) ==
    /\ pc[c] \in {"cancelling", "withdrawing", "refusing", "exhausting"}
    /\ call[c].stage = "absent"
    /\ Record(IF pc[c] \in {"cancelling", "withdrawing"} THEN "cancelled" ELSE "infrastructure_failed")
    /\ Leave(c)
    /\ UNCHANGED <<up, receipt, memory, task, verdict, cancelled, resources, launches, inbox, sweep,
                   faults, wanted, recoveries, ownerVars, jobs>>

-----------------------------------------------------------------------------
(* Maintenance. *)

\* 90 seconds pass without a heartbeat.  A worker that has claimed is heard of
\* sooner: its calls to the runner give up after 75 seconds.
HeartbeatAges ==
    /\ fresh /\ status \in InFlight
    /\ \A w \in Workers : pc[w] \in {"idle", "inspecting", "claiming"}
    /\ fresh' = FALSE
    /\ UNCHANGED <<runnerVars, status, wanted, recoveries, finished, ownerVars, clientVars>>

\* A candidate is picked; whether it is still one is not asked again.
BeginRecovery ==
    /\ pc[Maintenance] = "idle" /\ call[Maintenance] = Quiet
    /\ status = "queued" \/ (status \in InFlight /\ ~fresh)
    /\ Go(Maintenance, "inspecting")
    /\ UNCHANGED <<runnerVars, rowVars, ownerVars, jobs, mine, sent>>

Deliver(n) ==
    /\ Arrives(n)
    /\ Leave(Maintenance)

RowGoesBack == ~wanted /\ status # "queued" /\ recoveries < MaxRecoveries

\* _prepare_recovery puts an interrupted row back into the queue.
PutBack ==
    /\ status' = "queued" /\ recoveries' = recoveries + 1 /\ fresh' = FALSE
    /\ Deliver(recoveries + 1)

\* The runner knew nothing of the execution.
Prepare ==
    /\ pc[Maintenance] = "preparing"
    /\ \/ /\ status \in Terminal
          /\ Leave(Maintenance) /\ UNCHANGED <<status, recoveries, fresh, jobs, faults>>
       \/ status \notin Terminal /\ RowGoesBack /\ PutBack
       \/ /\ status = "queued" /\ ~wanted
          /\ Deliver(recoveries) /\ UNCHANGED <<status, recoveries, fresh>>
       \/ /\ status \notin Terminal /\ ~RowGoesBack /\ (wanted \/ status # "queued")
          /\ Go(Maintenance, IF wanted THEN "withdrawing" ELSE "exhausting")
          /\ SetCall(Maintenance, "sent", NoReceipt)
          /\ mine' = [mine EXCEPT ![Maintenance] = recoveries]
          /\ UNCHANGED <<status, recoveries, fresh, jobs, faults, sent>>
    /\ UNCHANGED <<up, receipt, memory, task, verdict, cancelled, resources, launches, inbox, sweep,
                   wanted, finished, ownerVars>>

\* The runner is at work, or was, and has been asked to cancel.
Requeue ==
    /\ pc[Maintenance] = "requeueing"
    /\ \/ /\ status \in Terminal
          /\ Leave(Maintenance) /\ UNCHANGED <<status, recoveries, fresh, jobs, faults>>
       \/ status \notin Terminal /\ RowGoesBack /\ PutBack
       \/ /\ status \notin Terminal /\ ~RowGoesBack
          /\ Deliver(recoveries) /\ UNCHANGED <<status, recoveries, fresh>>
    /\ UNCHANGED <<up, receipt, memory, task, verdict, cancelled, resources, launches, inbox, sweep,
                   wanted, finished, ownerVars>>

\* A client dies, a call times out, the monitor gives up after 80 seconds, or
\* RQ kills the job.  What it sent stays on its way.
Abandon(c) ==
    /\ pc[c] # "idle" /\ Fault
    /\ Leave(c)
    /\ UNCHANGED <<up, receipt, memory, task, verdict, cancelled, resources, launches, inbox,
                   sweep, rowVars, ownerVars, jobs>>

-----------------------------------------------------------------------------
OwnerStep == RequestExecution \/ DecideAction \/ ControlsChange \/ StartExecution \/ CancelExecution
ClientStep(c) == Inspect(c) \/ CancelAnswered(c) \/ CallFails(c) \/ CompleteReceipt(c) \/ CompleteAbsence(c)
WorkerStep(w) == TakeJob(w) \/ Claim(w) \/ RecordProgress(w) \/ Poll(w) \/ SawTheEnd(w)
RecoveryStep == BeginRecovery \/ Prepare \/ Requeue
Running == RunnerNext /\ UNCHANGED <<rowVars, ownerVars, clientVars>>

Next == \/ OwnerStep \/ HeartbeatAges \/ Running \/ RecoveryStep
        \/ \E c \in Clients : ClientStep(c) \/ Abandon(c)
        \/ \E w \in Workers : WorkerStep(w)

Spec == Init /\ [][Next]_vars

\* The runner, its janitor and maintenance run for ever; so do the workers.
Fairness ==
    /\ WF_vars(RunStep /\ UNCHANGED <<rowVars, ownerVars, clientVars>>)
    /\ WF_vars(JanitorStep /\ UNCHANGED <<rowVars, ownerVars, clientVars>>)
    /\ WF_vars(RunnerStart /\ UNCHANGED <<rowVars, ownerVars, clientVars>>)
    /\ WF_vars(HeartbeatAges) /\ WF_vars(RecoveryStep)
    /\ \A c \in Clients :
          /\ WF_vars(ServeStep(c) /\ UNCHANGED <<rowVars, ownerVars, clientVars>>)
          /\ WF_vars(ClientStep(c))
    /\ \A w \in Workers : WF_vars(WorkerStep(w))
FairSpec == Spec /\ Fairness

-----------------------------------------------------------------------------
(* Properties. *)

\* Generated code runs only after the owner approved the action and governance
\* authorized it once more, whatever the order of decisions, commands,
\* deliveries and recoveries (ADR-0026).
LaunchIsAuthorized == launches > 0 => decision \in {"authorized", "blocked"}

\* "An execution cannot become succeeded until the runner confirms ... no
\* labeled resources remain", and stays so: nothing comes after a success.
SuccessLeavesNothing == status = "succeeded" => resources = {} /\ ~Active

\* An outcome, and the event that tells it, are never rewritten: not by a
\* second worker, late receipts, absence proofs or recovery.
OutcomeIsFinal ==
    [][(status \in Terminal) => UNCHANGED <<status, finished>>]_vars

\* What the row, the action and the runner's receipt amount to for the owner.  An action
\* is blocked at the request, which is rejected, or later, when an authorization is revoked.
Granted == decision = "authorized" \/ (decision = "blocked" /\ status # "rejected")
PhaseOfRun ==
    IF receipt = NoReceipt THEN "none"
    ELSE IF task = "none" /\ resources = {} THEN "over" ELSE "underway"
OutcomeOfRow == IF status \in Terminal THEN status ELSE "open"

Promise == INSTANCE GovernedExecution
    WITH granted <- Granted, phase <- PhaseOfRun, outcome <- OutcomeOfRow, event <- finished

\* Whatever is sent twice, lost, revoked, reconciled or recovered, the execution is one of
\* GovernedExecution: one granted run, one outcome with one event, and a success only of
\* code that has run and left nothing, with nothing to come after it.
ImplementsGovernedExecution == Promise!Spec

\* sandbox-operations.md: no labeled container or volume after a terminal
\* execution whose cleanup did not fail.
TerminalLeavesNothing == status \in Terminal \ {"cleanup_failed"} => resources = {}

\* A started execution comes to an end that the owner can see.
ExecutionSettles == (status \in InFlight \cup {"queued"}) ~> (status \in Terminal)
=============================================================================
