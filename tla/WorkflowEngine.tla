--------------------------- MODULE WorkflowEngine ---------------------------
(***************************************************************************)
(* One durable workflow run: workflows/service.py (the owner's commands),  *)
(* runtime.py (the executor in a worker), recovery.py (maintenance) and    *)
(* the RQ jobs between them.                                               *)
(*                                                                         *)
(* Every transaction locks the run row, so a command or an iteration of    *)
(* the executor is one atomic step.  What is not atomic is modelled: the   *)
(* enqueue calls follow the commits they belong to, an executor keeps its  *)
(* own copy of the run and step rows between its transactions (sessions    *)
(* are made with expire_on_commit=False, and a SELECT ... FOR UPDATE does  *)
(* not refresh a row object the session already holds), and workers die.   *)
(***************************************************************************)
EXTENDS Integers, Sequences, FiniteSets

CONSTANTS
    StepCount,      \* steps are numbered by workflow_step_runs.sequence
    StepType,       \* the pinned definition
    DependsOn,
    MaxRetries,
    Conditional,    \* steps with a condition
    Compensable,    \* steps that declare a compensation
    Workers,
    MaxRecoveries,  \* MAX_WORKER_RECOVERIES
    Keys            \* idempotency keys of the owner's resume commands

Steps == 1..StepCount

ASSUME WorkflowAssumption ==
    /\ StepCount \in Nat \ {0}
    /\ StepType \in [Steps -> {"tool", "agent", "approval", "wait"}]
    /\ DependsOn \in [Steps -> SUBSET Steps]
    /\ MaxRetries \in [Steps -> Nat]
    /\ Conditional \subseteq Steps /\ Compensable \subseteq Steps
    /\ MaxRecoveries \in Nat

\* parse_definition refuses cycles: some step of any set depends on none of the set.
Acyclic == \A S \in SUBSET Steps : S # {} => \E s \in S : DependsOn[s] \cap S = {}

ASSUME AcyclicAssumption == Acyclic

VARIABLES
    run,            \* workflow_runs.status
    current,        \* workflow_runs.current_step_key, 0 for NULL
    recoveries,     \* workflow_runs.worker_recovery_count
    step,           \* workflow_step_runs.status
    attempts,       \* workflow_step_runs.attempt_count
    child,          \* status of the child agent run of a step
    action,         \* status of the governance action of an approval step
    finished,       \* order in which steps were completed
    undone,         \* order in which compensations were attempted
    resumed,        \* keys of the run's owner_resumed events
    calls,          \* enqueue calls under way: <<caller, job>>
    job,            \* RQ jobs by recovery number: "none", "queued", "started"
    pc,             \* what each worker is doing
    mine,           \* the job each worker has taken
    seen            \* the executor's copy of the step rows

stepVars == <<step, attempts, child, action, finished, undone>>
queueVars == <<calls, job>>
workerVars == <<pc, mine, seen>>
vars == <<run, current, recoveries, stepVars, resumed, queueVars, workerVars>>

Waiting == {"waiting", "waiting_approval", "waiting_agent"}
Terminal == {"completed", "failed", "cancelled"}
RunStatus == {"queued", "running"} \cup Waiting \cup Terminal
Satisfied == {"completed", "skipped", "compensated"}
StepStatus == {"pending", "running", "failed", "cancelled"} \cup Waiting \cup Satisfied
Jobs == 0..MaxRecoveries
Callers == {"owner", "maintenance", "unmarked"}
ActionStatus == {"none", "approval_required", "approved", "rejected", "authorized", "refused"}

TypeOK ==
    /\ run \in RunStatus \cup {"absent"}
    /\ current \in 0..StepCount
    /\ recoveries \in 0..MaxRecoveries
    /\ step \in [Steps -> StepStatus]
    /\ attempts \in [Steps -> Nat]
    /\ child \in [Steps -> {"none", "queued", "completed", "failed", "cancelled"}]
    /\ action \in [Steps -> ActionStatus]
    /\ finished \in Seq(Steps) /\ undone \in Seq(Steps)
    /\ resumed \subseteq Keys
    /\ calls \subseteq Callers \X Jobs
    /\ job \in [Jobs -> {"none", "queued", "started"}]
    /\ pc \in [Workers -> {"idle", "starting", "executing", "delegating", "ending"}]
    /\ mine \in [Workers -> Jobs]
    /\ seen \in [Workers -> [Steps -> StepStatus]]

AllPending == [s \in Steps |-> "pending"]

Init ==
    /\ run = "absent" /\ current = 0 /\ recoveries = 0
    /\ step = AllPending
    /\ attempts = [s \in Steps |-> 0]
    /\ child = [s \in Steps |-> "none"]
    /\ action = [s \in Steps |-> "none"]
    /\ finished = <<>> /\ undone = <<>>
    /\ resumed = {} /\ calls = {}
    /\ job = [n \in Jobs |-> "none"]
    /\ pc = [w \in Workers |-> "idle"]
    /\ mine = [w \in Workers |-> 0]
    /\ seen = [w \in Workers |-> AllPending]

-----------------------------------------------------------------------------
(* Failure: fail_workflow and compensate_completed_steps. *)

\* The sequences that list S, each member once.
Listings(S) == {q \in [1..Cardinality(S) -> S] : \A s \in S : \E i \in DOMAIN q : q[i] = s}

\* Seeded fault: compensations run first step first.
FirstToLast(S) == {q \in Listings(S) : \A i, j \in DOMAIN q : i < j => q[i] < q[j]}
LastToFirst(S) == {q \in Listings(S) : \A i, j \in DOMAIN q : i < j => q[i] > q[j]}

\* Seeded fault: the walk back over the completed steps stops before the first.
AllButFirst(rows) ==
    {s \in Compensable : rows[s] = "completed" /\ \E t \in Steps : t < s /\ rows[t] = "completed"}
ToCompensate(rows) == {s \in Compensable : rows[s] = "completed"}

\* Whoever fails the run compensates the completed steps of its own copy of the
\* rows, last in sequence first; governance or the tool may refuse any of them.
Fail(rows, failedSteps) ==
    /\ run' = "failed"
    /\ \E accepted \in SUBSET ToCompensate(rows) :
          step' = [s \in Steps |-> IF s \in accepted THEN "compensated"
                                   ELSE IF s \in failedSteps THEN "failed" ELSE step[s]]
    /\ \E q \in LastToFirst(ToCompensate(rows)) : undone' = undone \o q

-----------------------------------------------------------------------------
(* The owner's commands, WorkflowService. *)

Start ==
    /\ run = "absent"
    /\ run' = "queued"
    /\ calls' = calls \cup {<<"owner", 0>>}
    /\ UNCHANGED <<current, recoveries, stepVars, resumed, job, workerVars>>

\* The run goes on: it is queued again, to be enqueued under its first job id.
Requeue ==
    /\ run' = "queued"
    /\ calls' = calls \cup {<<"owner", 0>>}

CompleteCurrent ==
    /\ step' = [step EXCEPT ![current] = "completed"]
    /\ finished' = Append(finished, current)

\* Seeded fault: the checkpoint trusts the decision and skips the recheck.
DecisionIsEnough(decision) ==
    action' = [action EXCEPT ![current] = decision]
\* decide_in_session, then authorize_in_session for an approval.  A conflict
\* or a recheck that refuses raises, and the whole command is undone.
DecideCheckpoint(decision) ==
    /\ action[current] \in {"approval_required", decision}
    /\ action' = [action EXCEPT ![current] =
                     IF decision = "approved" THEN "authorized" ELSE decision]

ResumeApproval(decision) ==
    /\ run = "waiting_approval"
    /\ DecideCheckpoint(decision)
    /\ \/ decision = "approved" /\ CompleteCurrent /\ Requeue /\ UNCHANGED undone
       \/ decision = "rejected" /\ Fail(step, {current}) /\ UNCHANGED <<finished, calls>>
    /\ UNCHANGED <<attempts, child>>

ResumeWait ==
    /\ run = "waiting"
    /\ CompleteCurrent /\ Requeue
    /\ UNCHANGED <<attempts, child, action, undone>>

Retryable(n, s) == n <= MaxRetries[s]

ResumeAgent ==
    /\ run = "waiting_agent"
    /\ \/ /\ child[current] = "completed"
          /\ CompleteCurrent /\ Requeue
          /\ UNCHANGED <<child, undone>>
       \/ /\ child[current] \in {"failed", "cancelled"} /\ Retryable(attempts[current], current)
          /\ step' = [step EXCEPT ![current] = "pending"]
          /\ child' = [child EXCEPT ![current] = "none"]
          /\ Requeue
          /\ UNCHANGED <<finished, undone>>
       \/ /\ child[current] \in {"failed", "cancelled"} /\ ~Retryable(attempts[current], current)
          /\ Fail(step, {current})
          /\ UNCHANGED <<child, finished, calls>>
    /\ UNCHANGED <<attempts, action>>

\* A key seen before returns the run unchanged.
Resume(key) ==
    /\ key \notin resumed
    /\ current # 0
    /\ \/ \E decision \in {"approved", "rejected"} : ResumeApproval(decision)
       \/ ResumeWait
       \/ ResumeAgent
    /\ resumed' = resumed \cup {key}
    /\ UNCHANGED <<current, recoveries, job, workerVars>>

\* Seeded fault: steps that wait are left waiting.
CancellableNotWaiting == {"pending", "running"}
Cancellable == {"pending", "running"} \cup Waiting

Cancel ==
    /\ run \notin Terminal \cup {"absent"}
    /\ run' = "cancelled"
    /\ step' = [s \in Steps |-> IF step[s] \in Cancellable THEN "cancelled" ELSE step[s]]
    /\ UNCHANGED <<current, recoveries, attempts, child, action, finished, undone,
                   resumed, queueVars, workerVars>>

\* The governance console acts on the checkpoint's action directly.
ConsoleDecide(s, decision) ==
    /\ action[s] = "approval_required"
    /\ action' = [action EXCEPT ![s] = decision]
    /\ UNCHANGED <<run, current, recoveries, step, attempts, child, finished, undone,
                   resumed, queueVars, workerVars>>

ConsoleAuthorize(s) ==
    /\ action[s] = "approved"
    /\ action' = [action EXCEPT ![s] = "authorized"]
    /\ UNCHANGED <<run, current, recoveries, step, attempts, child, finished, undone,
                   resumed, queueVars, workerVars>>

-----------------------------------------------------------------------------
(* Enqueue calls and RQ. *)

\* A job of that id that is queued or started swallows the new one.
PutJob(n) == job' = [job EXCEPT ![n] = IF @ = "none" THEN "queued" ELSE @]

EnqueueSucceeds(c) ==
    /\ c \in calls /\ c[1] # "unmarked"
    /\ calls' = calls \ {c}
    /\ PutJob(c[2])
    /\ UNCHANGED <<run, current, recoveries, stepVars, resumed, workerVars>>

\* The call raises; if only the answer was lost, the job is there all the same.
EnqueueFails(c) ==
    /\ c \in calls /\ c[1] # "unmarked"
    /\ calls' = (calls \ {c}) \cup (IF c[1] = "owner" THEN {<<"unmarked", c[2]>>} ELSE {})
    /\ PutJob(c[2]) \/ UNCHANGED job
    /\ UNCHANGED <<run, current, recoveries, stepVars, resumed, workerVars>>

\* Seeded fault: the run is failed whatever has become of it.
MarkAnyRun == run' = "failed"
MarkQueuedRun == run' = IF run = "queued" THEN "failed" ELSE run

\* _mark_queue_failure.
MarkQueueFailure(c) ==
    /\ c \in calls /\ c[1] = "unmarked"
    /\ calls' = calls \ {c}
    /\ MarkQueuedRun
    /\ UNCHANGED <<current, recoveries, stepVars, resumed, job, workerVars>>

\* The calling process dies before, or instead of, the call.
CallerDies(c) ==
    /\ c \in calls
    /\ calls' = calls \ {c}
    /\ UNCHANGED <<run, current, recoveries, stepVars, resumed, job, workerVars>>

\* Redis loses a queued job.
JobLost(n) ==
    /\ job[n] = "queued"
    /\ job' = [job EXCEPT ![n] = "none"]
    /\ UNCHANGED <<run, current, recoveries, stepVars, resumed, calls, workerVars>>

\* RQ discards a started job whose worker has died.
JobDiscarded(n) ==
    /\ job[n] = "started" /\ \A w \in Workers : pc[w] = "idle" \/ mine[w] # n
    /\ job' = [job EXCEPT ![n] = "none"]
    /\ UNCHANGED <<run, current, recoveries, stepVars, resumed, calls, workerVars>>

\* A child agent run ends in its own time, once it is on its way.
ChildEnds(s, outcome) ==
    /\ child[s] = "queued"
    /\ \A w \in Workers : pc[w] # "delegating"
    /\ child' = [child EXCEPT ![s] = outcome]
    /\ UNCHANGED <<run, current, recoveries, step, attempts, action, finished, undone,
                   resumed, queueVars, workerVars>>

-----------------------------------------------------------------------------
(* The executor, WorkflowRuntime.execute, in worker w. *)

TakeJob(w, n) ==
    /\ pc[w] = "idle" /\ job[n] = "queued"
    /\ job' = [job EXCEPT ![n] = "started"]
    /\ mine' = [mine EXCEPT ![w] = n]
    /\ pc' = [pc EXCEPT ![w] = "starting"]
    /\ UNCHANGED <<run, current, recoveries, stepVars, resumed, calls, seen>>

\* Seeded fault: a job delivered again starts a run that is already running.
MayBeginAgain == run \in {"queued", "running"}
MayBegin == run = "queued"

Begin(w) ==
    /\ pc[w] = "starting" /\ MayBegin
    /\ run' = "running" /\ current' = 0
    /\ pc' = [pc EXCEPT ![w] = "executing"]
    /\ seen' = [seen EXCEPT ![w] = step]
    /\ UNCHANGED <<recoveries, stepVars, resumed, queueVars, mine>>

BeginInVain(w) ==
    /\ pc[w] = "starting" /\ ~MayBegin
    /\ pc' = [pc EXCEPT ![w] = "ending"]
    /\ UNCHANGED <<run, current, recoveries, stepVars, resumed, queueVars, mine, seen>>

Pending(rows) == {s \in Steps : rows[s] = "pending"}

\* Seeded fault: one satisfied dependency is enough.
ReadyByAny(rows) ==
    {s \in Pending(rows) : DependsOn[s] = {} \/ \E d \in DependsOn[s] : rows[d] \in Satisfied}
Ready(rows) == {s \in Pending(rows) : \A d \in DependsOn[s] : rows[d] \in Satisfied}

\* The step the next iteration works on: the first that is ready.
NextStep(rows, s) == s \in Ready(rows) /\ \A t \in Ready(rows) : s <= t

\* The executor's copy keeps its row objects for as long as it runs.
Leave(w) ==
    /\ pc' = [pc EXCEPT ![w] = "ending"]
    /\ seen' = [seen EXCEPT ![w] = AllPending]

\* Nothing is pending and everything is satisfied; the output may not validate.
CompleteRun(w) ==
    /\ pc[w] = "executing"
    /\ \A s \in Steps : seen[w][s] \in Satisfied
    /\ \/ run' = "completed" /\ current' = 0 /\ UNCHANGED <<step, undone>>
       \/ Fail(seen[w], {}) /\ current' = 0
    /\ Leave(w)
    /\ UNCHANGED <<recoveries, attempts, child, action, finished, resumed, queueVars, mine>>

\* workflow_deadlock: no step is ready.
Deadlock(w) ==
    /\ pc[w] = "executing"
    /\ Ready(seen[w]) = {} /\ \E s \in Steps : seen[w][s] \notin Satisfied
    /\ Fail(seen[w], {}) /\ current' = 0
    /\ Leave(w)
    /\ UNCHANGED <<recoveries, attempts, child, action, finished, resumed, queueVars, mine>>

Skip(w, s) ==
    /\ pc[w] = "executing" /\ NextStep(seen[w], s) /\ s \in Conditional
    /\ step' = [step EXCEPT ![s] = "skipped"]
    /\ seen' = [seen EXCEPT ![w][s] = "skipped"]
    /\ UNCHANGED <<run, current, recoveries, attempts, child, action, finished, undone,
                   resumed, queueVars, pc, mine>>

\* The step is refused by governance, or its agent is not executable.
Refuse(w, s) ==
    /\ pc[w] = "executing" /\ NextStep(seen[w], s) /\ StepType[s] # "wait"
    /\ action' = IF StepType[s] = "approval" THEN [action EXCEPT ![s] = "refused"] ELSE action
    /\ Fail(seen[w], {s}) /\ current' = s
    /\ Leave(w)
    /\ UNCHANGED <<recoveries, attempts, child, finished, resumed, queueVars, mine>>

\* An approval or wait step stops the run until the owner resumes it.
Pause(w, s) ==
    /\ pc[w] = "executing" /\ NextStep(seen[w], s)
    /\ \/ /\ StepType[s] = "approval"
          /\ action' = [action EXCEPT ![s] = "approval_required"]
          /\ run' = "waiting_approval" /\ step' = [step EXCEPT ![s] = "waiting_approval"]
       \/ /\ StepType[s] = "wait"
          /\ run' = "waiting" /\ step' = [step EXCEPT ![s] = "waiting"]
          /\ UNCHANGED action
    /\ current' = s
    /\ Leave(w)
    /\ UNCHANGED <<recoveries, attempts, child, finished, undone, resumed, queueVars, mine>>

\* A tool step runs to its outcome inside one transaction.
RunTool(w, s) ==
    /\ pc[w] = "executing" /\ NextStep(seen[w], s) /\ StepType[s] = "tool"
    /\ attempts' = [attempts EXCEPT ![s] = @ + 1]
    /\ current' = s
    /\ \/ /\ step' = [step EXCEPT ![s] = "completed"]
          /\ seen' = [seen EXCEPT ![w][s] = "completed"]
          /\ finished' = Append(finished, s)
          /\ UNCHANGED <<run, undone, pc>>
       \/ /\ Retryable(attempts[s] + 1, s)
          /\ step' = [step EXCEPT ![s] = "pending"]
          /\ UNCHANGED <<run, finished, undone, pc, seen>>
       \/ /\ ~Retryable(attempts[s] + 1, s)
          /\ Fail(seen[w], {s})
          /\ Leave(w)
          /\ UNCHANGED finished
    /\ UNCHANGED <<recoveries, child, action, resumed, queueVars, mine>>

\* An agent step creates its child run; the child is enqueued after the commit.
Delegate(w, s) ==
    /\ pc[w] = "executing" /\ NextStep(seen[w], s) /\ StepType[s] = "agent"
    /\ attempts' = [attempts EXCEPT ![s] = @ + 1]
    /\ child' = [child EXCEPT ![s] = "queued"]
    /\ run' = "waiting_agent" /\ step' = [step EXCEPT ![s] = "waiting_agent"]
    /\ current' = s
    /\ pc' = [pc EXCEPT ![w] = "delegating"]
    /\ seen' = [seen EXCEPT ![w] = AllPending]
    /\ UNCHANGED <<recoveries, action, finished, undone, resumed, queueVars, mine>>

Delegated(w) ==
    /\ pc[w] = "delegating"
    /\ pc' = [pc EXCEPT ![w] = "ending"]
    /\ UNCHANGED <<run, current, recoveries, stepVars, resumed, queueVars, mine, seen>>

\* The child could not be enqueued: child, step and run are failed by a new
\* session, without a lock and without a look at their status.
DelegationFails(w) ==
    /\ pc[w] = "delegating"
    /\ child' = [child EXCEPT ![current] = "failed"]
    /\ Fail(step, {current})
    /\ pc' = [pc EXCEPT ![w] = "ending"]
    /\ UNCHANGED <<current, recoveries, attempts, action, finished, resumed, queueVars, mine, seen>>

\* RQ deletes the job of a worker that has returned.
Finish(w) ==
    /\ pc[w] = "ending"
    /\ pc' = [pc EXCEPT ![w] = "idle"]
    /\ job' = [job EXCEPT ![mine[w]] = "none"]
    /\ mine' = [mine EXCEPT ![w] = 0]
    /\ UNCHANGED <<run, current, recoveries, stepVars, resumed, calls, seen>>

\* The worker dies or is killed by the job's time-out; a transaction it has
\* open is rolled back.
Crash(w) ==
    /\ pc[w] # "idle"
    /\ pc' = [pc EXCEPT ![w] = "idle"]
    /\ mine' = [mine EXCEPT ![w] = 0]
    /\ seen' = [seen EXCEPT ![w] = AllPending]
    /\ UNCHANGED <<run, current, recoveries, stepVars, resumed, queueVars>>

-----------------------------------------------------------------------------
(* Maintenance, recover_workflow_runs. *)

\* Seeded fault: a run is reclaimed from a worker that is still executing it.
ReclaimEagerly == run = "running"
\* 360 s after it began, a running run has no executor left: RQ ends a job
\* after 300 s.
Stale == run = "running" /\ \A w \in Workers : pc[w] # "executing"

RecoveryLeft == recoveries < MaxRecoveries

Reclaim ==
    /\ Stale /\ RecoveryLeft
    /\ step' = [s \in Steps |-> IF step[s] = "running" THEN "pending" ELSE step[s]]
    /\ run' = "queued" /\ current' = 0
    /\ recoveries' = recoveries + 1
    /\ calls' = calls \cup {<<"maintenance", recoveries + 1>>}
    /\ UNCHANGED <<attempts, child, action, finished, undone, resumed, job, workerVars>>

GiveUp ==
    /\ Stale /\ ~RecoveryLeft
    /\ run' = "failed"
    /\ UNCHANGED <<current, recoveries, stepVars, resumed, queueVars, workerVars>>

\* Seeded fault: only runs that were reclaimed are enqueued again.
ReconcileReclaimed ==
    /\ run = "queued" /\ recoveries > 0
    /\ calls' = calls \cup {<<"maintenance", recoveries>>}
    /\ UNCHANGED <<run, current, recoveries, stepVars, resumed, job, workerVars>>
Reconcile ==
    /\ run = "queued"
    /\ calls' = calls \cup {<<"maintenance", recoveries>>}
    /\ UNCHANGED <<run, current, recoveries, stepVars, resumed, job, workerVars>>

-----------------------------------------------------------------------------
Execute(w) ==
    \/ Begin(w) \/ BeginInVain(w) \/ CompleteRun(w) \/ Deadlock(w)
    \/ \E s \in Steps :
          Skip(w, s) \/ Refuse(w, s) \/ Pause(w, s) \/ RunTool(w, s) \/ Delegate(w, s)
    \/ Delegated(w) \/ DelegationFails(w) \/ Finish(w)

Owner ==
    \/ Start \/ Cancel
    \/ \E key \in Keys : Resume(key)
    \/ \E s \in Steps, d \in {"approved", "rejected"} : ConsoleDecide(s, d)
    \/ \E s \in Steps : ConsoleAuthorize(s)

Queue ==
    \/ \E c \in Callers \X Jobs :
          EnqueueSucceeds(c) \/ EnqueueFails(c) \/ MarkQueueFailure(c) \/ CallerDies(c)
    \/ \E n \in Jobs : JobLost(n) \/ JobDiscarded(n)
    \/ \E s \in Steps, o \in {"completed", "failed", "cancelled"} : ChildEnds(s, o)

Maintenance == Reclaim \/ GiveUp \/ Reconcile

Next ==
    \/ Owner \/ Queue \/ Maintenance
    \/ \E w \in Workers : Execute(w) \/ Crash(w) \/ \E n \in Jobs : TakeJob(w, n)

Spec == Init /\ [][Next]_vars

\* The maintenance loop runs every 15 s; RQ hands queued jobs to idle workers
\* and discards dead ones; Redis answers, and a worker begins, every now and
\* then; an executor goes on until it ends or dies.  Nothing is asked of the
\* owner, of child agents or of the process that serves the owner's commands.
Fairness ==
    /\ WF_vars(Maintenance)
    /\ \A n \in Jobs : /\ SF_vars(EnqueueSucceeds(<<"maintenance", n>>))
                        /\ WF_vars(JobDiscarded(n))
    /\ \A w \in Workers : /\ SF_vars(\E n \in Jobs : TakeJob(w, n))
                           /\ SF_vars(Begin(w))
                           /\ WF_vars(Execute(w))
FairSpec == Spec /\ Fairness

-----------------------------------------------------------------------------
(* Properties. *)

\* One executor at a time works on the run, whatever jobs are delivered twice,
\* lost, discarded or enqueued under other ids; and while one does, nobody but
\* the owner, by cancelling, has moved the run.
SingleExecutor ==
    \A v, w \in Workers :
        pc[v] = "executing" => /\ pc[w] = "executing" => v = w
                               /\ run \in {"running", "cancelled"}

\* Only dependency-ready steps advance: a step that was touched rests on steps
\* that are completed, skipped or compensated.
DependenciesFirst ==
    \A s \in Steps : step[s] \notin {"pending", "cancelled"} =>
        \A d \in DependsOn[s] : step[d] \in Satisfied

\* The run waits for exactly the step that waits, in the same way.
WaitingAgrees ==
    /\ run \in Waiting => current # 0 /\ step[current] = run
    /\ \A s \in Steps : step[s] \in Waiting => s = current /\ step[s] = run

\* Retries, recoveries and resumes together stay within the step's budget.
AttemptsInBudget == \A s \in Steps : attempts[s] <= MaxRetries[s] + 1

\* No checkpoint is passed without the owner's approval, rechecked.
CheckpointsNeedTheOwner ==
    \A s \in Steps : StepType[s] = "approval" /\ step[s] \in {"completed", "compensated"}
        => action[s] = "authorized"

\* What is listed before step t together with everything it depends on.
Behind(t) ==
    {u \in Steps : \E P \in SUBSET (1..(t - 1)) :
                       u \in P /\ \A v \in P : DependsOn[v] \subseteq P}

\* The definition lists compensable steps in the order in which they can be completed, as
\* one does that lists every step after its dependencies.  parse_definition does not ask it.
CompensableInOrder == \A s, t \in Compensable : s < t => s \in Behind(t)

\* Compensations are attempted at most once, later completed steps first.
CompensationInReverse ==
    \A i, j \in DOMAIN undone : i < j =>
        \E k, l \in DOMAIN finished :
            k > l /\ finished[k] = undone[i] /\ finished[l] = undone[j]

\* A step that fails takes the run with it, and every completed step that
\* declares a compensation is compensated, or tried, in the same transaction.
FailedStepCompensates ==
    [][(\E s \in Steps : step[s] # "failed" /\ step'[s] = "failed")
         => /\ run' = "failed"
            /\ \A s \in Compensable : step[s] = "completed" =>
                  \E i \in DOMAIN undone' : undone'[i] = s]_vars

\* A completed or failed run stays so: no late job, enqueue failure, recovery
\* or command reopens or rewrites it.
OutcomesAreFinal ==
    [][(run \in {"completed", "failed"}) => (run' = run)]_vars

\* Lost jobs, dropped enqueue calls and dead workers leave no run behind: it
\* comes to a checkpoint or to an end.
NoRunIsForgotten ==
    run \in {"queued", "running"} ~> run \in Waiting \cup Terminal

\* Cancelled is terminal (TERMINAL_STATUSES).
CancellationIsFinal == [][(run = "cancelled") => (run' = "cancelled")]_vars

\* "On terminal failure, run declared internal compensations" (ADR-0015).
EveryFailureCompensates ==
    run = "failed" => \A s \in Compensable : step[s] = "completed" =>
                          \E i \in DOMAIN undone : undone[i] = s

\* A run that waits for approval can still be resumed with some decision.
CheckpointStaysDecidable ==
    run = "waiting_approval" =>
        action[current] \in {"approval_required", "approved", "rejected"}
=============================================================================
