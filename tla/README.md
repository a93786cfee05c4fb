# A verification project for Foundora AI

Foundora AI runs a business for one owner: a FastAPI service keeps all state in
PostgreSQL, an RQ worker executes workflows, agents and sandboxed builds, and
everything risky goes through a governance engine.  This directory holds TLA+
models of the parts whose correctness depends on the order in which things
happen, the TLC runs that check them, and TLAPS proofs of every safety property
that the runs check.
Paths below are relative to `src/apps/api/src/foundora/` unless they start with
`src/` or `docs/`.

## 1. Inventory

| component | state it keeps | operations | what must hold | modelled |
|---|---|---|---|---|
| Task ledger `tasks/service.py` | tasks, dependencies, retry audits | create, add_dependency, transition, retry | no work before its dependencies; no dependency cycle; one retry per key, bounded | `TaskEngine`, `CycleSearch` |
| Domain events `events/` | events, one delivery row each | publish_event, dispatch, redrive | effect once; no delivery lost; key never rewrites history | `EventBus` implementing `EventDelivery`; `TaskOutbox` |
| Governance `governance/` | actions, approvals, controls, limits, tool permissions, policy versions | evaluate, decide, authorize, update_settings, set_tool_permission, set_kill_switch | authority only under the controls of the moment; decisions final; daily cap | `Governance` |
| Workflow engine `workflows/` | runs, step runs, events | start, resume, cancel, execute, recover | one executor; dependencies first; checkpoints; compensation; nothing forgotten | `WorkflowEngine` |
| Agent runs `agents/` | runs, messages, reports | create, enqueue, claim, complete, fail, cancel, recover | one execution and one output per run; late workers harmless; every stored run ends | `AgentRuns` |
| Model gateway `model_gateway/` | one call record per attempt | route, generate, stream, record | an operation stays in its budget; nobody is given more than one provider's text | `ModelGateway`, composed with `AgentRuns` |
| Sandbox service `sandbox/` | executions, receipts, recoveries | request, start, claim, monitor, read receipts, prove absence, cancel, recover | authority at the launch; a success is clean; an outcome is final | `SandboxExecution`, implementing `GovernedExecution` |
| Sandbox runner `src/apps/sandbox-runner/src/` | receipts on disk, live containers | execute, cancel, verify-absent, janitor, restart | generated code is launched once per execution | `SandboxRunner`, composed with `SandboxExecution` |
| Knowledge `knowledge/service.py` | sources, documents, stored files | create_source, upload, invalidate | a document keeps its original file | `Knowledge` |
| Memory `memory/service.py` | policies, proposals, records, revisions, provenance | save_policy, propose, decide, invalidate, retrieve | authority only from the founder; one record per claim; a complete history | `Memory`, composed with `Knowledge` |
| Onboarding `onboarding/service.py` | drafts with revisions, profiles | open, save, submit, approve, reopen | what is approved is what was on the screen | `Onboarding` |
| Business brain `business_brain/service.py` | none, it reads | build, context for an agent | only what is approved and fresh | `BusinessContext` (partly) |
| Strategy, offer, brand, specification, website projects | versions of every kind, approvals | create_run, complete, approve, build | a version rests on what its run was shown; one lineage; no lost modification | `AgentOutputs`, `ApprovalChain` |
| Worker `worker.py` | none | recovery passes, dispatch | what was lost is found again | actions of the modules whose rows it recovers |
| Business selection, authentication, API, web, migrations | see PROJECT.json | | | no |

How they interact.  The API calls one service method per request; each method
is one PostgreSQL transaction that first locks the selected business.  A
transaction that needs background work commits and *then* enqueues an RQ job;
a job that was never enqueued is found by the worker's maintenance pass
(`worker.py`, at start and with RQ's maintenance), which runs recovery for
agents, workflows and sandbox executions and dispatches pending domain events.
Producers write events in their own transaction.  Workflow steps ask governance
for authority inside the executor's transaction; approval steps are governance
actions that the owner decides, by resuming the run or in the governance
console.

What is hard.  Enqueue calls that are lost, refused or answered late; jobs
delivered under several ids; workers that die or are killed by a time-out
between any two commits; recovery acting on a run that a worker still believes
to be its own; owner commands between two transactions of an executor; row
objects that SQLAlchemy does not refresh (`infrastructure/database.py:31` sets
`expire_on_commit=False`, and a `SELECT ... FOR UPDATE` without
`populate_existing` keeps what the session already holds); idempotency keys that
are reused for something else; approvals used long after they were given.
PROJECT.json lists these as hazards, each at its line with the properties that
would catch it.

## 2. The modules

### DependencyGraph, TaskEngine, CycleSearch (tasks)

`TaskEngine` is the ledger: `status`, `dependencies`, `lastError`, the retry
counter and the set of retry keys, and the events published so far.  `Create`,
`AddDependency`, `Transition` and `Retry` are the four commands of
`TaskService`; a command that raises changes nothing, so its conditions are
guards.  `Publish`/`PublishAccepts` are `publish_event` as the ledger uses it:
the event key `task:{id}:completed|failed` is an index, and a key that is reused
must come with the same data.  `DependencyGraph` defines reachability by paths;
`WouldCreateCycle` uses it, and `CycleSearch` shows that the stack search of
`_would_create_cycle`, step by step and in every order in which the database may
return the pairs, computes just that.

### EventDelivery, EventBus, TaskOutbox (events)

`EventDelivery` is the promise: an event is published once, its effect is
committed at most once, and a live delivery ends completed or set aside, until
the owner redrives it.  `EventBus` is `events/service.py`: dispatchers that claim
one row with `FOR UPDATE SKIP LOCKED` in `available_at` order, run the handler
in that transaction, count attempts and back off, may die at any point, and the
owner's redrive.  `Promise == INSTANCE EventDelivery WITH ...` is the refinement
mapping.  `TaskOutbox` extends the ledger and instantiates the bus with the ledger's
event keys and payloads: a task command and its delivery row commit together.

### Governance

One business.  `Evaluate` is `evaluate_in_session` for a new key, `Decide` and
`Authorize` are the owner's decision and the execution-time recheck,
`UpdateSettings`, `SetToolPermission`, `SetKillSwitch` the owner's controls;
`AdoptPolicy` (a migration publishes a policy version) and `NextDay` are the
environment.  A risk class is a number 0..5, and `AtLeast(r, n)` says that one of
the contributions of `classify_action` reaches class n.  The sum that the code asks
the database for is the number of the authorized units of spend (`Units`).

### WorkflowEngine

One run.  Rows: `run`, `current`, `recoveries` and, per step, `step`, `attempts`,
`child` (the child agent's status), `action` (the checkpoint's governance
action).  `finished` and `undone` are the order of the events `step_completed`
and of compensation attempts.  The queue: `calls` are enqueue calls that a
committed transaction still has to make, `job[n]` the RQ job of recovery n.
Workers: `pc`, `mine` and `seen`, the executor's own copy of the step rows.
The actions follow the code: `Start`, `Resume`, `Cancel` (service), `Begin` ...
`Delegate`, `DelegationFails` (one iteration of `execute` each), `Reclaim`,
`GiveUp`, `Reconcile` (recovery).  The executor decides on `seen`, never on
`step`, and does not look at `run` again after `Begin`: that is what its
unrefreshed row objects amount to.

The definition of the workflow is a constant: a step is its sequence number, and
`Acyclic` is what `parse_definition` demands of the dependencies, which may point
to later steps.  `CompensableInOrder` is what it does not demand: every step that
declares a compensation can be completed without a later one (section 5).

Abstractions.  Governance and tools answer nondeterministically.  A condition is
true or false nondeterministically.  `running` as a step status is set and left
inside one transaction and never visible.  A missing or invalid pinned version
cannot be reached (definitions are validated before they are pinned).  A child
agent does not end while the call that enqueues it is still open.  RQ ends a job
after 300 s and recovery waits for 360 s after the run began, hence `Stale`: no
worker is executing.  Event sequence numbers are left out.

### SandboxRunner, SandboxExecution

`SandboxRunner` is `runner.mjs` for one execution identifier.  It is one thread,
so the code between two `await`s is one step: `ExecuteArrives` claims the receipt
file or replays it, `RunStep` goes through image, resources, child and cleanup,
and the handlers of cancel and of the janitor work on a *copy* of the receipt
(`call[c]`, `sweep`) that they read before an `await` and write back after it.
The process crashes and restarts anywhere.  The container engine is the set of
labeled `resources`; a second request for an identifier has the digest of the
first, which the caller pins.

`SandboxExecution` extends it with the other side of the HTTP calls: the row
(`status`, `wanted`, `recoveries`, `fresh`), the governance action (`decision`)
and the controls (`allowed`, `pinned`), RQ jobs, the workers of
`sandbox/runtime.py` and maintenance in `sandbox/recovery.py`.  A transaction on
the row is one step; a call to the runner is not, so a client may act on an old
receipt.

`GovernedExecution` is the promise to the owner, without receipts, calls, jobs and
recoveries: the code runs at most once and only as granted, one outcome is told with
one event, and a success is told only when the code has run and nothing of it is
left.  `Promise == INSTANCE GovernedExecution WITH ...` is the mapping: the run is
over when it has a receipt, no task and no resource; `Granted` tells an action
that was blocked at the request, whose row is rejected, from one whose
authorization was revoked later.  An outcome other than a success may be told
before the run is over: the promise says what the code keeps, and number 6 of
section 5 what it does not.

### ModelGateway, AgentRuns

`ModelGateway`: each caller drives one operation (`op`) through the candidates of
`Route`, which keeps the configured candidates once each; a candidate is a
provider, because the registry holds one model of each, and the one budget stands for both tokens and cost, which are checked alike.
`recorded` sums the operation's `model_gateway_calls`, `asked` and `voices` say
which providers saw the prompt and whose text the caller was given.

`AgentRuns` extends it with one run: the request in its three commits
(`CreateRun`, `EnqueueRun`/`EnqueueFails`, `MarkEnqueueFailure`; `ApiDies` between
any two), the workers from claim to completion, the owner's `CancelRun` and
`DisableAgent`, the kill of a job, and maintenance (`JobIsAbandoned`, `Recover`,
`Deliver`).  RQ stops a job after 300 s and kills it 60 s later, recovery waits
for 360 s after the claim: `Recover` therefore takes a running run only when no
worker holds its operation.

### Onboarding, BusinessContext, AgentOutputs, ApprovalChain

`Onboarding` is the draft, the approved profile, and what every browser tab of
the founder shows.  `BusinessContext` defines which approved records an agent is
shown (`Fresh`, the selection that fits a budget), `AgentOutputs` the checks of
what an agent answers and the controlled build of a website.  `ApprovalChain`
composes them.  Approvals and builds lock the rows they compare and are one step.
`create_run` locks nothing: it reads one record per statement (`ReadRecord`), and
the founder may approve between any two.  Of a run only its input, its answer and
its end matter here; `AgentRuns` has the rest.  `approved` keeps the former
versions of the strategy and the profile although their rows are updated in
place: a history for the properties, which no guard reads.  `Established` says how
much of the chain exists initially; `ChainAssumption` is that the agents could have
produced it from the constants given.

### Knowledge, Memory

`Knowledge`: an upload holds the lock of the business while it writes the file,
which no transaction covers; when it fails, the file is removed afterwards and
without the lock (`leftover`).  A crash or a cancelled request may leave a file
without a document; a commit whose acknowledgement is lost is not modelled.

`Memory` extends it: `policy`, `proposal`, `memory`, the revision and provenance
`row` that each accepted proposal leaves, and the revisions on the founder's
`page`.  Every command locks the business and is one step.  Expiry needs no step,
it is compared where it counts.  A memory goes on citing a document that is
invalidated later, as in the code.

### MC modules

`MC*.tla` extend one module each with the small instances of its constants.  The
operators commented "Seeded fault" in the component modules are variants of a
definition, each with a plausible bug; nothing in the models uses them.  They
exist to confirm that every checked property notices the bug it is there for.

## 3. The runs

| run | what it shows | bound |
|---|---|---|
| task_ledger | gates, acyclicity, retry accounting, outbox and ledger agree, in every order of commands | 3 tasks, 1 error, 2 retry keys, 2 retries |
| cycle_search | the stack search answers reachability | all acyclic graphs of 4 tasks, all orders of pairs |
| event_bus | exclusive claims, one effect; every event settles; the bus implements its promise | 2 dispatchers, 2 events, 2 contents, 2 attempts, 1 redrive |
| task_outbox | ledger and bus together: the ledger uses the bus as specified, completions are reported | 1 task, 2 dispatchers |
| governance | authority rests on the owner's approval and the controls of the moment; the daily cap | 2 actions, 5 kinds of request, limits 0 and 1, 2 policy versions, 2 days |
| workflow | one executor, checkpoints, dependencies, compensation; every queued or running run comes to a checkpoint or an end | 4 steps, one of each type, with a dependency on a later step, a condition and a retry; 2 workers, 1 recovery, 2 resume keys |
| sandbox | one launch, authorized; a success is clean; the execution implements its promise, so that an outcome is final | 1 worker and maintenance, 1 fault, 1 recovery |
| agent_runs | one execution, final ends, budgets, one provider's text; every stored run ends | 2 workers, 2 providers, 1 retry, budget 5 with attempts estimated at 2 that use 2 or 3, 1 recovery, 2 faults |
| approvals | no stale or torn evidence, one lineage, no lost modification, no page without a document, the founder acts on what she sees | 2 tabs, chains of 0, 2 or 4 approved records, 3 new runs, 3 versions of a kind, 7 revisions |
| memory | documents keep their file; authority is the founder's; complete history; one record per claim | 2 sources, 2 uploads, 3 proposals of one text, 1 policy, 2 times |
| workflow_cancel_overwritten, sandbox_unsettled | section 5: a violation is expected | |

Why the bounds are enough.  Two actors are enough for every race over one row
lock; one recovery covers the reclaim, the reclaimed job and the exhausted
budget; a budget of 5 lets two attempts pass the estimate and refuses the third;
two competing actions share a daily limit of one.  In `sandbox` the second client
is maintenance, which races the worker for the receipt; one fault is enough to
lose a call, crash the runner or revoke a control at any point, and combinations
of faults are left to the proofs, which bound nothing.

What the larger runs leave apart.  `agent_runs` explores the owner's own gateway
operations before the run is requested (`ConsoleFirst`): they share no state with
it.  `approvals` explores onboarding in full while nothing is requested; next to
runs one tab may approve a renewed profile.  `MaxVersions` is a real bound: two
strategies may replace each other for ever.  The strategist's context has no room
for the brand, so that what fits differs between agents.  `memory` explores uploads
in full before anything is proposed; next to proposals there is one document,
cited or invalidated.  Its sources and executions are interchangeable, and it
checks safety only, so symmetry is sound.

`CHECK_DEADLOCK FALSE` is given where the system may come to rest: all tasks
terminal, a run or an execution ended, a search answered, a bound reached.

Fairness.  Dispatch and workflow recovery are polled for ever by the worker, so
they get weak fairness; handlers that fail do so no more often than the attempt
limit allows, which the code itself bounds.  In `WorkflowEngine` enqueueing by
maintenance, taking a job and beginning to execute are strongly fair: each may
be cut off by a crash or a Redis failure any number of times, but not every time.
In `AgentRuns` the workers' steps, the gateway's answers and the three steps of
maintenance are weakly fair, and faults are bounded.  In `SandboxExecution` the
runner, its janitor and its restart, the clients' calls, the workers, recovery and
the ageing of the heartbeat are.  Nothing is assumed of the owner, of child agents,
or of the process that serves the owner's commands (it may die before every
enqueue call).

## 4. The proofs

Everything in `*_proofs.tla` is checked by tlapm for all values of the constants
that satisfy the modules' assumptions.

* `TaskEngine_proofs`: `TypeCorrect`; `GatesHold` (with `completed` absorbing
  and edges frozen once a task is past its gate); `NoCycles` (a new edge that
  closes a cycle gives a path that `WouldCreateCycle` refuses);
  `RetriesAreAccounted`; `OutboxAgrees`; `PublishedIsImmutable`.
  `SearchIsCorrect` is about `CycleSearch`: everything reachable from the start is
  visited or reachable from the stack, and the visited set is closed up to the stack.
  About `TaskOutbox`: `OutboxRunsTheLedger`, an implementation proof by which the
  theorems above hold of the composed system too; `OutboxUsesTheBus`, every step of
  it is a step of the bus (safety part); and `CompletionsReachTheBus`, from both and
  from `RowsOfEvents`: a delivery row exists exactly for what is published, and
  neither an effect nor a claim without its row.
* `EventBus_proofs`: `ClaimsExclusive`; `HandledEffectivelyOnce`, from an
  invariant that ties a row's status to the number of committed effects;
  `ImplementsPromise`, the safety part of the refinement: each step of the bus
  is a step of `EventDelivery` or a stutter.
* `Governance_proofs`: `TypeCorrect`; `RowsAgree`, an invariant that action and
  approval row tell the same story, from which `AuthorityIsBacked`;
  `ProhibitedStaysOut`; `DecisionsStand`; `GrantsAreControlled`; `DailySpendHolds`,
  for any number of actions and any amounts: the units of two actions are disjoint,
  so a grant adds its own spend to the day's sum, once (`GrantAdds`).
* `WorkflowEngine_proofs`: `TypeCorrect`; `OneExecutor`; `OutcomesFinal`;
  `DependenciesInOrder`; `WaitingTogether`; `BudgetKept`; `CheckpointsHold`;
  `FailureCompensates`; `CompensationsReverse`.  The inductive invariant has two
  layers.  `OwnerInv`: at most one worker is executing or delegating; while one
  executes, the run is running or has been cancelled; while one delegates, the child
  is still queued, so that no resume can have moved the run; and an executor's copy of
  the step rows is outdated only where the cancel struck a step that was not satisfied
  (`CopyAgrees`).  That last part is why an executor that decides on stale rows
  still keeps dependencies and compensations right.  `StepInv` adds what the
  properties need of each other: steps wait in the way of their type, and a step
  that will be tried again has an attempt left, in the rows and in every copy.
  `CompensationsReverse` has a layer of its own, `OrderInv`, and the hypothesis
  `CompensableInOrder`.  Its core is `BegunInOrder`: a step that was ever begun has
  everything satisfied that is listed before it together with its dependencies
  (`Behind`); hence compensable steps complete in their order of listing
  (`DoneInOrder`), and only one failure ever compensates (`UndoneOnce`).
* `SandboxExecution_proofs`: `TypeCorrect`; `OutcomesStand`; `OneLaunch`;
  `LaunchesAreAuthorized`; `SuccessIsClean`, for any number of workers, faults and
  recoveries and any outcomes of the child.  The inductive invariant is
  `TypeOK /\ RunInv /\ Finishing /\ Authorized /\ Succeeded`: how far the run of the
  child is in relation to its receipt (`Started`), what the handlers of cancel and
  of the janitor may write back (`WritesBack`), that every copy of a receipt, on
  disk or held by anyone, tells a success only when nothing is left (`Truthful`),
  which receipt a client holds when it finishes, and that a request on its way to
  the runner was authorized.  A success is the hard part: no
  copy of an earlier receipt may be written back over a clean one.
  `OneGovernedExecution` is the refinement: each step of service, worker, recovery
  and runner is a step of `GovernedExecution` or a stutter.  `PromiseInv` adds what it
  needs: where there is a child or a success, the code was launched (`Ran`), and a
  rejected execution never reaches the runner (`Refused`); `RunPhases` and
  `OverStaysOver` show that the run only goes forward.
* `AgentRuns_proofs`: `TypeCorrect`; `OneExecution`; `EndsStand`; `BudgetHolds`;
  `AudienceHolds`.  `RunInv` says who may hold an operation: only the worker that claimed it, only
  while it works, and never two for the same claim.  `BudgetInv`: what an operation
  has spent is what is recorded for it while it goes on, and an attempt is only
  called with room for its estimate.  `AudienceHolds` rests on it and on `AudienceInv`:
  an operation that has let out text has done so in its current attempt and goes to
  no other, and a sensitive prompt has a route of one candidate at most
  (`RouteOfOne`, which unfolds the fold of `Route` for that one).
* `ApprovalChain_proofs`, for any tabs, sections, sitemaps, research, files and
  bounds: `TypeCorrect`; `FounderSeesWhatSheActsOn`, because a tab that shows the
  current revision shows the current text (`TabsLag`) and one with an older revision
  is refused; `RecordsRest`; `LineageHolds`; `ModificationsHold`;
  `PagesHold`.  `ChainInv` says of every run in progress what its pins are (`RunRests`)
  and of every version what it was made from (`VersionRests`, `OneLineageOf`, `Kept`,
  `Built`).  Versions are only appended and runs keep their input, so all of this is
  stable when anything grows (`GrowthHolds`), which is why approvals between the
  reads of a request do no harm: they can only make its comparisons fail.
* `Memory_proofs`: `FilesStay`, from files being named by identifiers that are never
  issued again; `AuthorityIsHers`; `HistoryStays`; `ClaimsAreUnique`.  `MemoryInv`
  is `Typed /\ Linked /\ Justified /\ Counted /\ OneMemoryPerClaim`: a record is
  numbered by the proposal that founded it, an accepted proposal has a row that
  points to the record of its claim, only eligible types are accepted without the
  founder, and the rows number the revisions without a gap.

Model-checked only: the liveness properties (`EveryEventSettles`,
`CompletionIsReported`, `NoRunIsForgotten`, `RunsEnd`) and the fairness part of
`ImplementsDelivery`, because the prover has no ENABLED; and the two expected
violations.  Several type invariants, `EventsAreImmutable`,
`ProhibitedIsUnreachable`, `DecisionsAreFinal`, `AttemptsInBudget` and
`OutcomeIsFinal` have a theorem and no run; the last also follows from the refinement.  The proofs assume what the modules assume of their constants, and
TLC evaluates these assumptions for the instances of the runs, `CompensableInOrder`
among them.

## 5. Where the code and its own statements differ

Two have a run that exhibits them (expected violation) and are quoted in
PROJECT.json.

1. `workflow_cancel_overwritten`: the executor does not notice a cancellation
   between two steps and moves the cancelled run on.
2. `sandbox_unsettled`: a run that fails before its runtime image is resolved
   leaves a terminal receipt that the strict client refuses to read, so the
   execution never gets an outcome.

The others are stated as definitions that no run of the project lists: the
configuration of their component with the definition as its INVARIANT, under
`Spec`, shows a counterexample at once (number 3 needs a second error).

3. `FailureCanBeRecorded` (`TaskEngine`): the failure event of a task carries no
   attempt in its key (`tasks/service.py:325`), so after a retry a second failure
   with another error cannot be recorded (`docs/architecture.md:188`).
4. `EveryFailureCompensates` (`WorkflowEngine`): runs failed by the queue path or by
   recovery are not compensated (ADR-0015).
5. `CheckpointStaysDecidable` (`WorkflowEngine`): a checkpoint that was authorized in
   the governance console can be neither approved nor rejected by resuming.
6. `TerminalLeavesNothing` (`SandboxExecution`): an absence proof looks for resources
   while an execute request is on its way (`src/apps/sandbox-runner/src/runner.mjs:528`,
   `sandbox/runtime.py:507`); the request then launches under a row that has ended
   (`docs/sandbox-operations.md:36`).
7. `SitemapIsRooted` (`ApprovalChain`): the check wants a root and lets other pages
   stand alone (ADR-0024).
8. `AcceptedIsRemembered` (`Memory`): the key by which proposals merge
   (`memory/service.py:162`) names neither execution nor expiry, and the merged
   record keeps the first's (ADR-0019).

Two limits of the same kind.  A second failure of a task with the *same* error
finds the first one's event and adds none, so `OutboxAgrees` says that some attempt
was reported, not each.  And compensation follows sequence numbers, not the order
of completion: the two agree, as `CompensationsReverse` proves, when a definition
lists the steps that declare a compensation in the order in which they can complete
(`CompensableInOrder`), as the checked one does and every definition that lists steps
after their dependencies; `parse_definition` also accepts other orders.

Two hazards in PROJECT.json have no property: a forced recheck of governance counts
the action's own spend twice (`governance/service.py:656`), which no caller with a
spend reaches today; and the merging of number 8.

## 6. Not modelled, and the plan

Worth doing next:

1. An abstract run lifecycle that `WorkflowEngine` implements, and the
   composition of a checkpoint with `Governance` instead of its outcomes.
2. The goals, tasks, knowledge and memories in the business brain's context.

Left out for good: the web application and the API layer (no state of their own);
business selection (a lock that every modelled transaction takes first);
authentication (it identifies the owner and touches no modelled state); schema
migrations (they run before the program); embeddings, text extraction and the
ranking of hits, normalisation of memory texts and secret patterns, and the HTML,
CSS and accessibility checks of the website builder (data, not control); audit
rows, logging and password hashing.
