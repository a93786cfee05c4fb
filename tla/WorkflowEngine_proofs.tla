----------------------- MODULE WorkflowEngine_proofs -----------------------
(***************************************************************************)
(* What holds of a workflow run for every definition, any number of        *)
(* workers and any limits.                                                 *)
(***************************************************************************)
EXTENDS WorkflowEngine, FiniteSetTheorems, TLAPS

-----------------------------------------------------------------------------
(* Types. *)

\* Compensations are a sequence of steps.
LEMMA ListingTyped ==
    ASSUME NEW S \in SUBSET Steps, NEW q \in LastToFirst(S)
    PROVE  q \in Seq(Steps)
<1>1. StepCount \in Nat
  BY WorkflowAssumption
<1>2. IsFiniteSet(S)
  <2>1. IsFiniteSet(Steps)
    BY <1>1, FS_Interval DEF Steps
  <2> QED BY <2>1, FS_Subset
<1>3. Cardinality(S) \in Nat
  BY <1>2, FS_CardinalityType
<1>4. q \in [1..Cardinality(S) -> S]
  BY DEF LastToFirst, Listings
<1>5. q \in [1..Cardinality(S) -> Steps]
  BY <1>4
<1> QED BY <1>3, <1>5

\* What a failure does to the rows: a completed step may become compensated,
\* the failed step fails, and nothing else moves.
LEMMA FailEffect ==
    ASSUME TypeOK, NEW rows, NEW F, Fail(rows, F)
    PROVE  /\ run' = "failed"
           /\ step' \in [Steps -> StepStatus]
           /\ undone' \in Seq(Steps)
           /\ \A s \in Steps : \/ step'[s] = step[s] /\ s \notin F
                               \/ step'[s] = "compensated" /\ rows[s] = "completed"
                               \/ step'[s] = "failed" /\ s \in F
<1>1. PICK accepted \in SUBSET ToCompensate(rows) :
          step' = [s \in Steps |-> IF s \in accepted THEN "compensated"
                                   ELSE IF s \in F THEN "failed" ELSE step[s]]
  BY DEF Fail
<1>2. ToCompensate(rows) \in SUBSET Steps
  BY WorkflowAssumption DEF ToCompensate
<1>3. PICK q \in LastToFirst(ToCompensate(rows)) : undone' = undone \o q
  BY DEF Fail
<1>4. undone' \in Seq(Steps)
  <2>1. q \in Seq(Steps)
    BY <1>2, ListingTyped
  <2> QED BY <2>1, <1>3 DEF TypeOK
<1>5. step' \in [Steps -> StepStatus]
  BY <1>1 DEF TypeOK, StepStatus, Satisfied
<1>6. ASSUME NEW s \in Steps
      PROVE \/ step'[s] = step[s] /\ s \notin F
            \/ step'[s] = "compensated" /\ rows[s] = "completed"
            \/ step'[s] = "failed" /\ s \in F
  BY <1>1 DEF ToCompensate
<1> QED BY <1>4, <1>5, <1>6 DEF Fail

\* One step of each kind keeps the types.
LEMMA TypeStep ==
    ASSUME TypeOK, [Next]_vars
    PROVE  TypeOK'
<1> USE WorkflowAssumption
<1>0. CASE UNCHANGED vars
  BY <1>0 DEF TypeOK, vars, stepVars, queueVars, workerVars
<1>1. CASE Start
  BY <1>1 DEF Start, TypeOK, stepVars, workerVars, RunStatus, Jobs, Callers
<1>2. CASE Cancel
  BY <1>2 DEF Cancel, TypeOK, queueVars, workerVars, RunStatus, StepStatus, Terminal
<1>3. ASSUME NEW key \in Keys, Resume(key) PROVE TypeOK'
  <2> DEFINE Rest == UNCHANGED <<current, recoveries, job, workerVars>>
  <2>1. resumed' \subseteq Keys /\ Rest /\ current \in Steps
    BY <1>3 DEF Resume, TypeOK, Steps
  <2>2. ASSUME Requeue PROVE run' \in RunStatus /\ calls' \subseteq Callers \X Jobs
    BY <2>2 DEF Requeue, TypeOK, RunStatus, Callers, Jobs
  <2>3. ASSUME CompleteCurrent PROVE step' \in [Steps -> StepStatus] /\ finished' \in Seq(Steps)
    BY <2>1, <2>3 DEF CompleteCurrent, TypeOK, StepStatus, Satisfied
  <2>4. ASSUME NEW decision \in {"approved", "rejected"}, ResumeApproval(decision) PROVE TypeOK'
    <3>1. action' \in [Steps -> ActionStatus]
      BY <2>4 DEF ResumeApproval, DecideCheckpoint, TypeOK, ActionStatus
    <3>2. CASE CompleteCurrent /\ Requeue /\ UNCHANGED undone
      BY <2>1, <2>2, <2>3, <2>4, <3>1, <3>2 DEF ResumeApproval, TypeOK, workerVars
    <3>3. CASE Fail(step, {current}) /\ UNCHANGED <<finished, calls>>
      BY <2>1, <2>4, <3>1, <3>3, FailEffect DEF ResumeApproval, TypeOK, workerVars, RunStatus, Terminal
    <3> QED BY <2>4, <3>2, <3>3 DEF ResumeApproval
  <2>5. CASE ResumeWait
    BY <2>1, <2>2, <2>3, <2>5 DEF ResumeWait, TypeOK, workerVars
  <2>6. CASE ResumeAgent
    <3>1. CASE CompleteCurrent /\ Requeue /\ UNCHANGED <<child, undone>>
      BY <2>1, <2>2, <2>3, <2>6, <3>1 DEF ResumeAgent, TypeOK, workerVars
    <3>2. CASE /\ step' = [step EXCEPT ![current] = "pending"]
               /\ child' = [child EXCEPT ![current] = "none"]
               /\ Requeue /\ UNCHANGED <<finished, undone>>
      BY <2>1, <2>2, <2>6, <3>2 DEF ResumeAgent, TypeOK, workerVars, StepStatus
    <3>3. CASE Fail(step, {current}) /\ UNCHANGED <<child, finished, calls>>
      BY <2>1, <2>6, <3>3, FailEffect DEF ResumeAgent, TypeOK, workerVars, RunStatus, Terminal
    <3> QED BY <2>6, <3>1, <3>2, <3>3 DEF ResumeAgent
  <2> QED BY <1>3, <2>4, <2>5, <2>6 DEF Resume
<1>4. ASSUME NEW s \in Steps, NEW d \in {"approved", "rejected"}, ConsoleDecide(s, d) PROVE TypeOK'
  BY <1>4 DEF ConsoleDecide, TypeOK, ActionStatus, queueVars, workerVars
<1>5. ASSUME NEW s \in Steps, ConsoleAuthorize(s) PROVE TypeOK'
  BY <1>5 DEF ConsoleAuthorize, TypeOK, ActionStatus, queueVars, workerVars
<1>6. CASE Queue
  <2>1. ASSUME NEW c \in Callers \X Jobs, EnqueueSucceeds(c) PROVE TypeOK'
    BY <2>1 DEF EnqueueSucceeds, PutJob, TypeOK, stepVars, workerVars
  <2>2. ASSUME NEW c \in Callers \X Jobs, EnqueueFails(c) PROVE TypeOK'
    <3>1. calls' \subseteq Callers \X Jobs
      BY <2>2 DEF EnqueueFails, TypeOK, Callers
    <3>2. job' \in [Jobs -> {"none", "queued", "started"}]
      <4>1. c[2] \in Jobs
        OBVIOUS
      <4>2. CASE PutJob(c[2])
        BY <4>1, <4>2 DEF PutJob, TypeOK
      <4> QED BY <2>2, <4>2 DEF EnqueueFails, TypeOK
    <3> QED BY <2>2, <3>1, <3>2 DEF EnqueueFails, TypeOK, stepVars, workerVars
  <2>3. ASSUME NEW c \in Callers \X Jobs, MarkQueueFailure(c) PROVE TypeOK'
    BY <2>3 DEF MarkQueueFailure, MarkQueuedRun, TypeOK, stepVars, workerVars, RunStatus, Terminal
  <2>4. ASSUME NEW c \in Callers \X Jobs, CallerDies(c) PROVE TypeOK'
    BY <2>4 DEF CallerDies, TypeOK, stepVars, workerVars
  <2>5. ASSUME NEW n \in Jobs, JobLost(n) \/ JobDiscarded(n) PROVE TypeOK'
    BY <2>5 DEF JobLost, JobDiscarded, TypeOK, stepVars, workerVars
  <2>6. ASSUME NEW s \in Steps, NEW o \in {"completed", "failed", "cancelled"}, ChildEnds(s, o)
        PROVE TypeOK'
    BY <2>6 DEF ChildEnds, TypeOK, queueVars, workerVars
  <2> QED BY <1>6, <2>1, <2>2, <2>3, <2>4, <2>5, <2>6 DEF Queue
<1>7. CASE Maintenance
  <2>1. CASE Reclaim
    BY <1>7, <2>1 DEF Reclaim, RecoveryLeft, TypeOK, StepStatus, RunStatus, Jobs, Callers, workerVars
  <2>2. CASE GiveUp
    BY <1>7, <2>2 DEF GiveUp, TypeOK, RunStatus, Terminal, stepVars, queueVars, workerVars
  <2>3. CASE Reconcile
    BY <1>7, <2>3 DEF Reconcile, TypeOK, Jobs, Callers, stepVars, workerVars
  <2> QED BY <1>7, <2>1, <2>2, <2>3 DEF Maintenance
<1>8. ASSUME NEW w \in Workers, NEW n \in Jobs, TakeJob(w, n) PROVE TypeOK'
  BY <1>8 DEF TakeJob, TypeOK, stepVars
<1>9. ASSUME NEW w \in Workers, Crash(w) PROVE TypeOK'
  BY <1>9 DEF Crash, TypeOK, AllPending, StepStatus, Jobs, stepVars, queueVars
<1>10. ASSUME NEW w \in Workers, Execute(w) PROVE TypeOK'
  <2>1. CASE Begin(w)
    BY <2>1 DEF Begin, TypeOK, RunStatus, stepVars, queueVars
  <2>2. CASE BeginInVain(w) \/ Delegated(w)
    BY <2>2 DEF BeginInVain, Delegated, TypeOK, stepVars, queueVars
  <2>3. CASE Finish(w)
    BY <2>3 DEF Finish, TypeOK, Jobs, stepVars
  <2>4. ASSUME Leave(w) PROVE /\ pc' \in [Workers -> {"idle", "starting", "executing", "delegating", "ending"}]
                              /\ seen' \in [Workers -> [Steps -> StepStatus]]
    BY <2>4 DEF Leave, AllPending, TypeOK, StepStatus
  <2>5. CASE CompleteRun(w)
    <3>1. /\ run' \in RunStatus /\ current' \in 0..StepCount
          /\ step' \in [Steps -> StepStatus] /\ undone' \in Seq(Steps)
      BY <2>5, FailEffect DEF CompleteRun, TypeOK, RunStatus, Terminal
    <3> QED BY <2>4, <2>5, <3>1 DEF CompleteRun, TypeOK, queueVars
  <2>6. CASE Deadlock(w)
    BY <2>4, <2>6, FailEffect DEF Deadlock, TypeOK, queueVars, RunStatus, Terminal
  <2>7. CASE DelegationFails(w)
    BY <2>7, FailEffect DEF DelegationFails, TypeOK, queueVars, RunStatus, Terminal
  <2>8. ASSUME NEW s \in Steps, Skip(w, s) PROVE TypeOK'
    BY <2>8 DEF Skip, TypeOK, StepStatus, Satisfied, queueVars
  <2>9. ASSUME NEW s \in Steps, Refuse(w, s) PROVE TypeOK'
    <3>1. current' \in 0..StepCount /\ action' \in [Steps -> ActionStatus]
      BY <2>9 DEF Refuse, TypeOK, ActionStatus, Steps
    <3>2. Fail(seen[w], {s}) /\ Leave(w)
      BY <2>9 DEF Refuse
    <3> QED BY <2>4, <2>9, <3>1, <3>2, FailEffect DEF Refuse, TypeOK, queueVars, RunStatus, Terminal
  <2>10. ASSUME NEW s \in Steps, Pause(w, s) PROVE TypeOK'
    <3>1. run' \in RunStatus
      BY <2>10 DEF Pause, RunStatus, Waiting
    <3>4. action' \in [Steps -> ActionStatus]
      BY <2>10 DEF Pause, TypeOK, ActionStatus
    <3>3. current' \in 0..StepCount
      <4>1. current' = s
        BY <2>10 DEF Pause
      <4> QED BY <4>1 DEF Steps
    <3>2. step' \in [Steps -> StepStatus] /\ Leave(w)
      BY <2>10 DEF Pause, TypeOK, StepStatus, Waiting
    <3> QED BY <2>4, <2>10, <3>1, <3>2, <3>3, <3>4 DEF Pause, TypeOK, queueVars
  <2>11. ASSUME NEW s \in Steps, RunTool(w, s) PROVE TypeOK'
    <3>1. current' \in 0..StepCount /\ attempts' \in [Steps -> Nat]
      BY <2>11 DEF RunTool, TypeOK, Steps
    <3>2. CASE /\ step' = [step EXCEPT ![s] = "completed"]
               /\ seen' = [seen EXCEPT ![w][s] = "completed"]
               /\ finished' = Append(finished, s) /\ UNCHANGED <<run, undone, pc>>
      BY <2>11, <3>1, <3>2 DEF RunTool, TypeOK, StepStatus, Satisfied, queueVars
    <3>3. CASE step' = [step EXCEPT ![s] = "pending"] /\ UNCHANGED <<run, finished, undone, pc, seen>>
      BY <2>11, <3>1, <3>3 DEF RunTool, TypeOK, StepStatus, queueVars
    <3>4. CASE Fail(seen[w], {s}) /\ Leave(w) /\ UNCHANGED finished
      BY <2>4, <2>11, <3>1, <3>4, FailEffect DEF RunTool, TypeOK, queueVars, RunStatus, Terminal
    <3> QED BY <2>11, <3>2, <3>3, <3>4 DEF RunTool
  <2>12. ASSUME NEW s \in Steps, Delegate(w, s) PROVE TypeOK'
    <3>1. current' \in 0..StepCount /\ attempts' \in [Steps -> Nat] /\ run' \in RunStatus
      BY <2>12 DEF Delegate, TypeOK, Steps, RunStatus, Waiting
    <3>2. step' \in [Steps -> StepStatus] /\ seen' \in [Workers -> [Steps -> StepStatus]]
      BY <2>12 DEF Delegate, TypeOK, StepStatus, Waiting, AllPending
    <3> QED BY <2>12, <3>1, <3>2 DEF Delegate, TypeOK, queueVars
  <2> QED BY <1>10, <2>1, <2>2, <2>3, <2>5, <2>6, <2>7, <2>8, <2>9, <2>10, <2>11, <2>12 DEF Execute
<1> QED BY <1>0, <1>1, <1>2, <1>3, <1>4, <1>5, <1>6, <1>7, <1>8, <1>9, <1>10 DEF Next, Owner

\* Every reachable state is well typed.
THEOREM TypeCorrect == Spec => []TypeOK
<1>1. Init => TypeOK
  BY WorkflowAssumption DEF Init, TypeOK, AllPending, StepStatus, ActionStatus, Jobs
<1>2. TypeOK /\ [Next]_vars => TypeOK'
  BY TypeStep
<1> QED BY <1>1, <1>2, PTL DEF Spec

-----------------------------------------------------------------------------
(* The inductive invariant. *)

Busy(w) == pc[w] \in {"executing", "delegating"}

\* A delegating worker still owns its run: the child cannot have ended, so no
\* resume has moved the run; at most the owner has cancelled it.
DelegationOwnsRun ==
    \A w \in Workers : pc[w] = "delegating" =>
        /\ run \in {"waiting_agent", "cancelled"}
        /\ current \in Steps /\ child[current] = "queued"
        /\ step[current] \in {"waiting_agent", "cancelled"}
        /\ \A d \in DependsOn[current] : step[d] \in Satisfied

OneBusy == \A v, w \in Workers : Busy(v) /\ Busy(w) => v = w

ExecutorOwnsRun == \A w \in Workers : pc[w] = "executing" => run \in {"running", "cancelled"}

\* An executor's copy is outdated only where the owner's cancel struck a step
\* that was not satisfied.
CopyAgrees ==
    \A w \in Workers : pc[w] = "executing" => \A s \in Steps :
        \/ seen[w][s] = step[s]
        \/ step[s] = "cancelled" /\ seen[w][s] \notin Satisfied

OwnerInv == OneBusy /\ ExecutorOwnsRun /\ DelegationOwnsRun /\ CopyAgrees

\* Steps wait in the way of their type, and "running" is never committed.
WaitsByType ==
    \A s \in Steps :
        /\ step[s] = "waiting_approval" => StepType[s] = "approval"
        /\ step[s] = "waiting" => StepType[s] = "wait"
        /\ step[s] = "waiting_agent" => StepType[s] = "agent"
        /\ step[s] # "running"

\* A step that will be tried again has an attempt left, in every copy.
AttemptLeft ==
    /\ \A s \in Steps : step[s] = "pending" => attempts[s] <= MaxRetries[s]
    /\ \A w \in Workers : pc[w] = "executing" =>
          \A s \in Steps : seen[w][s] = "pending" => attempts[s] <= MaxRetries[s]

StepInv ==
    /\ WaitingAgrees /\ WaitsByType /\ AttemptLeft
    /\ DependenciesFirst /\ AttemptsInBudget /\ CheckpointsNeedTheOwner

IInv == TypeOK /\ OwnerInv /\ StepInv

\* When nobody is busy, nothing is asked.
LEMMA NobodyBusy ==
    ASSUME \A w \in Workers : pc'[w] \notin {"executing", "delegating"}
    PROVE  OwnerInv'
BY DEF OwnerInv, OneBusy, Busy, ExecutorOwnsRun, DelegationOwnsRun, CopyAgrees

\* A run in any other status has nobody at work on it.
LEMMA NobodyAtWork ==
    ASSUME OwnerInv, run \notin {"running", "cancelled", "waiting_agent"}
    PROVE  \A w \in Workers : pc[w] \notin {"executing", "delegating"}
BY DEF OwnerInv, ExecutorOwnsRun, DelegationOwnsRun

\* Steps that leave run and rows alone, and at most take workers away.
LEMMA OwnerFrame ==
    ASSUME OwnerInv, UNCHANGED <<run, current, step, child>>,
           \A w \in Workers : pc'[w] \in {"executing", "delegating"} =>
                                 pc'[w] = pc[w] /\ seen'[w] = seen[w]
    PROVE  OwnerInv'
<1>1. OneBusy' /\ ExecutorOwnsRun'
  BY DEF OwnerInv, OneBusy, Busy, ExecutorOwnsRun
<1>2. DelegationOwnsRun'
  BY DEF OwnerInv, DelegationOwnsRun
<1>3. CopyAgrees'
  BY DEF OwnerInv, CopyAgrees
<1> QED BY <1>1, <1>2, <1>3 DEF OwnerInv

\* One step of each kind keeps the run in one hand.
LEMMA OwnerStep ==
    ASSUME TypeOK, OwnerInv, [Next]_vars
    PROVE  OwnerInv'
<1> USE WorkflowAssumption
<1>0. CASE UNCHANGED vars
  BY <1>0, OwnerFrame DEF vars, stepVars, workerVars
<1>1. CASE Start
  BY <1>1, NobodyAtWork, NobodyBusy DEF Start, workerVars
<1>2. CASE Cancel
  <2>1. /\ run' = "cancelled" /\ UNCHANGED <<current, child, pc, seen>>
        /\ \A s \in Steps : \/ step'[s] = step[s] /\ step[s] \notin Cancellable
                            \/ step'[s] = "cancelled" /\ step[s] \in Cancellable
    BY <1>2 DEF Cancel, workerVars
  <2>2. \A s \in Steps : step[s] \in Satisfied => step'[s] = step[s]
    BY <2>1 DEF Cancellable, Satisfied, Waiting
  <2>3. OneBusy' /\ ExecutorOwnsRun'
    BY <2>1 DEF OwnerInv, OneBusy, Busy, ExecutorOwnsRun
  <2>4. DelegationOwnsRun'
    BY <2>1, <2>2 DEF OwnerInv, DelegationOwnsRun
  <2>5. CopyAgrees'
    BY <2>1 DEF OwnerInv, CopyAgrees, Cancellable, Satisfied, Waiting
  <2> QED BY <2>3, <2>4, <2>5 DEF OwnerInv
<1>3. ASSUME NEW key \in Keys, Resume(key) PROVE OwnerInv'
  <2>1. pc' = pc
    BY <1>3 DEF Resume, workerVars
  <2>2. \/ run \in {"waiting_approval", "waiting"}
        \/ run = "waiting_agent" /\ child[current] # "queued"
    BY <1>3 DEF Resume, ResumeApproval, ResumeWait, ResumeAgent
  <2>3. \A w \in Workers : pc[w] \notin {"executing", "delegating"}
    BY <2>2 DEF OwnerInv, ExecutorOwnsRun, DelegationOwnsRun
  <2> QED BY <2>1, <2>3, NobodyBusy
<1>4. ASSUME NEW s \in Steps, NEW d \in {"approved", "rejected"}, ConsoleDecide(s, d) PROVE OwnerInv'
  BY <1>4, OwnerFrame DEF ConsoleDecide, workerVars
<1>5. ASSUME NEW s \in Steps, ConsoleAuthorize(s) PROVE OwnerInv'
  BY <1>5, OwnerFrame DEF ConsoleAuthorize, workerVars
<1>6. CASE Queue
  <2>1. ASSUME NEW c \in Callers \X Jobs,
               EnqueueSucceeds(c) \/ EnqueueFails(c) \/ CallerDies(c)
        PROVE  OwnerInv'
    BY <2>1, OwnerFrame DEF EnqueueSucceeds, EnqueueFails, CallerDies, stepVars, workerVars
  <2>2. ASSUME NEW c \in Callers \X Jobs, MarkQueueFailure(c) PROVE OwnerInv'
    <3>1. CASE run = "queued"
      BY <2>2, <3>1, NobodyAtWork, NobodyBusy DEF MarkQueueFailure, workerVars
    <3>2. CASE run # "queued"
      BY <2>2, <3>2, OwnerFrame DEF MarkQueueFailure, MarkQueuedRun, stepVars, workerVars
    <3> QED BY <3>1, <3>2
  <2>3. ASSUME NEW n \in Jobs, JobLost(n) \/ JobDiscarded(n) PROVE OwnerInv'
    BY <2>3, OwnerFrame DEF JobLost, JobDiscarded, stepVars, workerVars
  <2>4. ASSUME NEW s \in Steps, NEW o \in {"completed", "failed", "cancelled"}, ChildEnds(s, o)
        PROVE  OwnerInv'
    BY <2>4 DEF ChildEnds, workerVars, OwnerInv, OneBusy, Busy, ExecutorOwnsRun,
                DelegationOwnsRun, CopyAgrees
  <2> QED BY <1>6, <2>1, <2>2, <2>3, <2>4 DEF Queue
<1>7. CASE Maintenance
  <2>1. CASE Reconcile
    BY <2>1, OwnerFrame DEF Reconcile, stepVars, workerVars
  <2>2. CASE Reclaim \/ GiveUp
    <3>1. pc' = pc /\ Stale
      BY <2>2 DEF Reclaim, GiveUp, workerVars
    <3>2. \A w \in Workers : pc[w] \notin {"executing", "delegating"}
      BY <3>1 DEF Stale, OwnerInv, DelegationOwnsRun
    <3> QED BY <3>1, <3>2, NobodyBusy
  <2> QED BY <1>7, <2>1, <2>2 DEF Maintenance
<1>8. ASSUME NEW w \in Workers, NEW n \in Jobs, TakeJob(w, n) PROVE OwnerInv'
  BY <1>8, OwnerFrame DEF TakeJob, TypeOK, stepVars
<1>9. ASSUME NEW w \in Workers, Crash(w) PROVE OwnerInv'
  BY <1>9, OwnerFrame DEF Crash, TypeOK, stepVars
<1>10. ASSUME NEW w \in Workers, Execute(w) PROVE OwnerInv'
  <2>1. CASE BeginInVain(w) \/ Delegated(w) \/ Finish(w)
    BY <2>1, OwnerFrame DEF BeginInVain, Delegated, Finish, TypeOK, stepVars
  <2>2. CASE Begin(w)
    <3>1. \A v \in Workers : pc[v] \notin {"executing", "delegating"}
      BY <2>2, NobodyAtWork DEF Begin, MayBegin
    <3>2. /\ run' = "running" /\ step' = step
          /\ \A v \in Workers : pc'[v] \in {"executing", "delegating"} =>
                v = w /\ pc'[v] = "executing" /\ seen'[v] = step
      BY <2>2, <3>1 DEF Begin, TypeOK, stepVars
    <3> QED BY <3>2 DEF OwnerInv, OneBusy, Busy, ExecutorOwnsRun, DelegationOwnsRun, CopyAgrees
  <2>3. ASSUME pc[w] \in {"executing", "delegating"}, pc' = [pc EXCEPT ![w] = "ending"]
        PROVE  OwnerInv'
    <3>1. \A v \in Workers : pc'[v] \notin {"executing", "delegating"}
      BY <2>3 DEF OwnerInv, OneBusy, Busy, TypeOK
    <3> QED BY <3>1, NobodyBusy
  <2>4. CASE CompleteRun(w) \/ Deadlock(w) \/ DelegationFails(w)
    BY <2>3, <2>4 DEF CompleteRun, Deadlock, DelegationFails, Leave
  <2>5. ASSUME NEW s \in Steps, Refuse(w, s) \/ Pause(w, s) PROVE OwnerInv'
    BY <2>3, <2>5 DEF Refuse, Pause, Leave
  <2>6. ASSUME pc[w] = "executing" PROVE \A v \in Workers : Busy(v) => v = w
    BY <2>6 DEF OwnerInv, OneBusy, Busy
  <2>7. ASSUME pc[w] = "executing", UNCHANGED <<run, pc>>, NEW s \in Steps,
               \A t \in Steps \ {s} : step'[t] = step[t] /\ seen'[w][t] = seen[w][t],
               seen'[w][s] = step'[s]
        PROVE  OwnerInv'
    <3>1. OneBusy' /\ ExecutorOwnsRun'
      BY <2>7 DEF OwnerInv, OneBusy, Busy, ExecutorOwnsRun
    <3>2. DelegationOwnsRun'
      BY <2>6, <2>7 DEF DelegationOwnsRun, Busy
    <3>3. CopyAgrees'
      <4> SUFFICES ASSUME NEW t \in Steps
                   PROVE  \/ seen'[w][t] = step'[t]
                          \/ step'[t] = "cancelled" /\ seen'[w][t] \notin Satisfied
        BY <2>6, <2>7 DEF CopyAgrees, Busy
      <4>1. CASE t = s
        BY <2>7, <4>1
      <4>2. CASE t # s
        BY <2>7, <4>2 DEF OwnerInv, CopyAgrees
      <4> QED BY <4>1, <4>2
    <3> QED BY <3>1, <3>2, <3>3 DEF OwnerInv
  <2>8. ASSUME NEW s \in Steps, Skip(w, s) PROVE OwnerInv'
    <3>1. /\ pc[w] = "executing" /\ UNCHANGED <<run, pc>> /\ seen'[w][s] = step'[s]
          /\ \A t \in Steps \ {s} : step'[t] = step[t] /\ seen'[w][t] = seen[w][t]
      BY <2>8 DEF Skip, TypeOK
    <3> QED BY <2>7, <3>1
  <2>9. ASSUME NEW s \in Steps, RunTool(w, s) PROVE OwnerInv'
    <3>1. pc[w] = "executing" /\ seen[w][s] = "pending"
      BY <2>9 DEF RunTool, NextStep, Ready, Pending
    <3>2. CASE Leave(w)
      BY <2>3, <3>1, <3>2 DEF Leave
    <3>3. CASE UNCHANGED <<run, undone, pc>>
      <4>1. /\ seen'[w][s] = step'[s]
            /\ \A t \in Steps \ {s} : step'[t] = step[t] /\ seen'[w][t] = seen[w][t]
        BY <2>9, <3>1, <3>3 DEF RunTool, Fail, Leave, TypeOK
      <4> QED BY <2>7, <3>1, <3>3, <4>1
    <3> QED BY <2>9, <3>2, <3>3 DEF RunTool
  <2>10. ASSUME NEW s \in Steps, Delegate(w, s) PROVE OwnerInv'
    <3>1. /\ pc[w] = "executing" /\ pc' = [pc EXCEPT ![w] = "delegating"]
          /\ run' = "waiting_agent" /\ current' = s
          /\ child'[s] = "queued" /\ step' = [step EXCEPT ![s] = "waiting_agent"]
      BY <2>10 DEF Delegate, TypeOK
    <3>2. \A v \in Workers : pc'[v] \in {"executing", "delegating"} =>
              v = w /\ pc'[v] = "delegating"
      BY <2>6, <3>1 DEF Busy, TypeOK
    <3>3. seen[w][s] = "pending" /\ \A d \in DependsOn[s] : seen[w][d] \in Satisfied
      BY <2>10 DEF Delegate, NextStep, Ready, Pending
    <3>4. \A d \in DependsOn[s] : step'[d] \in Satisfied
      <4> TAKE d \in DependsOn[s]
      <4>1. d \in Steps /\ d # s
        BY <3>3 DEF Satisfied
      <4>2. step[d] \in Satisfied
        BY <3>1, <3>3, <4>1 DEF OwnerInv, CopyAgrees
      <4> QED BY <3>1, <4>1, <4>2
    <3>5. step'[s] = "waiting_agent"
      BY <3>1 DEF TypeOK
    <3> QED BY <3>1, <3>2, <3>4, <3>5 DEF OwnerInv, OneBusy, Busy, ExecutorOwnsRun,
                                    DelegationOwnsRun, CopyAgrees
  <2> QED BY <1>10, <2>1, <2>2, <2>4, <2>5, <2>8, <2>9, <2>10 DEF Execute
<1> QED BY <1>0, <1>1, <1>2, <1>3, <1>4, <1>5, <1>6, <1>7, <1>8, <1>9, <1>10 DEF Next, Owner

\* Jobs delivered twice or enqueued under several ids, dead workers and
\* recoveries never put two executors to work on the run.
THEOREM OneExecutor == Spec => []SingleExecutor
<1>1. Init => TypeOK /\ OwnerInv
  BY WorkflowAssumption DEF Init, TypeOK, AllPending, StepStatus, ActionStatus, Jobs,
     OwnerInv, OneBusy, Busy, ExecutorOwnsRun, DelegationOwnsRun, CopyAgrees
<1>2. TypeOK /\ OwnerInv /\ [Next]_vars => (TypeOK /\ OwnerInv)'
  BY TypeStep, OwnerStep
<1>3. OwnerInv => SingleExecutor
  BY DEF OwnerInv, OneBusy, Busy, ExecutorOwnsRun, SingleExecutor
<1> QED BY <1>1, <1>2, <1>3, PTL DEF Spec

\* A completed or failed run is never moved again: whoever could still move
\* it would have to be at work on it.
THEOREM OutcomesFinal == Spec => OutcomesAreFinal
<1> DEFINE Kept == run \in {"completed", "failed"} => run' = run
<1>1. Init => TypeOK /\ OwnerInv
  BY WorkflowAssumption DEF Init, TypeOK, AllPending, StepStatus, ActionStatus, Jobs,
     OwnerInv, OneBusy, Busy, ExecutorOwnsRun, DelegationOwnsRun, CopyAgrees
<1>2. TypeOK /\ OwnerInv /\ [Next]_vars => (TypeOK /\ OwnerInv)'
  BY TypeStep, OwnerStep
<1>3. ASSUME TypeOK, OwnerInv, [Next]_vars, run \in {"completed", "failed"} PROVE run' = run
  <2>0. CASE UNCHANGED vars
    BY <2>0 DEF vars
  <2>1. CASE Owner
    BY <1>3, <2>1 DEF Owner, Start, Cancel, Terminal, Resume, ResumeApproval, ResumeWait,
       ResumeAgent, ConsoleDecide, ConsoleAuthorize
  <2>2. CASE Queue
    BY <1>3, <2>2 DEF Queue, EnqueueSucceeds, EnqueueFails, MarkQueueFailure, MarkQueuedRun,
       CallerDies, JobLost, JobDiscarded, ChildEnds
  <2>3. CASE Maintenance
    BY <1>3, <2>3 DEF Maintenance, Reclaim, GiveUp, Reconcile, Stale
  <2>4. ASSUME NEW w \in Workers, Execute(w) PROVE run' = run
    <3>1. pc[w] \notin {"executing", "delegating"}
      BY <1>3, NobodyAtWork
    <3> QED BY <1>3, <2>4, <3>1 DEF Execute, Begin, MayBegin, BeginInVain, CompleteRun, Deadlock,
               Skip, Refuse, Pause, RunTool, Delegate, Delegated, DelegationFails, Finish
  <2>5. ASSUME NEW w \in Workers, NEW n \in Jobs, TakeJob(w, n) PROVE run' = run
    BY <2>5 DEF TakeJob
  <2>6. ASSUME NEW w \in Workers, Crash(w) PROVE run' = run
    BY <2>6 DEF Crash
  <2> QED BY <1>3, <2>0, <2>1, <2>2, <2>3, <2>4, <2>5, <2>6 DEF Next
<1>4. TypeOK /\ OwnerInv /\ [Next]_vars => [Kept]_vars
  BY <1>3
<1> QED BY <1>1, <1>2, <1>4, PTL DEF Spec, OutcomesAreFinal

-----------------------------------------------------------------------------
(* Steps, dependencies and budgets. *)

\* Dependencies stay satisfied when satisfied steps stay so, and a step only
\* goes on when its own are.
LEMMA DependenciesKept ==
    ASSUME \A s \in Steps : step[s] \in Satisfied => step'[s] \in Satisfied,
           \A s \in Steps : \/ step'[s] \in {"pending", "cancelled"}
                            \/ \A d \in DependsOn[s] : step[d] \in Satisfied
    PROVE  DependenciesFirst'
BY WorkflowAssumption DEF DependenciesFirst

\* A failure keeps the invariant of the steps when the copy it compensates from
\* is right about completed steps, no step but the failed one waits, and nothing
\* but the failed step's attempt and action changes besides.
LEMMA FailKeeps ==
    ASSUME TypeOK, StepInv, OwnerInv', NEW rows, NEW F \in SUBSET Steps, Fail(rows, F),
           \A s \in Steps : rows[s] = "completed" => step[s] = "completed",
           \A s \in Steps : step[s] \in Waiting => s \in F,
           \A s \in F : /\ step[s] \notin Satisfied
                        /\ \A d \in DependsOn[s] : step[d] \in Satisfied,
           \A s \in Steps : \/ attempts'[s] = attempts[s]
                            \/ s \in F /\ attempts'[s] <= MaxRetries[s] + 1,
           \A s \in Steps : action'[s] = action[s] \/ s \in F
    PROVE  StepInv'
<1>1. /\ run' = "failed"
      /\ \A s \in Steps : \/ step'[s] = step[s] /\ s \notin F
                          \/ step'[s] = "compensated" /\ step[s] = "completed"
                          \/ step'[s] = "failed" /\ s \in F
  BY FailEffect
<1>2. WaitingAgrees'
  BY <1>1 DEF WaitingAgrees, Waiting
<1>3. WaitsByType'
  BY <1>1 DEF StepInv, WaitsByType
<1>4. AttemptLeft'
  <2>1. \A w \in Workers : pc'[w] # "executing"
    BY <1>1 DEF OwnerInv, ExecutorOwnsRun
  <2>2. \A s \in Steps : step'[s] = "pending" => step[s] = "pending" /\ s \notin F
    BY <1>1
  <2> QED BY <2>1, <2>2 DEF StepInv, AttemptLeft
<1>5. DependenciesFirst'
  <2>1. \A s \in Steps : step[s] \in Satisfied => step'[s] \in Satisfied
    BY <1>1 DEF Satisfied
  <2>2. \A s \in Steps : \/ step'[s] \in {"pending", "cancelled"}
                         \/ \A d \in DependsOn[s] : step[d] \in Satisfied
    BY <1>1 DEF StepInv, DependenciesFirst
  <2> QED BY <2>1, <2>2, DependenciesKept
<1>6. AttemptsInBudget'
  BY DEF StepInv, AttemptsInBudget
<1>7. CheckpointsNeedTheOwner'
  BY <1>1 DEF StepInv, CheckpointsNeedTheOwner, Satisfied
<1> QED BY <1>2, <1>3, <1>4, <1>5, <1>6, <1>7 DEF StepInv

\* Steps that touch neither the run, the rows nor a budget.
LEMMA StepFrame ==
    ASSUME StepInv, UNCHANGED <<run, current, step, attempts>>,
           \A s \in Steps : action[s] = "authorized" => action'[s] = "authorized",
           \A w \in Workers : pc'[w] = "executing" => pc[w] = "executing" /\ seen'[w] = seen[w]
    PROVE  StepInv'
<1>1. WaitingAgrees' /\ WaitsByType' /\ AttemptsInBudget' /\ DependenciesFirst'
  BY DEF StepInv, WaitingAgrees, WaitsByType, AttemptsInBudget, DependenciesFirst
<1>2. AttemptLeft'
  BY DEF StepInv, AttemptLeft
<1>3. CheckpointsNeedTheOwner'
  BY DEF StepInv, CheckpointsNeedTheOwner
<1> QED BY <1>1, <1>2, <1>3 DEF StepInv

\* One step s is moved, the run with it, and nobody is at work on it afterwards
\* unless on a copy with as much budget as before.
LEMMA OneStepMoves ==
    ASSUME TypeOK, StepInv, NEW s \in Steps,
           \A t \in Steps \ {s} : /\ step'[t] = step[t] /\ step[t] \notin Waiting
                                  /\ attempts'[t] = attempts[t] /\ action'[t] = action[t],
           step[s] \notin Satisfied,
           \A d \in DependsOn[s] : step[d] \in Satisfied,
           run' \in Waiting => current' = s /\ step'[s] = run',
           step'[s] \in Waiting => current' = s /\ step'[s] = run',
           step'[s] = "waiting_approval" => StepType[s] = "approval",
           step'[s] = "waiting" => StepType[s] = "wait",
           step'[s] = "waiting_agent" => StepType[s] = "agent",
           step'[s] # "running",
           attempts'[s] <= MaxRetries[s] + 1,
           step'[s] = "pending" => attempts'[s] <= MaxRetries[s],
           \A w \in Workers : pc'[w] = "executing" =>
               /\ pc[w] = "executing"
               /\ \A t \in Steps \ {s} : seen'[w][t] = seen[w][t]
               /\ seen'[w][s] = "pending" => attempts'[s] <= MaxRetries[s],
           StepType[s] = "approval" /\ step'[s] \in {"completed", "compensated"}
               => action'[s] = "authorized"
    PROVE  StepInv'
<1>1. WaitingAgrees'
  <2>1. run' \in Waiting => current' # 0 /\ step'[current'] = run'
    BY DEF Steps
  <2>2. \A t \in Steps : step'[t] \in Waiting => t = current' /\ step'[t] = run'
    OBVIOUS
  <2> QED BY <2>1, <2>2 DEF WaitingAgrees
<1>2. WaitsByType'
  BY DEF StepInv, WaitsByType
<1>3. AttemptLeft'
  <2>1. \A t \in Steps : step'[t] = "pending" => attempts'[t] <= MaxRetries[t]
    BY DEF StepInv, AttemptLeft
  <2>2. ASSUME NEW w \in Workers, pc'[w] = "executing", NEW t \in Steps, seen'[w][t] = "pending"
        PROVE  attempts'[t] <= MaxRetries[t]
    BY <2>2 DEF StepInv, AttemptLeft
  <2> QED BY <2>1, <2>2 DEF AttemptLeft
<1>4. DependenciesFirst'
  <2>1. \A t \in Steps : step[t] \in Satisfied => step'[t] \in Satisfied
    OBVIOUS
  <2>2. \A t \in Steps : \/ step'[t] \in {"pending", "cancelled"}
                         \/ \A d \in DependsOn[t] : step[d] \in Satisfied
    BY DEF StepInv, DependenciesFirst
  <2> QED BY <2>1, <2>2, DependenciesKept
<1>5. AttemptsInBudget'
  BY DEF StepInv, AttemptsInBudget
<1>6. CheckpointsNeedTheOwner'
  BY DEF StepInv, CheckpointsNeedTheOwner
<1> QED BY <1>1, <1>2, <1>3, <1>4, <1>5, <1>6 DEF StepInv

\* A resume finds the step that waits and moves it on.
LEMMA ResumeKeeps ==
    ASSUME TypeOK, OwnerInv, OwnerInv', StepInv, NEW key \in Keys, Resume(key)
    PROVE  StepInv'
<1> USE WorkflowAssumption
<1>1. current \in Steps /\ current' = current /\ UNCHANGED workerVars
  BY DEF Resume, TypeOK, Steps
<1>2. run \in Waiting
  BY DEF Resume, ResumeApproval, ResumeWait, ResumeAgent, Waiting
<1>3. /\ step[current] = run
      /\ \A t \in Steps \ {current} : step[t] \notin Waiting
  BY <1>2 DEF StepInv, WaitingAgrees
<1>4. /\ step[current] \notin Satisfied
      /\ \A d \in DependsOn[current] : step[d] \in Satisfied
  BY <1>1, <1>2, <1>3 DEF StepInv, DependenciesFirst, Waiting, Satisfied
<1>5. attempts' = attempts /\ \A t \in Steps \ {current} : action'[t] = action[t]
  BY DEF Resume, ResumeApproval, ResumeWait, ResumeAgent, DecideCheckpoint, TypeOK
<1>6. CASE Fail(step, {current})
  BY <1>1, <1>3, <1>4, <1>5, <1>6, FailKeeps
<1>7. \A w \in Workers : pc'[w] # "executing"
  BY <1>1, <1>2 DEF OwnerInv, ExecutorOwnsRun, workerVars, Waiting
<1>8. ASSUME Requeue, NEW status \in {"pending", "completed"},
             step' = [step EXCEPT ![current] = status],
             status = "pending" => attempts[current] <= MaxRetries[current],
             StepType[current] = "approval" /\ status = "completed"
                => action'[current] = "authorized"
      PROVE  StepInv'
  <2>1. /\ step'[current] = status /\ run' = "queued"
        /\ \A t \in Steps \ {current} : step'[t] = step[t]
    BY <1>1, <1>8 DEF Requeue, TypeOK
  <2>2. attempts'[current] <= MaxRetries[current] + 1
    BY <1>1, <1>5 DEF StepInv, AttemptsInBudget
  <2>3. /\ run' \notin Waiting /\ step'[current] \notin Waiting \cup {"running"}
        /\ step'[current] = "pending" => attempts'[current] <= MaxRetries[current]
        /\ StepType[current] = "approval" /\ step'[current] \in {"completed", "compensated"}
               => action'[current] = "authorized"
    BY <1>5, <1>8, <2>1 DEF Waiting
  <2>4. step'[current] \notin {"waiting", "waiting_agent", "waiting_approval", "running"}
    BY <2>3 DEF Waiting
  <2> QED BY <1>1, <1>3, <1>4, <1>5, <1>7, <2>1, <2>2, <2>3, <2>4, OneStepMoves
<1>9. ASSUME CompleteCurrent, Requeue,
             StepType[current] = "approval" => action'[current] = "authorized"
      PROVE  StepInv'
  BY <1>8, <1>9 DEF CompleteCurrent
<1>10. ASSUME NEW decision \in {"approved", "rejected"}, ResumeApproval(decision) PROVE StepInv'
  <2>1. CASE decision = "approved" /\ CompleteCurrent /\ Requeue
    <3>1. action'[current] = "authorized"
      BY <1>1, <1>10, <2>1 DEF ResumeApproval, DecideCheckpoint, TypeOK
    <3> QED BY <1>9, <2>1, <3>1
  <2> QED BY <1>6, <1>10, <2>1 DEF ResumeApproval
<1>11. CASE ResumeWait
  BY <1>1, <1>3, <1>9, <1>11 DEF ResumeWait, StepInv, WaitsByType
<1>12. CASE ResumeAgent
  <2>1. StepType[current] # "approval"
    BY <1>1, <1>3, <1>12 DEF ResumeAgent, StepInv, WaitsByType
  <2>2. CASE CompleteCurrent /\ Requeue
    BY <1>9, <2>1, <2>2
  <2>3. CASE /\ Retryable(attempts[current], current)
             /\ step' = [step EXCEPT ![current] = "pending"] /\ Requeue
    BY <1>8, <2>1, <2>3 DEF Retryable
  <2> QED BY <1>6, <1>12, <2>2, <2>3 DEF ResumeAgent
<1> QED BY <1>10, <1>11, <1>12 DEF Resume

\* What an executor knows of a step that is ready in its copy.
LEMMA ReadyToGo ==
    ASSUME TypeOK, OwnerInv, StepInv, NEW w \in Workers, pc[w] = "executing",
           NEW s \in Steps, NextStep(seen[w], s)
    PROVE  /\ \A t \in Steps : step[t] \notin Waiting
           /\ \A v \in Workers : pc[v] = "executing" => v = w
           /\ \A t \in Steps : seen[w][t] = "completed" => step[t] = "completed"
           /\ step[s] \notin Satisfied
           /\ \A d \in DependsOn[s] : step[d] \in Satisfied
           /\ attempts[s] <= MaxRetries[s]
<1>1. run \in {"running", "cancelled"}
  BY DEF OwnerInv, ExecutorOwnsRun
<1>2. \A t \in Steps : step[t] \notin Waiting
  BY <1>1 DEF StepInv, WaitingAgrees, Waiting
<1>3. \A v \in Workers : pc[v] = "executing" => v = w
  BY DEF OwnerInv, OneBusy, Busy
<1>4. seen[w][s] = "pending" /\ \A d \in DependsOn[s] : seen[w][d] \in Satisfied
  BY DEF NextStep, Ready, Pending
<1>5. \A t \in Steps : \/ seen[w][t] = step[t]
                       \/ step[t] = "cancelled" /\ seen[w][t] \notin Satisfied
  BY DEF OwnerInv, CopyAgrees
<1>6. \A d \in DependsOn[s] : step[d] \in Satisfied
  BY <1>4, <1>5, WorkflowAssumption
<1>7. attempts[s] <= MaxRetries[s]
  BY <1>4 DEF StepInv, AttemptLeft
<1>8. step[s] \notin Satisfied
  BY <1>4, <1>5 DEF Satisfied
<1>9. \A t \in Steps : seen[w][t] = "completed" => step[t] = "completed"
  BY <1>5 DEF Satisfied
<1> QED BY <1>2, <1>3, <1>6, <1>7, <1>8, <1>9

\* An iteration of the executor keeps the invariant of the steps.
LEMMA ExecuteKeeps ==
    ASSUME TypeOK, OwnerInv, OwnerInv', StepInv, NEW w \in Workers, Execute(w)
    PROVE  StepInv'
<1> USE WorkflowAssumption
<1>1. CASE BeginInVain(w) \/ Delegated(w) \/ Finish(w)
  BY <1>1, StepFrame DEF BeginInVain, Delegated, Finish, TypeOK, stepVars
<1>2. CASE Begin(w)
  <2>1. /\ run = "queued" /\ run' = "running" /\ UNCHANGED <<step, attempts, action>>
    BY <1>2 DEF Begin, MayBegin, stepVars
  <2>2. \A v \in Workers : pc'[v] = "executing" => seen'[v] = step
    <3>1. \A v \in Workers : pc[v] \notin {"executing", "delegating"}
      BY <2>1, NobodyAtWork
    <3> QED BY <1>2, <3>1 DEF Begin, TypeOK
  <2>3. WaitingAgrees'
    BY <2>1 DEF StepInv, WaitingAgrees, Waiting
  <2>4. AttemptLeft'
    BY <2>1, <2>2 DEF StepInv, AttemptLeft
  <2>5. WaitsByType' /\ DependenciesFirst' /\ AttemptsInBudget' /\ CheckpointsNeedTheOwner'
    BY <2>1 DEF StepInv, WaitsByType, DependenciesFirst, AttemptsInBudget, CheckpointsNeedTheOwner
  <2> QED BY <2>3, <2>4, <2>5 DEF StepInv
<1>3. ASSUME pc[w] = "executing"
      PROVE  /\ \A t \in Steps : step[t] \notin Waiting
             /\ \A t \in Steps : seen[w][t] = "completed" => step[t] = "completed"
  <2>1. \A t \in Steps : seen[w][t] = "completed" => step[t] = "completed"
    BY <1>3 DEF OwnerInv, CopyAgrees, Satisfied
  <2>2. run \in {"running", "cancelled"}
    BY <1>3 DEF OwnerInv, ExecutorOwnsRun
  <2> QED BY <2>1, <2>2 DEF StepInv, WaitingAgrees, Waiting
<1>4. CASE CompleteRun(w) \/ Deadlock(w)
  <2>1. pc[w] = "executing" /\ UNCHANGED <<attempts, action>>
    BY <1>4 DEF CompleteRun, Deadlock
  <2>2. CASE Fail(seen[w], {})
    BY <1>3, <2>1, <2>2, FailKeeps
  <2>3. CASE run' = "completed" /\ UNCHANGED <<step, undone>>
    <3>1. \A v \in Workers : pc'[v] # "executing"
      BY <2>3 DEF OwnerInv, ExecutorOwnsRun
    <3>2. WaitingAgrees'
      BY <1>3, <2>1, <2>3 DEF WaitingAgrees, Waiting
    <3>3. AttemptLeft'
      BY <2>1, <2>3, <3>1 DEF StepInv, AttemptLeft
    <3>4. WaitsByType' /\ DependenciesFirst' /\ AttemptsInBudget' /\ CheckpointsNeedTheOwner'
      BY <2>1, <2>3 DEF StepInv, WaitsByType, DependenciesFirst, AttemptsInBudget,
         CheckpointsNeedTheOwner
    <3> QED BY <3>2, <3>3, <3>4 DEF StepInv
  <2> QED BY <1>4, <2>2, <2>3 DEF CompleteRun, Deadlock
<1>5. CASE DelegationFails(w)
  <2>1. /\ current \in Steps /\ step[current] \in {"waiting_agent", "cancelled"}
        /\ \A d \in DependsOn[current] : step[d] \in Satisfied
    BY <1>5 DEF DelegationFails, OwnerInv, DelegationOwnsRun
  <2>2. \A t \in Steps : step[t] \in Waiting => t = current
    BY DEF StepInv, WaitingAgrees
  <2>3. step[current] \notin Satisfied
    BY <2>1 DEF Satisfied
  <2> QED BY <1>5, <2>1, <2>2, <2>3, FailKeeps DEF DelegationFails
<1>6. ASSUME NEW s \in Steps, Skip(w, s) PROVE StepInv'
  <2>1. pc[w] = "executing" /\ NextStep(seen[w], s)
    BY <1>6 DEF Skip
  <2>2. /\ run' = run /\ step'[s] = "skipped" /\ seen'[w][s] = "skipped" /\ UNCHANGED <<attempts, action, pc>>
        /\ \A t \in Steps \ {s} : step'[t] = step[t] /\ seen'[w][t] = seen[w][t]
    BY <1>6 DEF Skip, TypeOK
  <2>3. run' \notin Waiting /\ step'[s] \notin Waiting
    BY <2>1, <2>2 DEF OwnerInv, ExecutorOwnsRun, Waiting
  <2>4. attempts'[s] <= MaxRetries[s] + 1
    BY <2>2 DEF StepInv, AttemptsInBudget
  <2> QED BY <2>1, <2>2, <2>3, <2>4, ReadyToGo, OneStepMoves
<1>7. ASSUME NEW s \in Steps, Refuse(w, s) PROVE StepInv'
  <2>1. /\ pc[w] = "executing" /\ NextStep(seen[w], s) /\ Fail(seen[w], {s}) /\ attempts' = attempts
        /\ \A t \in Steps : action'[t] = action[t] \/ t = s
    BY <1>7 DEF Refuse, TypeOK
  <2> QED BY <2>1, ReadyToGo, FailKeeps
<1>8. ASSUME NEW s \in Steps, Pause(w, s) PROVE StepInv'
  <2>1. pc[w] = "executing" /\ NextStep(seen[w], s)
    BY <1>8 DEF Pause
  <2>2. /\ \/ step'[s] = "waiting_approval" /\ StepType[s] = "approval"
           \/ step'[s] = "waiting" /\ StepType[s] = "wait"
        /\ run' = step'[s] /\ current' = s /\ attempts' = attempts
        /\ \A t \in Steps \ {s} : step'[t] = step[t] /\ action'[t] = action[t]
    BY <1>8 DEF Pause, TypeOK
  <2>3. \A v \in Workers : pc'[v] # "executing"
    BY <2>2 DEF OwnerInv, ExecutorOwnsRun
  <2>4. attempts'[s] <= MaxRetries[s] + 1
    BY <2>2 DEF StepInv, AttemptsInBudget
  <2> QED BY <2>1, <2>2, <2>3, <2>4, ReadyToGo, OneStepMoves
<1>9. ASSUME NEW s \in Steps, RunTool(w, s) PROVE StepInv'
  <2>1. /\ pc[w] = "executing" /\ NextStep(seen[w], s) /\ StepType[s] = "tool"
        /\ attempts' = [attempts EXCEPT ![s] = @ + 1] /\ action' = action
    BY <1>9 DEF RunTool
  <2>2. /\ attempts'[s] = attempts[s] + 1 /\ attempts'[s] <= MaxRetries[s] + 1
        /\ \A t \in Steps \ {s} : attempts'[t] = attempts[t]
    BY <2>1, ReadyToGo DEF TypeOK
  <2>3. CASE Fail(seen[w], {s})
    <3>1. \A t \in Steps : attempts'[t] = attempts[t] \/ (t = s /\ attempts'[t] <= MaxRetries[t] + 1)
      BY <2>2
    <3> QED BY <2>1, <2>3, <3>1, ReadyToGo, FailKeeps
  <2>4. ASSUME UNCHANGED <<run, pc>>, NEW status \in {"pending", "completed"},
               step' = [step EXCEPT ![s] = status],
               status = "pending" => attempts'[s] <= MaxRetries[s],
               \A t \in Steps \ {s} : seen'[w][t] = seen[w][t],
               seen'[w][s] = status
        PROVE  StepInv'
    <3>1. step'[s] = status /\ \A t \in Steps \ {s} : step'[t] = step[t]
      BY <2>4 DEF TypeOK
    <3>2. run' \notin Waiting /\ step'[s] \notin Waiting
      BY <2>1, <2>4, <3>1 DEF OwnerInv, ExecutorOwnsRun, Waiting
    <3> QED BY <2>1, <2>2, <2>4, <3>1, <3>2, ReadyToGo, OneStepMoves
  <2>5. CASE /\ step' = [step EXCEPT ![s] = "completed"]
             /\ seen' = [seen EXCEPT ![w][s] = "completed"] /\ UNCHANGED <<run, undone, pc>>
    BY <2>4, <2>5 DEF TypeOK
  <2>6. CASE /\ Retryable(attempts[s] + 1, s) /\ step' = [step EXCEPT ![s] = "pending"]
             /\ UNCHANGED <<run, finished, undone, pc, seen>>
    <3>1. seen[w][s] = "pending"
      BY <2>1 DEF NextStep, Ready, Pending
    <3> QED BY <2>2, <2>4, <2>6, <3>1 DEF Retryable
  <2> QED BY <1>9, <2>3, <2>5, <2>6 DEF RunTool
<1>10. ASSUME NEW s \in Steps, Delegate(w, s) PROVE StepInv'
  <2>1. /\ pc[w] = "executing" /\ NextStep(seen[w], s) /\ StepType[s] = "agent"
    BY <1>10 DEF Delegate
  <2>2. /\ step'[s] = "waiting_agent" /\ run' = step'[s] /\ current' = s /\ action' = action
        /\ attempts'[s] = attempts[s] + 1
        /\ \A t \in Steps \ {s} : step'[t] = step[t] /\ attempts'[t] = attempts[t]
    BY <1>10 DEF Delegate, TypeOK
  <2>3. \A v \in Workers : pc'[v] # "executing"
    BY <2>2 DEF OwnerInv, ExecutorOwnsRun
  <2>4. attempts'[s] <= MaxRetries[s] + 1
    BY <2>1, <2>2, ReadyToGo DEF TypeOK
  <2> QED BY <2>1, <2>2, <2>3, <2>4, ReadyToGo, OneStepMoves
<1> QED BY <1>1, <1>2, <1>4, <1>5, <1>6, <1>7, <1>8, <1>9, <1>10 DEF Execute

\* One step of each kind keeps the steps in order and within their budgets.
LEMMA StepsStep ==
    ASSUME IInv, [Next]_vars
    PROVE  StepInv'
<1> USE WorkflowAssumption
<1>0. TypeOK /\ OwnerInv /\ StepInv /\ OwnerInv'
  BY TypeStep, OwnerStep DEF IInv
<1>1. CASE UNCHANGED vars
  BY <1>0, <1>1, StepFrame DEF vars, stepVars, workerVars
<1>2. ASSUME UNCHANGED <<step, attempts, action>>, run \notin Waiting, run' \notin Waiting,
             \A w \in Workers : pc'[w] = "executing" => pc[w] = "executing" /\ seen'[w] = seen[w]
      PROVE  StepInv'
  <2>1. WaitingAgrees'
    BY <1>0, <1>2 DEF StepInv, WaitingAgrees, Waiting
  <2>2. AttemptLeft'
    BY <1>0, <1>2 DEF StepInv, AttemptLeft
  <2>3. WaitsByType' /\ DependenciesFirst' /\ AttemptsInBudget' /\ CheckpointsNeedTheOwner'
    BY <1>0, <1>2 DEF StepInv, WaitsByType, DependenciesFirst, AttemptsInBudget,
       CheckpointsNeedTheOwner
  <2> QED BY <2>1, <2>2, <2>3 DEF StepInv
<1>3. CASE Start
  BY <1>2, <1>3 DEF Start, stepVars, workerVars, Waiting
<1>4. CASE Cancel
  <2>1. /\ run' = "cancelled" /\ UNCHANGED <<attempts, action, pc, seen>>
        /\ \A s \in Steps : \/ step'[s] = step[s] /\ step[s] \notin Waiting \cup {"pending"}
                            \/ step'[s] = "cancelled" /\ step[s] \notin Satisfied
    BY <1>4 DEF Cancel, Cancellable, Satisfied, Waiting, workerVars
  <2>2. WaitingAgrees'
    BY <2>1 DEF WaitingAgrees, Waiting
  <2>3. WaitsByType'
    BY <1>0, <2>1 DEF StepInv, WaitsByType
  <2>4. AttemptLeft'
    BY <1>0, <2>1 DEF StepInv, AttemptLeft
  <2>5. DependenciesFirst'
    BY <1>0, <2>1, DependenciesKept DEF StepInv, DependenciesFirst
  <2>6. AttemptsInBudget' /\ CheckpointsNeedTheOwner'
    BY <1>0, <2>1 DEF StepInv, AttemptsInBudget, CheckpointsNeedTheOwner, Satisfied
  <2> QED BY <2>2, <2>3, <2>4, <2>5, <2>6 DEF StepInv
<1>5. ASSUME NEW key \in Keys, Resume(key) PROVE StepInv'
  BY <1>0, <1>5, ResumeKeeps
<1>6. ASSUME NEW s \in Steps, NEW d \in {"approved", "rejected"}, ConsoleDecide(s, d) PROVE StepInv'
  <2>1. \A t \in Steps : action[t] = "authorized" => action'[t] = "authorized"
    BY <1>0, <1>6 DEF ConsoleDecide, TypeOK
  <2> QED BY <1>0, <1>6, <2>1, StepFrame DEF ConsoleDecide, workerVars
<1>7. ASSUME NEW s \in Steps, ConsoleAuthorize(s) PROVE StepInv'
  <2>1. \A t \in Steps : action[t] = "authorized" => action'[t] = "authorized"
    BY <1>0, <1>7 DEF ConsoleAuthorize, TypeOK
  <2> QED BY <1>0, <1>7, <2>1, StepFrame DEF ConsoleAuthorize, workerVars
<1>8. CASE Queue
  <2>1. ASSUME NEW c \in Callers \X Jobs,
               EnqueueSucceeds(c) \/ EnqueueFails(c) \/ CallerDies(c)
        PROVE  StepInv'
    BY <1>0, <2>1, StepFrame DEF EnqueueSucceeds, EnqueueFails, CallerDies, stepVars, workerVars
  <2>2. ASSUME NEW c \in Callers \X Jobs, MarkQueueFailure(c) PROVE StepInv'
    <3>1. CASE run = "queued"
      BY <1>2, <2>2, <3>1 DEF MarkQueueFailure, MarkQueuedRun, stepVars, workerVars, Waiting
    <3>2. CASE run # "queued"
      BY <1>0, <2>2, <3>2, StepFrame DEF MarkQueueFailure, MarkQueuedRun, stepVars, workerVars
    <3> QED BY <3>1, <3>2
  <2>3. ASSUME NEW n \in Jobs, JobLost(n) \/ JobDiscarded(n) PROVE StepInv'
    BY <1>0, <2>3, StepFrame DEF JobLost, JobDiscarded, stepVars, workerVars
  <2>4. ASSUME NEW s \in Steps, NEW o \in {"completed", "failed", "cancelled"}, ChildEnds(s, o)
        PROVE  StepInv'
    BY <1>0, <2>4, StepFrame DEF ChildEnds, workerVars
  <2> QED BY <1>8, <2>1, <2>2, <2>3, <2>4 DEF Queue
<1>9. CASE Maintenance
  <2>1. CASE Reconcile
    BY <1>0, <2>1, StepFrame DEF Reconcile, stepVars, workerVars
  <2>2. CASE GiveUp
    BY <1>2, <2>2 DEF GiveUp, Stale, stepVars, workerVars, Waiting
  <2>3. CASE Reclaim
    <3>1. step' = step
      BY <1>0, <2>3 DEF Reclaim, StepInv, WaitsByType, TypeOK
    <3> QED BY <1>2, <2>3, <3>1 DEF Reclaim, Stale, workerVars, Waiting
  <2> QED BY <1>9, <2>1, <2>2, <2>3 DEF Maintenance
<1>10. ASSUME NEW w \in Workers, NEW n \in Jobs, TakeJob(w, n) PROVE StepInv'
  BY <1>0, <1>10, StepFrame DEF TakeJob, TypeOK, stepVars
<1>11. ASSUME NEW w \in Workers, Crash(w) PROVE StepInv'
  BY <1>0, <1>11, StepFrame DEF Crash, TypeOK, stepVars
<1>12. ASSUME NEW w \in Workers, Execute(w) PROVE StepInv'
  BY <1>0, <1>12, ExecuteKeeps
<1> QED BY <1>1, <1>3, <1>4, <1>5, <1>6, <1>7, <1>8, <1>9, <1>10, <1>11, <1>12 DEF Next, Owner

\* The invariant of the whole machine.
LEMMA Inductive == Spec => []IInv
<1>1. Init => IInv
  BY WorkflowAssumption DEF Init, IInv, TypeOK, AllPending, StepStatus, ActionStatus, Jobs,
     OwnerInv, OneBusy, Busy, ExecutorOwnsRun, DelegationOwnsRun, CopyAgrees,
     StepInv, WaitingAgrees, Waiting, WaitsByType, AttemptLeft, DependenciesFirst,
     AttemptsInBudget, CheckpointsNeedTheOwner
<1>2. IInv /\ [Next]_vars => IInv'
  BY TypeStep, OwnerStep, StepsStep DEF IInv
<1> QED BY <1>1, <1>2, PTL DEF Spec

\* No step goes on before the steps it depends on are satisfied, whatever was
\* retried, recovered, cancelled or compensated in between.
THEOREM DependenciesInOrder == Spec => []DependenciesFirst
<1>1. IInv => DependenciesFirst
  BY DEF IInv, StepInv
<1> QED BY <1>1, Inductive, PTL

\* Run and steps always agree on what is waited for.
THEOREM WaitingTogether == Spec => []WaitingAgrees
<1>1. IInv => WaitingAgrees
  BY DEF IInv, StepInv
<1> QED BY <1>1, Inductive, PTL

\* Retries, recoveries and resumes cannot add up to more attempts than declared.
THEOREM BudgetKept == Spec => []AttemptsInBudget
<1>1. IInv => AttemptsInBudget
  BY DEF IInv, StepInv
<1> QED BY <1>1, Inductive, PTL

\* No approval step is completed without an authorized action.
THEOREM CheckpointsHold == Spec => []CheckpointsNeedTheOwner
<1>1. IInv => CheckpointsNeedTheOwner
  BY DEF IInv, StepInv
<1> QED BY <1>1, Inductive, PTL

\* A failure from rows that know of every completed step compensates them all.
LEMMA FailCompensates ==
    ASSUME TypeOK, NEW rows, NEW F, Fail(rows, F),
           \A s \in Steps : step[s] = "completed" => rows[s] = "completed"
    PROVE  /\ run' = "failed"
           /\ \A s \in Compensable : step[s] = "completed" =>
                 \E i \in DOMAIN undone' : undone'[i] = s
<1> USE WorkflowAssumption
<1>1. PICK q \in LastToFirst(ToCompensate(rows)) : undone' = undone \o q
  BY DEF Fail
<1>2. ToCompensate(rows) \in SUBSET Steps
  BY DEF ToCompensate
<1>3. q \in Seq(Steps) /\ undone \in Seq(Steps)
  BY <1>2, ListingTyped DEF TypeOK
<1>4. ASSUME NEW s \in Compensable, step[s] = "completed"
      PROVE  \E i \in DOMAIN undone' : undone'[i] = s
  <2>1. s \in ToCompensate(rows)
    BY <1>4 DEF ToCompensate
  <2>2. PICK i \in DOMAIN q : q[i] = s
    BY <2>1 DEF LastToFirst, Listings
  <2>3. Len(undone) + i \in DOMAIN undone' /\ undone'[Len(undone) + i] = s
    BY <1>1, <1>3, <2>2
  <2> QED BY <2>3
<1> QED BY <1>4 DEF Fail

\* The step that fails never leaves a completed step with a compensation behind:
\* the copy the executor compensates from misses none.
THEOREM FailureCompensates == Spec => FailedStepCompensates
<1> DEFINE Compensated == (\E s \in Steps : step[s] # "failed" /\ step'[s] = "failed")
               => /\ run' = "failed"
                  /\ \A s \in Compensable : step[s] = "completed" =>
                        \E i \in DOMAIN undone' : undone'[i] = s
<1>1. ASSUME IInv, [Next]_vars PROVE Compensated
  <2> USE WorkflowAssumption
  <2>0. TypeOK /\ OwnerInv
    BY <1>1 DEF IInv
  <2>1. ASSUME \A s \in Steps : step'[s] = "failed" => step[s] = "failed" PROVE Compensated
    BY <2>1
  <2>2. ASSUME NEW F, Fail(step, F) PROVE Compensated
    BY <2>0, <2>2, FailCompensates
  <2>3. ASSUME NEW w \in Workers, pc[w] = "executing", NEW F, Fail(seen[w], F) PROVE Compensated
    <3>1. \A s \in Steps : step[s] = "completed" => seen[w][s] = "completed"
      BY <2>0, <2>3 DEF OwnerInv, CopyAgrees
    <3> QED BY <2>0, <2>3, <3>1, FailCompensates
  <2>4. ASSUME NEW s \in Steps, NEW status \in StepStatus \ {"failed"},
               step' = [step EXCEPT ![s] = status]
        PROVE  Compensated
    BY <2>0, <2>1, <2>4 DEF TypeOK
  <2>5. CASE step' = step
    BY <2>1, <2>5
  <2>6. CASE Owner
    <3>1. CASE Cancel
      BY <2>1, <3>1 DEF Cancel
    <3>2. ASSUME NEW key \in Keys, Resume(key) PROVE Compensated
      <4>1. current \in Steps
        BY <2>0, <3>2 DEF Resume, TypeOK, Steps
      <4>2. CASE CompleteCurrent
        BY <2>4, <4>1, <4>2 DEF CompleteCurrent, StepStatus, Satisfied
      <4>3. CASE step' = [step EXCEPT ![current] = "pending"]
        BY <2>4, <4>1, <4>3 DEF StepStatus
      <4> QED BY <2>2, <3>2, <4>2, <4>3 DEF Resume, ResumeApproval, ResumeWait, ResumeAgent
    <3> QED BY <2>5, <2>6, <3>1, <3>2 DEF Owner, Start, ConsoleDecide, ConsoleAuthorize, stepVars
  <2>7. CASE Queue
    BY <2>5, <2>7 DEF Queue, EnqueueSucceeds, EnqueueFails, MarkQueueFailure, CallerDies,
       JobLost, JobDiscarded, ChildEnds, stepVars
  <2>8. CASE Maintenance
    BY <2>1, <2>5, <2>8 DEF Maintenance, Reclaim, GiveUp, Reconcile, stepVars
  <2>9. ASSUME NEW w \in Workers, Execute(w) PROVE Compensated
    <3>1. CASE Begin(w) \/ BeginInVain(w) \/ Delegated(w) \/ Finish(w)
      BY <2>5, <3>1 DEF Begin, BeginInVain, Delegated, Finish, stepVars
    <3>2. CASE CompleteRun(w) \/ Deadlock(w)
      BY <2>3, <2>5, <3>2 DEF CompleteRun, Deadlock
    <3>3. CASE DelegationFails(w)
      BY <2>2, <3>3 DEF DelegationFails
    <3>4. ASSUME NEW s \in Steps, Skip(w, s) \/ Pause(w, s) \/ Delegate(w, s) PROVE Compensated
      <4>1. step' = [step EXCEPT ![s] = step'[s]]
        BY <2>0, <3>4 DEF Skip, Pause, Delegate, TypeOK
      <4>2. step'[s] \in {"skipped", "waiting_approval", "waiting", "waiting_agent"}
        BY <2>0, <3>4 DEF Skip, Pause, Delegate, TypeOK
      <4> QED BY <2>4, <4>1, <4>2 DEF StepStatus, Satisfied, Waiting
    <3>5. ASSUME NEW s \in Steps, Refuse(w, s) PROVE Compensated
      BY <2>3, <3>5 DEF Refuse
    <3>6. ASSUME NEW s \in Steps, RunTool(w, s) PROVE Compensated
      <4>1. pc[w] = "executing"
        BY <3>6 DEF RunTool
      <4>2. CASE Fail(seen[w], {s})
        BY <2>3, <4>1, <4>2
      <4>3. CASE step' = [step EXCEPT ![s] = "completed"] \/ step' = [step EXCEPT ![s] = "pending"]
        BY <2>4, <4>3 DEF StepStatus, Satisfied
      <4> QED BY <3>6, <4>2, <4>3 DEF RunTool
    <3> QED BY <2>9, <3>1, <3>2, <3>3, <3>4, <3>5, <3>6 DEF Execute
  <2>10. ASSUME NEW w \in Workers, NEW n \in Jobs, TakeJob(w, n) PROVE Compensated
    BY <2>5, <2>10 DEF TakeJob, stepVars
  <2>11. ASSUME NEW w \in Workers, Crash(w) PROVE Compensated
    BY <2>5, <2>11 DEF Crash, stepVars
  <2>12. CASE UNCHANGED vars
    BY <2>5, <2>12 DEF vars, stepVars
  <2> QED BY <1>1, <2>6, <2>7, <2>8, <2>9, <2>10, <2>11, <2>12 DEF Next
<1>2. IInv /\ [Next]_vars => [Compensated]_vars
  BY <1>1
<1> QED BY <1>2, Inductive, PTL DEF Spec, FailedStepCompensates

-----------------------------------------------------------------------------
(* The order of compensations. *)

Done(s) == \E i \in DOMAIN finished : finished[i] = s

\* A step that was begun has everything behind it, also when it is to be tried again.
BegunInOrder ==
    \A t \in Steps : attempts[t] > 0 \/ step[t] \notin {"pending", "cancelled"}
                        => \A u \in Behind(t) : step[u] \in Satisfied

\* After a cancellation only what was begun before can be taken up again.
CancelledAll ==
    (\E u \in Steps : step[u] = "cancelled")
        => \A s \in Steps : step[s] = "pending" => attempts[s] > 0
CopyCancelled ==
    \A w \in Workers : pc[w] = "executing" =>
        \/ \A u \in Steps : seen[w][u] \in Satisfied \cup {"pending"}
        \/ \A s \in Steps : seen[w][s] = "pending" => attempts[s] > 0

AgentsBegun ==
    /\ \A s \in Steps : step[s] = "waiting_agent" => attempts[s] > 0
    /\ \A w \in Workers : pc[w] = "delegating" => attempts[current] > 0

FailedRun == \A u \in Steps : step[u] = "failed" => run = "failed"

DoneRows == \A s \in Steps : step[s] \in {"completed", "compensated"} <=> Done(s)

DoneInOrder ==
    \A k, l \in DOMAIN finished : finished[l] \in Behind(finished[k]) => l < k

UndoneOnce == undone = <<>> \/ run = "failed"

OrderInv ==
    /\ BegunInOrder /\ CancelledAll /\ CopyCancelled /\ AgentsBegun /\ FailedRun
    /\ DoneRows /\ DoneInOrder /\ UndoneOnce /\ CompensationInReverse

LEMMA BehindIsClosed ==
    ASSUME NEW t \in Steps
    PROVE  /\ Behind(t) \subseteq Steps
           /\ \A u \in Behind(t) : u < t /\ DependsOn[u] \subseteq Behind(t)
<1>1. ASSUME NEW u \in Behind(t) PROVE u < t /\ DependsOn[u] \subseteq Behind(t)
  <2>1. PICK P \in SUBSET (1..(t - 1)) : u \in P /\ \A v \in P : DependsOn[v] \subseteq P
    BY DEF Behind
  <2>2. u < t
    BY <2>1 DEF Steps
  <2>3. DependsOn[u] \subseteq P /\ DependsOn[u] \subseteq Steps
    BY <2>1, WorkflowAssumption DEF Behind
  <2>4. \A d \in DependsOn[u] : d \in Behind(t)
    BY <2>1, <2>3 DEF Behind
  <2> QED BY <2>2, <2>4
<1> QED BY <1>1 DEF Behind

\* The first step that is ready has everything behind it: else something behind it, with
\* its dependencies satisfied, would be ready and listed earlier.
LEMMA ReadyInOrder ==
    ASSUME TypeOK, OwnerInv, OrderInv, NEW w \in Workers, pc[w] = "executing",
           NEW s \in Steps, NextStep(seen[w], s)
    PROVE  \A u \in Behind(s) : step[u] \in Satisfied
<1>1. \A t \in Steps : \/ seen[w][t] = step[t]
                       \/ step[t] = "cancelled" /\ seen[w][t] \notin Satisfied
  BY DEF OwnerInv, CopyAgrees
<1>2. seen[w][s] = "pending" /\ \A t \in Ready(seen[w]) : s <= t
  BY DEF NextStep, Ready, Pending
<1>3. CASE attempts[s] > 0
  BY <1>3 DEF OrderInv, BegunInOrder
<1>4. CASE ~(attempts[s] > 0)
  <2>1. \A u \in Steps : seen[w][u] \in Satisfied \cup {"pending"}
    BY <1>2, <1>4 DEF OrderInv, CopyCancelled
  <2> DEFINE left == {u \in Behind(s) : seen[w][u] \notin Satisfied}
  <2>2. left = {}
    <3> SUFFICES ASSUME left # {} PROVE FALSE
      OBVIOUS
    <3>1. left \subseteq Steps
      BY BehindIsClosed
    <3>2. PICK u \in left : DependsOn[u] \cap left = {}
      BY <3>1, AcyclicAssumption DEF Acyclic
    <3>3. u \in Steps /\ u < s /\ DependsOn[u] \subseteq Behind(s)
      BY <3>1, BehindIsClosed
    <3>4. \A d \in DependsOn[u] : seen[w][d] \in Satisfied
      BY <3>2, <3>3
    <3>5. u \in Ready(seen[w])
      BY <2>1, <3>3, <3>4 DEF Ready, Pending
    <3> QED BY <1>2, <3>3, <3>5, WorkflowAssumption DEF Steps
  <2> QED BY <1>1, <2>2, BehindIsClosed DEF Satisfied
<1> QED BY <1>3, <1>4

\* Steps that touch neither rows nor attempts.
LEMMA OrderFrame ==
    ASSUME OrderInv, UNCHANGED <<step, attempts, finished, undone>>,
           run = "failed" => run' = "failed",
           \A w \in Workers : pc'[w] = "executing" => pc[w] = "executing" /\ seen'[w] = seen[w],
           \A w \in Workers : pc'[w] = "delegating" => pc[w] = "delegating" /\ current' = current
    PROVE  OrderInv'
<1>1. BegunInOrder' /\ CancelledAll' /\ FailedRun'
  BY DEF OrderInv, BegunInOrder, CancelledAll, FailedRun
<1>2. CopyCancelled' /\ AgentsBegun'
  BY DEF OrderInv, CopyCancelled, AgentsBegun
<1>3. DoneRows' /\ DoneInOrder' /\ UndoneOnce' /\ CompensationInReverse'
  BY DEF OrderInv, DoneRows, Done, DoneInOrder, UndoneOnce, CompensationInReverse
<1> QED BY <1>1, <1>2, <1>3 DEF OrderInv

\* A failure compensates in the reverse order of completion: what is listed later was
\* completed later.
LEMMA FailInOrder ==
    ASSUME CompensableInOrder, TypeOK, OwnerInv', OrderInv, run # "failed",
           NEW rows, NEW F \in SUBSET Steps, Fail(rows, F), finished' = finished,
           \A s \in Steps : rows[s] = "completed" => step[s] = "completed",
           \A s \in F : step[s] \notin Satisfied /\ \A u \in Behind(s) : step[u] \in Satisfied,
           \A s \in Steps \ F : attempts'[s] = attempts[s]
    PROVE  OrderInv'
<1> USE WorkflowAssumption
<1>1. /\ run' = "failed"
      /\ \A s \in Steps : \/ step'[s] = step[s] /\ s \notin F
                          \/ step'[s] = "compensated" /\ step[s] = "completed"
                          \/ step'[s] = "failed" /\ s \in F
  BY FailEffect
<1>2. \A s \in Steps : step[s] \in Satisfied => step'[s] \in Satisfied
  BY <1>1 DEF Satisfied
<1>3. \A w \in Workers : pc'[w] \notin {"executing", "delegating"}
  BY <1>1 DEF OwnerInv, ExecutorOwnsRun, DelegationOwnsRun
<1>4. BegunInOrder'
  <2> SUFFICES ASSUME NEW t \in Steps, attempts'[t] > 0 \/ step'[t] \notin {"pending", "cancelled"},
                      NEW u \in Behind(t)
               PROVE  step'[u] \in Satisfied
    BY DEF BegunInOrder
  <2>1. u \in Steps
    BY BehindIsClosed
  <2>2. CASE t \in F
    BY <1>2, <2>1, <2>2
  <2>3. CASE t \notin F
    <3>1. attempts[t] > 0 \/ step[t] \notin {"pending", "cancelled"}
      BY <1>1, <2>3
    <3> QED BY <1>2, <2>1, <3>1 DEF OrderInv, BegunInOrder
  <2> QED BY <2>2, <2>3
<1>5. CancelledAll'
  <2>1. \A s \in Steps : /\ step'[s] = "pending" => step[s] = "pending" /\ s \notin F
                         /\ step'[s] = "cancelled" => step[s] = "cancelled"
    BY <1>1
  <2> QED BY <2>1 DEF OrderInv, CancelledAll
<1>6. CopyCancelled' /\ AgentsBegun' /\ FailedRun' /\ UndoneOnce'
  <2>1. \A s \in Steps : step'[s] = "waiting_agent" => step[s] = "waiting_agent" /\ s \notin F
    BY <1>1
  <2>2. AgentsBegun'
    BY <1>3, <2>1 DEF OrderInv, AgentsBegun
  <2> QED BY <1>1, <1>3, <2>2 DEF CopyCancelled, FailedRun, UndoneOnce
<1>7. DoneRows'
  <2>1. \A s \in Steps : step'[s] \in {"completed", "compensated"}
                            <=> step[s] \in {"completed", "compensated"}
    BY <1>1 DEF Satisfied
  <2> QED BY <2>1 DEF OrderInv, DoneRows, Done
<1>8. DoneInOrder'
  BY DEF OrderInv, DoneInOrder
<1>9. CompensationInReverse'
  <2>1. PICK q \in LastToFirst(ToCompensate(rows)) : undone' = undone \o q
    BY DEF Fail
  <2>2. ToCompensate(rows) \in SUBSET Steps
    BY DEF ToCompensate
  <2>3. q \in Seq(Steps) /\ undone = <<>>
    BY <2>1, <2>2, ListingTyped DEF OrderInv, UndoneOnce
  <2>4. undone' = q
    BY <2>1, <2>3
  <2>5. \A i \in DOMAIN q : q[i] \in ToCompensate(rows)
    BY DEF LastToFirst, Listings
  <2>6. \A i \in DOMAIN q : q[i] \in Compensable /\ Done(q[i])
    BY <2>2, <2>5 DEF ToCompensate, OrderInv, DoneRows
  <2>7. ASSUME NEW i \in DOMAIN q, NEW j \in DOMAIN q, i < j
        PROVE  \E k, l \in DOMAIN finished : k > l /\ finished[k] = q[i] /\ finished[l] = q[j]
    <3>1. q[j] < q[i]
      BY <2>2, <2>5, <2>7 DEF LastToFirst, Steps
    <3>2. q[j] \in Behind(q[i])
      BY <2>6, <3>1 DEF CompensableInOrder
    <3>3. PICK k \in DOMAIN finished : finished[k] = q[i]
      BY <2>6 DEF Done
    <3>4. PICK l \in DOMAIN finished : finished[l] = q[j]
      BY <2>6 DEF Done
    <3>5. l < k
      BY <3>2, <3>3, <3>4 DEF OrderInv, DoneInOrder
    <3>6. k > l
      BY <3>5 DEF TypeOK
    <3> QED BY <3>3, <3>4, <3>6
  <2> QED BY <2>4, <2>7 DEF CompensationInReverse
<1> QED BY <1>4, <1>5, <1>6, <1>7, <1>8, <1>9 DEF OrderInv

\* One step is begun, done with or to be tried again, with everything behind it.
LEMMA StepInOrder ==
    ASSUME TypeOK, OrderInv, run # "failed", NEW s \in Steps,
           \A t \in Steps \ {s} : step'[t] = step[t] /\ attempts'[t] = attempts[t],
           step[s] \notin Satisfied, \A u \in Behind(s) : step[u] \in Satisfied,
           step'[s] \in {"pending", "skipped", "completed", "waiting_approval", "waiting",
                         "waiting_agent"},
           step'[s] \in {"pending", "waiting_agent"} => attempts'[s] > 0,
           finished' = IF step'[s] = "completed" THEN Append(finished, s) ELSE finished,
           undone' = undone,
           \A w \in Workers : pc'[w] = "executing" =>
               /\ pc[w] = "executing"
               /\ \A t \in Steps \ {s} : seen'[w][t] = seen[w][t]
               /\ seen'[w][s] \in Satisfied \cup {"pending"}
               /\ seen'[w][s] = "pending" => attempts'[s] > 0,
           \A w \in Workers : pc'[w] = "delegating" => attempts'[current'] > 0
    PROVE  OrderInv'
<1>1. \A t \in Steps : step[t] \in Satisfied => step'[t] = step[t]
  OBVIOUS
<1>2. BegunInOrder'
  <2> SUFFICES ASSUME NEW t \in Steps, attempts'[t] > 0 \/ step'[t] \notin {"pending", "cancelled"},
                      NEW u \in Behind(t)
               PROVE  step'[u] \in Satisfied
    BY DEF BegunInOrder
  <2>1. u \in Steps
    BY BehindIsClosed
  <2>2. CASE t = s
    BY <1>1, <2>1, <2>2
  <2>3. CASE t # s
    BY <1>1, <2>1, <2>3 DEF OrderInv, BegunInOrder
  <2> QED BY <2>2, <2>3
<1>3. CancelledAll'
  <2> SUFFICES ASSUME NEW u \in Steps, step'[u] = "cancelled",
                      NEW t \in Steps, step'[t] = "pending"
               PROVE  attempts'[t] > 0
    BY DEF CancelledAll
  <2>1. u # s /\ step[u] = "cancelled"
    OBVIOUS
  <2>2. CASE t = s
    BY <2>2
  <2>3. CASE t # s
    BY <2>1, <2>3 DEF OrderInv, CancelledAll
  <2> QED BY <2>2, <2>3
<1>4. CopyCancelled'
  <2> SUFFICES ASSUME NEW w \in Workers, pc'[w] = "executing"
               PROVE \/ \A u \in Steps : seen'[w][u] \in Satisfied \cup {"pending"}
                     \/ \A t \in Steps : seen'[w][t] = "pending" => attempts'[t] > 0
    BY DEF CopyCancelled
  <2>1. CASE \A u \in Steps : seen[w][u] \in Satisfied \cup {"pending"}
    <3>1. \A u \in Steps : seen'[w][u] \in Satisfied \cup {"pending"}
      BY <2>1
    <3> QED BY <3>1
  <2>2. CASE \A t \in Steps : seen[w][t] = "pending" => attempts[t] > 0
    <3>1. \A t \in Steps : seen'[w][t] = "pending" => attempts'[t] > 0
      BY <2>2
    <3> QED BY <3>1
  <2> QED BY <2>1, <2>2 DEF OrderInv, CopyCancelled
<1>5. AgentsBegun' /\ FailedRun' /\ UndoneOnce' /\ CompensationInReverse'
  <2>1. AgentsBegun'
    BY DEF OrderInv, AgentsBegun
  <2>2. FailedRun'
    BY DEF OrderInv, FailedRun
  <2>3. undone = <<>>
    BY DEF OrderInv, UndoneOnce
  <2> QED BY <2>1, <2>2, <2>3 DEF UndoneOnce, CompensationInReverse
<1>6. DoneRows' /\ DoneInOrder'
  <2>1. CASE step'[s] # "completed"
    <3>1. DoneRows'
      BY <2>1 DEF OrderInv, DoneRows, Done, Satisfied
    <3>2. DoneInOrder'
      BY <2>1 DEF OrderInv, DoneInOrder
    <3> QED BY <3>1, <3>2
  <2>2. CASE step'[s] = "completed"
    <3>1. /\ finished \in Seq(Steps) /\ finished' = Append(finished, s)
          /\ DOMAIN finished' = DOMAIN finished \cup {Len(finished) + 1}
          /\ finished'[Len(finished) + 1] = s
          /\ \A i \in DOMAIN finished : finished'[i] = finished[i] /\ i < Len(finished) + 1
          /\ \A i \in DOMAIN finished : finished[i] \in Steps
      BY <2>2 DEF TypeOK
    <3>2. \A t \in Steps : Done(t)' <=> Done(t) \/ t = s
      BY <3>1 DEF Done
    <3>3. DoneRows'
      BY <2>2, <3>2 DEF OrderInv, DoneRows
    <3>4. ASSUME NEW k \in DOMAIN finished', NEW l \in DOMAIN finished',
                 finished'[l] \in Behind(finished'[k])
          PROVE  l < k
      <4>1. CASE l \in DOMAIN finished /\ k \in DOMAIN finished
        BY <3>1, <3>4, <4>1 DEF OrderInv, DoneInOrder
      <4>2. CASE l \in DOMAIN finished /\ k = Len(finished) + 1
        BY <3>1, <4>2
      <4>3. CASE l = Len(finished) + 1 /\ k \in DOMAIN finished
        <5>1. s \in Behind(finished[k]) /\ finished[k] \in Steps /\ Done(finished[k])
          BY <3>1, <3>4, <4>3 DEF Done
        <5>2. step[finished[k]] \in {"completed", "compensated"}
          BY <5>1 DEF OrderInv, DoneRows
        <5>3. step[s] \in Satisfied
          BY <5>1, <5>2 DEF OrderInv, BegunInOrder
        <5> QED BY <5>3
      <4>4. CASE l = Len(finished) + 1 /\ k = Len(finished) + 1
        <5>1. s \in Behind(s)
          BY <3>1, <3>4, <4>4
        <5>2. s < s
          BY <5>1, BehindIsClosed
        <5> QED BY <5>2, WorkflowAssumption DEF Steps
      <4> QED BY <3>1, <4>1, <4>2, <4>3, <4>4
    <3>5. DoneInOrder'
      BY <3>4 DEF DoneInOrder
    <3> QED BY <3>3, <3>5
  <2> QED BY <2>1, <2>2
<1> QED BY <1>2, <1>3, <1>4, <1>5, <1>6 DEF OrderInv

LEMMA ResumeInOrder ==
    ASSUME CompensableInOrder, TypeOK, StepInv, OwnerInv, OwnerInv', OrderInv,
           NEW key \in Keys, Resume(key)
    PROVE  OrderInv'
<1>1. current \in Steps /\ current' = current /\ UNCHANGED <<workerVars, attempts>>
  BY DEF Resume, ResumeApproval, ResumeWait, ResumeAgent, TypeOK, Steps
<1>2. run \in Waiting
  BY DEF Resume, ResumeApproval, ResumeWait, ResumeAgent, Waiting
<1>3. step[current] = run
  BY <1>2 DEF StepInv, WaitingAgrees
<1>4. /\ run # "failed" /\ step[current] \notin Satisfied
      /\ \A u \in Behind(current) : step[u] \in Satisfied
  BY <1>1, <1>2, <1>3 DEF OrderInv, BegunInOrder, Waiting, Satisfied
<1>5. \A w \in Workers : /\ pc'[w] # "executing"
                         /\ pc'[w] = "delegating" => attempts'[current'] > 0
  <2>1. \A w \in Workers : pc[w] # "executing"
    BY <1>2 DEF OwnerInv, ExecutorOwnsRun, Waiting
  <2> QED BY <1>1, <2>1 DEF workerVars, OrderInv, AgentsBegun
<1>6. CASE Fail(step, {current}) /\ UNCHANGED finished
  BY <1>1, <1>4, <1>6, FailInOrder
<1>7. CASE CompleteCurrent /\ UNCHANGED undone
  <2>1. /\ step'[current] = "completed" /\ \A t \in Steps \ {current} : step'[t] = step[t]
        /\ finished' = Append(finished, current)
    BY <1>1, <1>7 DEF CompleteCurrent, TypeOK
  <2> QED BY <1>1, <1>4, <1>5, <1>7, <2>1, StepInOrder
<1>8. CASE /\ step' = [step EXCEPT ![current] = "pending"] /\ UNCHANGED <<finished, undone>>
           /\ run = "waiting_agent"
  <2>1. step'[current] = "pending" /\ \A t \in Steps \ {current} : step'[t] = step[t]
    BY <1>1, <1>8 DEF TypeOK
  <2>2. attempts'[current] > 0
    BY <1>1, <1>3, <1>8 DEF OrderInv, AgentsBegun
  <2> QED BY <1>1, <1>4, <1>5, <1>8, <2>1, <2>2, StepInOrder
<1> QED BY <1>6, <1>7, <1>8 DEF Resume, ResumeApproval, ResumeWait, ResumeAgent

LEMMA ExecuteInOrder ==
    ASSUME CompensableInOrder, TypeOK, StepInv, OwnerInv, OwnerInv', OrderInv,
           NEW w \in Workers, Execute(w)
    PROVE  OrderInv'
<1>1. CASE BeginInVain(w) \/ Delegated(w) \/ Finish(w)
  BY <1>1, OrderFrame DEF BeginInVain, Delegated, Finish, TypeOK, stepVars
<1>2. CASE Begin(w)
  <2>1. run = "queued" /\ run' = "running" /\ UNCHANGED <<step, attempts, finished, undone>>
    BY <1>2 DEF Begin, MayBegin, stepVars
  <2>2. \A v \in Workers : /\ pc'[v] = "executing" => seen'[v] = step
                           /\ pc'[v] # "delegating"
    <3>1. \A v \in Workers : pc[v] \notin {"executing", "delegating"}
      BY <2>1, NobodyAtWork
    <3> QED BY <1>2, <3>1 DEF Begin, TypeOK
  <2>3. \A s \in Steps : step[s] \in Satisfied \cup {"pending", "cancelled"}
    <3>1. \A s \in Steps : step[s] \notin Waiting
      BY <2>1 DEF StepInv, WaitingAgrees, Waiting
    <3>2. \A s \in Steps : step[s] \notin {"running", "failed"}
      BY <2>1 DEF StepInv, WaitsByType, OrderInv, FailedRun
    <3> QED BY <3>1, <3>2 DEF TypeOK, StepStatus
  <2>4. CopyCancelled'
    BY <2>1, <2>2, <2>3 DEF OrderInv, CancelledAll, CopyCancelled
  <2>5. BegunInOrder' /\ CancelledAll' /\ AgentsBegun' /\ FailedRun'
    BY <2>1, <2>2 DEF OrderInv, BegunInOrder, CancelledAll, AgentsBegun, FailedRun
  <2>6. DoneRows' /\ DoneInOrder' /\ UndoneOnce' /\ CompensationInReverse'
    BY <2>1 DEF OrderInv, DoneRows, Done, DoneInOrder, UndoneOnce, CompensationInReverse
  <2> QED BY <2>4, <2>5, <2>6 DEF OrderInv
<1>3. ASSUME pc[w] = "executing"
      PROVE  /\ run # "failed" /\ \A t \in Steps : seen[w][t] = "completed" => step[t] = "completed"
             /\ \A v \in Workers : pc[v] \in {"executing", "delegating"} => v = w
  BY <1>3 DEF OwnerInv, CopyAgrees, Satisfied, ExecutorOwnsRun, OneBusy, Busy
<1>4. CASE CompleteRun(w) \/ Deadlock(w)
  <2>1. pc[w] = "executing" /\ UNCHANGED <<attempts, finished>>
    BY <1>4 DEF CompleteRun, Deadlock
  <2>2. CASE Fail(seen[w], {})
    BY <1>3, <2>1, <2>2, FailInOrder
  <2>3. CASE run' = "completed" /\ UNCHANGED <<step, undone>>
    <3>1. \A v \in Workers : pc'[v] \notin {"executing", "delegating"}
      BY <2>3 DEF OwnerInv, ExecutorOwnsRun, DelegationOwnsRun
    <3> QED BY <1>3, <2>1, <2>3, <3>1, OrderFrame
  <2> QED BY <1>4, <2>2, <2>3 DEF CompleteRun, Deadlock
<1>5. CASE DelegationFails(w)
  <2>1. /\ current \in Steps /\ step[current] \in {"waiting_agent", "cancelled"}
        /\ run # "failed" /\ attempts[current] > 0
    BY <1>5 DEF DelegationFails, OwnerInv, DelegationOwnsRun, OrderInv, AgentsBegun
  <2>2. step[current] \notin Satisfied /\ \A u \in Behind(current) : step[u] \in Satisfied
    BY <2>1 DEF Satisfied, OrderInv, BegunInOrder
  <2> QED BY <1>5, <2>1, <2>2, FailInOrder DEF DelegationFails
<1>6. ASSUME NEW s \in Steps, pc[w] = "executing", NextStep(seen[w], s)
      PROVE  step[s] \notin Satisfied /\ \A u \in Behind(s) : step[u] \in Satisfied
  BY <1>6, ReadyToGo, ReadyInOrder
<1>7. ASSUME NEW s \in Steps, Skip(w, s) PROVE OrderInv'
  <2>1. pc[w] = "executing" /\ NextStep(seen[w], s)
    BY <1>7 DEF Skip
  <2>2. /\ step'[s] = "skipped" /\ seen'[w][s] = "skipped"
        /\ UNCHANGED <<attempts, pc, finished, undone>>
        /\ \A t \in Steps \ {s} : step'[t] = step[t] /\ seen'[w][t] = seen[w][t]
    BY <1>7 DEF Skip, TypeOK
  <2>3. \A v \in Workers : pc'[v] \in {"executing", "delegating"} => v = w
    BY <1>3, <2>1, <2>2
  <2>4. "skipped" \in Satisfied
    BY DEF Satisfied
  <2> QED BY <1>3, <1>6, <2>1, <2>2, <2>3, <2>4, StepInOrder
<1>8. ASSUME NEW s \in Steps, Refuse(w, s) PROVE OrderInv'
  <2>1. /\ pc[w] = "executing" /\ NextStep(seen[w], s) /\ Fail(seen[w], {s})
        /\ UNCHANGED <<attempts, finished>>
    BY <1>8 DEF Refuse
  <2> QED BY <1>3, <1>6, <2>1, FailInOrder
<1>9. ASSUME NEW s \in Steps, Pause(w, s) PROVE OrderInv'
  <2>1. pc[w] = "executing" /\ NextStep(seen[w], s)
    BY <1>9 DEF Pause
  <2>2. /\ step'[s] \in {"waiting_approval", "waiting"} /\ run' = step'[s]
        /\ UNCHANGED <<attempts, finished, undone>>
        /\ \A t \in Steps \ {s} : step'[t] = step[t]
    BY <1>9 DEF Pause, TypeOK
  <2>3. \A v \in Workers : pc'[v] \notin {"executing", "delegating"}
    BY <2>2 DEF OwnerInv, ExecutorOwnsRun, DelegationOwnsRun
  <2> QED BY <1>3, <1>6, <2>1, <2>2, <2>3, StepInOrder
<1>10. ASSUME NEW s \in Steps, RunTool(w, s) PROVE OrderInv'
  <2>1. /\ pc[w] = "executing" /\ NextStep(seen[w], s)
        /\ attempts' = [attempts EXCEPT ![s] = @ + 1]
    BY <1>10 DEF RunTool
  <2>2. attempts'[s] > 0 /\ \A t \in Steps \ {s} : attempts'[t] = attempts[t]
    BY <2>1 DEF TypeOK
  <2>3. CASE Fail(seen[w], {s}) /\ UNCHANGED finished
    BY <1>3, <1>6, <2>1, <2>2, <2>3, FailInOrder
  <2>4. CASE /\ step' = [step EXCEPT ![s] = "completed"]
             /\ seen' = [seen EXCEPT ![w][s] = "completed"]
             /\ finished' = Append(finished, s) /\ UNCHANGED <<run, undone, pc>>
    <3>1. /\ step'[s] = "completed" /\ seen'[w][s] = "completed"
          /\ \A t \in Steps \ {s} : step'[t] = step[t] /\ seen'[w][t] = seen[w][t]
      BY <2>4 DEF TypeOK
    <3>2. \A v \in Workers : pc'[v] \in {"executing", "delegating"} => v = w
      BY <1>3, <2>1, <2>4
    <3>3. "completed" \in Satisfied
      BY DEF Satisfied
    <3> QED BY <1>3, <1>6, <2>1, <2>2, <2>4, <3>1, <3>2, <3>3, StepInOrder
  <2>5. CASE /\ step' = [step EXCEPT ![s] = "pending"]
             /\ UNCHANGED <<run, finished, undone, pc, seen>>
    <3>1. /\ step'[s] = "pending" /\ \A t \in Steps \ {s} : step'[t] = step[t]
          /\ seen'[w][s] = "pending"
      BY <2>1, <2>5 DEF TypeOK, NextStep, Ready, Pending
    <3>2. \A v \in Workers : pc'[v] \in {"executing", "delegating"} => v = w
      BY <1>3, <2>1, <2>5
    <3> QED BY <1>3, <1>6, <2>1, <2>2, <2>5, <3>1, <3>2, StepInOrder
  <2> QED BY <1>10, <2>3, <2>4, <2>5 DEF RunTool
<1>11. ASSUME NEW s \in Steps, Delegate(w, s) PROVE OrderInv'
  <2>1. pc[w] = "executing" /\ NextStep(seen[w], s)
    BY <1>11 DEF Delegate
  <2>2. /\ step'[s] = "waiting_agent" /\ run' = step'[s] /\ current' = s
        /\ attempts'[s] > 0 /\ UNCHANGED <<finished, undone>>
        /\ \A t \in Steps \ {s} : step'[t] = step[t] /\ attempts'[t] = attempts[t]
    BY <1>11 DEF Delegate, TypeOK
  <2>3. \A v \in Workers : pc'[v] # "executing"
    BY <2>2 DEF OwnerInv, ExecutorOwnsRun
  <2> QED BY <1>3, <1>6, <2>1, <2>2, <2>3, StepInOrder
<1> QED
  BY <1>1, <1>2, <1>4, <1>5, <1>7, <1>8, <1>9, <1>10, <1>11 DEF Execute

LEMMA OrderStep ==
    ASSUME CompensableInOrder, IInv, IInv', OrderInv, [Next]_vars
    PROVE  OrderInv'
<1>0. TypeOK /\ OwnerInv /\ StepInv /\ OwnerInv'
  BY DEF IInv
<1>1. CASE UNCHANGED vars
  BY <1>1, OrderFrame DEF vars, stepVars, workerVars
<1>2. CASE Cancel
  <2>1. /\ run' = "cancelled" /\ run # "failed"
        /\ UNCHANGED <<attempts, pc, seen, current, finished, undone>>
        /\ \A s \in Steps : \/ step'[s] = step[s] /\ step[s] \notin Waiting \cup {"pending"}
                            \/ step'[s] = "cancelled" /\ step[s] \notin Satisfied
    BY <1>2 DEF Cancel, Cancellable, Satisfied, Waiting, Terminal, workerVars
  <2>2. BegunInOrder'
    <3> SUFFICES ASSUME NEW t \in Steps, NEW u \in Behind(t),
                        attempts'[t] > 0 \/ step'[t] \notin {"pending", "cancelled"}
                 PROVE  step'[u] \in Satisfied
      BY DEF BegunInOrder
    <3>1. u \in Steps
      BY BehindIsClosed
    <3>2. step[u] \in Satisfied
      BY <2>1 DEF OrderInv, BegunInOrder
    <3> QED BY <2>1, <3>1, <3>2
  <2>3. CancelledAll' /\ CopyCancelled' /\ FailedRun'
    BY <2>1 DEF OrderInv, CancelledAll, CopyCancelled, FailedRun
  <2>4. AgentsBegun'
    BY <2>1 DEF OrderInv, AgentsBegun, Waiting
  <2>5. DoneRows'
    BY <2>1 DEF OrderInv, DoneRows, Done, Satisfied
  <2>6. DoneInOrder' /\ UndoneOnce' /\ CompensationInReverse'
    BY <2>1 DEF OrderInv, DoneInOrder, UndoneOnce, CompensationInReverse
  <2> QED BY <2>2, <2>3, <2>4, <2>5, <2>6 DEF OrderInv
<1>3. ASSUME NEW key \in Keys, Resume(key) PROVE OrderInv'
  BY <1>0, <1>3, ResumeInOrder
<1>4. CASE \/ Start \/ \E s \in Steps, d \in {"approved", "rejected"} : ConsoleDecide(s, d)
           \/ \E s \in Steps : ConsoleAuthorize(s)
  BY <1>4, OrderFrame DEF Start, ConsoleDecide, ConsoleAuthorize, stepVars, workerVars
<1>5. CASE Queue
  <2>1. /\ UNCHANGED <<step, attempts, finished, undone, workerVars, current>>
        /\ run = "failed" => run' = "failed"
    BY <1>5 DEF Queue, EnqueueSucceeds, EnqueueFails, MarkQueueFailure, MarkQueuedRun, CallerDies,
       JobLost, JobDiscarded, ChildEnds, stepVars
  <2> QED BY <2>1, OrderFrame DEF workerVars
<1>6. CASE Maintenance
  <2>1. CASE Reconcile
    BY <2>1, OrderFrame DEF Reconcile, stepVars, workerVars
  <2>2. CASE GiveUp
    BY <2>2, OrderFrame DEF GiveUp, stepVars, workerVars
  <2>3. CASE Reclaim
    <3>1. step' = step /\ UNCHANGED <<attempts, finished, undone, pc, seen>> /\ run = "running"
      BY <1>0, <2>3 DEF Reclaim, Stale, StepInv, WaitsByType, TypeOK, workerVars
    <3>2. \A w \in Workers : pc[w] # "delegating"
      BY <1>0, <3>1 DEF OwnerInv, DelegationOwnsRun
    <3> QED BY <3>1, <3>2, OrderFrame
  <2> QED BY <1>6, <2>1, <2>2, <2>3 DEF Maintenance
<1>7. ASSUME NEW w \in Workers, NEW n \in Jobs, TakeJob(w, n) PROVE OrderInv'
  BY <1>0, <1>7, OrderFrame DEF TakeJob, TypeOK, stepVars
<1>8. ASSUME NEW w \in Workers, Crash(w) PROVE OrderInv'
  BY <1>0, <1>8, OrderFrame DEF Crash, TypeOK, stepVars
<1>9. ASSUME NEW w \in Workers, Execute(w) PROVE OrderInv'
  BY <1>0, <1>9, ExecuteInOrder
<1> QED BY <1>1, <1>2, <1>3, <1>4, <1>5, <1>6, <1>7, <1>8, <1>9 DEF Next, Owner

\* Where the definition lists compensable work in its order, compensations run at most once
\* and in the reverse order of completion, through retries, recoveries and cancellations.
THEOREM CompensationsReverse ==
    ASSUME CompensableInOrder
    PROVE  Spec => []CompensationInReverse
<1>1. Init => OrderInv
  BY DEF Init, AllPending, OrderInv, BegunInOrder, CancelledAll, CopyCancelled, AgentsBegun,
     FailedRun, DoneRows, Done, DoneInOrder, UndoneOnce, CompensationInReverse
<1>2. IInv /\ IInv' /\ OrderInv /\ [Next]_vars => OrderInv'
  BY OrderStep
<1>3. OrderInv => CompensationInReverse
  BY DEF OrderInv
<1> QED BY <1>1, <1>2, <1>3, Inductive, PTL DEF Spec
=============================================================================
