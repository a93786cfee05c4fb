-------------------------- MODULE AgentRuns_proofs --------------------------
(* Proofs about AgentRuns and the gateway it drives. *)
EXTENDS AgentRuns, TLAPS

Working == {"model", "answered", "failing"}

-----------------------------------------------------------------------------
(* What the recurring effects of an action do. *)

\* The row after an end: only status and message differ.
LEMMA EndsEffect ==
    ASSUME run \in Rows, NEW s \in Terminal, NEW m \in {"output", "error"}, Ends(s, m)
    PROVE /\ run' \in Rows /\ run'.status = s
          /\ run'.operation = run.operation /\ run'.answer = run.answer
  BY DEF Ends, Rows, Terminal

\* A worker that goes on keeps its claim.
LEMMA GoEffect ==
    ASSUME work \in [Workers -> Activities], NEW w \in Workers,
           NEW s \in {"idle", "job", "model", "answered", "failing"}, Go(w, s)
    PROVE /\ work' \in [Workers -> Activities]
          /\ work'[w].stage = s
          /\ \A v \in Workers : work'[v].operation = work[v].operation
          /\ \A v \in Workers \ {w} : work'[v] = work[v]
  BY DEF Go, Activities

\* A worker that leaves is idle and holds nothing.
LEMMA LeaveEffect ==
    ASSUME work \in [Workers -> Activities], NEW w \in Workers,
           work' = [work EXCEPT ![w] = Idle]
    PROVE /\ work' \in [Workers -> Activities]
          /\ work'[w].stage = "idle" /\ work'[w].operation = 0
          /\ \A v \in Workers \ {w} : work'[v] = work[v]
  BY AgentAssumption DEF Activities, Idle, Deliveries

\* A job returns to one of its states.
LEMMA JobEffect ==
    ASSUME jobs \in [Deliveries -> {"none", "queued", "started"}], NEW d,
           NEW s \in {"none", "queued", "started"}, jobs' = [jobs EXCEPT ![d] = s]
    PROVE jobs' \in [Deliveries -> {"none", "queued", "started"}]
  OBVIOUS

LEMMA EnqueuedEffect ==
    ASSUME jobs \in [Deliveries -> {"none", "queued", "started"}], NEW d, Enqueued(d)
    PROVE jobs' \in [Deliveries -> {"none", "queued", "started"}]
  BY DEF Enqueued

-----------------------------------------------------------------------------
(* The inductive invariant. *)

\* A worker holds an operation exactly while it works on one.
HoldsWhileWorking ==
    \A w \in Workers : work[w].operation # 0 <=> work[w].stage \in Working

\* Nobody works for a run that waits for its claim.
QueuedIsIdle == run.status \in {"none", "queued"} => \A w \in Workers : work[w].operation = 0

Requested == request = "none" => run.status = "none"

RunInv == AgentTypeOK /\ HoldsWhileWorking /\ QueuedIsIdle /\ Requested /\ OneExecutor

LEMMA RunInit == Init => RunInv
  BY AgentAssumption DEF Init, RunInv, AgentTypeOK, HoldsWhileWorking, QueuedIsIdle, Requested,
     OneExecutor, Rows, Activities, Idle, Deliveries, Working, Terminal

\* The steps of the request, the owner and maintenance leave the workers alone.
LEMMA RequestKeeps ==
    ASSUME RunInv, CreateRun \/ EnqueueRun \/ EnqueueFails \/ MarkEnqueueFailure \/ ApiDies
    PROVE RunInv'
<1> USE DEF RunInv, AgentTypeOK, HoldsWhileWorking, QueuedIsIdle, Requested, OneExecutor
<1>1. CASE CreateRun
  <2>1. run' \in Rows /\ run'.status = "queued" /\ run'.operation = run.operation
    BY <1>1 DEF CreateRun, Rows
  <2> QED
    BY <1>1, <2>1 DEF CreateRun
<1>2. CASE EnqueueRun
  <2>1. jobs' \in [Deliveries -> {"none", "queued", "started"}]
    BY <1>2, EnqueuedEffect DEF EnqueueRun
  <2> QED
    BY <1>2, <2>1 DEF EnqueueRun
<1>3. CASE EnqueueFails
  <2>1. jobs' \in [Deliveries -> {"none", "queued", "started"}]
    BY <1>3, EnqueuedEffect DEF EnqueueFails
  <2> QED
    BY <1>3, <2>1 DEF EnqueueFails, Fault
<1>4. CASE MarkEnqueueFailure
  <2>1. CASE StillQueued
    <3>1. run' \in Rows /\ run'.status = "failed" /\ run'.operation = run.operation
      BY <1>4, <2>1, EndsEffect DEF MarkEnqueueFailure, Terminal
    <3> QED
      BY <1>4, <3>1 DEF MarkEnqueueFailure
  <2> QED
    BY <1>4, <2>1 DEF MarkEnqueueFailure
<1>5. CASE ApiDies
  BY <1>5 DEF ApiDies, Fault
<1> QED
  BY <1>1, <1>2, <1>3, <1>4, <1>5

LEMMA OwnerAndRecoveryKeep ==
    ASSUME RunInv, CancelRun \/ DisableAgent \/ JobIsAbandoned \/ Recover \/ Deliver
    PROVE RunInv'
<1> USE DEF RunInv, AgentTypeOK, HoldsWhileWorking, QueuedIsIdle, Requested, OneExecutor
<1>1. CASE CancelRun
  <2>1. run' \in Rows /\ run'.status = "cancelled"
    BY <1>1, EndsEffect DEF CancelRun, Terminal
  <2> QED
    BY <1>1, <2>1 DEF CancelRun
<1>2. CASE DisableAgent
  BY <1>2 DEF DisableAgent
<1>3. CASE JobIsAbandoned
  BY <1>3, JobEffect DEF JobIsAbandoned
<1>4. CASE Recover
  <2>1. UNCHANGED <<request, enabled, jobs, work, claims, faults>>
    BY <1>4 DEF Recover
  <2>2. CASE Interruption /\ Ends("failed", "error") /\ UNCHANGED due
    <3>1. run' \in Rows /\ run'.status = "failed"
      BY <2>2, EndsEffect DEF Terminal
    <3> QED
      BY <2>1, <2>2, <3>1 DEF Interruption
  <2>3. CASE /\ Interruption /\ run.recoveries < MaxRecoveries
             /\ run' = [run EXCEPT !.status = "queued", !.recoveries = @ + 1, !.operation = 0]
             /\ due' = due \cup {run.recoveries + 1}
    <3>1. run.recoveries + 1 \in Deliveries
      BY <2>3, AgentAssumption DEF Rows, Deliveries
    <3>2. run' \in Rows /\ run'.status = "queued"
      BY <2>3, <3>1 DEF Rows
    <3>3. \A w \in Workers : work[w].operation = 0
      BY <2>3 DEF Interruption
    <3> QED
      BY <2>1, <2>3, <3>1, <3>2, <3>3 DEF Interruption
  <2>4. CASE due' = due \cup {run.recoveries} /\ UNCHANGED run
    <3>1. run.recoveries \in Deliveries
      BY DEF Rows
    <3> QED
      BY <2>1, <2>4, <3>1
  <2> QED
    BY <1>4, <2>2, <2>3, <2>4 DEF Recover
<1>5. CASE Deliver
  BY <1>5, EnqueuedEffect DEF Deliver, Fault
<1> QED
  BY <1>1, <1>2, <1>3, <1>4, <1>5

\* Taking a job and claiming the run.
LEMMA ClaimKeeps ==
    ASSUME RunInv, NEW w \in Workers, TakeJob(w) \/ Claim(w)
    PROVE RunInv'
<1> USE DEF RunInv, AgentTypeOK, HoldsWhileWorking, QueuedIsIdle, Requested, OneExecutor
<1>1. CASE TakeJob(w)
  <2>1. PICK d \in Deliveries :
            /\ jobs' = [jobs EXCEPT ![d] = "started"]
            /\ work' = [work EXCEPT ![w] = [Idle EXCEPT !.stage = "job", !.delivery = d]]
    BY <1>1 DEF TakeJob
  <2>2. /\ work' \in [Workers -> Activities]
        /\ work'[w].stage = "job" /\ work'[w].operation = 0
        /\ \A v \in Workers \ {w} : work'[v] = work[v]
    BY <2>1 DEF Activities, Idle
  <2>3. work[w].operation = 0
    BY <1>1 DEF TakeJob, At, Working
  <2>4. jobs' \in [Deliveries -> {"none", "queued", "started"}]
    BY <2>1, JobEffect
  <2>5. HoldsWhileWorking'
    BY <2>2 DEF Working
  <2> QED
    BY <1>1, <2>2, <2>3, <2>4, <2>5 DEF TakeJob
<1>2. CASE Claim(w)
  <2>1. CASE Claimable /\ enabled
    <3>1. /\ claims' = claims + 1 /\ UNCHANGED jobs
          /\ run' = [run EXCEPT !.status = "running", !.operation = claims']
          /\ work' = [work EXCEPT ![w].stage = "model", ![w].operation = claims']
      BY <1>2, <2>1 DEF Claim
    <3>2. run' \in Rows /\ run'.status = "running" /\ run'.operation = claims'
      <4>1. claims' \in Nat
        BY <3>1
      <4> HIDE DEF AgentTypeOK, RunInv
      <4>2. run \in Rows
        BY DEF RunInv, AgentTypeOK
      <4> QED
        BY <3>1, <4>1, <4>2 DEF Rows
    <3>3. /\ work' \in [Workers -> Activities]
          /\ work'[w].stage = "model" /\ work'[w].operation = claims'
          /\ \A v \in Workers \ {w} : work'[v] = work[v]
      <4>1. claims' \in Nat
        BY <3>1
      <4>2. work'[w] = [work[w] EXCEPT !.stage = "model", !.operation = claims']
        BY <3>1
      <4>3. work[w] \in Activities
        OBVIOUS
      <4> HIDE DEF RunInv, AgentTypeOK, HoldsWhileWorking, QueuedIsIdle, Requested, OneExecutor
      <4>4. work'[w] \in Activities /\ work'[w].stage = "model" /\ work'[w].operation = claims'
        <5> DEFINE a == work[w]
                   n == claims'
                   b == work'[w]
        <5>1. n \in Nat /\ a \in Activities /\ b = [a EXCEPT !.stage = "model", !.operation = n]
          BY <4>1, <4>2, <4>3
        <5> HIDE DEF a, n, b
        <5>2. b \in Activities /\ b.stage = "model" /\ b.operation = n
          BY <5>1 DEF Activities
        <5> QED
          BY <5>2 DEF b, n
      <4>5. work \in [Workers -> Activities]
        BY DEF RunInv, AgentTypeOK
      <4> QED
        BY <3>1, <4>4, <4>5
    <3>4. \A v \in Workers : work[v].operation = 0
      BY <2>1 DEF Claimable
    <3>5. claims' # 0 /\ claims' \in Nat
      BY <3>1
    <3>6. HoldsWhileWorking'
      BY <3>3, <3>5 DEF Working
    <3>7. OneExecutor'
      BY <3>2, <3>3, <3>4
    <3>8. request # "none"
      BY <2>1 DEF Claimable
    <3> QED
      BY <1>2, <3>1, <3>2, <3>3, <3>5, <3>6, <3>7, <3>8 DEF Claim
  <2>2. CASE ~(Claimable /\ enabled)
    <3>1. Leave(w)
      BY <1>2, <2>2 DEF Claim
    <3>2. /\ work' \in [Workers -> Activities]
          /\ work'[w].stage = "idle" /\ work'[w].operation = 0
          /\ \A v \in Workers \ {w} : work'[v] = work[v]
      BY <3>1, LeaveEffect DEF Leave
    <3>3. jobs' \in [Deliveries -> {"none", "queued", "started"}]
      BY <3>1, JobEffect DEF Leave
    <3>4. CASE Claimable
      <4>1. run' \in Rows /\ run'.status = "failed"
        BY <1>2, <2>2, <3>4, EndsEffect DEF Claim, Terminal
      <4>2. request # "none"
        BY <3>4 DEF Claimable
      <4> QED
        BY <1>2, <2>2, <3>2, <3>3, <4>1, <4>2 DEF Claim, Working
    <3>5. CASE ~Claimable
      <4>1. UNCHANGED run
        BY <1>2, <2>2, <3>5 DEF Claim
      <4> QED
        BY <1>2, <2>2, <3>2, <3>3, <4>1 DEF Claim, Working
    <3> QED
      BY <3>4, <3>5
  <2> QED
    BY <2>1, <2>2
<1> QED
  BY <1>1, <1>2

\* While it works, a worker that only moves on keeps the invariant.
LEMMA MovingKeeps ==
    ASSUME RunInv, NEW w \in Workers, work[w].stage \in Working,
           NEW s \in Working, Go(w, s),
           UNCHANGED <<run, request, enabled, jobs, due, claims>>, faults' \in Nat
    PROVE RunInv'
<1>1. /\ work' \in [Workers -> Activities] /\ work'[w].stage = s
      /\ \A v \in Workers : work'[v].operation = work[v].operation
      /\ \A v \in Workers \ {w} : work'[v] = work[v]
  BY GoEffect DEF RunInv, AgentTypeOK, Working
<1>2. HoldsWhileWorking'
  BY <1>1 DEF RunInv, HoldsWhileWorking
<1> QED
  BY <1>1, <1>2 DEF RunInv, AgentTypeOK, QueuedIsIdle, Requested, OneExecutor

\* A worker that leaves without touching the row keeps it.
LEMMA LeavingKeeps ==
    ASSUME RunInv, NEW w \in Workers, work' = [work EXCEPT ![w] = Idle],
           UNCHANGED <<run, request, enabled, due, claims>>, faults' \in Nat,
           jobs' \in [Deliveries -> {"none", "queued", "started"}]
    PROVE RunInv'
<1>1. /\ work' \in [Workers -> Activities]
      /\ work'[w].stage = "idle" /\ work'[w].operation = 0
      /\ \A v \in Workers \ {w} : work'[v] = work[v]
  BY LeaveEffect DEF RunInv, AgentTypeOK
<1>2. HoldsWhileWorking'
  BY <1>1 DEF RunInv, HoldsWhileWorking, Working
<1> QED
  BY <1>1, <1>2 DEF RunInv, AgentTypeOK, QueuedIsIdle, Requested, OneExecutor

LEMMA ExecutionKeeps ==
    ASSUME RunInv, NEW w \in Workers,
           \/ StartOperation(w) \/ JudgeAnswer(w) \/ Complete(w) \/ RefuseBuild(w)
           \/ Fail(w) \/ Interrupted(w) \/ WorkerDies(w)
    PROVE RunInv'
<1>1. CASE StartOperation(w)
  <2>1. CASE UNCHANGED work
    BY <1>1, <2>1 DEF StartOperation, RunInv, AgentTypeOK, HoldsWhileWorking, QueuedIsIdle,
       Requested, OneExecutor
  <2>2. CASE Go(w, "failing")
    BY <1>1, <2>2, MovingKeeps DEF StartOperation, At, Working, RunInv, AgentTypeOK
  <2> QED
    BY <1>1, <2>1, <2>2 DEF StartOperation
<1>2. CASE JudgeAnswer(w)
  BY <1>2, MovingKeeps DEF JudgeAnswer, At, Working, RunInv, AgentTypeOK
<1>3. CASE Complete(w)
  <2>1. Leave(w) /\ UNCHANGED <<request, enabled, due, claims, faults>>
    BY <1>3 DEF Complete
  <2>2. /\ jobs' \in [Deliveries -> {"none", "queued", "started"}]
        /\ work' \in [Workers -> Activities]
        /\ work'[w].stage = "idle" /\ work'[w].operation = 0
        /\ \A v \in Workers \ {w} : work'[v] = work[v]
    BY <2>1, JobEffect, LeaveEffect DEF Leave, RunInv, AgentTypeOK
  <2>3. CASE run.status = "running"
    <3>1. run' = [run EXCEPT !.status = "completed", !.answer = work[w].operation,
                             !.message = "output"]
      BY <1>3, <2>3 DEF Complete
    <3>2. work[w].operation = run.operation /\ work[w].operation \in Nat
      BY <1>3, <2>3 DEF Complete, At, RunInv, AgentTypeOK, HoldsWhileWorking, OneExecutor,
         Working, Activities
    <3>3. /\ run' \in Rows /\ run'.status = "completed" /\ run'.answer = run'.operation
      BY <3>1, <3>2 DEF RunInv, AgentTypeOK, Rows, Terminal
    <3>4. HoldsWhileWorking'
      BY <2>2 DEF RunInv, HoldsWhileWorking, Working
    <3> QED
      BY <2>1, <2>2, <2>3, <3>3, <3>4
         DEF RunInv, AgentTypeOK, QueuedIsIdle, Requested, OneExecutor
  <2>4. CASE run.status # "running"
    BY <1>3, <2>1, <2>2, <2>4, LeavingKeeps DEF Complete, Leave, RunInv, AgentTypeOK
  <2> QED
    BY <2>3, <2>4
<1>4. CASE RefuseBuild(w)
  BY <1>4, MovingKeeps DEF RefuseBuild, At, Working, RunInv, AgentTypeOK
<1>5. CASE Fail(w)
  <2>1. Leave(w) /\ UNCHANGED <<request, enabled, due, claims, faults>>
    BY <1>5 DEF Fail
  <2>2. /\ jobs' \in [Deliveries -> {"none", "queued", "started"}]
        /\ work' \in [Workers -> Activities]
        /\ work'[w].stage = "idle" /\ work'[w].operation = 0
        /\ \A v \in Workers \ {w} : work'[v] = work[v]
    BY <2>1, JobEffect, LeaveEffect DEF Leave, RunInv, AgentTypeOK
  <2>3. CASE MayFail
    <3>1. run' \in Rows /\ run'.status = "failed"
      BY <1>5, <2>3, EndsEffect DEF Fail, RunInv, AgentTypeOK, Terminal
    <3>2. HoldsWhileWorking'
      BY <2>2 DEF RunInv, HoldsWhileWorking, Working
    <3>3. request # "none"
      BY <2>3 DEF MayFail, RunInv, Requested
    <3> QED
      BY <2>1, <2>2, <3>1, <3>2, <3>3
         DEF RunInv, AgentTypeOK, QueuedIsIdle, Requested, OneExecutor
  <2>4. CASE ~MayFail
    BY <1>5, <2>1, <2>2, <2>4, LeavingKeeps DEF Fail, Leave, RunInv, AgentTypeOK
  <2> QED
    BY <2>3, <2>4
<1>6. CASE Interrupted(w)
  <2>1. faults' \in Nat
    BY <1>6 DEF Interrupted, Fault, RunInv, AgentTypeOK
  <2> QED
    BY <1>6, <2>1, MovingKeeps DEF Interrupted, At, Working
<1>7. CASE WorkerDies(w)
  <2>1. faults' \in Nat
    BY <1>7 DEF WorkerDies, Fault, RunInv, AgentTypeOK
  <2>2. jobs' \in [Deliveries -> {"none", "queued", "started"}]
    BY <1>7, JobEffect DEF WorkerDies, Leave, RunInv, AgentTypeOK
  <2> QED
    BY <1>7, <2>1, <2>2, LeavingKeeps DEF WorkerDies, Leave
<1> QED
  BY <1>1, <1>2, <1>3, <1>4, <1>5, <1>6, <1>7

LEMMA RunStep == RunInv /\ [Next]_vars => RunInv'
<1> SUFFICES ASSUME RunInv, [Next]_vars PROVE RunInv'
  OBVIOUS
<1>1. CASE CreateRun \/ EnqueueRun \/ EnqueueFails \/ MarkEnqueueFailure \/ ApiDies
  BY <1>1, RequestKeeps
<1>2. CASE CancelRun \/ DisableAgent \/ JobIsAbandoned \/ Recover \/ Deliver
  BY <1>2, OwnerAndRecoveryKeep
<1>3. ASSUME NEW w \in Workers,
             WorkerStep(w) \/ RefuseBuild(w) \/ Interrupted(w) \/ WorkerDies(w)
      PROVE RunInv'
  BY <1>3, ClaimKeeps, ExecutionKeeps DEF WorkerStep
<1>4. CASE UNCHANGED runVars
  BY <1>4 DEF runVars, RunInv, AgentTypeOK, HoldsWhileWorking, QueuedIsIdle, Requested,
     OneExecutor, Interruption, At
<1> QED
  BY <1>1, <1>2, <1>3, <1>4 DEF Next, vars, ConsoleStep, Serve

THEOREM RunInvariant == Spec => []RunInv
  BY RunInit, RunStep, PTL DEF Spec

(* Every variable of a run and of its workers keeps its type. *)
THEOREM TypeCorrect == Spec => []AgentTypeOK
<1>1. RunInv => AgentTypeOK
  BY DEF RunInv
<1> QED
  BY <1>1, RunInvariant, PTL

(* However requests, redeliveries, recoveries and crashes interleave, at most one worker *)
(* works for a running run, and a completed run has that worker's answer.                *)
THEOREM OneExecution == Spec => []OneExecutor
<1>1. RunInv => OneExecutor
  BY DEF RunInv
<1> QED
  BY <1>1, RunInvariant, PTL

(* No late answer, failure or recovery touches a run that ended.                         *)
THEOREM EndsStand == Spec => EndIsFinal
<1>1. RunInv /\ [Next]_vars => [(run.status \in Terminal) => UNCHANGED run]_vars
  <2> SUFFICES ASSUME RunInv, Next, run.status \in Terminal PROVE UNCHANGED run
    OBVIOUS
  <2>1. run.status \notin {"none", "queued", "running"}
    BY DEF Terminal
  <2>2. CASE CreateRun \/ EnqueueRun \/ EnqueueFails \/ MarkEnqueueFailure \/ ApiDies
    BY <2>1, <2>2 DEF CreateRun, EnqueueRun, EnqueueFails, MarkEnqueueFailure, ApiDies,
       StillQueued, RunInv, Requested
  <2>3. CASE CancelRun \/ DisableAgent \/ JobIsAbandoned \/ Recover \/ Deliver
    BY <2>1, <2>3 DEF CancelRun, DisableAgent, JobIsAbandoned, Recover, Deliver, Interruption,
       Undelivered
  <2>4. ASSUME NEW w \in Workers,
               WorkerStep(w) \/ RefuseBuild(w) \/ Interrupted(w) \/ WorkerDies(w)
        PROVE UNCHANGED run
    BY <2>1, <2>4 DEF WorkerStep, RefuseBuild, Interrupted, WorkerDies, TakeJob, Claim,
       Claimable, StartOperation, JudgeAnswer, Complete, Fail, MayFail
  <2>5. CASE UNCHANGED runVars
    BY <2>5 DEF runVars
  <2> QED
    BY <2>2, <2>3, <2>4, <2>5 DEF Next, ConsoleStep, Serve
<1> QED
  BY <1>1, RunInvariant, PTL DEF Spec, EndIsFinal

-----------------------------------------------------------------------------
(* The budget of an operation.                                             *)

Stages == {"none", "ready", "calling", "text", "error"}

\* An operation but for its route, which the budget does not depend on.
Along(r) == [stage : Stages, route : {r}, stream : BOOLEAN, sensitive : BOOLEAN,
             index : Nat, retry : Nat, spent : Nat, emitted : BOOLEAN, last : Nat]
Shaped(o) == \E r : o \in Along(r)

\* An operation o whose recorded calls sum up to n: what it spent is recorded while it goes
\* on, an attempt was called only with room for its estimate.
Budgeted(o, n) ==
    /\ Shaped(o) /\ n \in Nat
    /\ o.stage = "none" => n = 0
    /\ o.stage \in {"ready", "calling"} => n = o.spent
    /\ o.stage = "calling" => o.spent + WorstCase <= TokenBudget
    /\ n <= TokenBudget \/ o.last > WorstCase

BudgetInv ==
    /\ op = [c \in Callers |-> op[c]] /\ recorded = [c \in Callers |-> recorded[c]]
    /\ \A c \in Callers : Budgeted(op[c], recorded[c])

LEMMA Fresh == Budgeted(NoOperation, 0)
  BY GatewayAssumption DEF Budgeted, Shaped, Along, NoOperation, Stages

\* The next attempt, or the next candidate, is of the same operation.
LEMMA ReadyAgain ==
    ASSUME NEW o, Shaped(o),
           NEW q, \/ q = [o EXCEPT !.stage = "ready", !.retry = @ + 1]
                  \/ q = [o EXCEPT !.stage = "ready", !.retry = 0, !.index = @ + 1]
    PROVE Shaped(q) /\ q.stage = "ready" /\ q.spent = o.spent /\ q.last = o.last
<1>1. PICK r : o \in Along(r)
  BY DEF Shaped
<1>2. o.retry + 1 \in Nat /\ o.index + 1 \in Nat /\ 0 \in Nat
  BY <1>1 DEF Along
<1>3. q \in Along(r) /\ q.stage = "ready" /\ q.spent = o.spent /\ q.last = o.last
  <2>1. CASE q = [o EXCEPT !.stage = "ready", !.retry = @ + 1]
    BY <1>1, <1>2, <2>1 DEF Along, Stages
  <2>2. CASE q = [o EXCEPT !.stage = "ready", !.retry = 0, !.index = @ + 1]
    BY <1>1, <1>2, <2>2 DEF Along, Stages
  <2> QED
    BY <2>1, <2>2
<1> QED
  BY <1>3 DEF Shaped

\* A step of one caller that leaves its operation within the budget.
LEMMA OneCaller ==
    ASSUME BudgetInv, NEW c \in Callers, NEW o, Put(c, o), NEW n,
           recorded' = [recorded EXCEPT ![c] = n], Budgeted(o, n)
    PROVE BudgetInv'
  BY DEF BudgetInv, Put

LEMMA SameRecords ==
    ASSUME BudgetInv, NEW c \in Callers, UNCHANGED recorded
    PROVE recorded' = [recorded EXCEPT ![c] = recorded[c]]
  BY DEF BudgetInv

LEMMA AttemptKeeps ==
    ASSUME BudgetInv, NEW c \in Callers, Attempt(c)
    PROVE BudgetInv'
<1> DEFINE o == op[c]
<1>1. Budgeted(o, recorded[c]) /\ o.stage = "ready"
  BY DEF BudgetInv, Attempt
<1>2. recorded' = [recorded EXCEPT ![c] = recorded[c]]
  BY SameRecords DEF Attempt
<1>3. CASE o.spent + WorstCase > TokenBudget
  <2>1. Put(c, [o EXCEPT !.stage = "error"])
    BY <1>3 DEF Attempt
  <2>2. Budgeted([o EXCEPT !.stage = "error"], recorded[c])
    BY <1>1 DEF Budgeted, Shaped, Along, Stages
  <2> QED
    BY <1>2, <2>1, <2>2, OneCaller
<1>4. CASE ~(o.spent + WorstCase > TokenBudget)
  <2>1. Put(c, [o EXCEPT !.stage = "calling"])
    BY <1>4 DEF Attempt
  <2>2. o.spent \in Nat
    BY <1>1 DEF Budgeted, Shaped, Along
  <2>3. Budgeted([o EXCEPT !.stage = "calling"], recorded[c])
    BY <1>1, <1>4, <2>2, GatewayAssumption DEF Budgeted, Shaped, Along, Stages
  <2> QED
    BY <1>2, <2>1, <2>3, OneCaller
<1> QED
  BY <1>3, <1>4

LEMMA DeltaKeeps ==
    ASSUME BudgetInv, NEW c \in Callers, Delta(c)
    PROVE BudgetInv'
<1>1. Budgeted(op[c], recorded[c])
  BY DEF BudgetInv
<1>2. recorded' = [recorded EXCEPT ![c] = recorded[c]]
  BY SameRecords DEF Delta
<1>3. Budgeted([op[c] EXCEPT !.emitted = TRUE], recorded[c])
  BY <1>1 DEF Budgeted, Shaped, Along
<1> QED
  BY <1>2, <1>3, OneCaller DEF Delta

\* A call that used something: what is recorded stays within the budget, or this last
\* attempt used more than its estimate.
LEMMA CallRecorded ==
    ASSUME NEW o, NEW n, Budgeted(o, n), o.stage = "calling", NEW used \in Nat
    PROVE /\ n + used \in Nat /\ o.spent + used = n + used
          /\ n + used <= TokenBudget \/ used > WorstCase
<1>1. o.spent \in Nat /\ n = o.spent /\ o.spent + WorstCase <= TokenBudget
  BY DEF Budgeted, Shaped, Along
<1> QED
  BY <1>1, GatewayAssumption

LEMMA AnswerKeeps ==
    ASSUME BudgetInv, NEW c \in Callers, NEW used \in Usages, Answer(c, used)
    PROVE BudgetInv'
<1> DEFINE o == op[c]
           n == recorded[c]
<1>1. Budgeted(o, n) /\ o.stage = "calling" /\ used \in Nat
  BY GatewayAssumption DEF BudgetInv, Answer
<1>2. recorded' = [recorded EXCEPT ![c] = n + used]
  BY DEF Answer, RecordCall
<1>3. n + used \in Nat /\ o.spent + used = n + used /\ (n + used <= TokenBudget \/ used > WorstCase)
  BY <1>1, CallRecorded
<1>4. CASE o.spent + used > TokenBudget
  <2>1. Put(c, [o EXCEPT !.stage = "error", !.last = used, !.spent = @ + used])
    BY <1>4 DEF Answer
  <2>2. Budgeted([o EXCEPT !.stage = "error", !.last = used, !.spent = o.spent + used], n + used)
    BY <1>1, <1>3 DEF Budgeted, Shaped, Along, Stages
  <2> QED
    BY <1>2, <2>1, <2>2, OneCaller
<1>5. CASE ~(o.spent + used > TokenBudget)
  <2>1. Put(c, [o EXCEPT !.stage = "text", !.last = used])
    BY <1>5 DEF Answer
  <2>2. Budgeted([o EXCEPT !.stage = "text", !.last = used], n + used)
    BY <1>1, <1>3 DEF Budgeted, Shaped, Along, Stages
  <2> QED
    BY <1>2, <2>1, <2>2, OneCaller
<1> QED
  BY <1>4, <1>5

LEMMA FailedKeeps ==
    ASSUME BudgetInv, NEW c \in Callers, NEW used \in Nat, NEW retryable \in BOOLEAN,
           FailedAttempt(c, used, retryable)
    PROVE BudgetInv'
<1> DEFINE o == op[c]
           n == recorded[c]
           spent == [o EXCEPT !.spent = SpentWith(c, used), !.last = used]
           next == NextAttempt(spent, retryable)
<1>1. Budgeted(o, n) /\ o.stage = "calling"
  BY DEF BudgetInv, FailedAttempt
<1>2. recorded' = [recorded EXCEPT ![c] = n + used] /\ Put(c, next)
  BY DEF FailedAttempt, RecordCall
<1>3. n + used \in Nat /\ o.spent + used = n + used /\ (n + used <= TokenBudget \/ used > WorstCase)
  BY <1>1, CallRecorded
<1>4. Shaped(spent) /\ spent.spent = n + used /\ spent.last = used
  BY <1>1, <1>3 DEF Budgeted, Shaped, Along, SpentWith
<1>5. \/ next = [spent EXCEPT !.stage = "error"]
      \/ next = [spent EXCEPT !.stage = "ready", !.retry = @ + 1]
      \/ next = [spent EXCEPT !.stage = "ready", !.retry = 0, !.index = @ + 1]
  BY DEF NextAttempt, Proceed
<1>6. Shaped(next) /\ next.stage \in {"ready", "error"} /\ next.spent = n + used /\ next.last = used
  <2>1. CASE next = [spent EXCEPT !.stage = "error"]
    BY <1>4, <2>1 DEF Shaped, Along, Stages
  <2>2. CASE next = [spent EXCEPT !.stage = "ready", !.retry = @ + 1]
    BY <1>4, <2>2, ReadyAgain
  <2>3. CASE next = [spent EXCEPT !.stage = "ready", !.retry = 0, !.index = @ + 1]
    BY <1>4, <2>3, ReadyAgain
  <2> QED
    BY <1>5, <2>1, <2>2, <2>3
<1>7. Budgeted(next, n + used)
  BY <1>3, <1>6 DEF Budgeted
<1> QED
  BY <1>2, <1>7, OneCaller

LEMMA DisconnectKeeps ==
    ASSUME BudgetInv, NEW c \in Callers, Disconnect(c)
    PROVE BudgetInv'
<1> DEFINE o == op[c]
           n == recorded[c]
<1>1. Budgeted(o, n)
  BY DEF BudgetInv
<1>2. CASE o.stage = "calling"
  <2>1. PICK used \in {0} \cup Usages :
            RecordCall(c, used) /\ Put(c, [o EXCEPT !.stage = "error", !.last = used])
    BY <1>2 DEF Disconnect
  <2>2. used \in Nat
    BY <2>1, GatewayAssumption
  <2>3. n + used \in Nat /\ (n + used <= TokenBudget \/ used > WorstCase)
    BY <1>1, <1>2, <2>2, CallRecorded
  <2>4. Budgeted([o EXCEPT !.stage = "error", !.last = used], n + used)
    BY <1>1, <2>2, <2>3 DEF Budgeted, Shaped, Along, Stages
  <2>5. recorded' = [recorded EXCEPT ![c] = n + used]
    BY <2>1 DEF RecordCall
  <2> QED
    BY <2>1, <2>4, <2>5, OneCaller
<1>3. CASE o.stage # "calling"
  <2>1. RecordCall(c, 0) /\ Put(c, [o EXCEPT !.stage = "error", !.last = @])
    BY <1>3 DEF Disconnect
  <2>2. recorded' = [recorded EXCEPT ![c] = n]
    <3>1. recorded' = [recorded EXCEPT ![c] = n + 0]
      BY <2>1 DEF RecordCall
    <3>2. n + 0 = n
      BY <1>1 DEF Budgeted
    <3> QED
      BY <3>1, <3>2
  <2>3. Budgeted([o EXCEPT !.stage = "error", !.last = @], n)
    BY <1>1 DEF Budgeted, Shaped, Along, Stages
  <2> QED
    BY <2>1, <2>2, <2>3, OneCaller
<1> QED
  BY <1>2, <1>3

LEMMA OpenKeeps ==
    ASSUME BudgetInv, NEW c \in Callers, NEW stream \in BOOLEAN, NEW routed \in BOOLEAN,
           NEW sensitive \in BOOLEAN, NEW fallback \in BOOLEAN,
           Open(c, stream, routed, sensitive, fallback)
    PROVE BudgetInv'
<1> DEFINE route == Route(routed, fallback)
           stage == IF Permitted(sensitive, fallback) /\ route # <<>> THEN "ready" ELSE "error"
<1>1. Put(c, [NoOperation EXCEPT !.stage = stage, !.route = route, !.stream = stream,
                                 !.sensitive = sensitive])
  BY DEF Open
<1>2. recorded[c] = 0
  BY DEF Open, BudgetInv, Budgeted
<1>3. Budgeted([NoOperation EXCEPT !.stage = stage, !.route = route, !.stream = stream,
                                   !.sensitive = sensitive], 0)
  <2>1. stage \in {"ready", "error"}
    OBVIOUS
  <2> HIDE DEF route, stage
  <2> DEFINE q == [NoOperation EXCEPT !.stage = stage, !.route = route, !.stream = stream,
                                      !.sensitive = sensitive]
  <2>2. Shaped(q) /\ q.stage = stage /\ q.spent = 0 /\ q.last = 0
    <3>1. NoOperation \in Along(<<>>) /\ NoOperation.spent = 0 /\ NoOperation.last = 0
      BY DEF NoOperation, Along, Stages
    <3>2. PICK o \in Along(route) : o = [NoOperation EXCEPT !.route = route]
      BY <3>1 DEF Along
    <3>3. q = [o EXCEPT !.stage = stage, !.stream = stream, !.sensitive = sensitive]
      BY <3>2
    <3> HIDE DEF q
    <3>4. q \in Along(route) /\ q.stage = stage /\ q.spent = o.spent /\ q.last = o.last
      BY <2>1, <3>2, <3>3 DEF Along, Stages
    <3>5. o.spent = 0 /\ o.last = 0
      BY <3>1, <3>2
    <3> QED
      BY <3>4, <3>5 DEF Shaped
  <2> HIDE DEF q
  <2>3. Budgeted(q, 0)
    BY <2>1, <2>2, GatewayAssumption DEF Budgeted
  <2> QED
    BY <2>3 DEF q
<1>4. recorded' = [recorded EXCEPT ![c] = 0]
  BY <1>2, SameRecords DEF Open
<1> QED
  BY <1>1, <1>3, <1>4, OneCaller

LEMMA CloseKeeps ==
    ASSUME BudgetInv, NEW c \in Callers, Close(c)
    PROVE BudgetInv'
  BY Fresh, OneCaller DEF Close

LEMMA BudgetStep == BudgetInv /\ [Next]_vars => BudgetInv'
<1> SUFFICES ASSUME BudgetInv, [Next]_vars PROVE BudgetInv'
  OBVIOUS
<1>1. CASE UNCHANGED gatewayVars
  BY <1>1 DEF gatewayVars, BudgetInv, Budgeted, Shaped, Along
<1>2. ASSUME NEW c \in Callers, GatewayStep(c) PROVE BudgetInv'
  <2>1. CASE CallFails(c)
    BY <2>1, FailedKeeps DEF CallFails
  <2>2. ASSUME NEW used \in Usages, AnswerIsInvalid(c, used) PROVE BudgetInv'
    BY <2>2, FailedKeeps, GatewayAssumption DEF AnswerIsInvalid
  <2> QED
    BY <1>2, <2>1, <2>2, AttemptKeeps, DeltaKeeps, AnswerKeeps DEF GatewayStep
<1>3. CASE ConsoleStep
  BY <1>3, AgentAssumption, OpenKeeps, DisconnectKeeps, CloseKeeps DEF ConsoleStep
<1>4. ASSUME NEW w \in Workers,
             WorkerStep(w) \/ RefuseBuild(w) \/ Interrupted(w) \/ WorkerDies(w)
      PROVE BudgetInv'
  <2>1. w \in Callers
    BY AgentAssumption
  <2>2. CASE StartOperation(w)
    BY <1>1, <2>1, <2>2, OpenKeeps DEF StartOperation
  <2>3. CASE JudgeAnswer(w) \/ Interrupted(w) \/ WorkerDies(w)
    BY <2>1, <2>3, CloseKeeps DEF JudgeAnswer, Interrupted, WorkerDies
  <2>4. CASE TakeJob(w) \/ Claim(w) \/ Complete(w) \/ Fail(w) \/ RefuseBuild(w)
    BY <1>1, <2>4 DEF TakeJob, Claim, Complete, Fail, RefuseBuild
  <2> QED
    BY <1>4, <2>2, <2>3, <2>4 DEF WorkerStep
<1>5. CASE \/ CreateRun \/ EnqueueRun \/ EnqueueFails \/ MarkEnqueueFailure \/ ApiDies
           \/ CancelRun \/ DisableAgent \/ JobIsAbandoned \/ Recover \/ Deliver
  BY <1>1, <1>5 DEF CreateRun, EnqueueRun, EnqueueFails, MarkEnqueueFailure, ApiDies, CancelRun,
     DisableAgent, JobIsAbandoned, Recover, Deliver
<1> QED
  BY <1>1, <1>2, <1>3, <1>4, <1>5 DEF Next, vars, Serve

(* Retries and fallback share one budget: the recorded calls of an operation exceed it  *)
(* only when the last attempt used more than its estimate.                               *)
THEOREM BudgetHolds == Spec => []OperationWithinBudget
<1>1. Init => BudgetInv
  BY Fresh DEF Init, GatewayInit, BudgetInv
<1>2. BudgetInv => OperationWithinBudget
  BY DEF BudgetInv, Budgeted, OperationWithinBudget
<1> QED
  BY <1>1, <1>2, BudgetStep, PTL DEF Spec

-----------------------------------------------------------------------------
(* The audience of an operation.                                           *)

\* Without fallback there is one candidate, if it is configured.
LEMMA RouteOfOne ==
    ASSUME NEW routed \in BOOLEAN, Route(routed, FALSE) # <<>>
    PROVE  \E p : Route(routed, FALSE) = <<p>>
<1> DEFINE x == IF routed THEN TaskRoute ELSE Primary
           Body(g) == [s \in SUBSET (DOMAIN <<x>>) |->
                          IF s = {} THEN <<>> ELSE Kept(g[s \ {Max(s)}], <<x>>[Max(s)])]
           h == CHOOSE g : g = Body(g)
           first == Kept(<<>>, x)
           w == [s \in SUBSET {1} |-> IF s = {} THEN <<>> ELSE first]
<1>1. Candidates(routed, FALSE) = <<x>>
  BY DEF Candidates
<1>2. Route(routed, FALSE) = h[DOMAIN <<x>>]
  <2>1. FoldLeft(Kept, <<>>, <<x>>) = h[DOMAIN <<x>>]
    BY DEF FoldLeft, MapThenFoldSet
  <2> QED BY <1>1, <2>1 DEF Route
<1> HIDE DEF x
<1>3. DOMAIN <<x>> = {1} /\ <<x>>[1] = x
  OBVIOUS
<1>4. Max({1}) = 1
  BY DEF Max
<1>5. \A s \in SUBSET {1} : s = {} \/ s = {1}
  OBVIOUS
<1>6. w = Body(w)
  <2>1. ASSUME NEW s \in SUBSET {1}
        PROVE w[s] = IF s = {} THEN <<>> ELSE Kept(w[s \ {Max(s)}], <<x>>[Max(s)])
    <3>1. CASE s = {}
      BY <3>1
    <3>2. CASE s = {1}
      <4>1. s \ {Max(s)} = {} /\ <<x>>[Max(s)] = x
        BY <3>2, <1>3, <1>4
      <4>2. w[{}] = <<>> /\ w[s] = first
        BY <3>2
      <4> HIDE DEF w
      <4> QED BY <4>1, <4>2, <3>2
    <3> QED BY <3>1, <3>2, <1>5
  <2> QED BY <2>1, <1>3
<1>7. h = Body(h)
  <2> HIDE DEF w, Body
  <2> QED BY <1>6
<1>8. h[{}] = <<>>
  <2> HIDE DEF h
  <2> QED BY <1>7, <1>3
<1>9. h[{1}] = first
  <2> HIDE DEF h
  <2>1. {1} \ {Max({1})} = {} /\ <<x>>[Max({1})] = x
    BY <1>3, <1>4
  <2>2. h[{1}] = Kept(h[{1} \ {Max({1})}], <<x>>[Max({1})])
    BY <1>3, <1>7
  <2> QED BY <2>1, <2>2, <1>8
<1>10. first = <<>> \/ first = <<x>>
  BY DEF Kept
<1> HIDE DEF h, first
<1> QED BY <1>2, <1>3, <1>9, <1>10

\* An operation o whose prompt was sent to a and whose caller was given text of v: nothing
\* is given before an attempt, and during one only its own provider's text; a sensitive
\* prompt has no other provider to go to.
Heard(o, a, v) ==
    /\ \A p, q \in v : p = q
    /\ o.stage \in {"none", "ready"} => ~o.emitted /\ v = {}
    /\ o.stage = "calling" => v \subseteq IF o.emitted THEN {o.route[o.index]} ELSE {}
    /\ o.stage = "none" => a = {}
    /\ o.sensitive => \E p : /\ a \subseteq {p}
                             /\ o.stage \in {"ready", "calling"} => o.route = <<p>> /\ o.index = 1

AudienceInv ==
    /\ asked = [c \in Callers |-> asked[c]] /\ voices = [c \in Callers |-> voices[c]]
    /\ \A c \in Callers : Heard(op[c], asked[c], voices[c])

\* A step of one caller that leaves its audience bounded.
LEMMA OneAudience ==
    ASSUME BudgetInv, AudienceInv, NEW c \in Callers, NEW o, NEW a, NEW v, Put(c, o),
           asked' = [asked EXCEPT ![c] = a], voices' = [voices EXCEPT ![c] = v], Heard(o, a, v)
    PROVE AudienceInv'
<1>1. op' = [op EXCEPT ![c] = o] /\ op = [d \in Callers |-> op[d]]
  BY DEF Put, BudgetInv
<1>2. asked = [d \in Callers |-> asked[d]] /\ voices = [d \in Callers |-> voices[d]]
  BY DEF AudienceInv
<1>3. /\ op'[c] = o /\ asked'[c] = a /\ voices'[c] = v
      /\ \A d \in Callers \ {c} :
            op'[d] = op[d] /\ asked'[d] = asked[d] /\ voices'[d] = voices[d]
  BY <1>1, <1>2
<1>4. \A d \in Callers : Heard(op'[d], asked'[d], voices'[d])
  BY <1>3 DEF AudienceInv
<1>5. asked' = [d \in Callers |-> asked'[d]] /\ voices' = [d \in Callers |-> voices'[d]]
  BY <1>2
<1> QED BY <1>4, <1>5 DEF AudienceInv

LEMMA SameAudience ==
    ASSUME AudienceInv, NEW c \in Callers
    PROVE  /\ UNCHANGED asked => asked' = [asked EXCEPT ![c] = asked[c]]
           /\ UNCHANGED voices => voices' = [voices EXCEPT ![c] = voices[c]]
  BY DEF AudienceInv

\* An operation that fails, or that ends, keeps its audience.
LEMMA EndedAudience ==
    ASSUME NEW o, NEW a, NEW v, Heard(o, a, v), NEW q,
           q.stage \in {"text", "error"}, q.sensitive = o.sensitive
    PROVE  Heard(q, a, v)
  BY DEF Heard

LEMMA OpenIsHeard ==
    ASSUME BudgetInv, AudienceInv, NEW c \in Callers, NEW stream \in BOOLEAN,
           NEW routed \in BOOLEAN, NEW sensitive \in BOOLEAN, NEW fallback \in BOOLEAN,
           Open(c, stream, routed, sensitive, fallback)
    PROVE AudienceInv'
<1> DEFINE route == Route(routed, fallback)
           stage == IF Permitted(sensitive, fallback) /\ route # <<>> THEN "ready" ELSE "error"
           q == [NoOperation EXCEPT !.stage = stage, !.route = route, !.stream = stream,
                                    !.sensitive = sensitive]
<1>1. Put(c, q)
  BY DEF Open
<1>2. asked[c] = {} /\ voices[c] = {}
  BY DEF Open, AudienceInv, Heard
<1>3. asked' = [asked EXCEPT ![c] = {}] /\ voices' = [voices EXCEPT ![c] = {}]
  BY <1>2, SameAudience DEF Open
<1>4. sensitive /\ stage = "ready" => \E p : route = <<p>>
  BY RouteOfOne DEF Permitted
<1>5. stage \in {"ready", "error"}
  OBVIOUS
<1> HIDE DEF route, stage
<1>6. /\ q.stage = stage /\ q.route = route /\ q.sensitive = sensitive /\ q.index = 1
      /\ q.emitted = FALSE
  BY DEF NoOperation
<1> HIDE DEF q
<1>7. Heard(q, {}, {})
  BY <1>4, <1>5, <1>6 DEF Heard
<1> QED BY <1>1, <1>3, <1>7, OneAudience

LEMMA AttemptIsHeard ==
    ASSUME BudgetInv, AudienceInv, NEW c \in Callers, Attempt(c)
    PROVE AudienceInv'
<1> DEFINE o == op[c]
<1>1. Heard(o, asked[c], voices[c]) /\ Shaped(o) /\ o.stage = "ready"
  BY DEF BudgetInv, Budgeted, AudienceInv, Attempt
<1>2. voices' = [voices EXCEPT ![c] = voices[c]]
  BY SameAudience DEF Attempt
<1>3. CASE o.spent + WorstCase > TokenBudget
  <2>1. Put(c, [o EXCEPT !.stage = "error"]) /\ asked' = [asked EXCEPT ![c] = asked[c]]
    BY <1>3, SameAudience DEF Attempt
  <2>2. Heard([o EXCEPT !.stage = "error"], asked[c], voices[c])
    BY <1>1, EndedAudience DEF Shaped, Along
  <2> QED BY <1>2, <2>1, <2>2, OneAudience
<1>4. CASE ~(o.spent + WorstCase > TokenBudget)
  <2> DEFINE q == [o EXCEPT !.stage = "calling"]
             a == asked[c] \cup {Provider(c)}
  <2>1. Put(c, q) /\ asked' = [asked EXCEPT ![c] = a]
    BY <1>4 DEF Attempt
  <2>2. /\ q.stage = "calling" /\ q.emitted = o.emitted /\ q.sensitive = o.sensitive
        /\ q.route = o.route /\ q.index = o.index
    BY <1>1 DEF Shaped, Along
  <2>3. Provider(c) = o.route[o.index]
    BY DEF Provider
  <2> HIDE DEF q
  <2>4. Heard(q, a, voices[c])
    <3>1. q.sensitive => \E p : a \subseteq {p} /\ q.route = <<p>> /\ q.index = 1
      <4> SUFFICES ASSUME q.sensitive
                   PROVE \E p : a \subseteq {p} /\ q.route = <<p>> /\ q.index = 1
        OBVIOUS
      <4>1. PICK p : asked[c] \subseteq {p} /\ o.route = <<p>> /\ o.index = 1
        BY <1>1, <2>2 DEF Heard
      <4>2. Provider(c) = p
        BY <2>3, <4>1
      <4> QED BY <2>2, <4>1, <4>2
    <3>2. voices[c] = {} /\ ~o.emitted
      BY <1>1 DEF Heard
    <3> QED BY <2>2, <3>1, <3>2 DEF Heard
  <2> QED BY <1>2, <2>1, <2>4, OneAudience
<1> QED BY <1>3, <1>4

LEMMA DeltaIsHeard ==
    ASSUME BudgetInv, AudienceInv, NEW c \in Callers, Delta(c)
    PROVE AudienceInv'
<1> DEFINE o == op[c]
           q == [o EXCEPT !.emitted = TRUE]
           v == voices[c] \cup {Provider(c)}
<1>1. Heard(o, asked[c], voices[c]) /\ Shaped(o) /\ o.stage = "calling"
  BY DEF BudgetInv, Budgeted, AudienceInv, Delta
<1>2. /\ Put(c, q) /\ asked' = [asked EXCEPT ![c] = asked[c]]
      /\ voices' = [voices EXCEPT ![c] = v]
  BY SameAudience DEF Delta
<1>3. /\ q.stage = "calling" /\ q.emitted /\ q.sensitive = o.sensitive
      /\ q.route = o.route /\ q.index = o.index
  BY <1>1 DEF Shaped, Along
<1>4. v = {o.route[o.index]}
  BY <1>1 DEF Heard, Provider
<1> HIDE DEF q, v
<1>5. Heard(q, asked[c], v)
  BY <1>1, <1>3, <1>4 DEF Heard
<1> QED BY <1>2, <1>5, OneAudience

LEMMA AnswerIsHeard ==
    ASSUME BudgetInv, AudienceInv, NEW c \in Callers, NEW used \in Usages, Answer(c, used)
    PROVE AudienceInv'
<1> DEFINE o == op[c]
<1>1. Heard(o, asked[c], voices[c]) /\ Shaped(o) /\ o.stage = "calling"
  BY DEF BudgetInv, Budgeted, AudienceInv, Answer
<1>2. asked' = [asked EXCEPT ![c] = asked[c]]
  BY SameAudience DEF Answer
<1>3. CASE o.spent + used > TokenBudget
  <2> DEFINE q == [o EXCEPT !.stage = "error", !.last = used, !.spent = @ + used]
  <2>1. Put(c, q) /\ voices' = [voices EXCEPT ![c] = voices[c]]
    BY <1>3, SameAudience DEF Answer
  <2>2. q.stage = "error" /\ q.sensitive = o.sensitive
    BY <1>1 DEF Shaped, Along
  <2> HIDE DEF q
  <2>3. Heard(q, asked[c], voices[c])
    BY <1>1, <2>2, EndedAudience
  <2> QED BY <1>2, <2>1, <2>3, OneAudience
<1>4. CASE ~(o.spent + used > TokenBudget)
  <2> DEFINE q == [o EXCEPT !.stage = "text", !.last = used]
             v == voices[c] \cup {Provider(c)}
  <2>1. Put(c, q) /\ voices' = [voices EXCEPT ![c] = v]
    BY <1>4 DEF Answer
  <2>2. q.stage = "text" /\ q.sensitive = o.sensitive
    BY <1>1 DEF Shaped, Along
  <2>3. v = {o.route[o.index]}
    BY <1>1 DEF Heard, Provider
  <2> HIDE DEF q, v
  <2>4. Heard(q, asked[c], v)
    BY <1>1, <2>2, <2>3 DEF Heard
  <2> QED BY <1>2, <2>1, <2>4, OneAudience
<1> QED BY <1>3, <1>4

\* After a failed attempt: nobody heard it, or the operation ends.
LEMMA FailureIsHeard ==
    ASSUME BudgetInv, AudienceInv, NEW c \in Callers, NEW used \in Nat, NEW retryable \in BOOLEAN,
           FailedAttempt(c, used, retryable)
    PROVE AudienceInv'
<1> DEFINE o == op[c]
           s == [o EXCEPT !.spent = SpentWith(c, used), !.last = used]
           next == NextAttempt(s, retryable)
<1>1. Heard(o, asked[c], voices[c]) /\ Shaped(o) /\ o.stage = "calling"
  BY DEF BudgetInv, Budgeted, AudienceInv, FailedAttempt
<1>2. /\ Put(c, next) /\ asked' = [asked EXCEPT ![c] = asked[c]]
      /\ voices' = [voices EXCEPT ![c] = voices[c]]
  BY SameAudience DEF FailedAttempt
<1>3. /\ s.emitted = o.emitted /\ s.sensitive = o.sensitive /\ s.route = o.route
      /\ s.index = o.index /\ s.stage = "calling"
      /\ s = [s EXCEPT !.stage = "calling"]
  BY <1>1 DEF Shaped, Along
<1>4. /\ [s EXCEPT !.stage = "error"].stage = "error"
      /\ [s EXCEPT !.stage = "error"].sensitive = o.sensitive
  BY <1>1 DEF Shaped, Along
<1>5. /\ [s EXCEPT !.stage = "ready", !.retry = @ + 1].stage = "ready"
      /\ [s EXCEPT !.stage = "ready", !.retry = @ + 1].sensitive = o.sensitive
      /\ [s EXCEPT !.stage = "ready", !.retry = @ + 1].emitted = o.emitted
      /\ [s EXCEPT !.stage = "ready", !.retry = @ + 1].route = o.route
      /\ [s EXCEPT !.stage = "ready", !.retry = @ + 1].index = o.index
  BY <1>1 DEF Shaped, Along
<1>6. /\ [s EXCEPT !.stage = "ready", !.retry = 0, !.index = @ + 1].stage = "ready"
      /\ [s EXCEPT !.stage = "ready", !.retry = 0, !.index = @ + 1].sensitive = o.sensitive
      /\ [s EXCEPT !.stage = "ready", !.retry = 0, !.index = @ + 1].emitted = o.emitted
  BY <1>1 DEF Shaped, Along
<1> HIDE DEF s
<1>7. CASE next = [s EXCEPT !.stage = "error"]
  <2>1. next.stage = "error" /\ next.sensitive = o.sensitive
    BY <1>4, <1>7
  <2> HIDE DEF next
  <2>2. Heard(next, asked[c], voices[c])
    BY <1>1, <2>1, EndedAudience
  <2> QED BY <1>2, <2>2, OneAudience
<1>8. CASE ~o.emitted /\ next = [s EXCEPT !.stage = "ready", !.retry = @ + 1]
  <2>1. next.stage = "ready" /\ next.sensitive = o.sensitive /\ next.emitted = o.emitted
        /\ next.route = o.route /\ next.index = o.index
    BY <1>5, <1>8
  <2> HIDE DEF next
  <2>2. Heard(next, asked[c], voices[c])
    BY <1>1, <1>8, <2>1 DEF Heard
  <2> QED BY <1>2, <2>2, OneAudience
<1>9. CASE /\ ~o.emitted /\ o.index < Len(o.route)
           /\ next = [s EXCEPT !.stage = "ready", !.retry = 0, !.index = @ + 1]
  <2>1. next.stage = "ready" /\ next.sensitive = o.sensitive /\ next.emitted = o.emitted
    BY <1>6, <1>9
  <2>2. ~o.sensitive
    <3> SUFFICES ASSUME o.sensitive PROVE FALSE
      OBVIOUS
    <3>1. PICK p : o.route = <<p>> /\ o.index = 1
      BY <1>1 DEF Heard
    <3>2. Len(<<p>>) = 1
      OBVIOUS
    <3> QED BY <1>9, <3>1, <3>2
  <2> HIDE DEF next
  <2>3. Heard(next, asked[c], voices[c])
    BY <1>1, <1>9, <2>1, <2>2 DEF Heard
  <2> QED BY <1>2, <2>3, OneAudience
<1> QED
  BY <1>3, <1>7, <1>8, <1>9 DEF NextAttempt, Proceed

LEMMA DisconnectIsHeard ==
    ASSUME BudgetInv, AudienceInv, NEW c \in Callers, Disconnect(c)
    PROVE AudienceInv'
<1> DEFINE o == op[c]
<1>1. Heard(o, asked[c], voices[c]) /\ Shaped(o)
  BY DEF BudgetInv, Budgeted, AudienceInv
<1>2. PICK n : Put(c, [o EXCEPT !.stage = "error", !.last = n])
  BY DEF Disconnect
<1> DEFINE q == [o EXCEPT !.stage = "error", !.last = n]
<1>3. q.stage = "error" /\ q.sensitive = o.sensitive
  BY <1>1 DEF Shaped, Along
<1>4. asked' = [asked EXCEPT ![c] = asked[c]] /\ voices' = [voices EXCEPT ![c] = voices[c]]
  BY SameAudience DEF Disconnect
<1>5. Put(c, q)
  BY <1>2
<1> HIDE DEF q
<1>6. Heard(q, asked[c], voices[c])
  BY <1>1, <1>3, EndedAudience
<1> QED BY <1>4, <1>5, <1>6, OneAudience

LEMMA CloseIsHeard ==
    ASSUME BudgetInv, AudienceInv, NEW c \in Callers, Close(c)
    PROVE AudienceInv'
<1>1. Heard(NoOperation, {}, {})
  BY DEF Heard, NoOperation
<1> QED BY <1>1, OneAudience DEF Close

LEMMA AudienceStep == BudgetInv /\ AudienceInv /\ [Next]_vars => AudienceInv'
<1> SUFFICES ASSUME BudgetInv, AudienceInv, [Next]_vars PROVE AudienceInv'
  OBVIOUS
<1>1. CASE UNCHANGED gatewayVars
  BY <1>1 DEF gatewayVars, AudienceInv, Heard
<1>2. ASSUME NEW c \in Callers, GatewayStep(c) PROVE AudienceInv'
  <2>1. CASE CallFails(c)
    BY <2>1, FailureIsHeard DEF CallFails
  <2>2. ASSUME NEW used \in Usages, AnswerIsInvalid(c, used) PROVE AudienceInv'
    BY <2>2, FailureIsHeard, GatewayAssumption DEF AnswerIsInvalid
  <2> QED
    BY <1>2, <2>1, <2>2, AttemptIsHeard, DeltaIsHeard, AnswerIsHeard DEF GatewayStep
<1>3. CASE ConsoleStep
  BY <1>3, AgentAssumption, OpenIsHeard, DisconnectIsHeard, CloseIsHeard DEF ConsoleStep
<1>4. ASSUME NEW w \in Workers,
             WorkerStep(w) \/ RefuseBuild(w) \/ Interrupted(w) \/ WorkerDies(w)
      PROVE AudienceInv'
  <2>1. w \in Callers
    BY AgentAssumption
  <2>2. CASE StartOperation(w)
    BY <1>1, <2>1, <2>2, OpenIsHeard DEF StartOperation
  <2>3. CASE JudgeAnswer(w) \/ Interrupted(w) \/ WorkerDies(w)
    BY <2>1, <2>3, CloseIsHeard DEF JudgeAnswer, Interrupted, WorkerDies
  <2>4. CASE TakeJob(w) \/ Claim(w) \/ Complete(w) \/ Fail(w) \/ RefuseBuild(w)
    BY <1>1, <2>4 DEF TakeJob, Claim, Complete, Fail, RefuseBuild
  <2> QED
    BY <1>4, <2>2, <2>3, <2>4 DEF WorkerStep
<1>5. CASE \/ CreateRun \/ EnqueueRun \/ EnqueueFails \/ MarkEnqueueFailure \/ ApiDies
           \/ CancelRun \/ DisableAgent \/ JobIsAbandoned \/ Recover \/ Deliver
  BY <1>1, <1>5 DEF CreateRun, EnqueueRun, EnqueueFails, MarkEnqueueFailure, ApiDies, CancelRun,
     DisableAgent, JobIsAbandoned, Recover, Deliver
<1> QED
  BY <1>1, <1>2, <1>3, <1>4, <1>5 DEF Next, vars, Serve

(* Whatever fails, is retried or falls back: what a caller was given is one provider's   *)
(* text, and a sensitive prompt was sent to one provider.                                *)
THEOREM AudienceHolds == Spec => []AudienceIsBounded
<1>1. Init => BudgetInv /\ AudienceInv
  <2>1. Init => BudgetInv
    BY Fresh DEF Init, GatewayInit, BudgetInv
  <2>2. Heard(NoOperation, {}, {})
    BY DEF Heard, NoOperation
  <2> QED BY <2>1, <2>2 DEF Init, GatewayInit, AudienceInv
<1>2. AudienceInv => AudienceIsBounded
  <2> SUFFICES ASSUME AudienceInv, NEW c \in Callers, op[c].sensitive, NEW p \in asked[c],
                      NEW q \in asked[c]
               PROVE p = q
    BY DEF AudienceInv, Heard, AudienceIsBounded
  <2> QED BY DEF AudienceInv, Heard
<1> QED
  BY <1>1, <1>2, BudgetStep, AudienceStep, PTL DEF Spec
=============================================================================
