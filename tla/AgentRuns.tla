------------------------------ MODULE AgentRuns ------------------------------
(***************************************************************************)
(* One agent run (agents/): the request that stores and enqueues it, the   *)
(* queue, workers that claim and execute it through the model gateway, the *)
(* owner's cancellation, and the recovery that maintenance repeats.  The   *)
(* owner may use the gateway beside it.                                    *)
(*                                                                         *)
(* Commands on the run lock its row, so each is one step.  RQ stops a job  *)
(* after 300 seconds and kills it 60 seconds later; recovery takes a run   *)
(* for interrupted 360 seconds after its claim, when nobody works on it    *)
(* any more.  Nothing in the code sets waiting_tool or waiting_approval.   *)
(***************************************************************************)
EXTENDS ModelGateway

CONSTANTS
    Workers,
    Console,        \* the owner, calling the gateway directly
    MaxRecoveries,  \* MAX_WORKER_RECOVERIES
    MaxFaults       \* bound on crashes, time-outs and failing calls

ASSUME AgentAssumption ==
    /\ Callers = Workers \cup {Console} /\ Console \notin Workers
    /\ MaxRecoveries \in Nat /\ MaxFaults \in Nat

VARIABLES
    run,            \* the row, with the message that ends it (sequence 2)
    request,        \* where create_run is
    enabled,        \* the agent and its skill may still execute
    jobs,           \* RQ's jobs: one identifier per recovery count
    work,           \* what each worker is doing
    due,            \* deliveries that recovery still has to make
    claims,         \* operations so far
    faults

runVars == <<run, request, enabled, jobs, work, due, claims, faults>>
vars == <<runVars, gatewayVars>>

Terminal == {"completed", "failed", "cancelled"}
Deliveries == 0 .. MaxRecoveries
Rows == [status : {"none", "queued", "running"} \cup Terminal, recoveries : Deliveries,
         operation : Nat, answer : Nat, message : {"none", "output", "error"}]
\* operation: the claim the worker holds; delivery: the job it runs.
Activities == [stage : {"idle", "job", "model", "answered", "failing"},
               operation : Nat, delivery : Deliveries]
Idle == [stage |-> "idle", operation |-> 0, delivery |-> 0]

AgentTypeOK ==
    /\ run \in Rows
    /\ request \in {"none", "committed", "unqueued", "done"}
    /\ enabled \in BOOLEAN
    /\ jobs \in [Deliveries -> {"none", "queued", "started"}]
    /\ work \in [Workers -> Activities]
    /\ due \subseteq Deliveries
    /\ claims \in Nat /\ faults \in Nat

TypeOK == GatewayTypeOK /\ AgentTypeOK

Init ==
    /\ GatewayInit
    /\ run = [status |-> "none", recoveries |-> 0, operation |-> 0, answer |-> 0,
              message |-> "none"]
    /\ request = "none" /\ enabled = TRUE
    /\ jobs = [d \in Deliveries |-> "none"]
    /\ work = [w \in Workers |-> Idle]
    /\ due = {} /\ claims = 0 /\ faults = 0

Fault == faults < MaxFaults /\ faults' = faults + 1
Ends(status, message) == run' = [run EXCEPT !.status = status, !.message = message]

-----------------------------------------------------------------------------
(* The request and the queue *)

\* The run and its first message are committed before the job exists.
CreateRun ==
    /\ request = "none"
    /\ request' = "committed"
    /\ run' = [run EXCEPT !.status = "queued"]
    /\ UNCHANGED <<enabled, jobs, work, due, claims, faults, gatewayVars>>

\* A job that is queued or started already is left alone.
Enqueued(delivery) == jobs' = [jobs EXCEPT ![delivery] = IF @ = "none" THEN "queued" ELSE @]

EnqueueRun ==
    /\ request = "committed"
    /\ request' = "done"
    /\ Enqueued(0)
    /\ UNCHANGED <<run, enabled, work, due, claims, faults, gatewayVars>>

\* The call to Redis fails, whether or not the job reached it.
EnqueueFails ==
    /\ request = "committed" /\ Fault
    /\ request' = "unqueued"
    /\ Enqueued(0) \/ UNCHANGED jobs
    /\ UNCHANGED <<run, enabled, work, due, claims, gatewayVars>>

\* Seeded fault: the run is taken for queued.
TakenForQueued == TRUE
StillQueued == run.status = "queued"

MarkEnqueueFailure ==
    /\ request = "unqueued"
    /\ request' = "done"
    /\ IF StillQueued THEN Ends("failed", "error") ELSE UNCHANGED run
    /\ UNCHANGED <<enabled, jobs, work, due, claims, faults, gatewayVars>>

ApiDies ==
    /\ request \in {"committed", "unqueued"} /\ Fault
    /\ request' = "done"
    /\ UNCHANGED <<run, enabled, jobs, work, due, claims, gatewayVars>>

CancelRun ==
    /\ run.status \in {"queued", "running"}
    /\ Ends("cancelled", "error")
    /\ UNCHANGED <<request, enabled, jobs, work, due, claims, faults, gatewayVars>>

\* A migration replaces the agent's version or withdraws its skill.
DisableAgent ==
    /\ enabled /\ enabled' = FALSE
    /\ UNCHANGED <<run, request, jobs, work, due, claims, faults, gatewayVars>>

-----------------------------------------------------------------------------
(* A worker *)

At(w, stage) == work[w].stage = stage
Go(w, stage) == work' = [work EXCEPT ![w].stage = stage]
Leave(w) == /\ work' = [work EXCEPT ![w] = Idle]
            /\ jobs' = [jobs EXCEPT ![work[w].delivery] = "none"]

TakeJob(w) ==
    /\ At(w, "idle")
    /\ \E d \in Deliveries :
          /\ jobs[d] = "queued"
          /\ jobs' = [jobs EXCEPT ![d] = "started"]
          /\ work' = [work EXCEPT ![w] = [Idle EXCEPT !.stage = "job", !.delivery = d]]
    /\ UNCHANGED <<run, request, enabled, due, claims, faults, gatewayVars>>

\* Seeded fault: a run that has not ended can be claimed.
AnyLiveRun == run.status \in {"queued", "running"}
Claimable == run.status = "queued"

\* claim: another status leaves the job without effect, a disabled agent fails the run.
Claim(w) ==
    /\ At(w, "job")
    /\ IF Claimable /\ enabled
       THEN /\ claims' = claims + 1
            /\ run' = [run EXCEPT !.status = "running", !.operation = claims']
            /\ work' = [work EXCEPT ![w].stage = "model", ![w].operation = claims']
            /\ UNCHANGED jobs
       ELSE /\ IF Claimable THEN Ends("failed", "error") ELSE UNCHANGED run
            /\ Leave(w)
            /\ UNCHANGED claims
    /\ UNCHANGED <<request, enabled, due, faults, gatewayVars>>

\* The pinned input, skill and policy are checked before the gateway is called.
StartOperation(w) ==
    /\ At(w, "model")
    /\ \/ /\ \E routed, sensitive, fallback \in BOOLEAN :
                Open(w, FALSE, routed, sensitive, fallback)
          /\ UNCHANGED work
       \/ op[w].stage = "none" /\ Go(w, "failing") /\ UNCHANGED gatewayVars
    /\ UNCHANGED <<run, request, enabled, jobs, due, claims, faults>>

\* The answer passes the output schema and the agent's validators, or does not.
JudgeAnswer(w) ==
    /\ At(w, "model")
    /\ \/ op[w].stage = "text" /\ (Go(w, "answered") \/ Go(w, "failing"))
       \/ op[w].stage = "error" /\ Go(w, "failing")
    /\ Close(w)
    /\ UNCHANGED <<run, request, enabled, jobs, due, claims, faults>>

Complete(w) ==
    /\ At(w, "answered")
    /\ IF run.status = "running"
       THEN run' = [run EXCEPT !.status = "completed", !.answer = work[w].operation,
                               !.message = "output"]
       ELSE UNCHANGED run
    /\ Leave(w)
    /\ UNCHANGED <<request, enabled, due, claims, faults, gatewayVars>>

\* A website build that governance, or what it is based on, no longer permits.
RefuseBuild(w) ==
    /\ At(w, "answered") /\ run.status = "running"
    /\ Go(w, "failing")
    /\ UNCHANGED <<run, request, enabled, jobs, due, claims, faults, gatewayVars>>

\* Seeded fault: the status is not looked at again.
Unseen == TRUE
MayFail == run.status \in {"queued", "running"}

Fail(w) ==
    /\ At(w, "failing")
    /\ IF MayFail THEN Ends("failed", "error") ELSE UNCHANGED run
    /\ Leave(w)
    /\ UNCHANGED <<request, enabled, due, claims, faults, gatewayVars>>

\* The job's time-out is raised inside the run, or something else in it fails.
Interrupted(w) ==
    /\ \/ At(w, "model") /\ op[w].stage # "none"
       \/ At(w, "answered")
    /\ Fault
    /\ Go(w, "failing") /\ Close(w)
    /\ UNCHANGED <<run, request, enabled, jobs, due, claims>>

\* The work horse dies; RQ moves its job to the failed ones at once or at a later cleanup.
WorkerDies(w) ==
    /\ ~At(w, "idle") /\ Fault
    /\ Leave(w) \/ (work' = [work EXCEPT ![w] = Idle] /\ UNCHANGED jobs)
    /\ Close(w)
    /\ UNCHANGED <<run, request, enabled, due, claims>>

JobIsAbandoned ==
    /\ \E d \in Deliveries :
          /\ jobs[d] = "started" /\ \A w \in Workers : At(w, "idle") \/ work[w].delivery # d
          /\ jobs' = [jobs EXCEPT ![d] = "none"]
    /\ UNCHANGED <<run, request, enabled, work, due, claims, faults, gatewayVars>>

-----------------------------------------------------------------------------
(* recover_agent_runs *)

Interruption == /\ run.status = "running"
                /\ \A w \in Workers : work[w].operation # run.operation

\* Seeded fault: recovery looks for interrupted runs only.
NothingToRedeliver == FALSE
Undelivered == run.status = "queued"

Recover ==
    /\ \/ /\ Interruption /\ run.recoveries >= MaxRecoveries
          /\ Ends("failed", "error") /\ UNCHANGED due
       \/ /\ Interruption /\ run.recoveries < MaxRecoveries
          /\ run' = [run EXCEPT !.status = "queued", !.recoveries = @ + 1, !.operation = 0]
          /\ due' = due \cup {run.recoveries + 1}
       \/ /\ Undelivered
          /\ due' = due \cup {run.recoveries} /\ UNCHANGED run
    /\ UNCHANGED <<request, enabled, jobs, work, claims, faults, gatewayVars>>

Deliver ==
    /\ \E d \in due :
          /\ due' = due \ {d}
          /\ \/ Enqueued(d) /\ UNCHANGED faults
             \/ Fault /\ UNCHANGED jobs
    /\ UNCHANGED <<run, request, enabled, work, claims, gatewayVars>>

-----------------------------------------------------------------------------
Serve(c) == GatewayStep(c) /\ UNCHANGED runVars

\* Operations of the owner, streamed or not.
ConsoleStep ==
    /\ \/ \E stream, routed, sensitive, fallback \in BOOLEAN :
             Open(Console, stream, routed, sensitive, fallback)
       \/ Disconnect(Console)
       \/ op[Console].stage \in {"text", "error"} /\ Close(Console)
    /\ UNCHANGED runVars

WorkerStep(w) ==
    TakeJob(w) \/ Claim(w) \/ StartOperation(w) \/ JudgeAnswer(w) \/ Complete(w) \/ Fail(w)

Next ==
    \/ CreateRun \/ EnqueueRun \/ EnqueueFails \/ MarkEnqueueFailure \/ ApiDies
    \/ CancelRun \/ DisableAgent
    \/ \E w \in Workers : WorkerStep(w) \/ RefuseBuild(w) \/ Interrupted(w) \/ WorkerDies(w)
    \/ JobIsAbandoned \/ Recover \/ Deliver
    \/ ConsoleStep \/ \E c \in Callers : Serve(c)

\* Workers take jobs and work on, RQ cleans up, maintenance runs periodically.  Nothing
\* is assumed of the request: the API process may stop anywhere in it.
Fairness ==
    /\ \A w \in Workers : WF_vars(WorkerStep(w)) /\ WF_vars(Serve(w))
    /\ WF_vars(JobIsAbandoned) /\ WF_vars(Recover) /\ WF_vars(Deliver)

Spec == Init /\ [][Next]_vars /\ Fairness

-----------------------------------------------------------------------------
(* One execution at a time: a worker that works for a running run holds the operation *)
(* the row names, and the answer of a completed run is that operation's.              *)
OneExecutor ==
    /\ \A w \in Workers : work[w].operation # 0 /\ run.status = "running"
                             => work[w].operation = run.operation
    /\ run.status = "completed" => run.answer = run.operation

(* A run that ended never changes: not by a late answer, a late failure of the queue,  *)
(* a redelivery or a recovery; and it has the message of its end.                      *)
EndIsFinal == [][(run.status \in Terminal) => UNCHANGED run]_vars

(* Every stored run ends, wherever the request, a worker or a delivery was lost.       *)
RunsEnd == (run.status # "none") ~> (run.status \in Terminal)
=============================================================================
