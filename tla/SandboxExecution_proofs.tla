----------------------- MODULE SandboxExecution_proofs -----------------------
(* Proofs about SandboxExecution and the runner it drives. *)
EXTENDS SandboxExecution, TLAPS

\* The runner's own steps and the clients' steps, action by action.
LEMMA StepCases ==
    ASSUME [Next]_vars
    PROVE \/ \E c \in Clients : ExecuteArrives(c) /\ UNCHANGED <<rowVars, ownerVars, clientVars>>
          \/ \E c \in Clients : CancelArrives(c) /\ UNCHANGED <<rowVars, ownerVars, clientVars>>
          \/ \E c \in Clients : CancelWrites(c) /\ UNCHANGED <<rowVars, ownerVars, clientVars>>
          \/ \E c \in Clients : ProveAbsent(c) /\ UNCHANGED <<rowVars, ownerVars, clientVars>>
          \/ RunStep /\ UNCHANGED <<rowVars, ownerVars, clientVars>>
          \/ JanitorStep /\ UNCHANGED <<rowVars, ownerVars, clientVars>>
          \/ RunnerCrash /\ UNCHANGED <<rowVars, ownerVars, clientVars>>
          \/ RunnerStart /\ UNCHANGED <<rowVars, ownerVars, clientVars>>
          \/ OwnerStep \/ HeartbeatAges \/ RecoveryStep
          \/ \E c \in Clients : ClientStep(c) \/ Abandon(c)
          \/ \E w \in Workers : WorkerStep(w)
          \/ UNCHANGED vars
  BY DEF Next, Running, RunnerNext, ServeStep

\* An outcome and its event are never rewritten.
THEOREM OutcomesStand == Spec => OutcomeIsFinal
<1>1. ASSUME [Next]_vars, status \in Terminal
      PROVE UNCHANGED <<status, finished>>
  <2> USE <1>1 DEF Terminal, Outcomes, ChildOutcomes, InFlight, rowVars, vars
  <2>1. CASE OwnerStep
    BY <2>1 DEF OwnerStep, RequestExecution, DecideAction, ControlsChange, StartExecution, CancelExecution
  <2>2. CASE HeartbeatAges \/ RecoveryStep
    BY <2>2 DEF HeartbeatAges, RecoveryStep, BeginRecovery, Prepare, Requeue, PutBack
  <2>3. ASSUME NEW c \in Clients, ClientStep(c) \/ Abandon(c)
        PROVE UNCHANGED <<status, finished>>
    BY <2>3 DEF ClientStep, Abandon, Inspect, CancelAnswered, CallFails, CompleteReceipt, CompleteAbsence, Record
  <2>4. ASSUME NEW w \in Workers, WorkerStep(w)
        PROVE UNCHANGED <<status, finished>>
    BY <2>4 DEF WorkerStep, TakeJob, Claim, RecordProgress, Poll, SawTheEnd
  <2> QED
    BY <2>1, <2>2, <2>3, <2>4, StepCases
<1> QED
  BY <1>1, PTL DEF Spec, OutcomeIsFinal

-----------------------------------------------------------------------------
(* Types. *)

\* Receipts written by a run, a cancel call or the janitor are receipts.
LEMMA ReceiptTypes ==
    /\ NoReceipt \in Receipts /\ Received \in Receipts
    /\ \A r \in Receipts :
          /\ Reconciled(r) \in Receipts
          /\ \A s \in {"creating", "running", "cleaning"} : [r EXCEPT !.state = s] \in Receipts
          /\ [r EXCEPT !.state = "creating", !.image = TRUE] \in Receipts
          /\ \A o \in Outcomes \cup {"pending"}, b \in BOOLEAN :
                [r EXCEPT !.state = "terminal", !.outcome = o, !.counted = b] \in Receipts
  BY DEF Receipts, NoReceipt, Received, Reconciled, Outcomes, ChildOutcomes

\* The runner's own steps keep the types of the runner.
LEMMA RunTypes ==
    ASSUME RunnerTypeOK, RunStep
    PROVE RunnerTypeOK'
<1>1. /\ NoReceipt \in Receipts /\ Received \in Receipts
      /\ \A s \in {"creating", "running", "cleaning"} : [memory EXCEPT !.state = s] \in Receipts
      /\ [memory EXCEPT !.state = "creating", !.image = TRUE] \in Receipts
      /\ \A o \in Outcomes \cup {"pending"}, b \in BOOLEAN :
            [memory EXCEPT !.state = "terminal", !.outcome = o, !.counted = b] \in Receipts
  BY ReceiptTypes DEF RunnerTypeOK
<1>2. UNCHANGED <<up, inbox, call, sweep>> /\ (UNCHANGED cancelled \/ cancelled' = FALSE)
  BY DEF RunStep, BeginRun, ResolveRuntime, CreateChild, StartChild, ChildEnds, RunFails, Source, SourceAndChild, Clean,
         CleanUnrecorded, Advance, EnterCleaning, Finish
<1>3. UNCHANGED faults \/ faults' = faults + 1
  BY DEF RunStep, BeginRun, ResolveRuntime, CreateChild, StartChild, ChildEnds, RunFails, Source, SourceAndChild, Clean,
         CleanUnrecorded, Fault
<1>4. receipt' \in Receipts /\ memory' \in Receipts
  <2>1. UNCHANGED receipt \/ receipt' = Received \/ receipt' = memory'
    BY DEF RunStep, BeginRun, ResolveRuntime, CreateChild, StartChild, ChildEnds, RunFails, Source, SourceAndChild, Clean,
           CleanUnrecorded, Advance, EnterCleaning, Finish
  <2>2. CASE Clean
    <3>1. verdict \in Outcomes \cup {"pending"} /\ "cleanup_failed" \in Outcomes
      BY DEF RunnerTypeOK, Outcomes
    <3>2. PICK o \in Outcomes \cup {"pending"}, b \in BOOLEAN :
             memory' = [memory EXCEPT !.state = "terminal", !.outcome = o, !.counted = b]
      BY <2>2, <3>1 DEF Clean, Finish, Advance, OutcomeWithout
    <3> QED
      BY <3>2, <1>1, <2>1 DEF RunnerTypeOK
  <2>3. CASE ~Clean
    BY <2>3, <1>1, <2>1 DEF RunnerTypeOK, RunStep, BeginRun, ResolveRuntime, CreateChild, StartChild,
           ChildEnds, RunFails, Source, SourceAndChild, CleanUnrecorded, Advance, EnterCleaning
  <2> QED
    BY <2>2, <2>3
<1>5. task' \in Phases /\ verdict' \in ChildOutcomes \cup {"pending"}
  <2>1. CASE ChildEnds
    BY <2>1, RunnerAssumption DEF ChildEnds, Advance, EnterCleaning, Phases, ChildOutcomes
  <2>2. CASE ~ChildEnds
    BY <2>2 DEF RunnerTypeOK, RunStep, BeginRun, ResolveRuntime, CreateChild, StartChild,
       RunFails, Source, SourceAndChild, Clean, CleanUnrecorded, Advance, EnterCleaning, Finish, Phases, ChildOutcomes
  <2> QED
    BY <2>1, <2>2
<1>6. resources' \subseteq {"source", "child"} /\ launches' \in Nat
  <2>1. resources' \in {resources, {}, {"source"}, {"source", "child"}}
    BY DEF RunStep, BeginRun, ResolveRuntime, CreateChild, StartChild,
       ChildEnds, RunFails, Source, SourceAndChild, Clean, CleanUnrecorded
  <2>2. launches' \in {launches, launches + 1}
    BY DEF RunStep, BeginRun, ResolveRuntime, CreateChild, StartChild,
       ChildEnds, RunFails, Source, SourceAndChild, Clean, CleanUnrecorded, Finish
  <2> QED
    BY <2>1, <2>2 DEF RunnerTypeOK
<1>7. up' \in BOOLEAN /\ cancelled' \in BOOLEAN
  BY <1>2, Zenon DEF RunnerTypeOK
<1>8. inbox' \subseteq Clients /\ faults' \in Nat
  BY <1>2, <1>3 DEF RunnerTypeOK
<1> QED
  BY <1>2, <1>4, <1>5, <1>6, <1>7, <1>8 DEF RunnerTypeOK

\* So do the calls, the janitor and crashes of the runner.
LEMMA ServeTypes ==
    ASSUME RunnerTypeOK,
           \/ \E c \in Clients : ServeStep(c)
           \/ JanitorStep \/ RunnerCrash \/ RunnerStart
    PROVE RunnerTypeOK'
<1>1. NoReceipt \in Receipts /\ (\A r \in Receipts : Reconciled(r) \in Receipts)
  BY ReceiptTypes
<1>2. Quiet \in [stage : Stages, copy : Receipts] /\ Quiet \in [stage : {"none", "listed", "proved"}, copy : Receipts]
  BY <1>1 DEF Quiet, Stages
<1>3. \A c \in Clients : call[c] \in [stage : Stages, copy : Receipts] /\ call[c].copy \in Receipts
  BY DEF RunnerTypeOK
<1>4. ASSUME NEW c \in Clients, ServeStep(c)
      PROVE RunnerTypeOK'
  <2>1. call' \in [Clients -> [stage : Stages, copy : Receipts]]
    BY <1>1, <1>3, <1>4 DEF RunnerTypeOK, ServeStep, ExecuteArrives, CancelArrives, CancelWrites, ProveAbsent,
       SetCall, Stages
  <2>2. receipt' \in Receipts /\ UNCHANGED <<memory, sweep>>
    BY <1>3, <1>4 DEF RunnerTypeOK, ServeStep, ExecuteArrives, CancelArrives, CancelWrites, ProveAbsent
  <2>3. up' \in BOOLEAN /\ cancelled' \in BOOLEAN
    BY <1>4, Zenon DEF RunnerTypeOK, ServeStep, ExecuteArrives, CancelArrives, CancelWrites, ProveAbsent
  <2>4. UNCHANGED <<verdict, launches, faults>> /\ task' \in Phases /\ inbox' \subseteq Clients
        /\ resources' \subseteq {"source", "child"}
    BY <1>4 DEF RunnerTypeOK, ServeStep, ExecuteArrives, CancelArrives, CancelWrites, ProveAbsent, Phases
  <2> QED
    BY <2>1, <2>2, <2>3, <2>4 DEF RunnerTypeOK
<1>5. CASE JanitorStep
  <2>1. sweep' \in [stage : {"none", "listed", "proved"}, copy : Receipts] /\ receipt' \in Receipts
    BY <1>1, <1>2, <1>5 DEF RunnerTypeOK, JanitorStep, JanitorLists, JanitorChecks, JanitorWrites
  <2>2. UNCHANGED <<up, memory, task, verdict, cancelled, launches, inbox, call, faults>>
        /\ resources' \in {resources, {}}
    BY <1>5 DEF JanitorStep, JanitorLists, JanitorChecks, JanitorWrites
  <2>3. up' \in BOOLEAN /\ cancelled' \in BOOLEAN
    BY <2>2, Zenon DEF RunnerTypeOK
  <2> QED
    BY <2>1, <2>2, <2>3 DEF RunnerTypeOK
<1>6. CASE RunnerCrash \/ RunnerStart
  <2>1. call' \in [Clients -> [stage : Stages, copy : Receipts]]
    BY <1>2, <1>3, <1>6 DEF RunnerTypeOK, RunnerCrash, RunnerStart
  <2>2. /\ receipt' \in Receipts /\ memory' \in Receipts
        /\ sweep' \in [stage : {"none", "listed", "proved"}, copy : Receipts]
    BY <1>1, <1>2, <1>6 DEF RunnerTypeOK, RunnerCrash, RunnerStart
  <2>3. up' \in BOOLEAN /\ cancelled' \in BOOLEAN
    BY <1>6, Zenon DEF RunnerTypeOK, RunnerCrash, RunnerStart
  <2>4. /\ task' \in Phases /\ verdict' \in ChildOutcomes \cup {"pending"} /\ launches' \in Nat
        /\ resources' \in {resources, {}} /\ inbox' \in {inbox, {}} /\ faults' \in Nat
    BY <1>6 DEF RunnerTypeOK, RunnerCrash, RunnerStart, Fault, Phases
  <2> QED
    BY <2>1, <2>2, <2>3, <2>4 DEF RunnerTypeOK
<1> QED
  BY <1>4, <1>5, <1>6

\* What the owner, the workers and maintenance do to the runner: they start
\* or forget calls, and a claim sends a submission.
LEMMA OthersTouchOnlyCalls ==
    ASSUME TypeOK,
           \/ OwnerStep \/ HeartbeatAges \/ RecoveryStep
           \/ \E c \in Clients : ClientStep(c) \/ Abandon(c)
           \/ \E w \in Workers : WorkerStep(w)
    PROVE /\ UNCHANGED <<up, receipt, memory, task, verdict, cancelled, resources, launches, sweep>>
          /\ UNCHANGED faults \/ Fault
          /\ inbox' \subseteq Clients
          /\ \/ UNCHANGED call
             \/ \E c \in Clients, r \in {NoReceipt, receipt, memory} : SetCall(c, "sent", NoReceipt) \/ SetCall(c, "done", r)
             \/ \E c \in Clients : call' = [call EXCEPT ![c] = Quiet]
<1> USE ExecutionAssumption
<1>1. CASE OwnerStep \/ HeartbeatAges
  BY <1>1 DEF TypeOK, RunnerTypeOK, OwnerStep, RequestExecution, DecideAction, ControlsChange, StartExecution,
     CancelExecution, HeartbeatAges, Arrives, runnerVars, processVars
<1>2. CASE BeginRecovery \/ Requeue
  BY <1>2 DEF TypeOK, RunnerTypeOK, BeginRecovery, Requeue, PutBack, Deliver, Leave,
     Arrives, runnerVars, processVars
<1>3. CASE Prepare
  BY <1>3 DEF TypeOK, RunnerTypeOK, Prepare, PutBack, Deliver, Leave, Arrives, runnerVars, processVars
<1>4. ASSUME NEW c \in Clients, ClientStep(c) \/ Abandon(c)
      PROVE /\ UNCHANGED <<up, receipt, memory, task, verdict, cancelled, resources, launches, sweep>>
            /\ UNCHANGED faults \/ Fault
            /\ UNCHANGED inbox
            /\ \/ UNCHANGED call
               \/ \E r \in {NoReceipt, receipt, memory} : SetCall(c, "sent", NoReceipt) \/ SetCall(c, "done", r)
               \/ call' = [call EXCEPT ![c] = Quiet]
  <2>1. CASE Inspect(c)
    BY <2>1 DEF TypeOK, RunnerTypeOK, Inspect, Leave
  <2>2. CASE CancelAnswered(c)
    BY <2>2 DEF TypeOK, RunnerTypeOK, CancelAnswered, Leave, WatchOn, Arrives
  <2>3. CASE CallFails(c) \/ CompleteReceipt(c) \/ CompleteAbsence(c) \/ Abandon(c)
    BY <2>3 DEF CallFails, CompleteReceipt, CompleteAbsence, Abandon, Leave
  <2> QED
    BY <1>4, <2>1, <2>2, <2>3 DEF ClientStep
<1>5. ASSUME NEW w \in Workers, WorkerStep(w)
      PROVE /\ UNCHANGED <<up, receipt, memory, task, verdict, cancelled, resources, launches, sweep>>
            /\ UNCHANGED faults
            /\ inbox' \in {inbox, inbox \cup {w}}
            /\ \/ UNCHANGED call
               \/ \E r \in {NoReceipt, receipt, memory} : SetCall(w, "sent", NoReceipt) \/ SetCall(w, "done", r)
               \/ call' = [call EXCEPT ![w] = Quiet]
  <2>1. CASE TakeJob(w) \/ SawTheEnd(w)
    BY <2>1 DEF TakeJob, SawTheEnd, runnerVars, processVars
  <2>2. CASE Claim(w)
    BY <2>2 DEF Claim, Leave
  <2>3. CASE RecordProgress(w)
    BY <2>3 DEF RecordProgress, WatchOn
  <2>4. CASE Poll(w)
    BY <2>4 DEF TypeOK, RunnerTypeOK, Poll, Leave
  <2> QED
    BY <1>5, <2>1, <2>2, <2>3, <2>4 DEF WorkerStep
<1>6. Workers \subseteq Clients
  BY ExecutionAssumption
<1>7. inbox \subseteq Clients
  BY DEF TypeOK, RunnerTypeOK
<1>8. CASE \E w \in Workers : WorkerStep(w)
  BY <1>5, <1>6, <1>7, <1>8
<1>9. CASE \E c \in Clients : ClientStep(c) \/ Abandon(c)
  BY <1>4, <1>7, <1>9
<1> QED
  BY <1>1, <1>2, <1>3, <1>8, <1>9 DEF RecoveryStep

-----------------------------------------------------------------------------
(* The inductive invariant.  A copy of the receipt that some handler or      *)
(* client holds must not let the execution start again, nor tell of a        *)
(* success while the run goes on.                                            *)

\* A receipt, or a copy of one, has an outcome exactly when it is terminal, and
\* the outcome is a success only when nothing is left and nothing can start.
Truthful(r) ==
    /\ IsTerminal(r) <=> r.outcome # "pending"
    /\ r.outcome = "succeeded" => task = "none" /\ resources = {} /\ receipt # NoReceipt

Copies == {receipt, memory, sweep.copy} \cup {call[c].copy : c \in Clients}

Started ==
    /\ receipt = NoReceipt => task \in {"none", "claimed"}
    /\ task = "claimed" => receipt = NoReceipt
    /\ (receipt = NoReceipt \/ task \in {"resolving", "creating"}) => launches = 0
    /\ launches <= 1
    /\ task \notin {"none", "claimed"} => memory.outcome = "pending" /\ Underway(memory)
    /\ task = "cleaning" => verdict # "pending"

WritesBack ==
    /\ \A c \in Clients : call[c].stage = "writing" => Underway(call[c].copy) /\ receipt # NoReceipt
    /\ sweep.stage # "none" => Underway(sweep.copy) /\ receipt # NoReceipt

Finishing ==
    \A c \in Clients :
        /\ pc[c] \in {"monitoring", "finishing"} => call[c].stage = "done"
        /\ pc[c] = "finishing" => IsTerminal(call[c].copy)

Authorized ==
    /\ inbox # {} \/ task # "none" \/ launches > 0 \/ receipt # NoReceipt
          => decision \in {"authorized", "blocked"}
    /\ status = "absent" => decision = "none"

Succeeded == status = "succeeded" => task = "none" /\ resources = {} /\ receipt # NoReceipt

RunInv == Started /\ WritesBack /\ \A r \in Copies : Truthful(r)
IInv == TypeOK /\ RunInv /\ Finishing /\ Authorized /\ Succeeded

\* Nothing to tell yet.
LEMMA NothingYet == Truthful(NoReceipt) /\ Truthful(Received) /\ ~Underway(NoReceipt)
  BY DEF Truthful, IsTerminal, NoReceipt, Received, Underway

\* The receipt of a run that ended says so.
LEMMA EndOfRun ==
    ASSUME NEW r \in Receipts, NEW o, NEW b
    PROVE /\ [r EXCEPT !.state = "terminal", !.outcome = o, !.counted = b].outcome = o
          /\ [r EXCEPT !.state = "terminal", !.outcome = o, !.counted = b].state = "terminal"
  BY DEF Receipts

\* A step of the run keeps the invariant of the runner.
LEMMA RunKeeps ==
    ASSUME RunnerTypeOK, RunInv, RunStep
    PROVE RunInv'
<1>1. UNCHANGED <<call, sweep>> /\ task # "none"
  BY DEF RunStep, BeginRun, ResolveRuntime, CreateChild, StartChild, ChildEnds, RunFails, Source, SourceAndChild, Clean,
         CleanUnrecorded, Advance, EnterCleaning, Finish
<1>2. \A r \in Copies : r.outcome # "succeeded"
  BY <1>1 DEF RunInv, Truthful
<1>3. receipt \in Receipts /\ memory \in Receipts /\ receipt' \in Receipts /\ memory' \in Receipts
  BY RunTypes DEF RunnerTypeOK
<1>4. CASE BeginRun
  <2>1. Started'
    BY <1>4 DEF RunInv, Started, BeginRun, Received, NoReceipt, Underway
  <2>2. \A r \in Copies' : r \in Copies \/ r = Received
    BY <1>1, <1>4 DEF Copies, BeginRun
  <2>3. \A r \in Copies' : Truthful(r)'
    BY <1>2, <2>2, NothingYet DEF RunInv, Truthful, Received, NoReceipt, IsTerminal
  <2> QED
    BY <1>1, <1>4, <2>1, <2>3 DEF RunInv, WritesBack, BeginRun, Received, NoReceipt
<1>5. CASE ResolveRuntime \/ CreateChild \/ StartChild \/ ChildEnds \/ RunFails
  <2>1. task \notin {"none", "claimed"} /\ memory.outcome = "pending" /\ Underway(memory)
    BY <1>5 DEF RunInv, Started, ResolveRuntime, CreateChild, StartChild, ChildEnds, RunFails, Source, SourceAndChild
  <2>2. \E m : receipt' = m /\ memory' = m /\ m.outcome = "pending" /\ Underway(m)
    BY <1>3, <1>5, <2>1 DEF ResolveRuntime, CreateChild, StartChild, ChildEnds, RunFails, Source, SourceAndChild, Advance,
       EnterCleaning, Receipts, Underway
  <2>3. receipt' # NoReceipt
    BY <2>2 DEF Underway, NoReceipt
  <2>4. task' \in {"creating", "created", "running", "cleaning"}
        /\ (task' = "creating" => UNCHANGED launches /\ task = "resolving")
        /\ launches' <= 1
        /\ (task' = "cleaning" => verdict' # "pending")
    BY <1>5, RunnerAssumption DEF RunnerTypeOK, RunInv, Started, ResolveRuntime, CreateChild, StartChild,
       ChildEnds, RunFails, Source, SourceAndChild, Advance, EnterCleaning
  <2>5. Started'
    BY <2>2, <2>3, <2>4 DEF RunInv, Started
  <2>6. \A r \in Copies' : r \in Copies \/ (r.outcome = "pending" /\ Underway(r))
    BY <1>1, <2>2 DEF Copies
  <2>7. \A r \in Copies' : Truthful(r)'
    BY <1>2, <2>6 DEF RunInv, Truthful, Underway, IsTerminal
  <2> QED
    BY <1>1, <2>3, <2>5, <2>7 DEF RunInv, WritesBack
<1>6. CASE Clean
  <2>1. task = "cleaning" /\ verdict # "pending"
    BY <1>6 DEF Clean, RunInv, Started
  <2>2. /\ receipt' = memory' /\ IsTerminal(memory') /\ memory'.outcome # "pending"
        /\ memory'.outcome = "succeeded" => resources' = {}
        /\ task' = "none" /\ UNCHANGED launches
    <3>1. PICK r : /\ Finish(r) /\ r.state = "terminal"
                   /\ (r.outcome = verdict /\ resources' = {}) \/ r.outcome = "cleanup_failed"
      <4> DEFINE End(o, b) == [memory EXCEPT !.state = "terminal", !.outcome = o, !.counted = b]
      <4>1. \A o, b : End(o, b).outcome = o /\ End(o, b).state = "terminal"
        BY <1>3, EndOfRun
      <4>2. \E o, b : Finish(End(o, b)) /\ ((o = verdict /\ resources' = {}) \/ o = "cleanup_failed")
        BY <1>6 DEF Clean, OutcomeWithout
      <4> HIDE DEF End
      <4> QED
        BY <4>1, <4>2
    <3> QED
      BY <2>1, <3>1 DEF Finish, Advance, IsTerminal
  <2>3. receipt' # NoReceipt
    BY <2>2 DEF IsTerminal, NoReceipt
  <2>4. Started'
    BY <2>2, <2>3 DEF RunInv, Started
  <2>5. \A r \in Copies' : r \in Copies \/ r = memory'
    BY <1>1, <2>2 DEF Copies
  <2>6. \A r \in Copies' : Truthful(r)'
    BY <1>2, <2>2, <2>3, <2>5 DEF RunInv, Truthful, IsTerminal
  <2> QED
    BY <1>1, <2>3, <2>4, <2>6 DEF RunInv, WritesBack
<1>7. CASE CleanUnrecorded
  <2>1. \A r \in Copies' : r \in Copies \/ r = NoReceipt
    BY <1>1, <1>7 DEF Copies, CleanUnrecorded
  <2>2. \A r \in Copies' : Truthful(r)'
    BY <1>2, <2>1, NothingYet DEF RunInv, Truthful, IsTerminal, NoReceipt
  <2> QED
    BY <1>1, <1>7, <2>2 DEF CleanUnrecorded, RunInv, Started, WritesBack
<1> QED
  BY <1>4, <1>5, <1>6, <1>7 DEF RunStep

\* What calls that are served, the janitor and crashes may change: what they write
\* back is a receipt of a run that began, or tells of its failure.
LEMMA Served ==
    ASSUME RunnerTypeOK, RunInv,
           \/ \E c \in Clients : ServeStep(c)
           \/ JanitorStep \/ RunnerCrash \/ RunnerStart
    PROVE /\ task' \in {task, "none"} \/ (task' = "claimed" /\ task = "none" /\ receipt = NoReceipt)
          /\ resources' \in {resources, {}} /\ UNCHANGED launches
          /\ task' # "none" => UNCHANGED <<memory, verdict>>
          /\ verdict' \in {verdict, "pending"}
          /\ UNCHANGED receipt \/ UNCHANGED task
          /\ receipt' = NoReceipt <=> receipt = NoReceipt
          /\ \A r \in Copies' : \/ r \in Copies \/ r = NoReceipt
                                \/ r.state = "terminal" /\ r.outcome = "infrastructure_failed"
<1>1. /\ task' \in {task, "none"} \/ (task' = "claimed" /\ task = "none" /\ receipt = NoReceipt)
      /\ resources' \in {resources, {}} /\ UNCHANGED launches
      /\ task' # "none" => UNCHANGED <<memory, verdict>>
      /\ verdict' \in {verdict, "pending"}
  BY DEF ServeStep, ExecuteArrives, CancelArrives, CancelWrites, ProveAbsent, JanitorStep, JanitorLists,
         JanitorChecks, JanitorWrites, RunnerCrash, RunnerStart, Unknown
<1>2. receipt \in Receipts /\ sweep.copy \in Receipts
      /\ \A c \in Clients : call[c] \in [stage : Stages, copy : Receipts]
  BY DEF RunnerTypeOK
<1>3. \A r \in Receipts : /\ Reconciled(r).state = "terminal"
                          /\ Reconciled(r).outcome = "infrastructure_failed"
  BY DEF Receipts, Reconciled
<1>4. /\ Quiet.copy = NoReceipt /\ Quiet.stage = "none"
      /\ \A r : [stage |-> "writing", copy |-> r].copy = r
  BY DEF Quiet
<1>5. \/ UNCHANGED receipt
      \/ /\ receipt # NoReceipt /\ UNCHANGED task
         /\ \E r \in Receipts : r \in Copies /\ Underway(r) /\ receipt' \in {r, Reconciled(r)}
  BY <1>2 DEF ServeStep, ExecuteArrives, CancelArrives, CancelWrites, ProveAbsent, JanitorStep, JanitorLists,
         JanitorChecks, JanitorWrites, RunnerCrash, RunnerStart, RunInv, WritesBack, Copies, Underway, NoReceipt
<1>6. receipt' = NoReceipt <=> receipt = NoReceipt
  BY <1>3, <1>5 DEF Underway, NoReceipt
<1>7. \A r \in Copies' : \/ r \in Copies \/ r = NoReceipt
                         \/ r.state = "terminal" /\ r.outcome = "infrastructure_failed"
  <2>1. memory' \in {memory, NoReceipt}
    BY DEF ServeStep, ExecuteArrives, CancelArrives, CancelWrites, ProveAbsent, JanitorStep, JanitorLists,
           JanitorChecks, JanitorWrites, RunnerCrash, RunnerStart
  <2>2. sweep'.copy \in {sweep.copy, receipt, NoReceipt}
    BY <1>4, <1>2 DEF ServeStep, ExecuteArrives, CancelArrives, CancelWrites, ProveAbsent, JanitorStep, JanitorLists,
           JanitorChecks, JanitorWrites, RunnerCrash, RunnerStart, RunnerTypeOK
  <2>3. \A c \in Clients : call'[c].copy \in {call[c].copy, receipt, NoReceipt}
    BY <1>4, <1>2 DEF ServeStep, ExecuteArrives, CancelArrives, CancelWrites, ProveAbsent, JanitorStep, JanitorLists,
           JanitorChecks, JanitorWrites, RunnerCrash, RunnerStart, RunnerTypeOK, SetCall
  <2>4. receipt' \in Copies \/ (receipt'.state = "terminal" /\ receipt'.outcome = "infrastructure_failed")
    BY <1>3, <1>5 DEF Copies
  <2> QED
    BY <2>1, <2>2, <2>3, <2>4 DEF Copies
<1> QED
  BY <1>1, <1>5, <1>6, <1>7

\* Calls that are served, the janitor and crashes keep it too: what they write
\* back is a receipt of a run that began.
LEMMA ServeKeeps ==
    ASSUME RunnerTypeOK, RunInv,
           \/ \E c \in Clients : ServeStep(c)
           \/ JanitorStep \/ RunnerCrash \/ RunnerStart
    PROVE RunInv'
<1>1. RunnerTypeOK /\ \A c \in Clients : call[c] \in [stage : Stages, copy : Receipts]
  BY DEF RunnerTypeOK
<1>2. Quiet.stage = "none"
  BY DEF Quiet
<1>3. Started'
  BY Served DEF RunInv, Started
<1>4. \A r \in Copies' : Truthful(r)'
  <2>1. ASSUME NEW r \in Copies
        PROVE Truthful(r)'
    BY Served, <2>1 DEF RunInv, Truthful, IsTerminal
  <2> QED
    BY Served, <2>1 DEF Truthful, IsTerminal, NoReceipt
<1>5. WritesBack'
  <2>1. \A c \in Clients : call'[c].stage = "writing" =>
           (call'[c].copy = call[c].copy /\ call[c].stage = "writing") \/ (call'[c].copy = receipt /\ Underway(receipt))
    <3>1. ASSUME NEW d \in Clients, NEW k, NEW r, SetCall(d, k, r),
                 k # "writing" \/ (r = receipt /\ Underway(receipt)), NEW c \in Clients,
                 call'[c].stage = "writing"
          PROVE (call'[c].copy = call[c].copy /\ call[c].stage = "writing") \/ (call'[c].copy = receipt /\ Underway(receipt))
      <4>1. call'[c] = IF c = d THEN [stage |-> k, copy |-> r] ELSE call[c]
        BY <3>1, <1>1, Zenon DEF RunnerTypeOK, SetCall
      <4>2. [stage |-> k, copy |-> r].stage = k /\ [stage |-> k, copy |-> r].copy = r
        OBVIOUS
      <4>3. CASE c = d
        BY ONLY <3>1, <4>1, <4>2, <4>3
      <4>4. CASE c # d
        BY ONLY <3>1, <4>1, <4>4
      <4> QED
        BY <4>3, <4>4
    <3>2. ASSUME NEW d \in Clients, ServeStep(d), NEW c \in Clients, call'[c].stage = "writing"
          PROVE (call'[c].copy = call[c].copy /\ call[c].stage = "writing") \/ (call'[c].copy = receipt /\ Underway(receipt))
      <4>1. CASE ExecuteArrives(d)
        BY <3>2, <4>1 DEF ExecuteArrives
      <4>2. CASE CancelArrives(d)
        BY <3>1, <3>2, <4>2 DEF CancelArrives
      <4>3. CASE CancelWrites(d)
        BY <3>1, <3>2, <4>3 DEF CancelWrites
      <4>4. CASE ProveAbsent(d)
        BY <3>1, <3>2, <4>4 DEF ProveAbsent
      <4> QED
        BY <3>2, <4>1, <4>2, <4>3, <4>4 DEF ServeStep
    <3>3. CASE JanitorStep
      BY <3>3 DEF JanitorStep, JanitorLists, JanitorChecks, JanitorWrites
    <3>4. CASE RunnerCrash
      <4>1. \A c \in Clients : call'[c] = call[c] \/ call'[c] = Quiet
        BY <3>4 DEF RunnerCrash
      <4> QED
        BY <1>2, <4>1
    <3>5. CASE RunnerStart
      BY <3>5 DEF RunnerStart
    <3> QED
      BY <3>2, <3>3, <3>4, <3>5
  <2>2. sweep'.stage # "none" =>
           (sweep'.copy = sweep.copy /\ sweep.stage # "none") \/ (sweep'.copy = receipt /\ Underway(receipt))
    <3>1. CASE JanitorStep
      <4>1. CASE JanitorLists
        BY <1>2, <4>1 DEF JanitorLists
      <4>2. CASE JanitorChecks
        BY <1>2, <4>2 DEF JanitorChecks, RunnerTypeOK
      <4>3. CASE JanitorWrites
        BY <1>2, <4>3 DEF JanitorWrites
      <4> QED
        BY <3>1, <4>1, <4>2, <4>3 DEF JanitorStep
    <3>2. CASE RunnerCrash \/ RunnerStart \/ \E c \in Clients : ServeStep(c)
      <4>1. UNCHANGED sweep \/ sweep' = Quiet
        BY <3>2 DEF ServeStep, ExecuteArrives, CancelArrives, CancelWrites, ProveAbsent, RunnerCrash, RunnerStart
      <4> QED
        BY <1>2, <4>1
    <3> QED
      BY <3>1, <3>2
  <2>3. ~Underway(NoReceipt)
    BY NothingYet
  <2> QED
    BY Served, <2>1, <2>2, <2>3 DEF RunInv, WritesBack
<1> QED
  BY <1>3, <1>4, <1>5 DEF RunInv

\* The owner, workers and maintenance keep what the runner relies on.
LEMMA OthersKeep ==
    ASSUME TypeOK, RunInv,
           \/ OwnerStep \/ HeartbeatAges \/ RecoveryStep
           \/ \E c \in Clients : ClientStep(c) \/ Abandon(c)
           \/ \E w \in Workers : WorkerStep(w)
    PROVE RunInv' /\ RunnerTypeOK' /\ Copies' \subseteq Copies \cup {NoReceipt}
<1>1. UNCHANGED <<up, receipt, memory, task, verdict, cancelled, resources, launches, sweep>>
  BY OthersTouchOnlyCalls
<1>2. ASSUME NEW c \in Clients
      PROVE \/ call'[c] = call[c] \/ call'[c] = Quiet \/ call'[c] = [stage |-> "sent", copy |-> NoReceipt]
            \/ \E r \in {NoReceipt, receipt, memory} : call'[c] = [stage |-> "done", copy |-> r]
  BY OthersTouchOnlyCalls DEF SetCall, TypeOK, RunnerTypeOK
<1>3. call' = [c \in Clients |-> call'[c]]
  BY OthersTouchOnlyCalls DEF SetCall, TypeOK, RunnerTypeOK
<1>4. \A r : /\ [stage |-> "sent", copy |-> r].copy = r /\ [stage |-> "sent", copy |-> r].stage = "sent"
             /\ [stage |-> "done", copy |-> r].copy = r /\ [stage |-> "done", copy |-> r].stage = "done"
  OBVIOUS
<1>5. Quiet.copy = NoReceipt /\ Quiet.stage = "none"
  BY DEF Quiet
<1>6. ASSUME NEW c \in Clients
      PROVE /\ call'[c].copy \in {call[c].copy, NoReceipt, receipt, memory}
            /\ call'[c].stage = "writing" => call'[c] = call[c]
  BY ONLY <1>2, <1>4, <1>5, <1>6
<1>7. \A r \in Copies' : r \in Copies \cup {NoReceipt}
  BY <1>1, <1>6 DEF Copies
<1>8. \A r \in Copies' : Truthful(r)'
  BY <1>1, <1>7, NothingYet DEF RunInv, Truthful
<1>9. Started' /\ WritesBack'
  BY <1>1, <1>6 DEF RunInv, Started, WritesBack
<1>10. call' \in [Clients -> [stage : Stages, copy : Receipts]]
  <2>1. Quiet \in [stage : Stages, copy : Receipts] /\ NoReceipt \in Receipts
    BY ReceiptTypes DEF Quiet, Stages
  <2>2. ASSUME NEW c \in Clients
        PROVE call'[c] \in [stage : Stages, copy : Receipts]
    BY <1>2, <2>1 DEF TypeOK, RunnerTypeOK, Stages
  <2> QED
    BY <1>3, <2>2
<1>11. up' \in BOOLEAN /\ cancelled' \in BOOLEAN
  BY <1>1, Zenon DEF TypeOK, RunnerTypeOK
<1>12. inbox' \subseteq Clients /\ faults' \in Nat
  BY OthersTouchOnlyCalls DEF TypeOK, RunnerTypeOK, Fault
<1> QED
  BY <1>1, <1>7, <1>8, <1>9, <1>10, <1>11, <1>12 DEF RunInv, TypeOK, RunnerTypeOK

\* The rows and the clients stay well typed: only terminal receipts are recorded.
LEMMA OwnTypes ==
    ASSUME TypeOK, RunInv, Finishing,
           \/ OwnerStep \/ HeartbeatAges \/ RecoveryStep
           \/ \E c \in Clients : ClientStep(c) \/ Abandon(c)
           \/ \E w \in Workers : WorkerStep(w)
    PROVE TypeOK'
<1> DEFINE Statuses == {"absent", "waiting_approval", "queued"} \cup InFlight \cup Terminal
           Decisions == {"none", "approval_required", "approved", "rejected", "authorized", "blocked"}
<1>1. Workers \subseteq Clients /\ Maintenance \in Clients /\ MaxRecoveries \in Nat /\ 0 \in Jobs
  BY ExecutionAssumption DEF Jobs
<1>2. \A c \in Clients : pc[c] = "finishing" => call[c].copy.outcome \in Outcomes
  BY DEF TypeOK, RunnerTypeOK, RunInv, Finishing, Copies, Truthful, Receipts
<1>3. ASSUME NEW n \in Jobs
      PROVE Put(n) \subseteq Jobs
  BY DEF TypeOK, Put
<1>4. RowGoesBack => recoveries + 1 \in Jobs
  BY <1>1 DEF TypeOK, RowGoesBack, Jobs
<1>5. status' \in Statuses /\ decision' \in Decisions /\ finished' \in Outcomes \cup {"none"}
  BY <1>2 DEF TypeOK, Terminal, InFlight, Outcomes, ChildOutcomes,
     OwnerStep, RequestExecution, DecideAction, ControlsChange, StartExecution, CancelExecution, HeartbeatAges,
     RecoveryStep, BeginRecovery, Prepare, Requeue, PutBack, ClientStep, Inspect, CancelAnswered, CallFails,
     CompleteReceipt, CompleteAbsence, Record, Abandon, WorkerStep, TakeJob, Claim, Authorize, Refuse,
     RecordProgress, Poll, SawTheEnd, rowVars, ownerVars
<1>6. wanted' \in BOOLEAN /\ fresh' \in BOOLEAN /\ allowed' \in BOOLEAN /\ pinned' \in BOOLEAN
  <2>1. /\ UNCHANGED wanted \/ wanted' = TRUE
        /\ UNCHANGED fresh \/ fresh' \in {TRUE, FALSE}
        /\ UNCHANGED allowed \/ allowed' = ~allowed
        /\ UNCHANGED pinned \/ pinned' = FALSE
    BY DEF OwnerStep, RequestExecution, DecideAction, ControlsChange, StartExecution, CancelExecution, HeartbeatAges,
     RecoveryStep, BeginRecovery, Prepare, Requeue, PutBack, ClientStep, Inspect, CancelAnswered, CallFails,
     CompleteReceipt, CompleteAbsence, Record, Abandon, WorkerStep, TakeJob, Claim,
     RecordProgress, Poll, SawTheEnd, rowVars, ownerVars
  <2> QED
    BY <2>1, Zenon DEF TypeOK
<1>7. recoveries' \in Jobs /\ jobs' \subseteq Jobs
  <2>1. CASE OwnerStep \/ HeartbeatAges
    BY <1>1, <1>3, <2>1 DEF TypeOK, OwnerStep, RequestExecution, DecideAction, ControlsChange, StartExecution,
       CancelExecution, HeartbeatAges, Arrives, rowVars, clientVars
  <2>2. CASE RecoveryStep
    BY <1>3, <1>4, <2>2 DEF TypeOK, RecoveryStep, BeginRecovery, Prepare, Requeue, PutBack, Deliver, Arrives, rowVars
  <2>3. ASSUME NEW c \in Clients, ClientStep(c) \/ Abandon(c)
        PROVE recoveries' \in Jobs /\ jobs' \subseteq Jobs
    BY <1>3, <2>3 DEF TypeOK, ClientStep, Inspect, CancelAnswered, CallFails, CompleteReceipt, CompleteAbsence,
       Abandon, Arrives, rowVars
  <2>4. ASSUME NEW w \in Workers, WorkerStep(w)
        PROVE recoveries' \in Jobs /\ jobs' \subseteq Jobs
    BY <2>4 DEF TypeOK, WorkerStep, TakeJob, Claim, RecordProgress, Poll, SawTheEnd, rowVars
  <2> QED
    BY <2>1, <2>2, <2>3, <2>4
<1>8. /\ mine' \in [Clients -> Jobs] /\ pc' \in [Clients -> Activities]
      /\ sent' \in [Clients -> SUBSET {"submission", "cancellation"}]
  <2> USE DEF TypeOK, Activities, Go, Leave
  <2>1. CASE OwnerStep \/ HeartbeatAges
    BY <2>1 DEF OwnerStep, RequestExecution, DecideAction, ControlsChange, StartExecution,
       CancelExecution, HeartbeatAges, clientVars
  <2>2. CASE BeginRecovery \/ Requeue
    BY <1>1, <2>2 DEF BeginRecovery, Requeue, PutBack, Deliver
  <2>3. CASE Prepare
    BY <1>1, <2>3 DEF Prepare, PutBack, Deliver
  <2>4. ASSUME NEW c \in Clients, ClientStep(c) \/ Abandon(c)
        PROVE /\ mine' \in [Clients -> Jobs] /\ pc' \in [Clients -> Activities]
              /\ sent' \in [Clients -> SUBSET {"submission", "cancellation"}]
    <3>1. CASE Inspect(c)
      BY <1>1, <3>1 DEF Inspect
    <3>2. CASE CancelAnswered(c)
      <4>1. AfterCancel(c) \in Activities
        BY <3>2 DEF CancelAnswered, AfterCancel
      <4> QED
        BY <1>1, <3>2, <4>1 DEF CancelAnswered, WatchOn
    <3>3. CASE CallFails(c) \/ CompleteReceipt(c) \/ CompleteAbsence(c) \/ Abandon(c)
      BY <1>1, <3>3 DEF CallFails, CompleteReceipt, CompleteAbsence, Abandon
    <3> QED
      BY <2>4, <3>1, <3>2, <3>3 DEF ClientStep
  <2>5. ASSUME NEW w \in Workers, WorkerStep(w)
        PROVE /\ mine' \in [Clients -> Jobs] /\ pc' \in [Clients -> Activities]
              /\ sent' \in [Clients -> SUBSET {"submission", "cancellation"}]
    <3>1. CASE TakeJob(w) \/ SawTheEnd(w)
      BY <1>1, <2>5, <3>1 DEF TakeJob, SawTheEnd
    <3>2. CASE Claim(w)
      BY <1>1, <2>5, <3>2 DEF Claim
    <3>3. CASE RecordProgress(w) \/ Poll(w)
      BY <1>1, <2>5, <3>3 DEF RecordProgress, Poll, WatchOn
    <3> QED
      BY <2>5, <3>1, <3>2, <3>3 DEF WorkerStep
  <2> QED
    BY <2>1, <2>2, <2>3, <2>4, <2>5 DEF RecoveryStep
<1>9. RunnerTypeOK'
  BY OthersKeep
<1> QED
  BY <1>5, <1>6, <1>7, <1>8, <1>9 DEF TypeOK

\* A client that is about to record an end holds a terminal receipt.
LEMMA FinishingKept ==
    ASSUME TypeOK, Finishing, [Next]_vars
    PROVE Finishing'
<1> USE DEF TypeOK, RunnerTypeOK
<1>1. ASSUME NEW c \in Clients, ClientStep(c) \/ Abandon(c)
      PROVE Finishing'
  <2>1. CASE Inspect(c)
    BY <2>1 DEF Inspect, Finishing, Leave, Go, SetCall
  <2>2. CASE CancelAnswered(c)
    <3>1. AfterCancel(c) = "finishing" => IsTerminal(call[c].copy)
      BY <2>2 DEF CancelAnswered, AfterCancel
    <3> QED
      BY <2>2, <3>1 DEF CancelAnswered, Finishing, Leave, Go, WatchOn, SetCall
  <2>3. CASE CallFails(c) \/ CompleteReceipt(c) \/ CompleteAbsence(c) \/ Abandon(c)
    BY <2>3 DEF CallFails, CompleteReceipt, CompleteAbsence, Abandon, Finishing, Leave, Go
  <2> QED
    BY <1>1, <2>1, <2>2, <2>3 DEF ClientStep
<1>2. ASSUME NEW w \in Workers, WorkerStep(w)
      PROVE Finishing'
  <2>1. w \in Clients
    BY ExecutionAssumption
  <2>2. CASE TakeJob(w)
    BY <2>1, <2>2 DEF TakeJob, Finishing, Go, runnerVars, processVars
  <2>3. CASE SawTheEnd(w)
    <3>1. call[w].stage = "done"
      BY <2>1, <2>3 DEF SawTheEnd, Finishing
    <3> QED
      BY <2>1, <2>3, <3>1 DEF SawTheEnd, Finishing, Go, runnerVars, processVars
  <2>4. CASE Claim(w)
    BY <2>1, <2>4 DEF Claim, Finishing, Go, Leave, SetCall
  <2>5. CASE RecordProgress(w) \/ Poll(w)
    BY <2>1, <2>5 DEF RecordProgress, Poll, Finishing, Go, Leave, WatchOn, SetCall
  <2> QED
    BY <1>2, <2>2, <2>3, <2>4, <2>5 DEF WorkerStep
<1>3. ASSUME UNCHANGED pc, \A c \in Clients : call[c].stage = "done" => call'[c] = call[c]
      PROVE Finishing'
  BY <1>3 DEF Finishing, IsTerminal
<1>4. CASE /\ UNCHANGED <<rowVars, ownerVars, clientVars>>
           /\ RunStep \/ JanitorStep \/ RunnerCrash \/ RunnerStart \/ \E c \in Clients : ServeStep(c)
  <2>1. CASE RunStep \/ JanitorStep \/ RunnerStart
    <3>1. UNCHANGED call
      BY <2>1 DEF RunStep, BeginRun, ResolveRuntime, CreateChild, StartChild, ChildEnds, RunFails, Source, SourceAndChild, Clean,
         CleanUnrecorded, Advance, EnterCleaning, Finish, JanitorStep, JanitorLists, JanitorChecks, JanitorWrites,
         RunnerStart
    <3> QED
      BY <1>3, <1>4, <3>1 DEF clientVars
  <2>2. CASE RunnerCrash
    BY <1>3, <1>4, <2>2 DEF RunnerCrash, clientVars
  <2>3. ASSUME NEW c \in Clients, ServeStep(c)
        PROVE Finishing'
    <3>1. \A d \in Clients : call[d].stage = "done" => call'[d] = call[d]
      BY <2>3 DEF ServeStep, ExecuteArrives, CancelArrives, CancelWrites, ProveAbsent, SetCall
    <3> QED
      BY <1>3, <1>4, <3>1 DEF clientVars
  <2> QED
    BY <1>4, <2>1, <2>2, <2>3
<1>5. CASE OwnerStep \/ HeartbeatAges \/ UNCHANGED vars
  <2>1. UNCHANGED <<pc, call>>
    BY <1>5 DEF OwnerStep, RequestExecution, DecideAction, ControlsChange, StartExecution, CancelExecution,
       HeartbeatAges, clientVars, runnerVars, processVars, vars
  <2> QED
    BY <1>3, <2>1
<1>6. CASE RecoveryStep
  <2>1. Maintenance \in Clients
    BY ExecutionAssumption
  <2>2. CASE BeginRecovery
    BY <2>1, <2>2 DEF BeginRecovery, Finishing, Go, runnerVars, processVars
  <2>3. CASE Requeue
    BY <2>1, <2>3 DEF Requeue, PutBack, Deliver, Finishing, Leave, Go
  <2>4. CASE Prepare
    BY <2>1, <2>4 DEF Prepare, PutBack, Deliver, Finishing, Leave, Go, SetCall
  <2> QED
    BY <1>6, <2>2, <2>3, <2>4 DEF RecoveryStep
<1> QED
  BY <1>1, <1>2, <1>4, <1>5, <1>6, StepCases DEF ServeStep

RunnerMoves == RunStep \/ JanitorStep \/ RunnerCrash \/ RunnerStart \/ \E c \in Clients : ServeStep(c)

\* A run that is over stays over, and one that nobody asked for never begins.
LEMMA OverStaysOver ==
    ASSUME RunnerTypeOK, RunInv, RunnerMoves
    PROVE /\ task = "none" /\ resources = {} /\ receipt # NoReceipt
             => task' = "none" /\ resources' = {} /\ receipt' # NoReceipt
          /\ inbox = {} /\ task = "none" /\ launches = 0 /\ receipt = NoReceipt
             => inbox' = {} /\ task' = "none" /\ launches' = 0 /\ receipt' = NoReceipt
<1>1. CASE RunStep
  BY <1>1 DEF RunStep, BeginRun, ResolveRuntime, CreateChild, StartChild, ChildEnds, RunFails, Source, SourceAndChild, Clean, CleanUnrecorded
<1>2. CASE JanitorStep
  <2>1. Reconciled(sweep.copy).state = "terminal"
    BY DEF RunnerTypeOK, Receipts, Reconciled
  <2> QED
    BY <1>2, <2>1 DEF JanitorStep, JanitorLists, JanitorChecks, JanitorWrites, RunInv, WritesBack, NoReceipt
<1>3. CASE RunnerCrash \/ RunnerStart
  <2>1. Reconciled(receipt).state = "terminal"
    BY DEF RunnerTypeOK, Receipts, Reconciled
  <2> QED
    BY <1>3, <2>1 DEF RunnerCrash, RunnerStart, Underway, NoReceipt
<1>4. ASSUME NEW c \in Clients, ServeStep(c)
      PROVE /\ task = "none" /\ resources = {} /\ receipt # NoReceipt
               => task' = "none" /\ resources' = {} /\ receipt' # NoReceipt
            /\ inbox = {} /\ task = "none" /\ launches = 0 /\ receipt = NoReceipt
               => inbox' = {} /\ task' = "none" /\ launches' = 0 /\ receipt' = NoReceipt
  BY <1>4 DEF ServeStep, ExecuteArrives, CancelArrives, CancelWrites, ProveAbsent, Unknown, RunInv, WritesBack,
     Underway, NoReceipt
<1> QED
  BY <1>1, <1>2, <1>3, <1>4 DEF RunnerMoves

\* The invariant is inductive.
LEMMA Inductive == IInv /\ [Next]_vars => IInv'
<1> SUFFICES ASSUME IInv, [Next]_vars
             PROVE IInv'
  OBVIOUS
<1> USE DEF IInv
<1>1. Finishing'
  BY FinishingKept
<1>2. CASE RunnerMoves /\ UNCHANGED <<rowVars, ownerVars, clientVars>>
  <2>1. RunnerTypeOK' /\ RunInv'
    BY <1>2, RunTypes, ServeTypes, RunKeeps, ServeKeeps DEF RunnerMoves, TypeOK
  <2>2. TypeOK'
    BY <1>2, <2>1 DEF TypeOK, rowVars, ownerVars, clientVars
  <2>3. Authorized'
    <3>1. launches \in Nat /\ launches' \in Nat
      BY <2>1 DEF TypeOK, RunnerTypeOK
    <3> QED
      BY <1>2, <3>1, OverStaysOver DEF Authorized, TypeOK, rowVars, ownerVars
  <2>4. Succeeded'
    BY <1>2, OverStaysOver DEF Succeeded, TypeOK, rowVars
  <2> QED
    BY <1>1, <2>1, <2>2, <2>3, <2>4
<1>3. CASE \/ OwnerStep \/ HeartbeatAges \/ RecoveryStep
           \/ \E c \in Clients : ClientStep(c) \/ Abandon(c)
           \/ \E w \in Workers : WorkerStep(w)
  <2>1. TypeOK' /\ RunInv'
    BY <1>3, OwnTypes, OthersKeep
  <2>2. UNCHANGED <<task, resources, launches, receipt>>
    BY <1>3, OthersTouchOnlyCalls
  <2>3. Authorized'
    <3>1. /\ inbox' # {} => inbox # {} \/ decision' = "authorized"
          /\ decision \in {"authorized", "blocked"} => decision' \in {"authorized", "blocked"} \/ status = "absent"
          /\ status' = "absent" => status = "absent" /\ decision' = decision
      <4> USE DEF Authorized, Terminal, InFlight, Outcomes, ChildOutcomes
      <4>1. CASE OwnerStep \/ HeartbeatAges
        BY <4>1 DEF OwnerStep, RequestExecution, DecideAction, ControlsChange, StartExecution, CancelExecution,
           HeartbeatAges, runnerVars, processVars, rowVars, ownerVars
      <4>2. CASE RecoveryStep
        BY <4>2 DEF RecoveryStep, BeginRecovery, Prepare, Requeue, PutBack, runnerVars, processVars, rowVars, ownerVars
      <4>3. ASSUME NEW c \in Clients, ClientStep(c) \/ Abandon(c)
            PROVE UNCHANGED <<inbox, decision>> /\ (status' = "absent" => status = "absent")
        BY <4>3 DEF ClientStep, Inspect, CancelAnswered, CallFails, CompleteReceipt, CompleteAbsence, Record,
           Abandon, rowVars, ownerVars, TypeOK, RunnerTypeOK, RunInv, Finishing, Receipts
      <4>4. ASSUME NEW w \in Workers, WorkerStep(w)
            PROVE /\ inbox' # {} => inbox # {} \/ decision' = "authorized"
                  /\ decision \in {"authorized", "blocked"} => decision' \in {"authorized", "blocked"}
                  /\ status' = "absent" => status = "absent" /\ decision' = decision
        <5>1. CASE Claim(w)
          BY <5>1 DEF Claim, Authorize, Refuse
        <5>2. CASE ~Claim(w)
          BY <4>4, <5>2 DEF WorkerStep, TakeJob, RecordProgress, Poll, SawTheEnd, runnerVars, processVars,
             rowVars, ownerVars
        <5> QED
          BY <5>1, <5>2
      <4> QED
        BY <1>3, <4>1, <4>2, <4>3, <4>4
    <3> QED
      BY <2>2, <3>1 DEF Authorized
  <2>4. Succeeded'
    <3>1. status' = "succeeded" =>
             status = "succeeded" \/ \E c \in Clients : call[c].copy.outcome = "succeeded"
      <4> USE DEF Terminal, InFlight, Outcomes, ChildOutcomes
      <4>1. CASE OwnerStep \/ HeartbeatAges
        BY <4>1 DEF OwnerStep, RequestExecution, DecideAction, ControlsChange, StartExecution, CancelExecution,
           HeartbeatAges, rowVars
      <4>2. CASE RecoveryStep
        BY <4>2 DEF RecoveryStep, BeginRecovery, Prepare, Requeue, PutBack, rowVars
      <4>3. ASSUME NEW c \in Clients, ClientStep(c) \/ Abandon(c)
            PROVE status' = "succeeded" => status = "succeeded" \/ call[c].copy.outcome = "succeeded"
        BY <4>3 DEF ClientStep, Inspect, CancelAnswered, CallFails, CompleteReceipt, CompleteAbsence, Record,
           Abandon, rowVars
      <4>4. ASSUME NEW w \in Workers, WorkerStep(w)
            PROVE status' = "succeeded" => status = "succeeded"
        BY <4>4 DEF WorkerStep, TakeJob, Claim, RecordProgress, Poll, SawTheEnd, rowVars
      <4> QED
        BY <1>3, <4>1, <4>2, <4>3, <4>4
    <3> QED
      BY <2>2, <3>1 DEF Succeeded, RunInv, Copies, Truthful
  <2> QED
    BY <1>1, <2>1, <2>3, <2>4
<1>4. CASE UNCHANGED vars
  <2>1. TypeOK'
    BY <1>4 DEF TypeOK, RunnerTypeOK, vars, runnerVars, processVars, rowVars, ownerVars, clientVars
  <2>2. RunInv'
    BY <1>4 DEF RunInv, Started, WritesBack, Copies, Truthful, vars, runnerVars, processVars
  <2>3. Authorized' /\ Succeeded'
    BY <1>4 DEF Authorized, Succeeded, vars, runnerVars, processVars, rowVars, ownerVars
  <2> QED
    BY <1>1, <2>1, <2>2, <2>3
<1> QED
  BY <1>2, <1>3, <1>4, StepCases DEF RunnerMoves, ServeStep

LEMMA Initially == Init => IInv
<1> SUFFICES ASSUME Init
             PROVE IInv
  OBVIOUS
<1> USE DEF Init, RunnerInit
<1>1. receipt = NoReceipt /\ memory = NoReceipt /\ sweep = Quiet /\ \A c \in Clients : call[c] = Quiet
  OBVIOUS
<1>2. Quiet.copy = NoReceipt /\ Quiet.stage = "none"
  BY DEF Quiet
<1>3. RunnerTypeOK
  <2>1. /\ Quiet \in [stage : Stages, copy : Receipts] /\ NoReceipt \in Receipts
        /\ Quiet \in [stage : {"none", "listed", "proved"}, copy : Receipts]
    BY ReceiptTypes DEF Quiet, Stages
  <2>2. up \in BOOLEAN /\ cancelled \in BOOLEAN
    BY Zenon
  <2> QED
    BY <1>1, <2>1, <2>2 DEF RunnerTypeOK, Phases
<1>4. TypeOK
  <2>1. wanted \in BOOLEAN /\ fresh \in BOOLEAN /\ allowed \in BOOLEAN /\ pinned \in BOOLEAN
    BY Zenon
  <2> QED
    BY <1>3, <2>1, ExecutionAssumption DEF TypeOK, Jobs, Activities
<1>5. RunInv
  <2>1. Started
    BY DEF Started
  <2>2. WritesBack
    BY <1>1, <1>2 DEF WritesBack
  <2>3. \A r \in Copies : Truthful(r)
    BY <1>1, <1>2, NothingYet DEF Copies
  <2> QED
    BY <2>1, <2>2, <2>3 DEF RunInv
<1> QED
  <2>1. Finishing
    BY DEF Finishing
  <2>2. Authorized /\ Succeeded
    BY DEF Authorized, Succeeded
  <2> QED
    BY <1>4, <1>5, <2>1, <2>2 DEF IInv

\* The variables of the execution, the runner and the clients stay well typed.
THEOREM TypeCorrect == Spec => []TypeOK
<1>1. IInv => TypeOK
  BY DEF IInv
<1> QED
  BY <1>1, Initially, Inductive, PTL DEF Spec

\* No execution creates a second child, for any number of workers, recoveries
\* and faults.
THEOREM OneLaunch == Spec => []LaunchedOnce
<1>1. IInv => LaunchedOnce
  BY DEF IInv, RunInv, Started, LaunchedOnce
<1> QED
  BY <1>1, Initially, Inductive, PTL DEF Spec

\* No child is created that the owner and governance did not authorize.
THEOREM LaunchesAreAuthorized == Spec => []LaunchIsAuthorized
<1>1. IInv => LaunchIsAuthorized
  BY DEF IInv, Authorized, LaunchIsAuthorized, TypeOK, RunnerTypeOK
<1> QED
  BY <1>1, Initially, Inductive, PTL DEF Spec

\* A recorded success leaves nothing in the engine, and nothing starts after it.
THEOREM SuccessIsClean == Spec => []SuccessLeavesNothing
<1>1. IInv => SuccessLeavesNothing
  BY DEF IInv, Succeeded, SuccessLeavesNothing, Active
<1> QED
  BY <1>1, Initially, Inductive, PTL DEF Spec

-----------------------------------------------------------------------------
(* The execution implements GovernedExecution.                               *)

\* Where a run has its child, and wherever a success is told, the code was started.
Ran ==
    /\ task \in {"created", "running"} => launches = 1
    /\ verdict = "succeeded" => launches = 1
    /\ \A r \in Copies : r.outcome = "succeeded" => launches = 1

\* An execution that was refused at the request never reaches the runner.
Refused ==
    status = "rejected" => /\ decision = "blocked"
                           /\ inbox = {} /\ task = "none" /\ launches = 0 /\ receipt = NoReceipt

PromiseInv == IInv /\ Ran /\ Refused

\* A run has its verdict from its child, and its last receipt from its verdict.
LEMMA RunRan ==
    ASSUME RunnerTypeOK, RunInv, Ran, RunStep
    PROVE Ran'
<1>1. UNCHANGED <<call, sweep>> /\ task # "none"
  BY DEF RunStep, BeginRun, ResolveRuntime, CreateChild, StartChild, ChildEnds, RunFails, Clean,
         CleanUnrecorded, Advance, EnterCleaning, Finish
<1>2. launches = 1 => launches' = 1
  <2>1. launches \in Nat /\ launches' \in {launches, launches + 1}
    BY DEF RunnerTypeOK, RunStep, BeginRun, ResolveRuntime, CreateChild, StartChild, ChildEnds, RunFails, Clean,
           CleanUnrecorded, Finish
  <2>2. launches' <= 1
    BY RunKeeps DEF RunInv, Started
  <2> QED BY <2>1, <2>2
<1>3. \A r \in Copies : r.outcome # "succeeded"
  BY <1>1 DEF RunInv, Truthful
<1>4. task' \in {"created", "running"} => launches' = 1
  <2>1. CASE CreateChild
    BY <2>1 DEF CreateChild, Advance, EnterCleaning, RunInv, Started
  <2>2. CASE StartChild
    BY <1>2, <2>2 DEF StartChild, Advance, EnterCleaning, Ran
  <2>3. CASE ~CreateChild /\ ~StartChild
    BY <2>3 DEF RunStep, BeginRun, ResolveRuntime, ChildEnds, RunFails, Clean,
       CleanUnrecorded, Advance, EnterCleaning, Finish
  <2> QED BY <2>1, <2>2, <2>3
<1>5. verdict' = "succeeded" => launches' = 1
  BY <1>2 DEF RunStep, BeginRun, ResolveRuntime, CreateChild, StartChild, ChildEnds, RunFails, Clean,
         CleanUnrecorded, Advance, EnterCleaning, Finish, Ran
<1>6. \A r \in Copies' : r.outcome = "succeeded" => launches' = 1
  <2>1. memory \in Receipts /\ (task # "claimed" => memory.outcome = "pending")
    BY <1>1 DEF RunnerTypeOK, RunInv, Started
  <2>2. receipt' \in {receipt, memory'}
    BY DEF RunStep, BeginRun, ResolveRuntime, CreateChild, StartChild, ChildEnds, RunFails, Clean,
           CleanUnrecorded, Advance, EnterCleaning, Finish
  <2>3. memory'.outcome = "succeeded" => launches' = 1
    <3>1. CASE Clean
      <4>1. \A o, b : [memory EXCEPT !.state = "terminal", !.outcome = o, !.counted = b].outcome = o
        BY <2>1, EndOfRun
      <4>2. memory'.outcome \in {verdict, "cleanup_failed"} /\ UNCHANGED launches
        BY <3>1, <4>1 DEF Clean, OutcomeWithout, Finish, Advance
      <4> QED BY <4>2 DEF Ran
    <3>2. CASE ~Clean
      <4>1. memory'.outcome = "pending"
        <5>1. CASE BeginRun \/ CleanUnrecorded
          BY <5>1 DEF BeginRun, CleanUnrecorded, Received, NoReceipt
        <5>2. CASE ResolveRuntime \/ CreateChild \/ StartChild \/ ChildEnds \/ RunFails
          <6>1. task # "claimed"
            BY <5>2 DEF ResolveRuntime, CreateChild, StartChild, ChildEnds, RunFails
          <6>2. memory'.outcome = memory.outcome
            BY <2>1, <5>2 DEF ResolveRuntime, CreateChild, StartChild, ChildEnds, RunFails, Advance,
               EnterCleaning, Receipts
          <6> QED BY <2>1, <6>1, <6>2
        <5> QED BY <3>2, <5>1, <5>2 DEF RunStep
      <4> QED BY <4>1
    <3> QED BY <3>1, <3>2
  <2>4. \A r \in Copies' : r \in Copies \/ r = memory'
    BY <1>1, <2>2 DEF Copies
  <2> QED BY <1>3, <2>3, <2>4
<1> QED BY <1>4, <1>5, <1>6 DEF Ran

\* Calls, the janitor and crashes start nothing and tell of no success.
LEMMA ServedRan ==
    ASSUME RunnerTypeOK, RunInv, Ran,
           \/ \E c \in Clients : ServeStep(c)
           \/ JanitorStep \/ RunnerCrash \/ RunnerStart
    PROVE Ran'
  BY Served DEF Ran, NoReceipt

LEMMA RanHolds ==
    ASSUME IInv, Ran, [Next]_vars
    PROVE Ran'
<1>1. CASE RunnerMoves
  BY <1>1, RunRan, ServedRan DEF RunnerMoves, IInv, TypeOK
<1>2. CASE \/ OwnerStep \/ HeartbeatAges \/ RecoveryStep
           \/ \E c \in Clients : ClientStep(c) \/ Abandon(c)
           \/ \E w \in Workers : WorkerStep(w)
  BY <1>2, OthersTouchOnlyCalls, OthersKeep DEF IInv, Ran, NoReceipt
<1>3. CASE UNCHANGED vars
  BY <1>3 DEF Ran, Copies, vars, runnerVars, processVars
<1> QED BY <1>1, <1>2, <1>3, StepCases DEF RunnerMoves, ServeStep

\* What the owner, workers and maintenance do to the row and to the action: a request, a
\* decision or its recheck, or an end that is recorded once.
LEMMA RowMoves ==
    ASSUME IInv,
           \/ OwnerStep \/ HeartbeatAges \/ RecoveryStep
           \/ \E c \in Clients : ClientStep(c) \/ Abandon(c)
           \/ \E w \in Workers : WorkerStep(w)
    PROVE \/ RequestExecution
          \/ /\ UNCHANGED finished
             /\ status' = status \/ (status \notin Terminal /\ status' \notin Terminal)
             /\ \/ UNCHANGED decision
                \/ /\ decision \notin {"authorized", "blocked"}
                   /\ decision' \in {"approved", "rejected", "authorized"}
                \/ decision = "authorized" /\ decision' = "blocked" /\ status \notin Terminal
          \/ /\ UNCHANGED decision /\ status \notin Terminal
             /\ \E o \in Outcomes :
                   /\ status' = o /\ finished' = o
                   /\ o = "succeeded" => \E c \in Clients : call[c].copy.outcome = "succeeded"
<1> USE DEF IInv, Terminal, InFlight, Outcomes, ChildOutcomes
<1>1. CASE OwnerStep
  BY <1>1 DEF OwnerStep, DecideAction, ControlsChange, StartExecution, CancelExecution, rowVars, ownerVars
<1>2. CASE HeartbeatAges \/ RecoveryStep
  BY <1>2 DEF HeartbeatAges, RecoveryStep, BeginRecovery, Prepare, Requeue, PutBack, RowGoesBack,
     rowVars, ownerVars
<1>3. ASSUME NEW c \in Clients, ClientStep(c) \/ Abandon(c)
      PROVE  /\ UNCHANGED decision
             /\ \/ UNCHANGED <<status, finished>>
                \/ /\ status \notin Terminal
                   /\ \E o \in Outcomes : /\ status' = o /\ finished' = o
                                          /\ o = "succeeded" => call[c].copy.outcome = "succeeded"
  <2>1. CASE CompleteReceipt(c)
    <3>1. call[c].copy.outcome \in Outcomes
      BY <2>1 DEF CompleteReceipt, TypeOK, RunnerTypeOK, RunInv, Finishing, Copies, Truthful, Receipts
    <3> QED BY <2>1, <3>1 DEF CompleteReceipt, Record, ownerVars
  <2>2. CASE CompleteAbsence(c)
    BY <2>2 DEF CompleteAbsence, Record, ownerVars
  <2>3. CASE Inspect(c) \/ CancelAnswered(c) \/ CallFails(c) \/ Abandon(c)
    BY <2>3 DEF Inspect, CancelAnswered, CallFails, Abandon, rowVars, ownerVars
  <2> QED BY <1>3, <2>1, <2>2, <2>3 DEF ClientStep
<1>4. ASSUME NEW w \in Workers, WorkerStep(w)
      PROVE  /\ UNCHANGED finished
             /\ status' = status \/ (status \notin Terminal /\ status' \notin Terminal)
             /\ \/ UNCHANGED decision
                \/ decision \notin {"authorized", "blocked"} /\ decision' = "authorized"
                \/ decision = "authorized" /\ decision' = "blocked" /\ status \notin Terminal
  <2>1. CASE Claim(w)
    BY <2>1 DEF Claim, Authorize, Refuse
  <2>2. CASE ~Claim(w)
    BY <1>4, <2>2 DEF WorkerStep, TakeJob, RecordProgress, Poll, SawTheEnd, rowVars, ownerVars
  <2> QED BY <2>1, <2>2
<1>5. CASE \E c \in Clients : ClientStep(c) \/ Abandon(c)
  BY <1>3, <1>5
<1>6. CASE \E w \in Workers : WorkerStep(w)
  BY <1>4, <1>6
<1> QED BY <1>1, <1>2, <1>5, <1>6

\* A worker does not submit, and nothing is decided, for a refused execution.
LEMMA RefusedHolds ==
    ASSUME IInv, Refused, [Next]_vars
    PROVE Refused'
<1>1. CASE RunnerMoves /\ UNCHANGED <<rowVars, ownerVars, clientVars>>
  BY <1>1, OverStaysOver DEF IInv, TypeOK, Refused, rowVars, ownerVars
<1>2. CASE \/ OwnerStep \/ HeartbeatAges \/ RecoveryStep
           \/ \E c \in Clients : ClientStep(c) \/ Abandon(c)
           \/ \E w \in Workers : WorkerStep(w)
  <2>1. UNCHANGED <<task, launches, receipt>>
    BY <1>2, OthersTouchOnlyCalls DEF IInv
  <2>2. CASE RequestExecution
    <3>1. inbox = {} /\ task = "none" /\ receipt = NoReceipt /\ ~(launches > 0)
      BY <2>2 DEF RequestExecution, IInv, Authorized
    <3>2. launches = 0
      BY <3>1 DEF IInv, TypeOK, RunnerTypeOK
    <3>3. inbox' = inbox /\ (status' = "rejected" => decision' = "blocked")
      BY <2>2 DEF RequestExecution, runnerVars, processVars
    <3> QED BY <2>1, <3>1, <3>2, <3>3 DEF Refused
  <2>3. CASE ~RequestExecution /\ status' = "rejected"
    <3>1. status = "rejected" /\ decision' = decision
      BY <1>2, <2>3, RowMoves DEF Refused, Terminal, Outcomes, ChildOutcomes
    <3>2. UNCHANGED inbox
      <4>1. CASE OwnerStep \/ HeartbeatAges
        BY <4>1 DEF OwnerStep, RequestExecution, DecideAction, ControlsChange, StartExecution,
           CancelExecution, HeartbeatAges, runnerVars, processVars
      <4>2. CASE RecoveryStep
        BY <4>2 DEF RecoveryStep, BeginRecovery, Prepare, Requeue, runnerVars, processVars
      <4>3. ASSUME NEW c \in Clients, ClientStep(c) \/ Abandon(c) PROVE UNCHANGED inbox
        BY <4>3 DEF ClientStep, Inspect, CancelAnswered, CallFails, CompleteReceipt, CompleteAbsence, Abandon
      <4>4. ASSUME NEW w \in Workers, WorkerStep(w) PROVE UNCHANGED inbox
        BY <3>1, <4>4 DEF WorkerStep, TakeJob, Claim, RecordProgress, Poll, SawTheEnd, Terminal,
           runnerVars, processVars
      <4> QED BY <1>2, <4>1, <4>2, <4>3, <4>4
    <3> QED BY <2>1, <3>1, <3>2 DEF Refused
  <2> QED BY <2>2, <2>3 DEF Refused
<1>3. CASE UNCHANGED vars
  BY <1>3 DEF Refused, vars, runnerVars, processVars, rowVars, ownerVars
<1> QED BY <1>1, <1>2, <1>3, StepCases DEF RunnerMoves, ServeStep

\* A step of the run begins it, launches its child, ends it, or none of these.
LEMMA RunPhases ==
    ASSUME RunnerTypeOK, RunInv, RunStep
    PROVE /\ task # "none" /\ receipt' # NoReceipt
          /\ receipt = NoReceipt => task = "claimed" /\ task' = "resolving"
          /\ \/ UNCHANGED launches
             \/ /\ receipt # NoReceipt /\ task' = "created"
                /\ launches = 0 /\ launches' = 1
<1>1. task # "none" /\ (receipt = NoReceipt => BeginRun)
  BY DEF RunStep, BeginRun, ResolveRuntime, CreateChild, StartChild, ChildEnds, RunFails, Clean,
         CleanUnrecorded, RunInv, Started
<1>2. receipt' # NoReceipt
  <2>1. CASE CleanUnrecorded
    BY <2>1 DEF CleanUnrecorded, RunInv, Started
  <2>2. CASE Clean
    <3> DEFINE Ended(o, b) == [memory EXCEPT !.state = "terminal", !.outcome = o, !.counted = b]
    <3>1. \A o, b : Ended(o, b).state = "terminal"
      BY EndOfRun DEF RunnerTypeOK
    <3>2. \E o, b : receipt' = Ended(o, b)
      BY <2>2 DEF Clean, Finish, Advance
    <3> HIDE DEF Ended
    <3> QED BY <3>1, <3>2 DEF NoReceipt
  <2>3. CASE ~Clean /\ ~CleanUnrecorded
    <3>1. task' \notin {"none", "claimed"}
      BY <2>3 DEF RunStep, BeginRun, ResolveRuntime, CreateChild, StartChild, ChildEnds, RunFails,
         Advance, EnterCleaning
    <3> QED BY <3>1, RunKeeps DEF RunInv, Started
  <2> QED BY <2>1, <2>2, <2>3
<1>3. \/ UNCHANGED launches
      \/ receipt # NoReceipt /\ task' = "created" /\ launches = 0 /\ launches' = 1
  <2>1. CASE CreateChild
    BY <2>1 DEF CreateChild, EnterCleaning, Advance, RunInv, Started
  <2>2. CASE ~CreateChild
    BY <2>2 DEF RunStep, BeginRun, ResolveRuntime, StartChild, ChildEnds, RunFails, Clean,
       CleanUnrecorded, Finish
  <2> QED BY <2>1, <2>2
<1> QED BY <1>1, <1>2, <1>3 DEF BeginRun

\* The runner's steps, while the row and the action stay as they are.
LEMMA RunnerRefines ==
    ASSUME PromiseInv, RunnerMoves, UNCHANGED <<rowVars, ownerVars, clientVars>>
    PROVE [Promise!Next]_(Promise!vars)
<1> USE DEF PromiseInv, IInv, TypeOK
<1>1. UNCHANGED <<Granted, OutcomeOfRow, finished>>
  BY DEF Granted, OutcomeOfRow, rowVars, ownerVars
<1>2. ASSUME UNCHANGED <<PhaseOfRun, launches>> PROVE [Promise!Next]_(Promise!vars)
  BY <1>1, <1>2 DEF Promise!vars
<1>3. CASE receipt = NoReceipt
  <2>1. CASE RunStep
    <3>1. UNCHANGED launches /\ PhaseOfRun = "none" /\ PhaseOfRun' = "underway" /\ task = "claimed"
      BY <1>3, <2>1, RunPhases DEF PhaseOfRun
    <3>2. Granted
      BY <3>1 DEF Granted, Authorized, Refused
    <3> QED BY <1>1, <3>1, <3>2 DEF Promise!Begin, Promise!Next
  <2>2. CASE ~RunStep
    BY <1>2, <1>3, <2>2, Served DEF RunnerMoves, PhaseOfRun
  <2> QED BY <2>1, <2>2
<1>4. CASE PhaseOfRun = "over"
  <2>1. task = "none" /\ resources = {} /\ receipt # NoReceipt
    BY <1>4 DEF PhaseOfRun
  <2>2. PhaseOfRun' = "over"
    BY <2>1, OverStaysOver DEF PhaseOfRun
  <2>3. UNCHANGED launches
    BY <2>1, RunPhases, Served DEF RunnerMoves
  <2> QED BY <1>2, <1>4, <2>2, <2>3
<1>5. CASE receipt # NoReceipt /\ PhaseOfRun = "underway"
  <2>1. PhaseOfRun' \in {"underway", "over"}
    BY <1>5, RunPhases, Served DEF RunnerMoves, PhaseOfRun
  <2>2. CASE UNCHANGED launches
    BY <1>1, <1>2, <1>5, <2>1, <2>2 DEF Promise!End, Promise!Next
  <2>3. CASE launches' # launches
    <3>1. launches = 0 /\ launches' = 1 /\ PhaseOfRun' = "underway"
      BY <2>3, RunPhases, Served DEF RunnerMoves, PhaseOfRun
    <3> QED BY <1>1, <1>5, <3>1 DEF Promise!Launch, Promise!Next
  <2> QED BY <2>2, <2>3
<1> QED BY <1>3, <1>4, <1>5 DEF PhaseOfRun

\* The others' steps, while the run stays as it is.
LEMMA RowRefines ==
    ASSUME PromiseInv,
           \/ OwnerStep \/ HeartbeatAges \/ RecoveryStep
           \/ \E c \in Clients : ClientStep(c) \/ Abandon(c)
           \/ \E w \in Workers : WorkerStep(w)
    PROVE [Promise!Next]_(Promise!vars)
<1> USE DEF PromiseInv
<1>1. UNCHANGED <<receipt, task, resources, launches>>
  BY OthersTouchOnlyCalls DEF IInv
<1>2. UNCHANGED <<PhaseOfRun, launches>>
  BY <1>1 DEF PhaseOfRun
<1>3. CASE RequestExecution
  <2>1. decision = "none" /\ status = "absent" /\ UNCHANGED finished
    BY <1>3 DEF RequestExecution, IInv, Authorized
  <2>2. receipt = NoReceipt
    BY <2>1 DEF IInv, Authorized
  <2>3. Granted = FALSE /\ OutcomeOfRow = "open" /\ PhaseOfRun = "none"
    BY <2>1, <2>2 DEF Granted, OutcomeOfRow, PhaseOfRun, Terminal, Outcomes, ChildOutcomes
  <2>4. CASE status' = "rejected" /\ decision' = "blocked"
    <3>1. Granted' = FALSE /\ OutcomeOfRow' = "rejected"
      BY <2>4 DEF Granted, OutcomeOfRow, Terminal
    <3> QED BY <1>2, <2>1, <2>3, <3>1 DEF Promise!Reject, Promise!Next
  <2>5. CASE status' = "waiting_approval" /\ decision' = "approval_required"
    <3>1. Granted' = FALSE /\ OutcomeOfRow' = "open"
      BY <2>5 DEF Granted, OutcomeOfRow, Terminal, Outcomes, ChildOutcomes
    <3> QED BY <1>2, <2>1, <2>3, <3>1 DEF Promise!vars
  <2> QED BY <1>3, <2>4, <2>5 DEF RequestExecution
<1>4. CASE /\ UNCHANGED finished
           /\ status' = status \/ (status \notin Terminal /\ status' \notin Terminal)
           /\ \/ UNCHANGED decision
              \/ /\ decision \notin {"authorized", "blocked"}
                 /\ decision' \in {"approved", "rejected", "authorized"}
              \/ decision = "authorized" /\ decision' = "blocked" /\ status \notin Terminal
  <2>1. UNCHANGED OutcomeOfRow /\ (status' = "rejected" <=> status = "rejected")
    BY <1>4 DEF OutcomeOfRow, Terminal
  <2>2. CASE UNCHANGED Granted
    BY <1>2, <1>4, <2>1, <2>2 DEF Promise!vars
  <2>3. CASE Granted' # Granted
    <3>1. ~Granted /\ Granted' = TRUE /\ status # "rejected"
      BY <1>4, <2>1, <2>3 DEF Granted, Refused, Terminal
    <3>2. OutcomeOfRow # "rejected"
      BY <3>1 DEF OutcomeOfRow
    <3> QED BY <1>2, <1>4, <2>1, <3>1, <3>2 DEF Promise!Grant, Promise!Next
  <2> QED BY <2>2, <2>3
<1>5. CASE /\ UNCHANGED decision /\ status \notin Terminal
           /\ \E o \in Outcomes :
                 /\ status' = o /\ finished' = o
                 /\ o = "succeeded" => \E c \in Clients : call[c].copy.outcome = "succeeded"
  <2>1. PICK o \in Outcomes : /\ status' = o /\ finished' = o
                              /\ o = "succeeded" => \E c \in Clients : call[c].copy.outcome = "succeeded"
    BY <1>5
  <2>2. OutcomeOfRow = "open" /\ OutcomeOfRow' = o
    BY <1>5, <2>1 DEF OutcomeOfRow, Terminal
  <2>3. UNCHANGED Granted
    BY <1>5, <2>1 DEF Granted, Terminal, Outcomes, ChildOutcomes
  <2>4. o = "succeeded" => PhaseOfRun = "over" /\ launches = 1
    BY <2>1 DEF IInv, RunInv, Copies, Truthful, Ran, PhaseOfRun
  <2>5. Promise!Tell(o)
    BY <1>2, <2>1, <2>2, <2>3, <2>4 DEF Promise!Tell
  <2> QED BY <2>5 DEF Promise!Next
<1> QED BY <1>3, <1>4, <1>5, RowMoves

\* Every execution is one of GovernedExecution: whatever is replayed, revoked, cancelled,
\* reconciled, recovered or lost on the way, the steps of all that take part in it add up
\* to one grant, one run, one launch and one outcome.
THEOREM OneGovernedExecution == Spec => ImplementsGovernedExecution
<1>1. Init => PromiseInv
  <2>1. ASSUME Init PROVE Ran /\ Refused
    BY <2>1 DEF Init, RunnerInit, Ran, Refused, Copies, NoReceipt, Quiet
  <2> QED BY <2>1, Initially DEF PromiseInv
<1>2. PromiseInv /\ [Next]_vars => PromiseInv'
  BY Inductive, RanHolds, RefusedHolds DEF PromiseInv
<1>3. Init => Promise!Init
  BY DEF Init, RunnerInit, Promise!Init, Granted, PhaseOfRun, OutcomeOfRow, Terminal, Outcomes,
         ChildOutcomes
<1>4. PromiseInv /\ [Next]_vars => [Promise!Next]_(Promise!vars)
  <2>1. ASSUME UNCHANGED vars PROVE UNCHANGED Promise!vars
    BY <2>1 DEF Promise!vars, Granted, PhaseOfRun, OutcomeOfRow, vars, runnerVars, processVars,
       rowVars, ownerVars
  <2> QED BY <2>1, RunnerRefines, RowRefines, StepCases DEF RunnerMoves, ServeStep
<1> QED BY <1>1, <1>2, <1>3, <1>4, PTL DEF Spec, Promise!Spec, ImplementsGovernedExecution
=============================================================================
