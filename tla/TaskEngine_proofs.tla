-------------------------- MODULE TaskEngine_proofs --------------------------
(***************************************************************************)
(* Theorems about the task ledger (TaskEngine), the search for cycles      *)
(* (CycleSearch) and the ledger's use of the bus (TaskOutbox), for any     *)
(* sets of tasks, keys, errors, retry limits and dispatchers.              *)
(***************************************************************************)
EXTENDS TaskOutbox, CycleSearch, FiniteSetTheorems, SequenceTheorems, TLAPS

Inputs == Errors \cup {NoError}

\* Every transition of the table leads to a task status.
LEMMA TransitionsStayInStatus ==
    ASSUME NEW s \in TaskStatus, NEW r \in Transitions[s]
    PROVE  r \in TaskStatus
BY DEF TaskStatus, Transitions

\* A completion comes from "running", a failure from "running" or
\* "waiting_approval", so both payloads are well formed.
LEMMA PublishingSources ==
    ASSUME NEW s \in TaskStatus
    PROVE  /\ "completed" \in Transitions[s] => s = "running"
           /\ "failed" \in Transitions[s] => s \in {"running", "waiting_approval"}
           /\ "draft" \notin Transitions[s]
BY DEF TaskStatus, Transitions

\* Reachable states are well typed: each command writes values of its columns.
THEOREM TypeCorrect == Spec => []TypeOK
<1>1. Init => TypeOK
  BY TaskEngineAssumption DEF Init, TypeOK, EventIds
<1>2. TypeOK /\ [Next]_vars => TypeOK'
  <2> SUFFICES ASSUME TypeOK, [Next]_vars PROVE TypeOK'
    OBVIOUS
  <2> USE DEF TypeOK
  <2>1. ASSUME NEW t \in Tasks, NEW limit \in RetryLimits, Create(t, limit)
        PROVE  TypeOK'
    BY <2>1, TaskEngineAssumption DEF Create, TaskStatus
  <2>2. ASSUME NEW t \in Tasks, NEW d \in Tasks, AddDependency(t, d)
        PROVE  TypeOK'
    BY <2>2 DEF AddDependency
  <2>3. ASSUME NEW t \in Tasks, NEW s \in TaskStatus, NEW e \in Inputs,
               Transition(t, s, e)
        PROVE  TypeOK'
    <3>1. status[t] \in TaskStatus
      BY <2>3 DEF Transition
    <3>2. domainEvent' \in [EventIds -> Payloads \cup {NoEvent}]
      <4>1. CASE s = "completed"
        <5>1. status[t] = "running"
          BY <2>3, <4>1, <3>1, PublishingSources DEF Transition
        <5>2. [previous |-> status[t], error |-> NoError] \in Payloads
          BY <5>1 DEF Payloads
        <5>3. Publish(<<t, "task.completed">>, [previous |-> status[t], error |-> NoError])
          BY <2>3, <4>1 DEF Transition
        <5> QED BY <5>2, <5>3 DEF Publish
      <4>2. CASE s = "failed"
        <5>1. status[t] \in {"running", "waiting_approval"}
          BY <2>3, <4>2, <3>1, PublishingSources DEF Transition
        <5>2. [previous |-> status[t], error |-> e] \in Payloads
          BY <5>1 DEF Payloads, Inputs
        <5>3. Publish(<<t, "task.failed">>, [previous |-> status[t], error |-> e])
          BY <2>3, <4>2 DEF Transition
        <5> QED BY <5>2, <5>3 DEF Publish
      <4>3. CASE s \notin {"completed", "failed"}
        BY <2>3, <4>3 DEF Transition
      <4> QED BY <4>1, <4>2, <4>3
    <3> QED BY <2>3, <3>2 DEF Transition, Inputs
  <2>4. ASSUME NEW t \in Tasks, NEW key \in RetryKeys, Retry(t, key)
        PROVE  TypeOK'
    BY <2>4 DEF Retry, TaskStatus
  <2>5. CASE UNCHANGED vars
    BY <2>5 DEF vars, taskVars
  <2> QED BY <2>1, <2>2, <2>3, <2>4, <2>5 DEF Next, Inputs
<1> QED BY <1>1, <1>2, PTL DEF Spec

-----------------------------------------------------------------------------
(* Dependency gates. *)

\* A started task rests on completed dependencies.  The invariant is inductive
\* by itself: "completed" is never left, edges are added only to tasks that
\* have not started, and every way into Started passes the gate or comes from
\* a state that is already in Started.
THEOREM GatesHold == Spec => []StartedOnCompletedDependencies
<1>1. Init => StartedOnCompletedDependencies
  BY DEF Init, StartedOnCompletedDependencies, Started
<1>2. TypeOK /\ StartedOnCompletedDependencies /\ [Next]_vars
         => StartedOnCompletedDependencies'
  <2> SUFFICES ASSUME TypeOK, StartedOnCompletedDependencies, [Next]_vars,
                      NEW u \in Tasks, status'[u] \in Started,
                      NEW v \in Tasks, <<u, v>> \in depends'
               PROVE  status'[v] = "completed"
    BY DEF StartedOnCompletedDependencies, DependenciesComplete
  <2>0. ASSUME status[u] \in Started, <<u, v>> \in depends
        PROVE  status[v] = "completed"
    BY <2>0 DEF StartedOnCompletedDependencies, DependenciesComplete
  <2>1. ASSUME NEW t \in Tasks, NEW limit \in RetryLimits, Create(t, limit)
        PROVE  status'[v] = "completed"
    BY <2>0, <2>1 DEF Create, TypeOK, Started
  <2>2. ASSUME NEW t \in Tasks, NEW d \in Tasks, AddDependency(t, d)
        PROVE  status'[v] = "completed"
    BY <2>0, <2>2 DEF AddDependency, DependencyMutableStates, Started
  <2>3. ASSUME NEW t \in Tasks, NEW s \in TaskStatus, NEW e \in Inputs,
               Transition(t, s, e)
        PROVE  status'[v] = "completed"
    <3>1. status[v] = "completed"
      <4>1. CASE u # t
        BY <2>0, <2>3, <4>1 DEF Transition, TypeOK
      <4>2. CASE u = t /\ s \in DependencyGatedStates
        BY <2>3, <4>2 DEF Transition, DependenciesComplete
      <4>3. CASE u = t /\ s \notin DependencyGatedStates
        <5>1. status[t] \in TaskStatus /\ s \in Transitions[status[t]] /\ s \in Started
          BY <2>3, <4>3 DEF Transition, TypeOK
        <5>2. status[t] \in Started
          BY <5>1, <4>3 DEF Transitions, TaskStatus, Started, DependencyGatedStates
        <5> QED BY <5>2, <4>3, <2>0, <2>3 DEF Transition
      <4> QED BY <4>1, <4>2, <4>3
    <3>2. v # t
      BY <3>1, <2>3 DEF Transition, Transitions
    <3> QED BY <3>1, <3>2, <2>3 DEF Transition, TypeOK
  <2>4. ASSUME NEW t \in Tasks, NEW key \in RetryKeys, Retry(t, key)
        PROVE  status'[v] = "completed"
    <3>1. status[v] = "completed"
      BY <2>0, <2>4 DEF Retry, TypeOK, DependenciesComplete
    <3> QED BY <3>1, <2>4 DEF Retry, RetryAllowed, TypeOK
  <2>5. CASE UNCHANGED vars
    BY <2>0, <2>5 DEF vars, taskVars
  <2> QED BY <2>1, <2>2, <2>3, <2>4, <2>5 DEF Next, Inputs
<1> QED BY <1>1, <1>2, TypeCorrect, PTL DEF Spec

\* No sequence of add_dependency commands closes a cycle, in whatever states
\* the tasks are: the reachability test covers the whole stored graph.
THEOREM NoCycles == Spec => []AcyclicDependencies
<1>1. Init => AcyclicDependencies
  BY DEF Init, AcyclicDependencies, Acyclic
<1>2. TypeOK /\ AcyclicDependencies /\ [Next]_vars => AcyclicDependencies'
  <2> SUFFICES ASSUME TypeOK, AcyclicDependencies, [Next]_vars,
                      NEW S \in SUBSET Tasks, S # {}
               PROVE  \E x \in S : \A y \in S : <<x, y>> \notin depends'
    BY DEF AcyclicDependencies, Acyclic
  <2>0. ASSUME NEW R \in SUBSET Tasks, R # {}
        PROVE  \E x \in R : \A y \in R : <<x, y>> \notin depends
    BY <2>0 DEF AcyclicDependencies, Acyclic
  <2>1. ASSUME NEW t \in Tasks, NEW d \in Tasks, AddDependency(t, d)
        PROVE  \E x \in S : \A y \in S : <<x, y>> \notin depends'
    <3>1. PICK C \in SUBSET Tasks : d \in C /\ Closed(C, depends) /\ t \notin C
      BY <2>1 DEF AddDependency, WouldCreateCycle, Reaches
    <3>2. depends' = depends \cup {<<t, d>>}
      BY <2>1 DEF AddDependency
    <3>3. CASE S \cap C = {}
      <4>1. PICK x \in S : \A y \in S : <<x, y>> \notin depends
        BY <2>0
      <4>2. d \notin S
        BY <3>1, <3>3
      <4> QED BY <4>1, <4>2, <3>2
    <3>4. CASE S \cap C # {}
      <4>1. PICK x \in S \cap C : \A y \in S \cap C : <<x, y>> \notin depends
        BY <2>0, <3>4
      <4>2. ASSUME NEW y \in S, <<x, y>> \in depends
            PROVE  FALSE
        <5>1. y \in C
          BY <3>1, <4>1, <4>2 DEF Closed
        <5> QED BY <5>1, <4>1, <4>2
      <4>3. x # t
        BY <3>1, <4>1
      <4> QED BY <4>1, <4>2, <4>3, <3>2
    <3> QED BY <3>3, <3>4
  <2>2. CASE UNCHANGED depends
    BY <2>0, <2>2
  <2> QED
    BY <2>1, <2>2 DEF Next, Create, Transition, Retry, vars, taskVars
<1> QED BY <1>1, <1>2, TypeCorrect, PTL DEF Spec

-----------------------------------------------------------------------------
(* Retries. *)

\* The used keys of a task form a finite set of retryCount elements.
KeysCounted ==
    \A t \in Tasks : IsFiniteSet(retryKeys[t]) /\ retryCount[t] = Cardinality(retryKeys[t])

\* Each retry consumed a key of its own and stayed within the task's budget;
\* the budget is fixed before the first retry, at creation.
RetryInv ==
    /\ KeysCounted
    /\ \A t \in Tasks : /\ retryCount[t] <= retryLimit[t]
                        /\ status[t] = "absent" => retryCount[t] = 0

THEOREM RetriesAreAccounted == Spec => []RetryAccounting
<1>1. Init => RetryInv
  BY FS_EmptySet DEF Init, RetryInv, KeysCounted
<1>2. TypeOK /\ RetryInv /\ [Next]_vars => RetryInv'
  <2> SUFFICES ASSUME TypeOK, RetryInv, [Next]_vars PROVE RetryInv'
    OBVIOUS
  <2> USE DEF RetryInv, KeysCounted, TypeOK
  <2>1. ASSUME NEW t \in Tasks, NEW limit \in RetryLimits, Create(t, limit)
        PROVE  RetryInv'
    BY <2>1, TaskEngineAssumption DEF Create
  <2>2. ASSUME NEW t \in Tasks, NEW d \in Tasks, AddDependency(t, d)
        PROVE  RetryInv'
    BY <2>2 DEF AddDependency
  <2>3. ASSUME NEW t \in Tasks, NEW s \in TaskStatus, NEW e \in Inputs,
               Transition(t, s, e)
        PROVE  RetryInv'
    <3>1. s # "absent"
      BY DEF TaskStatus
    <3> QED BY <3>1, <2>3 DEF Transition
  <2>4. ASSUME NEW t \in Tasks, NEW key \in RetryKeys, Retry(t, key)
        PROVE  RetryInv'
    <3>1. /\ IsFiniteSet(retryKeys[t] \cup {key})
          /\ Cardinality(retryKeys[t] \cup {key}) = Cardinality(retryKeys[t]) + 1
      BY <2>4, FS_AddElement DEF Retry, RetryAllowed
    <3> QED BY <3>1, <2>4 DEF Retry, RetryAllowed
  <2>5. CASE UNCHANGED vars
    BY <2>5 DEF vars, taskVars
  <2> QED BY <2>1, <2>2, <2>3, <2>4, <2>5 DEF Next, Inputs
<1>3. RetryInv => RetryAccounting
  BY DEF RetryInv, KeysCounted, RetryAccounting
<1> QED BY <1>1, <1>2, <1>3, TypeCorrect, PTL DEF Spec

-----------------------------------------------------------------------------
(* The outbox. *)

\* The ledger's columns and the outbox rows change together: a completion is
\* published by the step that completes the task, after which the task never
\* moves; a failure's row is never removed, and a retry needs a failed task.
THEOREM OutboxAgrees == Spec => []OutboxAgreesWithLedger
<1>1. Init => OutboxAgreesWithLedger
  BY DEF Init, OutboxAgreesWithLedger, EventIds, EventTypes
<1>2. TypeOK /\ OutboxAgreesWithLedger /\ [Next]_vars => OutboxAgreesWithLedger'
  <2> SUFFICES ASSUME TypeOK, OutboxAgreesWithLedger, [Next]_vars
               PROVE  OutboxAgreesWithLedger'
    OBVIOUS
  <2> USE DEF OutboxAgreesWithLedger, TypeOK
  <2>1. ASSUME NEW t \in Tasks, NEW limit \in RetryLimits, Create(t, limit)
        PROVE  OutboxAgreesWithLedger'
    BY <2>1 DEF Create
  <2>2. ASSUME NEW t \in Tasks, NEW d \in Tasks, AddDependency(t, d)
        PROVE  OutboxAgreesWithLedger'
    BY <2>2 DEF AddDependency
  <2>3. ASSUME NEW t \in Tasks, NEW s \in TaskStatus, NEW e \in Inputs,
               Transition(t, s, e)
        PROVE  OutboxAgreesWithLedger'
    <3> DEFINE completion == [previous |-> status[t], error |-> NoError]
               failure == [previous |-> status[t], error |-> e]
    <3>0. /\ status[t] \in TaskStatus /\ s \in Transitions[status[t]]
          /\ status' = [status EXCEPT ![t] = s] /\ retryCount' = retryCount
      BY <2>3 DEF Transition
    <3>1. status[t] # "completed"
      BY <3>0 DEF Transitions
    <3>2. status[t] = "failed" => s = "cancelled"
      BY <3>0 DEF Transitions
    <3>3. status[t] = "cancelled" => FALSE
      BY <3>0 DEF Transitions
    <3>4. CASE s = "completed"
      <4>1. status[t] = "running"
        BY <3>0, <3>4, PublishingSources
      <4>2. completion \in Payloads /\ completion # NoEvent
        BY <4>1, TaskEngineAssumption DEF Payloads
      <4>3. domainEvent' = [domainEvent EXCEPT ![<<t, "task.completed">>] = completion]
        BY <2>3, <3>4 DEF Transition, Publish
      <4> HIDE DEF completion
      <4> QED BY <4>1, <4>2, <4>3, <3>0, <3>4 DEF EventIds, EventTypes
    <3>5. CASE s = "failed"
      <4>1. status[t] \in {"running", "waiting_approval"}
        BY <3>0, <3>5, PublishingSources
      <4>2. failure \in Payloads /\ failure # NoEvent
        BY <4>1, TaskEngineAssumption DEF Payloads, Inputs
      <4>3. domainEvent' = [domainEvent EXCEPT ![<<t, "task.failed">>] = failure]
        BY <2>3, <3>5 DEF Transition, Publish
      <4> HIDE DEF failure
      <4> QED BY <4>1, <4>2, <4>3, <3>0, <3>5 DEF EventIds, EventTypes
    <3>6. CASE s \notin {"completed", "failed"}
      <4>1. domainEvent' = domainEvent
        BY <2>3, <3>6 DEF Transition
      <4> QED BY <4>1, <3>0, <3>1, <3>2, <3>3, <3>6
    <3> QED BY <3>4, <3>5, <3>6
  <2>4. ASSUME NEW t \in Tasks, NEW key \in RetryKeys, Retry(t, key)
        PROVE  OutboxAgreesWithLedger'
    <3>1. /\ status[t] = "failed" /\ retryCount[t] \in Nat
          /\ domainEvent' = domainEvent
          /\ status' = [status EXCEPT ![t] = "queued"]
          /\ retryCount' = [retryCount EXCEPT ![t] = @ + 1]
      BY <2>4 DEF Retry, RetryAllowed
    <3>2. /\ domainEvent[<<t, "task.failed">>] # NoEvent
          /\ domainEvent[<<t, "task.completed">>] = NoEvent
      BY <3>1
    <3>3. status'[t] = "queued" /\ retryCount'[t] > 0
      BY <3>1
    <3>4. \A u \in Tasks \ {t} : status'[u] = status[u] /\ retryCount'[u] = retryCount[u]
      BY <3>1
    <3> QED BY <3>1, <3>2, <3>3, <3>4
  <2>5. CASE UNCHANGED vars
    BY <2>5 DEF vars, taskVars
  <2> QED BY <2>1, <2>2, <2>3, <2>4, <2>5 DEF Next, Inputs
<1> QED BY <1>1, <1>2, TypeCorrect, PTL DEF Spec

\* The contents of a published event never change.
THEOREM PublishedIsImmutable == Spec => EventsAreImmutable
<1>1. TypeOK /\ [Next]_vars
        => [\A id \in EventIds : domainEvent[id] # NoEvent
                              => domainEvent'[id] = domainEvent[id]]_vars
  <2> SUFFICES ASSUME TypeOK, [Next]_vars, NEW id \in EventIds, domainEvent[id] # NoEvent
               PROVE  domainEvent'[id] = domainEvent[id]
    OBVIOUS
  <2>1. ASSUME NEW k \in EventIds, NEW p, Publish(k, p)
        PROVE  domainEvent'[id] = domainEvent[id]
    BY <2>1 DEF Publish, PublishAccepts, TypeOK
  <2>2. CASE UNCHANGED domainEvent
    BY <2>2
  <2>3. ASSUME NEW t \in Tasks, NEW s \in TaskStatus, NEW e \in Inputs, Transition(t, s, e)
        PROVE  domainEvent'[id] = domainEvent[id]
    <3>1. <<t, "task.completed">> \in EventIds /\ <<t, "task.failed">> \in EventIds
      BY DEF EventIds, EventTypes
    <3> QED BY <2>1, <2>2, <2>3, <3>1 DEF Transition
  <2> QED BY <2>2, <2>3 DEF Next, Inputs, Create, AddDependency, Retry, vars
<1> QED BY <1>1, TypeCorrect, PTL DEF Spec, EventsAreImmutable

-----------------------------------------------------------------------------
(* The ledger and the bus. *)

\* A step of the composition is, for the ledger, one of its commands or none.
LEMMA StepOfTheLedger == [OutboxNext]_outboxVars =>
    [Next]_vars \/ (Bus!BusStep /\ UNCHANGED taskVars)
BY DEF OutboxNext, outboxVars, Command, Dispatch

\* The dispatchers leave the events alone.
LEMMA DispatchKeepsEvents == Bus!BusStep => UNCHANGED domainEvent
BY DEF Bus!BusStep, Bus!Claim, Bus!Complete, Bus!Fail, Bus!Crash, Bus!BackoffEnds, Bus!Redrive

\* Whatever the dispatchers do, the ledger runs as TaskEngine says: all that is
\* proved of it above holds in the composition.
THEOREM OutboxRunsTheLedger == OutboxSpec => Spec
<1>1. [OutboxNext]_outboxVars => [Next]_vars
  BY StepOfTheLedger, DispatchKeepsEvents DEF vars
<1> QED BY <1>1, PTL DEF OutboxSpec, OutboxInit, Spec

\* A command that publishes writes its delivery row in the same step, with contents
\* the bus accepts, and nothing else touches the rows: the bus sees a step of its own.
THEOREM OutboxUsesTheBus == OutboxSpec => UsesTheBus
<1>1. ASSUME TypeOK, TypeOK', [OutboxNext]_outboxVars
      PROVE  [Bus!Next]_(Bus!vars)
  <2>1. CASE Command
    <3>1. CASE domainEvent' = domainEvent
      BY <2>1, <3>1 DEF Command, busVars, Bus!vars, Bus!rowVars
    <3>2. CASE domainEvent' # domainEvent
      <4>1. PICK id \in EventIds : Bus!Publish(id, domainEvent'[id])
        BY <2>1, <3>2 DEF Command
      <4>2. domainEvent' = [domainEvent EXCEPT ![id] = domainEvent'[id]]
            /\ domainEvent[id] = NoEvent
        BY <3>2, <4>1 DEF Bus!Publish, Bus!vars
      <4>3. domainEvent'[id] # NoEvent
        BY <1>1, <3>2, <4>2 DEF TypeOK
      <4>4. domainEvent'[id] \in Payloads
        BY <1>1, <4>3 DEF TypeOK
      <4> QED BY <4>1, <4>4 DEF Bus!Next
    <3> QED BY <3>1, <3>2
  <2>2. CASE Dispatch
    BY <2>2 DEF Dispatch, Bus!Next
  <2>3. CASE UNCHANGED outboxVars
    BY <2>3 DEF outboxVars, vars, busVars, Bus!vars, Bus!rowVars
  <2> QED BY <1>1, <2>1, <2>2, <2>3 DEF OutboxNext
<1> QED BY <1>1, OutboxRunsTheLedger, TypeCorrect, PTL DEF OutboxSpec, OutboxInit, UsesTheBus, Bus!Spec

\* Every event of the ledger has its delivery row, and every row its event; a
\* dispatcher holds only rows that exist, and only these have effects.
RowsOfEvents ==
    /\ delivery \in [EventIds -> Bus!Live \cup {"absent", "completed", "dead_letter"}]
    /\ claim \in [Dispatchers -> EventIds \cup {NoClaim}]
    /\ effects \in [EventIds -> Nat]
    /\ due \in Seq(EventIds) /\ later \in Seq(EventIds)
    /\ \A id \in EventIds : /\ delivery[id] = "absent" <=> domainEvent[id] = NoEvent
                            /\ effects[id] # 0 => delivery[id] # "absent"
    /\ \A p \in Dispatchers : claim[p] # NoClaim => delivery[claim[p]] # "absent"

\* Taking a row out of a queue, or putting it anywhere in it, leaves a queue.
LEMMA QueuesStayQueues ==
    ASSUME NEW s \in Seq(EventIds), NEW k \in EventIds
    PROVE  /\ \A i \in DOMAIN s : Bus!RemoveAt(s, i) \in Seq(EventIds)
           /\ \A i \in 1..(Len(s) + 1) : Bus!InsertAt(s, i, k) \in Seq(EventIds)
BY DEF Bus!RemoveAt, Bus!InsertAt

LEMMA PublishKeepsRows ==
    ASSUME RowsOfEvents, TypeOK, NEW k \in EventIds, NEW c, c # NoEvent, Bus!Publish(k, c)
    PROVE  RowsOfEvents'
<1> USE DEF RowsOfEvents, Bus!Live
<1>1. CASE UNCHANGED Bus!vars
  BY <1>1 DEF Bus!vars, Bus!rowVars
<1>2. CASE /\ domainEvent[k] = NoEvent
           /\ domainEvent' = [domainEvent EXCEPT ![k] = c]
           /\ delivery' = [delivery EXCEPT ![k] = "pending"]
           /\ due' = Append(due, k)
           /\ UNCHANGED <<attempts, redrives, later, claim, effects>>
  <2>1. domainEvent' \in [EventIds -> Payloads \cup {NoEvent, c}]
    BY <1>2 DEF TypeOK
  <2> QED BY <1>2, <2>1 DEF TypeOK
<1> QED BY <1>1, <1>2 DEF Bus!Publish

LEMMA DispatchKeepsRows ==
    ASSUME RowsOfEvents, Bus!BusStep
    PROVE  RowsOfEvents'
<1> USE DEF RowsOfEvents, Bus!Live
<1>1. ASSUME NEW p \in Dispatchers, Bus!Claim(p) PROVE RowsOfEvents'
  <2>1. PICK i \in DOMAIN due : Bus!First(i) /\ claim' = [claim EXCEPT ![p] = due[i]]
    BY <1>1 DEF Bus!Claim
  <2>2. due[i] \in EventIds /\ delivery[due[i]] # "absent"
    BY <2>1 DEF Bus!First, Bus!Claimable
  <2>3. UNCHANGED <<domainEvent, delivery, due, later, effects>>
    BY <1>1 DEF Bus!Claim, Bus!rowVars
  <2> QED BY <2>1, <2>2, <2>3
<1>2. ASSUME NEW p \in Dispatchers, Bus!Complete(p) \/ Bus!Fail(p) PROVE RowsOfEvents'
  <2> DEFINE k == claim[p]
  <2>1. /\ k \in EventIds /\ delivery[k] # "absent"
        /\ UNCHANGED domainEvent /\ claim' = [claim EXCEPT ![p] = NoClaim]
    BY <1>2 DEF Bus!Complete, Bus!Fail
  <2>2. due' \in Seq(EventIds) /\ later' \in Seq(EventIds)
    BY <1>2, <2>1, QueuesStayQueues DEF Bus!Complete, Bus!Fail, Bus!Dequeue
  <2>3. PICK s \in Bus!Live \cup {"completed", "dead_letter"} :
            delivery' = [delivery EXCEPT ![k] = s]
    BY <1>2 DEF Bus!Complete, Bus!Fail
  <2>4. /\ effects' \in [EventIds -> Nat]
        /\ \A id \in EventIds \ {k} : effects'[id] = effects[id]
    <3>1. CASE Bus!Complete(p)
      BY <3>1, <2>1 DEF Bus!Complete
    <3>2. CASE Bus!Fail(p)
      BY <3>2 DEF Bus!Fail
    <3> QED BY <1>2, <3>1, <3>2
  <2> HIDE DEF k
  <2>5. \A id \in EventIds : /\ delivery'[id] = "absent" <=> domainEvent'[id] = NoEvent
                             /\ effects'[id] # 0 => delivery'[id] # "absent"
    BY <2>1, <2>3, <2>4
  <2>6. \A q \in Dispatchers : claim'[q] # NoClaim => delivery'[claim'[q]] # "absent"
    BY <2>1, <2>3
  <2> QED BY <2>1, <2>2, <2>3, <2>4, <2>5, <2>6
<1>3. ASSUME NEW p \in Dispatchers, Bus!Crash(p) PROVE RowsOfEvents'
  BY <1>3 DEF Bus!Crash, Bus!rowVars
<1>4. CASE Bus!BackoffEnds
  BY <1>4 DEF Bus!BackoffEnds
<1>5. ASSUME NEW k \in EventIds, NEW n \in 0..MaxRedrives, Bus!Redrive(k, n)
      PROVE  RowsOfEvents'
  BY <1>5 DEF Bus!Redrive, Bus!RedriveAllowed
<1> QED BY <1>1, <1>2, <1>3, <1>4, <1>5 DEF Bus!BusStep

\* The consumer is told of a completion exactly when it happened: a completed task has
\* its delivery row, no other task has one, and no handler has run for another task.
ConsumerHearsOfCompletions ==
    \A t \in Tasks :
        LET row == <<t, "task.completed">> IN
        /\ status[t] = "completed" <=> delivery[row] # "absent"
        /\ effects[row] # 0 => status[t] = "completed"

\* The ledger's agreement with its events and the bus's with its rows, joined: what
\* commits in one transaction is never seen half, whatever the dispatchers do.
THEOREM CompletionsReachTheBus == OutboxSpec => []ConsumerHearsOfCompletions
<1>1. OutboxInit => RowsOfEvents
  BY DEF OutboxInit, Init, Bus!Init, RowsOfEvents
<1>2. ASSUME RowsOfEvents, TypeOK, TypeOK', [OutboxNext]_outboxVars
      PROVE  RowsOfEvents'
  <2>1. CASE Command
    <3>1. CASE domainEvent' = domainEvent
      BY <1>2, <2>1, <3>1 DEF Command, busVars, RowsOfEvents
    <3>2. CASE domainEvent' # domainEvent
      <4>1. PICK id \in EventIds : Bus!Publish(id, domainEvent'[id])
        BY <2>1, <3>2 DEF Command
      <4>2. domainEvent'[id] # NoEvent
        BY <1>2, <3>2, <4>1 DEF TypeOK, Bus!Publish, Bus!vars
      <4> QED BY <1>2, <4>1, <4>2, PublishKeepsRows
    <3> QED BY <3>1, <3>2
  <2>2. CASE Dispatch
    BY <1>2, <2>2, DispatchKeepsRows DEF Dispatch
  <2>3. CASE UNCHANGED outboxVars
    BY <1>2, <2>3 DEF outboxVars, vars, busVars, RowsOfEvents
  <2> QED BY <1>2, <2>1, <2>2, <2>3 DEF OutboxNext
<1>3. RowsOfEvents /\ OutboxAgreesWithLedger => ConsumerHearsOfCompletions
  BY DEF RowsOfEvents, OutboxAgreesWithLedger, ConsumerHearsOfCompletions, EventIds, EventTypes
<1> QED BY <1>1, <1>2, <1>3, OutboxRunsTheLedger, TypeCorrect, OutboxAgrees, PTL DEF OutboxSpec

-----------------------------------------------------------------------------
(* The search of CycleSearch is correct on every stored graph. *)

In(t, s) == \E i \in 1..Len(s) : s[i] = t

\* Everything met so far is reachable from the dependency; the dependency and
\* every successor of an expanded task have been met; the task itself is never
\* expanded.
Met(t) == t \in seen \/ In(t, pending)

SearchInv ==
    /\ SearchTypeOK
    /\ \A t \in Nodes : Met(t) => Reaches(Nodes, edges, dependency, t)
    /\ Met(dependency)
    /\ task \notin seen
    /\ \A t \in seen, d \in Nodes : <<t, d>> \in edges => Met(d)
    /\ answer = "cycle" => In(task, pending)
    /\ answer = "safe" => pending = <<>>

LEMMA Predecessor ==
    ASSUME NEW m \in Nat \ {0}
    PROVE  /\ m - 1 \in Nat
           /\ (IF 1 <= m - 1 THEN (m - 1) - 1 + 1 ELSE 0) = m - 1
           /\ 1..((m - 1) - 1 + 1) = 1..(m - 1)
           /\ \A i \in 1..(m - 1) : 1 + i - 1 = i
OBVIOUS

\* The stack holds its last element, and popping removes at most that one.
LEMMA PoppedStack ==
    ASSUME NEW s \in Seq(Nodes), s # <<>>
    PROVE  /\ Last(s) \in Nodes /\ In(Last(s), s)
           /\ Front(s) \in Seq(Nodes)
           /\ \A t : In(t, s) <=> In(t, Front(s)) \/ t = Last(s)
<1>1. Len(s) \in Nat \ {0}
  OBVIOUS
<1>2. /\ Front(s) \in Seq(Nodes) /\ Len(Front(s)) = Len(s) - 1
      /\ \A i \in 1..(Len(s) - 1) : Front(s)[i] = s[i]
  <2>1. Front(s) = SubSeq(s, 1, Len(s) - 1) /\ Len(s) - 1 \in Nat
    BY <1>1 DEF Front
  <2>2. \A i \in 1..(Len(s) - 1) : s[i] \in Nodes
    BY <1>1
  <2>3. /\ SubSeq(s, 1, Len(s) - 1) \in Seq(Nodes)
        /\ Len(SubSeq(s, 1, Len(s) - 1)) =
               IF 1 <= Len(s) - 1 THEN (Len(s) - 1) - 1 + 1 ELSE 0
        /\ \A i \in 1..((Len(s) - 1) - 1 + 1) :
               SubSeq(s, 1, Len(s) - 1)[i] = s[1 + i - 1]
    BY <1>1, <2>2, SubSeqProperties
  <2> QED BY <1>1, <2>1, <2>3, Predecessor
<1> QED BY <1>1, <1>2 DEF In, Last

\* A listing of S, pushed on a stack, adds exactly the members of S.
LEMMA PushedStack ==
    ASSUME NEW s \in Seq(Nodes), NEW S \in SUBSET Nodes, NEW q \in Listings(S)
    PROVE  /\ s \o q \in Seq(Nodes)
           /\ \A t : In(t, s \o q) <=> In(t, s) \/ t \in S
<1>1. Cardinality(S) \in Nat
  BY CycleSearchAssumption, FS_Subset, FS_CardinalityType
<1>2. q \in [1..Cardinality(S) -> S]
  BY DEF Listings
<1>3. q \in Seq(Nodes) /\ Len(q) = Cardinality(S)
  BY <1>1, <1>2
<1>4. \A t : In(t, q) <=> t \in S
  BY <1>2, <1>3 DEF In, Listings
<1>5. /\ s \o q \in Seq(Nodes) /\ Len(s \o q) = Len(s) + Len(q)
      /\ \A i \in 1..Len(s) : (s \o q)[i] = s[i]
      /\ \A i \in 1..Len(q) : (s \o q)[Len(s) + i] = q[i]
  BY <1>3
<1>6. ASSUME NEW t, In(t, s \o q) PROVE In(t, s) \/ In(t, q)
  <2>1. PICK i \in 1..(Len(s) + Len(q)) : (s \o q)[i] = t
    BY <1>5, <1>6 DEF In
  <2>2. CASE i <= Len(s)
    BY <2>1, <2>2, <1>5 DEF In
  <2>3. CASE i > Len(s)
    <3>1. i - Len(s) \in 1..Len(q) /\ i = Len(s) + (i - Len(s))
      BY <2>1, <2>3, <1>3
    <3> QED BY <3>1, <2>1, <1>5 DEF In
  <2> QED BY <2>1, <2>2, <2>3, <1>3
<1>7. ASSUME NEW t, In(t, s) \/ In(t, q) PROVE In(t, s \o q)
  <2>1. CASE In(t, s)
    BY <2>1, <1>3, <1>5 DEF In
  <2>2. CASE In(t, q)
    <3>1. PICK i \in 1..Len(q) : q[i] = t
      BY <2>2 DEF In
    <3>2. Len(s) + i \in 1..Len(s \o q)
      BY <3>1, <1>3, <1>5
    <3> QED BY <3>1, <3>2, <1>5 DEF In
  <2> QED BY <1>7, <2>1, <2>2
<1> QED BY <1>4, <1>5, <1>6, <1>7

\* Reachability extends along an edge.
LEMMA ReachesOneMore ==
    ASSUME NEW a \in Nodes, NEW b \in Nodes, NEW c \in Nodes, NEW E,
           Reaches(Nodes, E, a, b), <<b, c>> \in E
    PROVE  Reaches(Nodes, E, a, c)
BY DEF Reaches, Closed

LEMMA SearchInitHolds == SearchInit => SearchInv
<1> SUFFICES ASSUME SearchInit PROVE SearchInv
  OBVIOUS
<1>1. \A t : In(t, pending) <=> t = dependency
  BY DEF SearchInit, In
<1>2. Reaches(Nodes, edges, dependency, dependency)
  BY DEF Reaches
<1> QED BY <1>1, <1>2 DEF SearchInit, SearchInv, SearchTypeOK, Met

LEMMA SearchStepHolds == SearchInv /\ [SearchNext]_searchVars => SearchInv'
<1> SUFFICES ASSUME SearchInv, [SearchNext]_searchVars PROVE SearchInv'
  OBVIOUS
<1>0. SearchTypeOK
  BY DEF SearchInv
<1>1. CASE Found
  <2>1. In(task, pending)
    BY <1>0, <1>1, PoppedStack DEF Found, SearchTypeOK
  <2> QED BY <1>1, <2>1 DEF Found, SearchInv, SearchTypeOK, Met, In
<1>2. CASE Expand
  <2> DEFINE current == Last(pending)
  <2>1. pending \in Seq(Nodes) /\ pending # <<>> /\ current \in Nodes
    BY <1>0, <1>2, PoppedStack DEF Expand, SearchTypeOK
  <2>2. PICK q \in Listings(Outgoing(current)) : pending' = Front(pending) \o q
    BY <1>2 DEF Expand, Push
  <2>3. Outgoing(current) \in SUBSET Nodes
    BY DEF Outgoing
  <2>4. /\ pending' \in Seq(Nodes)
        /\ \A t : In(t, pending') <=> In(t, Front(pending)) \/ t \in Outgoing(current)
    BY <2>1, <2>2, <2>3, PoppedStack, PushedStack
  <2>5. /\ current # task /\ seen' = seen \cup {current}
        /\ UNCHANGED <<edges, task, dependency, answer>> /\ answer = "searching"
    BY <1>2 DEF Expand
  <2>6. \A t : Met(t)' <=> Met(t) \/ t \in Outgoing(current)
    BY <2>1, <2>4, <2>5, PoppedStack DEF Met
  <2>7. Reaches(Nodes, edges, dependency, current)
    BY <2>1, PoppedStack DEF SearchInv, Met
  <2>8. \A t \in Nodes : Met(t)' => Reaches(Nodes, edges, dependency, t)
    BY <1>0, <2>1, <2>6, <2>7, ReachesOneMore DEF SearchInv, Outgoing, SearchTypeOK
  <2>9. \A t \in seen', d \in Nodes : <<t, d>> \in edges => Met(d)'
    BY <2>5, <2>6 DEF SearchInv, Outgoing
  <2>10. SearchTypeOK'
    BY <1>0, <2>1, <2>4, <2>5 DEF SearchTypeOK
  <2> QED BY <2>5, <2>6, <2>8, <2>9, <2>10 DEF SearchInv
<1>3. CASE Skip
  <2>1. pending \in Seq(Nodes) /\ pending # <<>> /\ Last(pending) \in seen
    BY <1>0, <1>3 DEF Skip, SearchTypeOK
  <2>2. /\ pending' = Front(pending) /\ answer = "searching"
        /\ UNCHANGED <<edges, task, dependency, seen, answer>>
    BY <1>3 DEF Skip, Pop
  <2>3. \A t : Met(t)' <=> Met(t)
    BY <2>1, <2>2, PoppedStack DEF Met
  <2>4. SearchTypeOK'
    BY <1>0, <2>1, <2>2, PoppedStack DEF SearchTypeOK
  <2> QED BY <2>2, <2>3, <2>4 DEF SearchInv
<1>4. CASE Exhausted
  BY <1>0, <1>4 DEF Exhausted, SearchInv, SearchTypeOK, Met, In
<1>5. CASE UNCHANGED searchVars
  BY <1>0, <1>5 DEF searchVars, SearchInv, SearchTypeOK, Met, In
<1> QED BY <1>1, <1>2, <1>3, <1>4, <1>5 DEF SearchNext

\* Whatever graph is stored and in whatever order its rows are read, a verdict
\* of the search is the truth about reachability: "safe" is given only when the
\* expanded tasks form a closed set with the dependency and without the task.
THEOREM SearchIsCorrect == SearchSpec => []AnswerIsRight
<1>1. SearchInv => AnswerIsRight
  <2> SUFFICES ASSUME SearchInv PROVE AnswerIsRight
    OBVIOUS
  <2>1. ASSUME answer = "cycle" PROVE Reaches(Nodes, edges, dependency, task)
    BY <2>1 DEF SearchInv, SearchTypeOK, Met
  <2>2. ASSUME answer = "safe" PROVE ~Reaches(Nodes, edges, dependency, task)
    <3>1. \A t : ~In(t, pending)
      BY <2>2 DEF SearchInv, In
    <3>2. seen \in SUBSET Nodes /\ dependency \in seen /\ task \notin seen
      BY <3>1 DEF SearchInv, SearchTypeOK, Met
    <3>3. Closed(seen, edges)
      <4> SUFFICES ASSUME NEW e \in edges, e[1] \in seen PROVE e[2] \in seen
        BY DEF Closed
      <4>1. e = <<e[1], e[2]>> /\ e[2] \in Nodes
        BY DEF SearchInv, SearchTypeOK
      <4> QED BY <4>1, <3>1 DEF SearchInv, Met
    <3> QED BY <3>2, <3>3 DEF Reaches
  <2> QED BY <2>1, <2>2 DEF AnswerIsRight
<1> QED BY <1>1, SearchInitHolds, SearchStepHolds, PTL DEF SearchSpec
=============================================================================
