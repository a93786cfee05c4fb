----------------------------- MODULE TaskEngine -----------------------------
(***************************************************************************)
(* The task ledger of one business: tasks/service.py.  Every owner command *)
(* runs in one database transaction that first locks the business row, so  *)
(* each command is one atomic action.  A command that raises rolls its     *)
(* transaction back: it is the action being disabled.                      *)
(***************************************************************************)
EXTENDS Naturals, FiniteSets, DependencyGraph

CONSTANTS
    Tasks,          \* identities of the tasks the owner may create
    Errors,         \* error texts an owner may report with a failure
    NoError,        \* last_error IS NULL
    RetryKeys,      \* idempotency keys of the retry command
    RetryLimits,    \* values of max_retries accepted at creation
    NoEvent         \* no row in domain_events for this type and key

ASSUME TaskEngineAssumption ==
    /\ RetryLimits \subseteq Nat
    /\ NoError \notin Errors
    /\ NoEvent \notin [previous : {"running", "waiting_approval"},
                       error : Errors \cup {NoError}]

VARIABLES
    status,         \* tasks.status, "absent" while the row does not exist
    retryLimit,     \* tasks.max_retries
    retryCount,     \* tasks.retry_count
    lastError,      \* tasks.last_error
    depends,        \* task_dependencies: <<task, depends_on_task>>
    retryKeys,      \* keys of the task's "retried" task_events
    domainEvent     \* domain_events by (aggregate, type), one key for each

taskVars == <<status, retryLimit, retryCount, lastError, depends, retryKeys>>
vars == <<taskVars, domainEvent>>

TaskStatus ==
    {"draft", "planned", "queued", "running", "blocked", "waiting_approval",
     "completed", "failed", "cancelled"}

Transitions ==
    [draft            |-> {"planned", "cancelled"},
     planned          |-> {"queued", "blocked", "cancelled"},
     queued           |-> {"running", "blocked", "cancelled"},
     running          |-> {"blocked", "waiting_approval", "completed",
                           "failed", "cancelled"},
     blocked          |-> {"planned", "queued", "cancelled"},
     waiting_approval |-> {"queued", "running", "failed", "cancelled"},
     completed        |-> {},
     failed           |-> {"cancelled"},
     cancelled        |-> {}]

EventTypes == {"task.completed", "task.failed"}
EventIds == Tasks \X EventTypes
Payloads == [previous : {"running", "waiting_approval"},
             error : Errors \cup {NoError}]

TypeOK ==
    /\ status \in [Tasks -> TaskStatus \cup {"absent"}]
    /\ retryLimit \in [Tasks -> Nat]
    /\ retryCount \in [Tasks -> Nat]
    /\ lastError \in [Tasks -> Errors \cup {NoError}]
    /\ depends \subseteq Tasks \X Tasks
    /\ retryKeys \in [Tasks -> SUBSET RetryKeys]
    /\ domainEvent \in [EventIds -> Payloads \cup {NoEvent}]

-----------------------------------------------------------------------------
(* Dependency gates and the cycle test. *)

\* Seeded fault: the queue is not gated, so only running tasks are checked.
GatedRunningOnly == {"running"}
DependencyGatedStates == {"queued", "running"}

DependencyMutableStates == {"draft", "planned", "blocked"}

DependenciesComplete(t) ==
    \A d \in Tasks : <<t, d>> \in depends => status[d] = "completed"

\* Seeded fault: only a two-task cycle is noticed.
DirectCycleOnly(t, d) == <<d, t>> \in depends
\* The edge <<t, d>> would close a cycle (CycleSearch has the search itself).
WouldCreateCycle(t, d) == Reaches(Tasks, depends, d, t)

-----------------------------------------------------------------------------
(* publish_event: insert once per (type, key), refuse other contents. *)

PublishAccepts(id, payload) == domainEvent[id] \in {NoEvent, payload}

\* Seeded fault: the transition forgets its event.
NeverPublish(id, payload) == UNCHANGED domainEvent
Publish(id, payload) ==
    /\ PublishAccepts(id, payload)
    /\ domainEvent' = [domainEvent EXCEPT ![id] = payload]

-----------------------------------------------------------------------------
(* The owner's commands. *)

Init ==
    /\ status = [t \in Tasks |-> "absent"]
    /\ retryLimit = [t \in Tasks |-> 0]
    /\ retryCount = [t \in Tasks |-> 0]
    /\ lastError = [t \in Tasks |-> NoError]
    /\ depends = {}
    /\ retryKeys = [t \in Tasks |-> {}]
    /\ domainEvent = [id \in EventIds |-> NoEvent]

Create(t, limit) ==
    /\ status[t] = "absent"
    /\ status' = [status EXCEPT ![t] = "draft"]
    /\ retryLimit' = [retryLimit EXCEPT ![t] = limit]
    /\ UNCHANGED <<retryCount, lastError, depends, retryKeys, domainEvent>>

AddDependency(t, d) ==
    /\ status[t] \in DependencyMutableStates
    /\ status[d] # "absent"
    /\ t # d
    /\ ~WouldCreateCycle(t, d)
    /\ depends' = depends \cup {<<t, d>>}
    /\ UNCHANGED <<status, retryLimit, retryCount, lastError, retryKeys, domainEvent>>

\* transition with error text e; only a failure keeps the text.
Transition(t, requested, e) ==
    /\ status[t] # "absent"
    /\ requested \in Transitions[status[t]]
    /\ requested \in DependencyGatedStates => DependenciesComplete(t)
    /\ status' = [status EXCEPT ![t] = requested]
    /\ lastError' = [lastError EXCEPT ![t] = IF requested = "failed" THEN e ELSE NoError]
    /\ \/ /\ requested = "completed"
          /\ Publish(<<t, "task.completed">>, [previous |-> status[t], error |-> NoError])
       \/ /\ requested = "failed"
          /\ Publish(<<t, "task.failed">>, [previous |-> status[t], error |-> e])
       \/ requested \notin {"completed", "failed"} /\ UNCHANGED domainEvent
    /\ UNCHANGED <<retryLimit, retryCount, depends, retryKeys>>

\* Seeded fault: a replayed key consumes another retry.
RetryReplayed(t, key) ==
    status[t] = "failed" /\ retryCount[t] < retryLimit[t]
RetryAllowed(t, key) ==
    /\ key \notin retryKeys[t]
    /\ status[t] = "failed"
    /\ retryCount[t] < retryLimit[t]

\* A replayed key returns the stored task and changes nothing.
Retry(t, key) ==
    /\ RetryAllowed(t, key)
    /\ DependenciesComplete(t)
    /\ status' = [status EXCEPT ![t] = "queued"]
    /\ retryCount' = [retryCount EXCEPT ![t] = @ + 1]
    /\ lastError' = [lastError EXCEPT ![t] = NoError]
    /\ retryKeys' = [retryKeys EXCEPT ![t] = @ \cup {key}]
    /\ UNCHANGED <<retryLimit, depends, domainEvent>>

Next ==
    \/ \E t \in Tasks, limit \in RetryLimits : Create(t, limit)
    \/ \E t, d \in Tasks : AddDependency(t, d)
    \/ \E t \in Tasks, s \in TaskStatus, e \in Errors \cup {NoError} : Transition(t, s, e)
    \/ \E t \in Tasks, key \in RetryKeys : Retry(t, key)

Spec == Init /\ [][Next]_vars

-----------------------------------------------------------------------------
(* Properties. *)

Started == {"queued", "running", "waiting_approval", "completed", "failed"}

\* A task that has entered the queue, and has not been sent back or cancelled,
\* rests on dependencies that are all completed: the gate is checked only on
\* entering "queued" and "running" (transition, retry), and dependencies may
\* change only in other states (add_dependency).
StartedOnCompletedDependencies ==
    \A t \in Tasks : status[t] \in Started => DependenciesComplete(t)

\* Every set of tasks has a member that depends on none of the set, so some
\* task of any unfinished group can always be worked on.
AcyclicDependencies == Acyclic(Tasks, depends)

\* One retry was consumed for each distinct key, and never more than allowed.
RetryAccounting ==
    \A t \in Tasks : /\ retryCount[t] = Cardinality(retryKeys[t])
                     /\ retryCount[t] <= retryLimit[t]

\* The outbox agrees with the ledger: a completed task and only a completed
\* task has its completion event; a task that is failed or was ever retried
\* has its failure event, and a failure event tells of a failure.
OutboxAgreesWithLedger ==
    \A t \in Tasks :
        /\ status[t] = "completed" <=> domainEvent[<<t, "task.completed">>] # NoEvent
        /\ status[t] = "failed" \/ retryCount[t] > 0
              => domainEvent[<<t, "task.failed">>] # NoEvent
        /\ domainEvent[<<t, "task.failed">>] # NoEvent
              => status[t] \in {"failed", "cancelled"} \/ retryCount[t] > 0

\* Published history is immutable: no command changes an event's contents.
EventsAreImmutable ==
    [][\A id \in EventIds : domainEvent[id] # NoEvent
                              => domainEvent'[id] = domainEvent[id]]_vars

\* A task whose state may go to "failed" can be recorded as failed, whatever
\* the error reported.
FailureCanBeRecorded ==
    \A t \in Tasks : status[t] \in {"running", "waiting_approval"} =>
        \A e \in Errors \cup {NoError} :
            PublishAccepts(<<t, "task.failed">>, [previous |-> status[t], error |-> e])
=============================================================================
