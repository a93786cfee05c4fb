----------------------------- MODULE TaskOutbox -----------------------------
(***************************************************************************)
(* TaskEngine and EventBus composed: a task command that publishes writes  *)
(* the event and its delivery row in its own transaction, and dispatchers  *)
(* work on the deliveries concurrently with the owner's commands.          *)
(***************************************************************************)
EXTENDS TaskEngine, Sequences

CONSTANTS
    Dispatchers, NoClaim, MaxAttempts, MaxRedrives      \* of EventBus

VARIABLES
    delivery, attempts, redrives, due, later, claim, effects

Bus == INSTANCE EventBus WITH Events <- EventIds, Contents <- Payloads

busVars == <<delivery, attempts, redrives, due, later, claim, effects>>
outboxVars == <<vars, busVars>>

OutboxInit == Init /\ Bus!Init

\* Seeded fault: the event row is written without its delivery row.
CommandWithoutDelivery == Next /\ UNCHANGED busVars
\* The command's event, if it has one, enters the outbox in the same step.
Command ==
    /\ Next
    /\ IF domainEvent' = domainEvent
       THEN UNCHANGED busVars
       ELSE \E id \in EventIds : Bus!Publish(id, domainEvent'[id])

Dispatch == Bus!BusStep /\ UNCHANGED taskVars

OutboxNext == Command \/ Dispatch

OutboxSpec == OutboxInit /\ [][OutboxNext]_outboxVars
FairOutboxSpec == OutboxSpec /\ Bus!Fairness

-----------------------------------------------------------------------------
(* Properties. *)

\* A completed task is eventually told to the consumer or set aside for the
\* owner, in spite of crashes of the dispatchers and failing handlers.
CompletionIsReported ==
    \A t \in Tasks :
        status[t] = "completed" ~>
            delivery[<<t, "task.completed">>] \in {"completed", "dead_letter"}

\* The composition uses the bus only as its specification allows.
UsesTheBus == Bus!Spec
=============================================================================
