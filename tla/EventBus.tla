------------------------------ MODULE EventBus ------------------------------
(***************************************************************************)
(* The transactional outbox and its dispatchers: events/service.py.        *)
(* Each event has one delivery row, for the one registered consumer.       *)
(* A dispatcher is a process that runs dispatch_pending_events: the worker *)
(* at start-up and every 15 s, or the command of events/dispatcher.py.  It *)
(* opens a transaction, claims with FOR UPDATE SKIP LOCKED the first row   *)
(* that is due, runs the handler inside the transaction and commits the    *)
(* handler's effect together with the row.  While the handler runs only    *)
(* the row lock is visible to others, so the claim and the commit are two  *)
(* steps; a dispatcher that dies in between rolls everything back.         *)
(*                                                                         *)
(* available_at is abstracted to the order it puts on the live rows: "due" *)
(* lists the rows whose time has come, oldest first, and "later" those     *)
(* that wait for their back-off, in the order in which they fall due.      *)
(***************************************************************************)
EXTENDS Naturals, Sequences, SequencesExt

CONSTANTS
    Events,         \* event identities: (business, type, idempotency key)
    Contents,       \* payloads
    NoEvent,        \* no row in domain_events
    Dispatchers,    \* processes that may dispatch at the same time
    NoClaim,        \* the dispatcher holds no row
    MaxAttempts,    \* EventConsumer.max_attempts
    MaxRedrives     \* bound: owner redrives of one delivery

ASSUME EventBusAssumption ==
    /\ MaxAttempts \in Nat \ {0}
    /\ MaxRedrives \in Nat
    /\ NoEvent \notin Contents
    /\ NoClaim \notin Events

VARIABLES
    domainEvent,    \* domain_events: contents by identity
    delivery,       \* event_deliveries.status, "absent" while there is no row
    attempts,       \* event_deliveries.attempt_count
    redrives,       \* event_deliveries.redrive_count
    due, later,     \* live rows in the order of available_at
    claim,          \* the row each dispatcher has locked
    effects         \* committed handler runs of each event

rowVars == <<delivery, attempts, redrives, due, later>>
vars == <<domainEvent, rowVars, claim, effects>>

Live == {"pending", "retry_wait"}

TypeOK ==
    /\ domainEvent \in [Events -> Contents \cup {NoEvent}]
    /\ delivery \in [Events -> Live \cup {"absent", "completed", "dead_letter"}]
    /\ attempts \in [Events -> 0..MaxAttempts]
    /\ redrives \in [Events -> 0..MaxRedrives]
    /\ due \in Seq(Events) /\ later \in Seq(Events)
    /\ claim \in [Dispatchers -> Events \cup {NoClaim}]
    /\ effects \in [Events -> Nat]

\* The row leaves the list of rows that are due.
Dequeue(k) == \E i \in DOMAIN due : due[i] = k /\ due' = RemoveAt(due, i)

Locked(k) == \E p \in Dispatchers : claim[p] = k

-----------------------------------------------------------------------------
Init ==
    /\ domainEvent = [k \in Events |-> NoEvent]
    /\ delivery = [k \in Events |-> "absent"]
    /\ attempts = [k \in Events |-> 0]
    /\ redrives = [k \in Events |-> 0]
    /\ due = <<>> /\ later = <<>>
    /\ claim = [p \in Dispatchers |-> NoClaim]
    /\ effects = [k \in Events |-> 0]

\* publish_event inside the producer's transaction.  The same contents under
\* the same identity are accepted without a new row; others are a conflict.
Publish(k, contents) ==
    \/ /\ domainEvent[k] = NoEvent
       /\ domainEvent' = [domainEvent EXCEPT ![k] = contents]
       /\ delivery' = [delivery EXCEPT ![k] = "pending"]
       /\ due' = Append(due, k)
       /\ UNCHANGED <<attempts, redrives, later, claim, effects>>
    \/ /\ domainEvent[k] = contents
       /\ UNCHANGED vars

\* The rows a dispatcher's query may return: live, with attempts left.
Claimable(k) == delivery[k] \in Live /\ attempts[k] < MaxAttempts

\* Seeded fault: FOR UPDATE without SKIP LOCKED semantics or re-evaluation.
FirstIgnoringLocks(i) ==
    Claimable(due[i]) /\ \A j \in 1..(i - 1) : ~Claimable(due[j])
First(i) ==
    /\ Claimable(due[i]) /\ ~Locked(due[i])
    /\ \A j \in 1..(i - 1) : ~Claimable(due[j]) \/ Locked(due[j])

Claim(p) ==
    /\ claim[p] = NoClaim
    /\ \E i \in DOMAIN due : First(i) /\ claim' = [claim EXCEPT ![p] = due[i]]
    /\ UNCHANGED <<domainEvent, rowVars, effects>>

\* The handler succeeds: its effect and the completion commit together.
Complete(p) ==
    LET k == claim[p] IN
    /\ k # NoClaim
    /\ delivery' = [delivery EXCEPT ![k] = "completed"]
    /\ attempts' = [attempts EXCEPT ![k] = @ + 1]
    /\ Dequeue(k)
    /\ effects' = [effects EXCEPT ![k] = @ + 1]
    /\ claim' = [claim EXCEPT ![p] = NoClaim]
    /\ UNCHANGED <<domainEvent, redrives, later>>

\* Seeded fault: the last attempt is followed by one more back-off.
ExhaustedLate(k) == attempts[k] + 1 > MaxAttempts
Exhausted(k) == attempts[k] + 1 >= MaxAttempts

\* The handler raises or times out: its savepoint is undone, and the row waits
\* for its back-off or is put aside.  The waiting rows are ordered by when
\* their own back-off ends, so this one may take any place among them.
Fail(p) ==
    LET k == claim[p] IN
    /\ k # NoClaim
    /\ attempts' = [attempts EXCEPT ![k] = @ + 1]
    /\ Dequeue(k)
    /\ IF Exhausted(k)
       THEN /\ delivery' = [delivery EXCEPT ![k] = "dead_letter"]
            /\ UNCHANGED later
       ELSE /\ delivery' = [delivery EXCEPT ![k] = "retry_wait"]
            /\ \E i \in 1..(Len(later) + 1) : later' = InsertAt(later, i, k)
    /\ claim' = [claim EXCEPT ![p] = NoClaim]
    /\ UNCHANGED <<domainEvent, redrives, effects>>

\* The process dies, or loses its database connection: the row is unlocked.
Crash(p) ==
    /\ claim[p] # NoClaim
    /\ claim' = [claim EXCEPT ![p] = NoClaim]
    /\ UNCHANGED <<domainEvent, rowVars, effects>>

BackoffEnds ==
    /\ later # <<>>
    /\ due' = Append(due, Head(later))
    /\ later' = Tail(later)
    /\ UNCHANGED <<domainEvent, delivery, attempts, redrives, claim, effects>>

\* Seeded fault: any finished delivery may be sent again.
RedriveFinished(k, expected) ==
    delivery[k] \in {"dead_letter", "completed"} /\ redrives[k] = expected
RedriveAllowed(k, expected) ==
    delivery[k] = "dead_letter" /\ redrives[k] = expected

\* Seeded fault: the attempt window is kept.
KeptAttempts(k) == attempts[k]
RedrivenAttempts(k) == 0

\* The owner sends a dead letter again, naming the redrive count last seen.
Redrive(k, expected) ==
    /\ RedriveAllowed(k, expected)
    /\ redrives[k] < MaxRedrives
    /\ delivery' = [delivery EXCEPT ![k] = "pending"]
    /\ attempts' = [attempts EXCEPT ![k] = RedrivenAttempts(k)]
    /\ redrives' = [redrives EXCEPT ![k] = @ + 1]
    /\ due' = Append(due, k)
    /\ UNCHANGED <<domainEvent, later, claim, effects>>

BusStep ==
    \/ \E p \in Dispatchers : Claim(p) \/ Complete(p) \/ Fail(p) \/ Crash(p)
    \/ BackoffEnds
    \/ \E k \in Events, n \in 0..MaxRedrives : Redrive(k, n)

Next == BusStep \/ \E k \in Events, c \in Contents : Publish(k, c)

Spec == Init /\ [][Next]_vars

\* The worker's maintenance loop polls for ever; a handler run ends, by its
\* answer or by asyncio.timeout, unless the process dies, and it does not die
\* every time; waiting for a back-off needs only time.
Fairness ==
    /\ \A p \in Dispatchers : /\ WF_vars(Claim(p))
                              /\ SF_vars(Complete(p) \/ Fail(p))
    /\ WF_vars(BackoffEnds)
FairSpec == Spec /\ Fairness

-----------------------------------------------------------------------------
(* Properties. *)

\* Handlers have effectively-once effects: however often a delivery was tried,
\* crashed, dead-lettered and redriven, its effect committed exactly when the
\* row says completed, and once.
EffectivelyOnce ==
    \A k \in Events : effects[k] = IF delivery[k] = "completed" THEN 1 ELSE 0

\* Dispatchers never run the same delivery at the same time, and a claimed row
\* stays live until the claim ends.
ClaimsAreExclusive ==
    \A p, q \in Dispatchers :
        claim[p] # NoClaim => /\ claim[p] = claim[q] => p = q
                              /\ Claimable(claim[p])

\* Every published event is handled or becomes a dead letter.
EveryEventSettles ==
    \A k \in Events :
        delivery[k] \in Live ~> delivery[k] \in {"completed", "dead_letter"}

\* The bus implements the promise of EventDelivery.
Phase == [absent |-> "unpublished", pending |-> "outstanding", retry_wait |-> "outstanding",
          completed |-> "done", dead_letter |-> "dead"]

PhaseOfRows == [k \in Events |-> Phase[delivery[k]]]

Promise == INSTANCE EventDelivery WITH phase <- PhaseOfRows

ImplementsDelivery == Promise!FairSpec
=============================================================================
