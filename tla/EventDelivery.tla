--------------------------- MODULE EventDelivery ---------------------------
(***************************************************************************)
(* What the event bus promises for one consumer, without attempts, queues, *)
(* locks or workers (ADR-0017): a published event stays outstanding until  *)
(* its handler has taken effect, exactly once, or until it is put aside as *)
(* a dead letter, which the owner may send again.                          *)
(***************************************************************************)
EXTENDS Naturals

CONSTANTS Events

VARIABLES
    phase,      \* "unpublished", "outstanding", "done" or "dead"
    effects     \* committed handler runs of each event

vars == <<phase, effects>>

Init ==
    /\ phase = [k \in Events |-> "unpublished"]
    /\ effects = [k \in Events |-> 0]

Publish(k) ==
    /\ phase[k] = "unpublished"
    /\ phase' = [phase EXCEPT ![k] = "outstanding"]
    /\ UNCHANGED effects

Handle(k) ==
    /\ phase[k] = "outstanding"
    /\ phase' = [phase EXCEPT ![k] = "done"]
    /\ effects' = [effects EXCEPT ![k] = @ + 1]

PutAside(k) ==
    /\ phase[k] = "outstanding"
    /\ phase' = [phase EXCEPT ![k] = "dead"]
    /\ UNCHANGED effects

SendAgain(k) ==
    /\ phase[k] = "dead"
    /\ phase' = [phase EXCEPT ![k] = "outstanding"]
    /\ UNCHANGED effects

Next == \E k \in Events : Publish(k) \/ Handle(k) \/ PutAside(k) \/ SendAgain(k)

\* Nothing stays outstanding for ever.
Fairness == \A k \in Events : WF_vars(Handle(k) \/ PutAside(k))

Spec == Init /\ [][Next]_vars
FairSpec == Spec /\ Fairness
=============================================================================
