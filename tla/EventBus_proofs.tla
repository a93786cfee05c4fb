--------------------------- MODULE EventBus_proofs ---------------------------
(***************************************************************************)
(* Theorems about EventBus for any events, dispatchers and limits.         *)
(***************************************************************************)
EXTENDS EventBus, TLAPS

\* A delivery row exists exactly for a published event, and starts unused.
RowsMatchEvents ==
    \A k \in Events : /\ domainEvent[k] = NoEvent <=> delivery[k] = "absent"
                      /\ delivery[k] = "absent" => attempts[k] = 0

IInv == TypeOK /\ RowsMatchEvents /\ ClaimsAreExclusive /\ EffectivelyOnce

\* Taking a row out of a queue, or putting it anywhere in it, leaves a queue.
LEMMA QueuesStayQueues ==
    ASSUME NEW s \in Seq(Events), NEW k \in Events
    PROVE  /\ \A i \in DOMAIN s : RemoveAt(s, i) \in Seq(Events)
           /\ \A i \in 1..(Len(s) + 1) : InsertAt(s, i, k) \in Seq(Events)
BY DEF RemoveAt, InsertAt

LEMMA InitHolds == Init => IInv
BY EventBusAssumption
   DEF Init, IInv, TypeOK, RowsMatchEvents, ClaimsAreExclusive, EffectivelyOnce, Live

\* Ending the claim of p leaves the others' claims exclusive and claimable when
\* no other row changes.
LEMMA SettleKeepsClaims ==
    ASSUME IInv, NEW p \in Dispatchers, claim[p] # NoClaim,
           claim' = [claim EXCEPT ![p] = NoClaim],
           \A k \in Events \ {claim[p]} : /\ delivery'[k] = delivery[k]
                                          /\ attempts'[k] = attempts[k]
    PROVE  ClaimsAreExclusive'
BY EventBusAssumption DEF IInv, ClaimsAreExclusive, TypeOK, Claimable

LEMMA StepHolds == IInv /\ [Next]_vars => IInv'
<1> SUFFICES ASSUME IInv, [Next]_vars PROVE IInv'
  OBVIOUS
<1> USE EventBusAssumption DEF IInv
<1>1. ASSUME NEW k \in Events, NEW c \in Contents, Publish(k, c) PROVE IInv'
  <2>1. CASE UNCHANGED vars
    BY <2>1 DEF vars, rowVars, TypeOK, RowsMatchEvents, ClaimsAreExclusive,
                EffectivelyOnce, Claimable
  <2>2. CASE /\ domainEvent[k] = NoEvent
             /\ domainEvent' = [domainEvent EXCEPT ![k] = c]
             /\ delivery' = [delivery EXCEPT ![k] = "pending"]
             /\ due' = Append(due, k)
             /\ UNCHANGED <<attempts, redrives, later, claim, effects>>
    <3>1. TypeOK'
      BY <2>2 DEF TypeOK, Live
    <3>2. delivery[k] = "absent" /\ attempts[k] = 0
      BY <2>2 DEF RowsMatchEvents
    <3>3. RowsMatchEvents' /\ EffectivelyOnce'
      BY <2>2, <3>2 DEF TypeOK, RowsMatchEvents, EffectivelyOnce
    <3>4. ClaimsAreExclusive'
      BY <2>2, <3>2 DEF TypeOK, ClaimsAreExclusive, Claimable, Live
    <3> QED BY <3>1, <3>3, <3>4
  <2> QED BY <1>1, <2>1, <2>2 DEF Publish
<1>2. ASSUME NEW p \in Dispatchers, Claim(p) PROVE IInv'
  <2>1. PICK i \in DOMAIN due : First(i) /\ claim' = [claim EXCEPT ![p] = due[i]]
    BY <1>2 DEF Claim
  <2>2. due[i] \in Events
    BY <2>1 DEF TypeOK
  <2>3. UNCHANGED <<domainEvent, delivery, attempts, redrives, due, later, effects>>
    BY <1>2 DEF Claim, rowVars
  <2>4. TypeOK'
    BY <2>1, <2>2, <2>3 DEF TypeOK
  <2>5. ClaimsAreExclusive'
    BY <2>1, <2>2, <2>3 DEF TypeOK, ClaimsAreExclusive, First, Locked, Claimable
  <2> QED BY <2>3, <2>4, <2>5 DEF RowsMatchEvents, EffectivelyOnce
<1>3. ASSUME NEW p \in Dispatchers, Complete(p) PROVE IInv'
  <2> DEFINE k == claim[p]
  <2>1. k \in Events /\ Claimable(k) /\ delivery[k] \in Live
    BY <1>3 DEF Complete, TypeOK, ClaimsAreExclusive, Claimable
  <2>2. due' \in Seq(Events)
    BY <1>3, <2>1, QueuesStayQueues DEF Complete, Dequeue, TypeOK
  <2>3. TypeOK'
    <3>1. attempts' \in [Events -> 0..MaxAttempts]
      BY <1>3, <2>1 DEF Complete, TypeOK, Claimable
    <3>2. effects' \in [Events -> Nat] /\ claim' \in [Dispatchers -> Events \cup {NoClaim}]
      BY <1>3 DEF Complete, TypeOK
    <3> QED BY <1>3, <2>2, <3>1, <3>2 DEF Complete, TypeOK
  <2>4. RowsMatchEvents' /\ EffectivelyOnce'
    BY <1>3, <2>1 DEF Complete, TypeOK, RowsMatchEvents, EffectivelyOnce, Live
  <2>5. ClaimsAreExclusive'
    BY <1>3, SettleKeepsClaims DEF Complete, TypeOK
  <2> QED BY <2>3, <2>4, <2>5
<1>4. ASSUME NEW p \in Dispatchers, Fail(p) PROVE IInv'
  <2> DEFINE k == claim[p]
  <2>1. k \in Events /\ Claimable(k) /\ delivery[k] \in Live
    BY <1>4 DEF Fail, TypeOK, ClaimsAreExclusive, Claimable
  <2>2. due' \in Seq(Events) /\ later' \in Seq(Events)
    BY <1>4, <2>1, QueuesStayQueues DEF Fail, Dequeue, TypeOK
  <2>3. \/ delivery' = [delivery EXCEPT ![k] = "dead_letter"]
        \/ delivery' = [delivery EXCEPT ![k] = "retry_wait"]
    BY <1>4 DEF Fail
  <2>4. TypeOK'
    <3>1. attempts' \in [Events -> 0..MaxAttempts]
      BY <1>4, <2>1 DEF Fail, TypeOK, Claimable
    <3>2. claim' \in [Dispatchers -> Events \cup {NoClaim}]
      BY <1>4 DEF Fail, TypeOK
    <3> QED BY <1>4, <2>2, <2>3, <3>1, <3>2 DEF Fail, TypeOK, Live
  <2>5. RowsMatchEvents' /\ EffectivelyOnce'
    BY <1>4, <2>1, <2>3 DEF Fail, TypeOK, RowsMatchEvents, EffectivelyOnce, Live
  <2>6. ClaimsAreExclusive'
    BY <1>4, <2>3, SettleKeepsClaims DEF Fail, TypeOK
  <2> QED BY <2>4, <2>5, <2>6
<1>5. ASSUME NEW p \in Dispatchers, Crash(p) PROVE IInv'
  BY <1>5 DEF Crash, rowVars, TypeOK, RowsMatchEvents, ClaimsAreExclusive,
              EffectivelyOnce, Claimable
<1>6. CASE BackoffEnds
  BY <1>6 DEF BackoffEnds, TypeOK, RowsMatchEvents, ClaimsAreExclusive,
              EffectivelyOnce, Claimable
<1>7. ASSUME NEW k \in Events, NEW n \in 0..MaxRedrives, Redrive(k, n) PROVE IInv'
  <2>1. delivery[k] = "dead_letter" /\ redrives[k] < MaxRedrives
    BY <1>7 DEF Redrive, RedriveAllowed
  <2>2. TypeOK'
    BY <1>7, <2>1 DEF Redrive, RedrivenAttempts, TypeOK, Live
  <2>3. RowsMatchEvents' /\ EffectivelyOnce'
    BY <1>7, <2>1 DEF Redrive, RedrivenAttempts, TypeOK, RowsMatchEvents, EffectivelyOnce
  <2>4. ClaimsAreExclusive'
    BY <1>7, <2>1 DEF Redrive, TypeOK, ClaimsAreExclusive, Claimable, Live
  <2> QED BY <2>2, <2>3, <2>4
<1>8. CASE UNCHANGED vars
  BY <1>8 DEF vars, rowVars, TypeOK, RowsMatchEvents, ClaimsAreExclusive,
              EffectivelyOnce, Claimable
<1> QED
  BY <1>1, <1>2, <1>3, <1>4, <1>5, <1>6, <1>7, <1>8 DEF Next, BusStep

\* Reachable states are well typed, attempts within the consumer's limit
\* included: a claimed row always has an attempt left.
THEOREM TypeCorrect == Spec => []TypeOK
BY InitHolds, StepHolds, PTL DEF Spec, IInv

\* The row lock and the claim query keep dispatchers apart.
THEOREM ClaimsExclusive == Spec => []ClaimsAreExclusive
BY InitHolds, StepHolds, PTL DEF Spec, IInv

\* A handler's effect commits exactly when its delivery completes, and once,
\* whatever crashes, failures and redrives came before.
THEOREM HandledEffectivelyOnce == Spec => []EffectivelyOnce
BY InitHolds, StepHolds, PTL DEF Spec, IInv

-----------------------------------------------------------------------------
\* A change of one row's status is a change of that event's phase.
LEMMA PhaseChange ==
    ASSUME NEW k \in Events, NEW s, NEW f,
           \A j \in Events : delivery'[j] = IF j = k THEN s ELSE delivery[j],
           Phase[s] = f
    PROVE  PhaseOfRows' = [PhaseOfRows EXCEPT ![k] = f]
<1>1. \A j \in Events : Phase[delivery'[j]] = IF j = k THEN f ELSE Phase[delivery[j]]
  OBVIOUS
<1> QED BY <1>1 DEF PhaseOfRows

LEMMA PhaseTable ==
    /\ Phase["absent"] = "unpublished"
    /\ Phase["pending"] = "outstanding" /\ Phase["retry_wait"] = "outstanding"
    /\ Phase["completed"] = "done" /\ Phase["dead_letter"] = "dead"
BY DEF Phase

\* Every step of the bus is a step that EventDelivery allows, or none: the safety
\* part of the refinement, for any number of dispatchers.
THEOREM ImplementsPromise == Spec => Promise!Spec
<1>1. Init => Promise!Init
  BY DEF Init, Promise!Init, PhaseOfRows, Phase
<1>2. IInv /\ [Next]_vars => [Promise!Next]_(Promise!vars)
  <2> SUFFICES ASSUME IInv, [Next]_vars PROVE [Promise!Next]_(Promise!vars)
    OBVIOUS
  <2> USE EventBusAssumption DEF IInv
  <2>0. ASSUME UNCHANGED <<delivery, effects>> PROVE UNCHANGED Promise!vars
    BY <2>0 DEF Promise!vars, PhaseOfRows
  <2>1. ASSUME NEW k \in Events, NEW c \in Contents, Publish(k, c)
        PROVE  [Promise!Next]_(Promise!vars)
    <3>1. CASE UNCHANGED vars
      BY <3>1, <2>0 DEF vars, rowVars
    <3>2. CASE /\ domainEvent[k] = NoEvent
               /\ delivery' = [delivery EXCEPT ![k] = "pending"]
               /\ UNCHANGED effects
      <4>1. delivery[k] = "absent"
        BY <3>2 DEF RowsMatchEvents
      <4>2. Promise!Publish(k)
        <5>0. \A j \in Events : delivery'[j] = IF j = k THEN "pending" ELSE delivery[j]
          BY <3>2 DEF TypeOK
        <5>1. PhaseOfRows' = [PhaseOfRows EXCEPT ![k] = "outstanding"]
          BY <5>0, PhaseChange, PhaseTable
        <5>2. PhaseOfRows[k] = "unpublished"
          BY <4>1, PhaseTable DEF PhaseOfRows
        <5> QED BY <3>2, <5>1, <5>2 DEF Promise!Publish
      <4> QED BY <4>2 DEF Promise!Next
    <3> QED BY <2>1, <3>1, <3>2 DEF Publish
  <2>2. ASSUME NEW p \in Dispatchers, Claim(p) \/ Crash(p)
        PROVE  [Promise!Next]_(Promise!vars)
    BY <2>2, <2>0 DEF Claim, Crash, rowVars
  <2>3. ASSUME NEW p \in Dispatchers, Complete(p)
        PROVE  [Promise!Next]_(Promise!vars)
    <3> DEFINE k == claim[p]
    <3>1. k \in Events /\ delivery[k] \in Live
      BY <2>3 DEF Complete, TypeOK, ClaimsAreExclusive, Claimable
    <3>2. Promise!Handle(k)
      <4>0. \A j \in Events : delivery'[j] = IF j = k THEN "completed" ELSE delivery[j]
        BY <2>3, <3>1 DEF Complete, TypeOK
      <4>1. PhaseOfRows' = [PhaseOfRows EXCEPT ![k] = "done"]
        BY <3>1, <4>0, PhaseChange, PhaseTable
      <4>2. PhaseOfRows[k] = "outstanding"
        BY <3>1, PhaseTable DEF PhaseOfRows, Live
      <4> QED BY <2>3, <4>1, <4>2 DEF Complete, Promise!Handle
    <3> QED BY <3>1, <3>2 DEF Promise!Next
  <2>4. ASSUME NEW p \in Dispatchers, Fail(p)
        PROVE  [Promise!Next]_(Promise!vars)
    <3> DEFINE k == claim[p]
    <3>1. k \in Events /\ delivery[k] \in Live
      BY <2>4 DEF Fail, TypeOK, ClaimsAreExclusive, Claimable
    <3>2. PhaseOfRows[k] = "outstanding"
      BY <3>1, PhaseTable DEF PhaseOfRows, Live
    <3>3. CASE delivery' = [delivery EXCEPT ![k] = "dead_letter"]
      <4>0. \A j \in Events : delivery'[j] = IF j = k THEN "dead_letter" ELSE delivery[j]
        BY <3>1, <3>3 DEF TypeOK
      <4>1. PhaseOfRows' = [PhaseOfRows EXCEPT ![k] = "dead"]
        BY <3>1, <4>0, PhaseChange, PhaseTable
      <4>2. Promise!PutAside(k)
        BY <2>4, <3>2, <4>1 DEF Fail, Promise!PutAside
      <4> QED BY <3>1, <4>2 DEF Promise!Next
    <3>4. CASE delivery' = [delivery EXCEPT ![k] = "retry_wait"]
      <4>0. \A j \in Events : delivery'[j] = IF j = k THEN "retry_wait" ELSE delivery[j]
        BY <3>1, <3>4 DEF TypeOK
      <4>1. PhaseOfRows' = [PhaseOfRows EXCEPT ![k] = "outstanding"]
        BY <3>1, <4>0, PhaseChange, PhaseTable
      <4>2. PhaseOfRows' = PhaseOfRows
        BY <3>1, <3>2, <4>1 DEF PhaseOfRows
      <4> QED BY <4>2, <2>4 DEF Fail, Promise!vars
    <3> QED BY <2>4, <3>3, <3>4 DEF Fail
  <2>5. CASE BackoffEnds
    BY <2>5, <2>0 DEF BackoffEnds
  <2>6. ASSUME NEW k \in Events, NEW n \in 0..MaxRedrives, Redrive(k, n)
        PROVE  [Promise!Next]_(Promise!vars)
    <3>1. Promise!SendAgain(k)
      <4>0. \A j \in Events : delivery'[j] = IF j = k THEN "pending" ELSE delivery[j]
        BY <2>6 DEF Redrive, TypeOK
      <4>1. PhaseOfRows' = [PhaseOfRows EXCEPT ![k] = "outstanding"]
        BY <4>0, PhaseChange, PhaseTable
      <4>2. PhaseOfRows[k] = "dead"
        BY <2>6, PhaseTable DEF PhaseOfRows, Redrive, RedriveAllowed
      <4> QED BY <2>6, <4>1, <4>2 DEF Redrive, Promise!SendAgain
    <3> QED BY <3>1 DEF Promise!Next
  <2>7. CASE UNCHANGED vars
    BY <2>7, <2>0 DEF vars, rowVars
  <2> QED
    BY <2>1, <2>2, <2>3, <2>4, <2>5, <2>6, <2>7 DEF Next, BusStep
<1> QED BY <1>1, <1>2, InitHolds, StepHolds, PTL DEF Spec, Promise!Spec
=============================================================================
