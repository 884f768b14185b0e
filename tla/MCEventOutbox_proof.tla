------------------------ MODULE MCEventOutbox_proof -------------------------
(***************************************************************************)
(* Proofs about the outbox, the sign-in factors and the catalogue of       *)
(* packages, for any number of events, handlers, dispatchers, requests and *)
(* rows and any of the limits.                                             *)
(*                                                                         *)
(* Of the outbox: its inductive invariant, type correctness, that every    *)
(* step maps to a step or a stutter of EventDelivery, that an event is     *)
(* delivered once unless a lease lapsed, and that marks are by the claimer.*)
(***************************************************************************)
EXTENDS MCEventOutbox, FiniteSetTheorems, SequenceTheorems, TLAPS

(* What a dispatcher has in hand was recorded, and what it takes for       *)
(* delivered was completed by every handler; so was what is dispatched or  *)
(* purged.                                                                 *)
ClaimsAreRecorded ==
    \A d \in Dispatchers, e \in Events :
        held[d][e] > 0 \/ current[d] = e => status[e] # "absent"

SuccessIsComplete ==
    \A d \in Dispatchers, e \in Events : current[d] = e /\ ok[d] => done[e] = Handlers

SettledIsComplete ==
    \A e \in Events : status[e] \in {"dispatched", "purged"} => done[e] = Handlers

(* Nothing is completed before it is recorded.                             *)
AbsentIsUntouched == \A e \in Events : status[e] = "absent" => done[e] = {}

IInv == TypeOK /\ ClaimsAreRecorded /\ SuccessIsComplete /\ SettledIsComplete /\ AbsentIsUntouched

-----------------------------------------------------------------------------
(* The initial state satisfies the invariant.                              *)
LEMMA InitIInv == Init => IInv
<1> SUFFICES ASSUME Init PROVE IInv
    OBVIOUS
<1> USE OutboxAssumption
<1>1. TypeOK
    BY DEF Init, TypeOK, NoClaim, Counts, Statuses, Live
<1>2. ClaimsAreRecorded /\ SuccessIsComplete
    BY DEF Init, ClaimsAreRecorded, SuccessIsComplete, NoClaim
<1>3. SettledIsComplete /\ AbsentIsUntouched
    BY DEF Init, SettledIsComplete, AbsentIsUntouched
<1> QED
    BY <1>1, <1>2, <1>3 DEF IInv

(* Steps of the record alone: recorded, due, lapsed, requeued, purged.     *)
LEMMA EventStepIInv ==
    ASSUME IInv, NEW e \in Events, EventStep(e)
    PROVE  IInv'
<1> USE OutboxAssumption
<1>1. UNCHANGED <<done, held, current, ok>>
    BY DEF EventStep, Add, BackoffElapses, LeaseExpires, Requeue, Purge, history
<1>2. /\ \E s \in Statuses \ {"absent"} : status' = [status EXCEPT ![e] = s]
      /\ status'[e] \in {"dispatched", "purged"} => status[e] = "dispatched"
    BY DEF IInv, TypeOK, EventStep, Add, BackoffElapses, LeaseExpires, Requeue, Purge, Statuses, Live
<1>3. TypeOK'
  <2>1. attempts' \in [Events -> Counts]
      BY DEF IInv, TypeOK, EventStep, Add, BackoffElapses, LeaseExpires, Requeue, Purge, Counts
  <2>2. delivered' \in SUBSET Events /\ twice' \in SUBSET Events /\ lapsed' \in SUBSET Events
      BY DEF IInv, TypeOK, EventStep, Add, BackoffElapses, LeaseExpires, Requeue, Purge, history
  <2>3. status' \in [Events -> Statuses]
      BY <1>2 DEF IInv, TypeOK
  <2> QED
      BY <1>1, <2>1, <2>2, <2>3 DEF IInv, TypeOK
<1>4. ClaimsAreRecorded' /\ SuccessIsComplete'
    BY <1>1, <1>2 DEF IInv, TypeOK, ClaimsAreRecorded, SuccessIsComplete
<1>5. SettledIsComplete' /\ AbsentIsUntouched'
    BY <1>1, <1>2 DEF IInv, TypeOK, SettledIsComplete, AbsentIsUntouched
<1> QED
    BY <1>3, <1>4, <1>5 DEF IInv

(* A claim hands out recorded events only.                                 *)
LEMMA ClaimIInv ==
    ASSUME IInv, NEW d \in Dispatchers, Claim(d)
    PROVE  IInv'
<1> USE OutboxAssumption
<1>1. PICK batch \in SUBSET Claimable :
        /\ status' = [e \in Events |-> IF e \in batch THEN "leased" ELSE status[e]]
        /\ attempts' = [e \in Events |->
                          IF e \in batch /\ attempts[e] <= MaxAttempts
                          THEN attempts[e] + 1 ELSE attempts[e]]
        /\ held' = [held EXCEPT ![d] = [e \in Events |-> IF e \in batch THEN attempts'[e] ELSE 0]]
    BY DEF Claim
<1>2. /\ UNCHANGED <<done, current, ok, delivered, twice, lapsed>>
      /\ current[d] = None
    BY DEF Claim, Idle, history
<1>3. \A e \in batch : e \in Events /\ status[e] \in {"due", "lapsed"}
    BY DEF Claimable
<1>4. TypeOK'
  <2>1. status' \in [Events -> Statuses]
      BY <1>1 DEF IInv, TypeOK, Statuses, Live
  <2>2. attempts' \in [Events -> Counts]
      BY <1>1 DEF IInv, TypeOK, Counts
  <2>3. held' \in [Dispatchers -> [Events -> Counts]]
    <3>1. [e \in Events |-> IF e \in batch THEN attempts'[e] ELSE 0] \in [Events -> Counts]
        BY <2>2 DEF Counts
    <3> QED
        BY <1>1, <3>1 DEF IInv, TypeOK
  <2> QED
      BY <1>2, <2>1, <2>2, <2>3 DEF IInv, TypeOK
<1>5. ClaimsAreRecorded'
  <2> SUFFICES ASSUME NEW c \in Dispatchers, NEW e \in Events, held'[c][e] > 0 \/ current'[c] = e
               PROVE  status'[e] # "absent"
      BY DEF ClaimsAreRecorded
  <2>1. CASE e \in batch
      BY <1>1, <2>1
  <2>2. CASE e \notin batch
    <3>1. status'[e] = status[e]
        BY <1>1, <2>2
    <3>2. c = d => held'[c][e] = 0
        BY <1>1, <2>2 DEF IInv, TypeOK
    <3>3. c # d => held'[c][e] = held[c][e]
        BY <1>1 DEF IInv, TypeOK
    <3> QED
        BY <1>2, <3>1, <3>2, <3>3 DEF IInv, ClaimsAreRecorded
  <2> QED
      BY <2>1, <2>2
<1>6. SuccessIsComplete'
    BY <1>2 DEF IInv, SuccessIsComplete
<1>7. SettledIsComplete' /\ AbsentIsUntouched'
    BY <1>1, <1>2 DEF IInv, SettledIsComplete, AbsentIsUntouched
<1> QED
    BY <1>4, <1>5, <1>6, <1>7 DEF IInv

(* A delivery only adds handlers, to an event that was recorded.           *)
LEMMA DeliverIInv ==
    ASSUME IInv, NEW d \in Dispatchers, NEW e \in Events, Deliver(d, e)
    PROVE  IInv' /\ status[e] # "absent"
<1> USE OutboxAssumption
<1>1. PICK hs \in SUBSET Handlers :
        /\ done' = [done EXCEPT ![e] = @ \cup hs]
        /\ ok' = [ok EXCEPT ![d] = hs = Handlers]
        /\ delivered' = IF hs = Handlers THEN delivered \cup {e} ELSE delivered
        /\ twice' = IF hs = Handlers /\ e \in delivered THEN twice \cup {e} ELSE twice
    BY DEF Deliver
<1>2. /\ held[d][e] > 0
      /\ current' = [current EXCEPT ![d] = e]
      /\ UNCHANGED <<status, attempts, held, lapsed>>
    BY DEF Deliver
<1>3. status[e] # "absent"
    BY <1>2 DEF IInv, ClaimsAreRecorded
<1>4. TypeOK'
  <2>1. done' \in [Events -> SUBSET Handlers]
      BY <1>1 DEF IInv, TypeOK
  <2>2. ok' \in [Dispatchers -> BOOLEAN]
      BY <1>1 DEF IInv, TypeOK
  <2>3. delivered' \in SUBSET Events /\ twice' \in SUBSET Events
      BY <1>1 DEF IInv, TypeOK
  <2>4. current' \in [Dispatchers -> Events \cup {None}]
      BY <1>2 DEF IInv, TypeOK
  <2> QED
      BY <1>2, <2>1, <2>2, <2>3, <2>4 DEF IInv, TypeOK
<1>5. ClaimsAreRecorded'
    BY <1>2, <1>3 DEF IInv, TypeOK, ClaimsAreRecorded
<1>6. \A f \in Events : done[f] \subseteq done'[f] /\ done'[f] \in SUBSET Handlers
    BY <1>1 DEF IInv, TypeOK
<1>7. SuccessIsComplete'
  <2> SUFFICES ASSUME NEW c \in Dispatchers, NEW f \in Events, current'[c] = f /\ ok'[c]
               PROVE  done'[f] = Handlers
      BY DEF SuccessIsComplete
  <2>1. CASE c = d
    <3>1. f = e
        BY <1>2, <2>1 DEF IInv, TypeOK
    <3>2. hs = Handlers
        BY <1>1, <2>1 DEF IInv, TypeOK
    <3> QED
        BY <1>1, <1>6, <3>1, <3>2 DEF IInv, TypeOK
  <2>2. CASE c # d
    <3>1. current[c] = f /\ ok[c]
        BY <1>1, <1>2, <2>2 DEF IInv, TypeOK
    <3> QED
        BY <1>6, <3>1 DEF IInv, SuccessIsComplete
  <2> QED
      BY <2>1, <2>2
<1>8. SettledIsComplete'
    BY <1>2, <1>6 DEF IInv, SettledIsComplete
<1>9. AbsentIsUntouched'
    BY <1>1, <1>2, <1>3 DEF IInv, TypeOK, AbsentIsUntouched
<1> QED
    BY <1>3, <1>4, <1>5, <1>7, <1>8, <1>9 DEF IInv

(* A mark, a lost mark or a crash changes no completion, and settles only  *)
(* what was delivered without error.                                       *)
LEMMA LeaveIInv ==
    ASSUME IInv, NEW d \in Dispatchers,
           MarkDispatched(d) \/ MarkFailed(d) \/ MarkLost(d) \/ Crash(d)
    PROVE  /\ IInv'
           /\ UNCHANGED done
           /\ \A e \in Events : status'[e] \in {"absent", "purged"} <=> status[e] \in {"absent", "purged"}
<1> USE OutboxAssumption
<1>1. UNCHANGED <<attempts, done, ok, delivered, twice, lapsed>>
    BY DEF MarkDispatched, MarkFailed, MarkLost, Crash, Release, history
<1>2. /\ current' = [current EXCEPT ![d] = None]
      /\ held' \in [Dispatchers -> [Events -> Counts]]
      /\ \A c \in Dispatchers, e \in Events : held'[c][e] > 0 => held[c][e] > 0
  <2>1. CASE Release(d) /\ current[d] # None
    <3>1. current[d] \in Events /\ held[d] \in [Events -> Counts]
        BY <2>1 DEF IInv, TypeOK
    <3>2. held' = [held EXCEPT ![d] = [held[d] EXCEPT ![current[d]] = 0]]
        BY <2>1 DEF Release
    <3>3. [held[d] EXCEPT ![current[d]] = 0] \in [Events -> Counts]
        BY <3>1 DEF Counts
    <3>4. \A e \in Events : [held[d] EXCEPT ![current[d]] = 0][e] > 0 => held[d][e] > 0
        BY <3>1 DEF Counts
    <3> QED
        BY <2>1, <3>2, <3>3, <3>4 DEF Release, IInv, TypeOK
  <2>2. CASE Crash(d)
    <3>1. NoClaim \in [Events -> Counts] /\ \A e \in Events : ~(NoClaim[e] > 0)
        BY DEF NoClaim, Counts
    <3> QED
        BY <2>2, <3>1 DEF Crash, IInv, TypeOK
  <2> QED
      BY <2>1, <2>2 DEF MarkDispatched, MarkFailed, MarkLost
<1>3. /\ status' \in [Events -> Statuses]
      /\ \A e \in Events : status'[e] = "absent" <=> status[e] = "absent"
      /\ \A e \in Events : status'[e] = "purged" <=> status[e] = "purged"
      /\ \A e \in Events : status'[e] = "dispatched" => status[e] = "dispatched" \/ done[e] = Handlers
  <2>1. CASE MarkDispatched(d)
    <3>1. /\ current[d] \in Events
          /\ status' = [status EXCEPT ![current[d]] = IF @ = "purged" THEN @ ELSE "dispatched"]
        BY <2>1 DEF MarkDispatched, Mark, IInv, TypeOK
    <3>2. done[current[d]] = Handlers /\ status[current[d]] # "absent"
        BY <2>1, <3>1 DEF MarkDispatched, IInv, SuccessIsComplete, ClaimsAreRecorded
    <3> QED
        BY <3>1, <3>2 DEF IInv, TypeOK, Statuses
  <2>2. CASE MarkFailed(d)
    <3>1. /\ current[d] \in Events
          /\ \E s \in {"dead", "waiting"} :
               status' = [status EXCEPT ![current[d]] = IF @ = "purged" THEN @ ELSE s]
        BY <2>2 DEF MarkFailed, Mark, AfterFailure, IInv, TypeOK
    <3>2. status[current[d]] # "absent"
        BY <3>1 DEF IInv, ClaimsAreRecorded
    <3> QED
        BY <3>1, <3>2 DEF IInv, TypeOK, Statuses, Live
  <2>3. CASE MarkLost(d) \/ Crash(d)
      BY <2>3 DEF MarkLost, Crash, IInv, TypeOK
  <2> QED
      BY <2>1, <2>2, <2>3
<1>4. TypeOK'
  <2>1. current' \in [Dispatchers -> Events \cup {None}]
      BY <1>2 DEF IInv, TypeOK
  <2> QED
      BY <1>1, <1>2, <1>3, <2>1 DEF IInv, TypeOK
<1>5. \A c \in Dispatchers, e \in Events : current'[c] = e => current[c] = e
    BY <1>2 DEF IInv, TypeOK
<1>6. ClaimsAreRecorded' /\ SuccessIsComplete'
    BY <1>1, <1>2, <1>3, <1>5 DEF IInv, ClaimsAreRecorded, SuccessIsComplete
<1>7. SettledIsComplete' /\ AbsentIsUntouched'
    BY <1>1, <1>3 DEF IInv, SettledIsComplete, AbsentIsUntouched
<1> QED
    BY <1>1, <1>3, <1>4, <1>6, <1>7 DEF IInv

(* Every step preserves the invariant.                                     *)
LEMMA NextIInv == IInv /\ [Next]_vars => IInv'
<1> SUFFICES ASSUME IInv, [Next]_vars PROVE IInv'
    OBVIOUS
<1>1. ASSUME NEW e \in Events, EventStep(e) PROVE IInv'
    BY <1>1, EventStepIInv
<1>2. ASSUME NEW d \in Dispatchers, DispatcherStep(d) PROVE IInv'
    BY <1>2, ClaimIInv, DeliverIInv, LeaveIInv DEF DispatcherStep
<1>3. CASE UNCHANGED vars
    BY <1>3 DEF vars, IInv, TypeOK, ClaimsAreRecorded, SuccessIsComplete, SettledIsComplete,
               AbsentIsUntouched
<1> QED
    BY <1>1, <1>2, <1>3 DEF Next

(* The inductive invariant holds in every reachable state of the outbox    *)
(* (dispatcher.go, adapter/postgres/outbox).                               *)
THEOREM OutboxInvariant == Spec => []IInv
    BY InitIInv, NextIInv, PTL DEF Spec

(* Type correctness: rows, claims and marks keep their types for any       *)
(* number of events, dispatchers and handlers.                             *)
THEOREM OutboxTypeCorrect == Spec => []TypeOK
<1>1. IInv => TypeOK
    BY DEF IInv
<1> QED
    BY OutboxInvariant, <1>1, PTL

-----------------------------------------------------------------------------
(* Each step of the outbox is a step of EventDelivery or changes nothing   *)
(* it sees.                                                                *)
LEMMA StepRefines ==
    ASSUME IInv, [Next]_vars
    PROVE  [Delivery!Next]_<<Stored, done>>
<1> USE OutboxAssumption
<1>1. ASSUME NEW e \in Events, EventStep(e) PROVE [Delivery!Next]_<<Stored, done>>
  <2>1. UNCHANGED done
      BY <1>1 DEF EventStep, Add, BackoffElapses, LeaseExpires, Requeue, Purge, history
  <2>2. CASE Add(e)
    <3>1. /\ status[e] = "absent"
          /\ status' = [status EXCEPT ![e] = "due"]
        BY <2>2 DEF Add
    <3>2. Stored' = Stored \cup {e} /\ e \notin Stored /\ done[e] = {}
        BY <3>1 DEF Stored, IInv, TypeOK, AbsentIsUntouched
    <3>3. Delivery!Store(e)
        BY <2>1, <3>2 DEF Delivery!Store
    <3> QED
        BY <3>3 DEF Delivery!Next
  <2>3. CASE BackoffElapses(e) \/ LeaseExpires(e) \/ Requeue(e)
    <3>1. /\ status[e] \in {"waiting", "leased", "dead"}
          /\ \E s \in {"due", "lapsed"} : status' = [status EXCEPT ![e] = s]
        BY <2>3 DEF BackoffElapses, LeaseExpires, Requeue
    <3>2. Stored' = Stored
        BY <3>1 DEF Stored, IInv, TypeOK
    <3> QED
        BY <2>1, <3>2
  <2>4. CASE Purge(e)
    <3>1. /\ status[e] = "dispatched"
          /\ status' = [status EXCEPT ![e] = "purged"]
        BY <2>4 DEF Purge
    <3>2. Stored' = Stored \ {e} /\ e \in Stored /\ done[e] = Handlers
        BY <3>1 DEF Stored, IInv, TypeOK, SettledIsComplete
    <3>3. Delivery!Forget(e)
        BY <2>1, <3>2 DEF Delivery!Forget
    <3> QED
        BY <3>3 DEF Delivery!Next
  <2> QED
      BY <1>1, <2>2, <2>3, <2>4 DEF EventStep
<1>2. ASSUME NEW d \in Dispatchers, Claim(d) PROVE UNCHANGED <<Stored, done>>
  <2>1. PICK batch \in SUBSET Claimable :
          status' = [e \in Events |-> IF e \in batch THEN "leased" ELSE status[e]]
      BY <1>2 DEF Claim
  <2>2. Stored' = Stored
      BY <2>1 DEF Stored, Claimable
  <2> QED
      BY <1>2, <2>2 DEF Claim
<1>3. ASSUME NEW d \in Dispatchers, NEW e \in Events, Deliver(d, e)
      PROVE  [Delivery!Next]_<<Stored, done>>
  <2>1. PICK hs \in SUBSET Handlers : done' = [done EXCEPT ![e] = @ \cup hs]
      BY <1>3 DEF Deliver
  <2>2. Stored' = Stored
      BY <1>3 DEF Deliver, Stored
  <2>3. CASE e \in Stored
    <3>1. Delivery!Handle(e)
        BY <2>1, <2>2, <2>3 DEF Delivery!Handle
    <3> QED
        BY <3>1 DEF Delivery!Next
  <2>4. CASE e \notin Stored
    <3>1. status[e] = "purged"
        BY <1>3, <2>4, DeliverIInv DEF Stored
    <3>2. done[e] = Handlers
        BY <3>1 DEF IInv, SettledIsComplete
    <3>3. done' = done
        BY <2>1, <3>2 DEF IInv, TypeOK
    <3> QED
        BY <2>2, <3>3
  <2> QED
      BY <2>3, <2>4
<1>4. ASSUME NEW d \in Dispatchers,
             MarkDispatched(d) \/ MarkFailed(d) \/ MarkLost(d) \/ Crash(d)
      PROVE  UNCHANGED <<Stored, done>>
    BY <1>4, LeaveIInv DEF Stored
<1>5. CASE UNCHANGED vars
    BY <1>5 DEF vars, Stored
<1> QED
    BY <1>1, <1>2, <1>3, <1>4, <1>5 DEF Next, DispatcherStep

(* The outbox implements at-least-once delivery: an event recorded with a  *)
(* business change stays stored until every handler has completed it,      *)
(* through crashes, lapsed leases, stale marks, requeues and purges.       *)
THEOREM OutboxDelivers == Spec => AtLeastOnce
<1>1. Init => Delivery!Init
    BY DEF Init, Delivery!Init, Stored
<1> QED
    BY <1>1, StepRefines, OutboxInvariant, PTL DEF Spec, AtLeastOnce, Delivery!Spec

-----------------------------------------------------------------------------
(* What is delivered is still held, and an event whose lease never ran out *)
(* is held by one dispatcher only, whose copy is current; once it has been *)
(* delivered without error nobody delivers or reopens it.                  *)
DeliveredIsHeld ==
    \A d \in Dispatchers, e \in Events : current[d] = e => held[d][e] > 0

OneHolder ==
    \A e \in Events \ lapsed : \A c, d \in Dispatchers :
        held[c][e] > 0 /\ held[d][e] > 0 => c = d

HolderIsCurrent ==
    \A e \in Events \ lapsed : \A d \in Dispatchers :
        held[d][e] > 0 => status[e] = "leased" /\ held[d][e] = attempts[e]

DeliveredIsOver ==
    \A e \in delivered \ lapsed :
        /\ status[e] \in {"leased", "dispatched", "purged"}
        /\ \A d \in Dispatchers : held[d][e] > 0 => current[d] = e /\ ok[d]

Exclusive ==
    DeliveredIsHeld /\ OneHolder /\ HolderIsCurrent /\ DeliveredIsOver /\ OnceUnlessLapsed

(* The initial state satisfies it.                                         *)
LEMMA InitExclusive == Init => Exclusive
    BY OutboxAssumption DEF Init, Exclusive, DeliveredIsHeld, OneHolder, HolderIsCurrent,
       DeliveredIsOver, OnceUnlessLapsed, NoClaim

(* Steps of the record alone: none touches a leased record but the end of  *)
(* its lease.                                                              *)
LEMMA EventStepExclusive ==
    ASSUME TypeOK, Exclusive, NEW e \in Events, EventStep(e)
    PROVE  Exclusive'
<1>1. UNCHANGED <<held, current, ok, delivered, twice>>
    BY DEF EventStep, Add, BackoffElapses, LeaseExpires, Requeue, Purge, history
<1>2. /\ lapsed \subseteq lapsed'
      /\ \A f \in Events : f # e => status'[f] = status[f] /\ attempts'[f] = attempts[f]
      /\ e \in lapsed' \/ status[e] \notin {"leased", "lapsed", "purged"}
      /\ status[e] = "dispatched" => status'[e] = "purged"
    BY DEF TypeOK, EventStep, Add, BackoffElapses, LeaseExpires, Requeue, Purge, history
<1>3. DeliveredIsHeld' /\ OneHolder'
    BY <1>1, <1>2 DEF Exclusive, DeliveredIsHeld, OneHolder
<1>4. HolderIsCurrent'
    BY <1>1, <1>2 DEF Exclusive, HolderIsCurrent
<1>5. DeliveredIsOver'
    BY <1>1, <1>2 DEF TypeOK, Exclusive, DeliveredIsOver
<1>6. OnceUnlessLapsed'
    BY <1>1, <1>2 DEF Exclusive, OnceUnlessLapsed
<1> QED
    BY <1>3, <1>4, <1>5, <1>6 DEF Exclusive

(* A claim takes records nobody holds, unless their lease ran out.         *)
LEMMA ClaimExclusive ==
    ASSUME TypeOK, TypeOK', Exclusive, NEW d \in Dispatchers, Claim(d)
    PROVE  Exclusive'
<1>1. PICK batch \in SUBSET Claimable :
        /\ status' = [e \in Events |-> IF e \in batch THEN "leased" ELSE status[e]]
        /\ attempts' = [e \in Events |->
                          IF e \in batch /\ attempts[e] <= MaxAttempts
                          THEN attempts[e] + 1 ELSE attempts[e]]
        /\ held' = [held EXCEPT ![d] = [e \in Events |-> IF e \in batch THEN attempts'[e] ELSE 0]]
    BY DEF Claim
<1>2. /\ UNCHANGED <<current, ok, delivered, twice, lapsed>>
      /\ current[d] = None
    BY DEF Claim, Idle, history
<1>3. \A e \in batch : e \in Events /\ status[e] \in {"due", "lapsed"}
    BY DEF Claimable
<1>4. /\ \A e \in Events : held'[d][e] = IF e \in batch THEN attempts'[e] ELSE 0
      /\ \A c \in Dispatchers, e \in Events : c # d => held'[c][e] = held[c][e]
    BY <1>1 DEF TypeOK
<1>5. \A e \in Events \ lapsed, c \in Dispatchers : e \in batch => ~(held[c][e] > 0)
    BY <1>3 DEF Exclusive, HolderIsCurrent
<1>6. DeliveredIsHeld'
    BY <1>2, <1>4, OutboxAssumption DEF Exclusive, DeliveredIsHeld
<1>7. OneHolder'
    BY <1>2, <1>4, <1>5 DEF Exclusive, OneHolder
<1>8. HolderIsCurrent'
  <2> SUFFICES ASSUME NEW e \in Events \ lapsed, NEW c \in Dispatchers, held'[c][e] > 0
               PROVE  status'[e] = "leased" /\ held'[c][e] = attempts'[e]
      BY <1>2 DEF HolderIsCurrent
  <2>1. CASE c = d
      BY <1>1, <1>4, <2>1
  <2>2. CASE c # d
    <3>1. held[c][e] > 0 /\ e \notin batch
        BY <1>4, <1>5, <2>2
    <3> QED
        BY <1>1, <1>4, <2>2, <3>1 DEF Exclusive, HolderIsCurrent
  <2> QED
      BY <2>1, <2>2
<1>9. DeliveredIsOver'
  <2> SUFFICES ASSUME NEW e \in delivered \ lapsed
               PROVE  /\ status'[e] \in {"leased", "dispatched", "purged"}
                      /\ \A c \in Dispatchers : held'[c][e] > 0 => current'[c] = e /\ ok'[c]
      BY <1>2 DEF DeliveredIsOver
  <2>1. e \in Events /\ e \notin batch
      BY <1>3 DEF TypeOK, Exclusive, DeliveredIsOver
  <2> QED
      BY <1>1, <1>2, <1>4, <2>1 DEF Exclusive, DeliveredIsOver
<1>10. OnceUnlessLapsed'
    BY <1>2 DEF Exclusive, OnceUnlessLapsed
<1> QED
    BY <1>6, <1>7, <1>8, <1>9, <1>10 DEF Exclusive

(* A delivery is the first, unless the lease ran out.                      *)
LEMMA DeliverExclusive ==
    ASSUME TypeOK, Exclusive, NEW d \in Dispatchers, NEW e \in Events, Deliver(d, e)
    PROVE  Exclusive'
<1> USE OutboxAssumption
<1>1. PICK hs \in SUBSET Handlers :
        /\ ok' = [ok EXCEPT ![d] = hs = Handlers]
        /\ delivered' = IF hs = Handlers THEN delivered \cup {e} ELSE delivered
        /\ twice' = IF hs = Handlers /\ e \in delivered THEN twice \cup {e} ELSE twice
    BY DEF Deliver
<1>2. /\ held[d][e] > 0 /\ current[d] = None
      /\ current' = [current EXCEPT ![d] = e]
      /\ UNCHANGED <<status, attempts, held, lapsed>>
    BY DEF Deliver
<1>3. e \notin lapsed => e \notin delivered
    BY <1>2 DEF Exclusive, DeliveredIsOver
<1>4. DeliveredIsHeld'
    BY <1>2 DEF TypeOK, Exclusive, DeliveredIsHeld
<1>5. OneHolder' /\ HolderIsCurrent'
    BY <1>2 DEF Exclusive, OneHolder, HolderIsCurrent
<1>6. DeliveredIsOver'
  <2> SUFFICES ASSUME NEW f \in delivered' \ lapsed
               PROVE  /\ status[f] \in {"leased", "dispatched", "purged"}
                      /\ \A c \in Dispatchers : held[c][f] > 0 => current'[c] = f /\ ok'[c]
      BY <1>2 DEF DeliveredIsOver
  <2>1. CASE f = e
    <3>1. hs = Handlers
        BY <1>1, <1>3, <2>1
    <3>2. \A c \in Dispatchers : held[c][f] > 0 => c = d
        BY <1>2, <2>1 DEF Exclusive, OneHolder
    <3>3. status[f] = "leased"
        BY <1>2, <2>1 DEF Exclusive, HolderIsCurrent
    <3>4. current'[d] = f /\ ok'[d]
        BY <1>1, <1>2, <2>1, <3>1 DEF TypeOK
    <3> QED
        BY <3>2, <3>3, <3>4
  <2>2. CASE f # e
    <3>1. f \in delivered
        BY <1>1, <2>2
    <3>2. \A c \in Dispatchers : held[c][f] > 0 => c # d
        BY <1>2, <3>1 DEF TypeOK, Exclusive, DeliveredIsOver
    <3> QED
        BY <1>1, <1>2, <3>1, <3>2 DEF TypeOK, Exclusive, DeliveredIsOver
  <2> QED
      BY <2>1, <2>2
<1>7. OnceUnlessLapsed'
    BY <1>1, <1>2, <1>3 DEF Exclusive, OnceUnlessLapsed
<1> QED
    BY <1>4, <1>5, <1>6, <1>7 DEF Exclusive

(* A dispatcher that lets go of a record: it alone held it, unless the     *)
(* lease ran out, and a failed one was not delivered.                      *)
LEMMA LeaveExclusive ==
    ASSUME TypeOK, Exclusive, NEW d \in Dispatchers,
           MarkDispatched(d) \/ MarkFailed(d) \/ MarkLost(d) \/ Crash(d)
    PROVE  Exclusive'
<1> USE OutboxAssumption
<1>1. UNCHANGED <<attempts, done, ok, delivered, twice, lapsed>>
    BY DEF MarkDispatched, MarkFailed, MarkLost, Crash, Release, history
<1>2. /\ current' = [current EXCEPT ![d] = None]
      /\ \A c \in Dispatchers, e \in Events :
            held'[c][e] > 0 => held[c][e] > 0 /\ held'[c][e] = held[c][e]
      /\ \A c \in Dispatchers, e \in Events : c # d => held'[c][e] = held[c][e]
      /\ \A e \in Events : current[d] = e => ~(held'[d][e] > 0)
  <2>1. CASE Release(d) /\ current[d] # None
    <3>1. current[d] \in Events /\ held[d] \in [Events -> Counts]
        BY <2>1 DEF TypeOK
    <3>2. held' = [held EXCEPT ![d] = [held[d] EXCEPT ![current[d]] = 0]]
        BY <2>1 DEF Release
    <3>3. \A e \in Events : [held[d] EXCEPT ![current[d]] = 0][e]
                              = IF e = current[d] THEN 0 ELSE held[d][e]
        BY <3>1
    <3>4. /\ \A e \in Events : held'[d][e] = IF e = current[d] THEN 0 ELSE held[d][e]
          /\ \A c \in Dispatchers, e \in Events : c # d => held'[c][e] = held[c][e]
        BY <3>2, <3>3 DEF TypeOK
    <3> QED
        BY <2>1, <3>4 DEF Release, TypeOK
  <2>2. CASE Crash(d)
    <3>1. \A e \in Events : NoClaim[e] = 0
        BY DEF NoClaim
    <3> QED
        BY <2>2, <3>1 DEF Crash, TypeOK
  <2> QED
      BY <2>1, <2>2 DEF MarkDispatched, MarkFailed, MarkLost
<1>3. ASSUME NEW e \in Events, status'[e] # status[e]
      PROVE  /\ current[d] = e
             /\ status'[e] = "dispatched" \/ (status'[e] \in {"dead", "waiting"} /\ ~ok[d])
  <2>1. ASSUME NEW s \in {"dispatched", "dead", "waiting"}, current[d] # None, Mark(current[d], s)
        PROVE  current[d] = e /\ status'[e] = s
    <3>1. current[d] \in Events
        BY <2>1 DEF TypeOK
    <3> QED
        BY <1>3, <2>1, <3>1 DEF Mark, TypeOK
  <2>2. CASE MarkDispatched(d)
      BY <2>1, <2>2 DEF MarkDispatched
  <2>3. CASE MarkFailed(d)
    <3>1. ~ok[d] /\ current[d] # None /\ \E s \in {"dead", "waiting"} : Mark(current[d], s)
        BY <2>3 DEF MarkFailed, AfterFailure
    <3> QED
        BY <2>1, <3>1
  <2>4. CASE MarkLost(d) \/ Crash(d)
      BY <1>3, <2>4 DEF MarkLost, Crash
  <2> QED
      BY <2>2, <2>3, <2>4
<1>4. DeliveredIsHeld'
  <2> SUFFICES ASSUME NEW c \in Dispatchers, NEW e \in Events, current'[c] = e
               PROVE  held'[c][e] > 0
      BY DEF DeliveredIsHeld
  <2>1. c # d /\ current[c] = e
      BY <1>2 DEF TypeOK
  <2> QED
      BY <1>2, <2>1 DEF Exclusive, DeliveredIsHeld
<1>5. OneHolder'
    BY <1>1, <1>2 DEF Exclusive, OneHolder
<1>6. HolderIsCurrent'
  <2> SUFFICES ASSUME NEW e \in Events \ lapsed, NEW c \in Dispatchers, held'[c][e] > 0
               PROVE  status'[e] = "leased" /\ held'[c][e] = attempts[e]
      BY <1>1 DEF HolderIsCurrent
  <2>1. status[e] = "leased" /\ held'[c][e] = attempts[e]
      BY <1>2 DEF Exclusive, HolderIsCurrent
  <2>2. current[d] # e
      BY <1>2 DEF Exclusive, DeliveredIsHeld, OneHolder
  <2> QED
      BY <1>3, <2>1, <2>2
<1>7. DeliveredIsOver'
  <2> SUFFICES ASSUME NEW e \in delivered \ lapsed
               PROVE  /\ status'[e] \in {"leased", "dispatched", "purged"}
                      /\ \A c \in Dispatchers : held'[c][e] > 0 => current'[c] = e /\ ok[c]
      BY <1>1 DEF DeliveredIsOver
  <2>1. e \in Events
      BY DEF TypeOK
  <2>2. current[d] = e => ok[d]
      BY <2>1 DEF Exclusive, DeliveredIsHeld, DeliveredIsOver
  <2>3. status'[e] \in {"leased", "dispatched", "purged"}
      BY <1>3, <2>1, <2>2 DEF Exclusive, DeliveredIsOver
  <2>4. ASSUME NEW c \in Dispatchers, held'[c][e] > 0 PROVE current'[c] = e /\ ok[c]
    <3>1. current[c] = e /\ ok[c]
        BY <1>2, <2>1, <2>4 DEF Exclusive, DeliveredIsOver
    <3> QED
        BY <1>2, <2>1, <2>4, <3>1 DEF TypeOK
  <2> QED
      BY <2>3, <2>4
<1>8. OnceUnlessLapsed'
    BY <1>1 DEF Exclusive, OnceUnlessLapsed
<1> QED
    BY <1>4, <1>5, <1>6, <1>7, <1>8 DEF Exclusive

(* Every step preserves exclusivity.                                       *)
LEMMA NextExclusive == TypeOK /\ TypeOK' /\ Exclusive /\ [Next]_vars => Exclusive'
<1> SUFFICES ASSUME TypeOK, TypeOK', Exclusive, [Next]_vars PROVE Exclusive'
    OBVIOUS
<1>1. ASSUME NEW e \in Events, EventStep(e) PROVE Exclusive'
    BY <1>1, EventStepExclusive
<1>2. ASSUME NEW d \in Dispatchers, DispatcherStep(d) PROVE Exclusive'
    BY <1>2, ClaimExclusive, DeliverExclusive, LeaveExclusive DEF DispatcherStep
<1>3. CASE UNCHANGED vars
    BY <1>3 DEF vars, Exclusive, DeliveredIsHeld, OneHolder, HolderIsCurrent, DeliveredIsOver,
               OnceUnlessLapsed
<1> QED
    BY <1>1, <1>2, <1>3 DEF Next

(* Claims are exclusive in every reachable state.                          *)
LEMMA AlwaysExclusive == Spec => []Exclusive
    BY InitExclusive, NextExclusive, OutboxTypeCorrect, PTL DEF Spec

(* An event is delivered without error a second time only when its lease   *)
(* ran out (Claim, FOR UPDATE SKIP LOCKED), for any number of dispatchers. *)
THEOREM DeliveredOnce == Spec => []OnceUnlessLapsed
<1>1. Exclusive => OnceUnlessLapsed
    BY DEF Exclusive
<1> QED
    BY AlwaysExclusive, <1>1, PTL

(* Without a lapsed lease a record is dead-lettered only after MaxAttempts *)
(* claims, and a dispatched record stays so (MarkFailed and MarkDispatched *)
(* update by id alone).                                                    *)
THEOREM MarksOwnClaimHolds == Spec => MarksOwnClaim
<1> DEFINE Step ==
      \A e \in Events \ lapsed :
         /\ status[e] # "dead" /\ status'[e] = "dead" => attempts[e] >= MaxAttempts
         /\ status[e] = "dispatched" => status'[e] \in {"dispatched", "purged"}
<1>1. ASSUME TypeOK, Exclusive, [Next]_vars PROVE [Step]_vars
  <2> SUFFICES ASSUME Next, NEW e \in Events \ lapsed
               PROVE  /\ status[e] # "dead" /\ status'[e] = "dead" => attempts[e] >= MaxAttempts
                      /\ status[e] = "dispatched" => status'[e] \in {"dispatched", "purged"}
      BY <1>1
  <2>1. ASSUME NEW f \in Events, EventStep(f) PROVE
               /\ status[e] # "dead" => status'[e] # "dead"
               /\ status[e] = "dispatched" => status'[e] \in {"dispatched", "purged"}
      BY <1>1, <2>1 DEF TypeOK, EventStep, Add, BackoffElapses, LeaseExpires, Requeue, Purge
  <2>2. ASSUME NEW d \in Dispatchers, DispatcherStep(d), ~MarkFailed(d) PROVE
               /\ status[e] # "dead" => status'[e] # "dead"
               /\ status[e] = "dispatched" => status'[e] = "dispatched"
      BY <1>1, <2>2 DEF TypeOK, DispatcherStep, Claim, Claimable, Deliver, MarkDispatched, Mark,
                        MarkLost, Crash
  <2>3. ASSUME NEW d \in Dispatchers, MarkFailed(d), status'[e] # status[e] PROVE
               /\ status'[e] = "dead" => attempts[e] >= MaxAttempts
               /\ status[e] # "dispatched"
    <3>1. /\ current[d] = e
          /\ status'[e] = "dead" => held[d][e] >= MaxAttempts
        BY <1>1, <2>3 DEF TypeOK, MarkFailed, Mark, AfterFailure
    <3>2. status[e] = "leased" /\ held[d][e] = attempts[e]
        BY <1>1, <3>1 DEF Exclusive, DeliveredIsHeld, HolderIsCurrent
    <3> QED
        BY <3>1, <3>2
  <2> QED
      BY <2>1, <2>2, <2>3 DEF Next, DispatcherStep
<1> QED
    BY <1>1, OutboxTypeCorrect, AlwaysExclusive, PTL DEF Spec, MarksOwnClaim

-----------------------------------------------------------------------------
(* The sign-in of one account.                                             *)
(*                                                                         *)
(* None of the promises is inductive by itself.  A code is spent once      *)
(* because the row remembers it (SpentKept): the steps accepted lie at or  *)
(* below last_mfa_step, the codes accepted are no longer unused, and codes *)
(* to come are newer than any of them.  Guesses are bounded because the    *)
(* counter of the row misses none (Counted), and every guess past the last *)
(* but one of the policy leaves a request that will lock the account       *)
(* (LocksPending), unless that request dies.                               *)

(* What a request holds: a row read when codes were handed out up to seq,  *)
(* or the end of a lock that is not too far from the instant at.           *)
WithAccount ==
    {"login", "enroll", "confirm", "disable", "regenerate", "edit", "verify", "setup", "open",
     "deactivate", "replace"}
JobShape(j, at, seq) ==
    /\ j.op \in WithAccount \cup {"free", "lock", "dropcodes", "newcodes"}
    /\ j.op \in WithAccount =>
         {"op", "st"} \subseteq DOMAIN j /\ j.st \in Account /\ j.st.pending <= seq
    /\ j.op = "lock" => j.until \in Int /\ j.until <= at + MaxLock
JobsShaped ==
    /\ DOMAIN adesk = Desks
    /\ \A d \in Desks : JobShape(adesk[d], atime, secretSeq)

(* The limiter's failures are a short list, none later than the row's.     *)
HitsShaped == \E n \in Nat : hits \in [1 .. n -> Int]
HitsOld == \A i \in DOMAIN hits : acct.lastFailed # NoRow /\ hits[i] <= acct.lastFailed

(* The row has counted every guess, and what exceeds the policy is matched *)
(* by requests that are about to lock the account, or died before it.      *)
Counted == guesses = acct.failed
Locking == {d \in Desks : adesk[d].op = "lock"}
LocksPending == guesses <= MaxFailures - 1 + Cardinality(Locking) + crashes
Counters == HitsShaped /\ HitsOld /\ Counted /\ LocksPending

(* The row remembers what was spent.                                       *)
SpentKept ==
    /\ \A s \in Steps : <<"totp", s>> \in spent => s <= acct.lastStep
    /\ \A c \in Nat : <<"recovery", c>> \in spent => c <= secretSeq /\ c \notin unusedCodes
Spending == SpentKept /\ FactorSpentOnce /\ acct.pending <= secretSeq

(* The inductive invariant.                                                *)
AuthInv == AuthTypeOK /\ JobsShaped /\ Counters /\ Spending /\ SecondFactorAsked

-----------------------------------------------------------------------------
LEMMA LockingFinite ==
    /\ IsFiniteSet(Locking) /\ Cardinality(Locking) \in Nat
    /\ Cardinality(Locking) <= Cardinality(Desks) /\ Cardinality(Desks) \in Nat
  <1>1. Locking \subseteq Desks
    BY DEF Locking
  <1>. QED  BY <1>1, FactorAssumption, FS_Subset, FS_CardinalityType

LEMMA SignInFollows == AuthInv => SignInHolds
  BY LockingFinite, FactorAssumption
     DEF AuthInv, SignInHolds, AuthTypeOK, Counters, LocksPending, GuessesBounded, Spending

(* A desk takes up the job j; the others keep theirs.                      *)
LEMMA DeskKeeps ==
    ASSUME JobsShaped, NEW d \in Desks, NEW j, Work(d, j), atime \in Int, atime' \in Int,
           secretSeq \in Int, secretSeq' \in Int, atime <= atime', secretSeq <= secretSeq',
           JobShape(j, atime', secretSeq')
    PROVE  /\ JobsShaped'
           /\ adesk'[d] = j /\ \A e \in Desks \ {d} : adesk'[e] = adesk[e]
  <1>1. /\ DOMAIN adesk' = Desks
        /\ adesk'[d] = j /\ \A e \in Desks \ {d} : adesk'[e] = adesk[e]
    BY DEF Work, JobsShaped
  <1>2. ASSUME NEW e \in Desks
        PROVE  JobShape(adesk'[e], atime', secretSeq')
    <2>1. CASE e = d
      BY <1>1, <2>1
    <2>2. CASE e # d
      <3>. DEFINE k == adesk[e]
      <3>1. JobShape(k, atime, secretSeq) /\ adesk'[e] = k
        BY <1>1, <2>2 DEF JobsShaped
      <3>2. k.op \in WithAccount => k.st.pending \in Int
        BY <3>1 DEF JobShape, Account
      <3>. HIDE DEF k
      <3>3. JobShape(k, atime', secretSeq')
        BY <3>1, <3>2, FactorAssumption DEF JobShape
      <3>. QED  BY <3>1, <3>3
    <2>. QED  BY <2>1, <2>2
  <1>. QED  BY <1>1, <1>2 DEF JobsShaped

(* A desk that is free, and the jobs that carry the row as it is now.      *)
LEMMA FreeShape == ASSUME NEW at, NEW seq PROVE JobShape(Free, at, seq)
  BY DEF JobShape, Free, WithAccount

(* The failures are untouched, and no lock comes or goes.                  *)
LEMMA CountersSame ==
    ASSUME Counters, DOMAIN adesk = Desks, NEW d \in Desks, adesk[d].op # "lock", adesk'[d].op # "lock",
           \A e \in Desks \ {d} : adesk'[e] = adesk[e],
           UNCHANGED <<hits, guesses, crashes>>,
           acct'.failed = acct.failed, acct'.lastFailed = acct.lastFailed
    PROVE  Counters'
  <1>1. Locking' = Locking
    BY DEF Locking
  <1>2. HitsShaped' /\ HitsOld' /\ Counted'
    BY DEF Counters, HitsShaped, HitsOld, Counted
  <1>3. LocksPending'
    BY <1>1 DEF Counters, LocksPending
  <1>. QED  BY <1>2, <1>3 DEF Counters

(* The failures are cleared, whatever the desks do.                        *)
LEMMA CountersCleared ==
    ASSUME crashes \in Nat, crashes' = crashes, hits' = NoHits, guesses' = 0, acct'.failed = 0
    PROVE  Counters'
  <1>1. Cardinality(Locking') \in Nat
    <2>1. Locking' \subseteq Desks
      BY DEF Locking
    <2>. QED  BY <2>1, FactorAssumption, FS_Subset, FS_CardinalityType
  <1>2. hits' \in [1 .. 0 -> Int] /\ DOMAIN hits' = {}
    BY DEF NoHits
  <1>3. HitsShaped' /\ HitsOld'
    BY <1>2 DEF HitsShaped, HitsOld
  <1>4. Counted' /\ LocksPending'
    BY <1>1, FactorAssumption DEF Counted, LocksPending
  <1>. QED  BY <1>3, <1>4 DEF Counters

LEMMA SpendingSame ==
    ASSUME Spending, UNCHANGED factorRows, acct'.lastStep = acct.lastStep,
           acct'.pending = acct.pending
    PROVE  Spending'
  BY DEF Spending, SpentKept, FactorSpentOnce, factorRows

-----------------------------------------------------------------------------
LEMMA ShortList ==
    ASSUME NEW h, NEW n \in Nat, h \in [1 .. n -> Int], atime \in Int
    PROVE  /\ InWindow(h) \in Nat
           /\ Hit(h) \in [1 .. MinA(n + 1, MaxFailures) -> Int]
           /\ MinA(n + 1, MaxFailures) \in Nat
           /\ \A i \in DOMAIN Hit(h) : Hit(h)[i] = atime \/ \E k \in DOMAIN h : Hit(h)[i] = h[k]
  <1>1. Cardinality(1 .. n) = n /\ IsFiniteSet(1 .. n)
    BY FS_Interval
  <1>2. InWindow(h) \in Nat
    <2>. DEFINE S == {i \in DOMAIN h : h[i] > atime - Window}
    <2>1. S \subseteq 1 .. n
      OBVIOUS
    <2>2. Cardinality(S) \in Nat
      <3>. HIDE DEF S
      <3>. QED  BY <1>1, <2>1, FS_Subset, FS_CardinalityType
    <2>. QED  BY <2>2 DEF InWindow
  <1>. DEFINE m == MinA(n + 1, MaxFailures)
  <1>3. m \in Nat /\ m <= n + 1
    BY FactorAssumption DEF MinA
  <1>4. Hit(h) = [i \in 1 .. m |-> IF i = 1 THEN atime ELSE h[i - 1]]
    BY <1>1 DEF Hit
  <1>. HIDE DEF m
  <1>5. \A i \in 1 .. m : i # 1 => i - 1 \in 1 .. n
    BY <1>3
  <1>6. Hit(h) \in [1 .. m -> Int]
    BY <1>3, <1>4, <1>5
  <1>7. \A i \in DOMAIN Hit(h) : Hit(h)[i] = atime \/ \E k \in DOMAIN h : Hit(h)[i] = h[k]
    BY <1>4, <1>5
  <1>. QED  BY <1>2, <1>3, <1>6, <1>7 DEF m

LEMMA LockDurationBounded ==
    ASSUME NEW prior \in Nat
    PROVE  LockDuration(prior) \in Int /\ LockDuration(prior) <= MaxLock
  <1>1. MinA(prior, MaxLock) \in Nat
    BY FactorAssumption DEF MinA
  <1>. DEFINE e == MinA(prior, MaxLock)
  <1>2. 2 ^ e \in Int
    <2>. HIDE DEF e
    <2>1. e \in Nat
      BY <1>1 DEF e
    <2>. QED  BY <2>1, SMT
  <1>3. BaseLock * 2 ^ e \in Int
    <2>. DEFINE x == 2 ^ e
    <2>. HIDE DEF x
    <2>1. BaseLock \in Int /\ x \in Int
      BY <1>2, FactorAssumption DEF x
    <2>2. BaseLock * x \in Int
      BY <2>1
    <2>. QED  BY <2>2 DEF x
  <1>. DEFINE y == BaseLock * 2 ^ e
  <1>4. LockDuration(prior) = MinA(MaxLock, y)
    BY DEF LockDuration
  <1>. HIDE DEF e, y
  <1>5. y \in Int
    BY <1>3 DEF y
  <1>. QED  BY <1>4, <1>5, FactorAssumption DEF MinA

(* The row after a failure, and that it has counted what the history has.  *)
LEMMA FailureCounted ==
    ASSUME AuthTypeOK, Counters
    PROVE  LET a == RegisterLoginFailure(acct)
               g == IF InWindow(hits) = 0 /\ a.failed = 1 THEN 1 ELSE guesses + 1
           IN  /\ a \in Account /\ a.failed \in Nat \ {0} /\ a.lastFailed = atime
               /\ a.until = acct.until /\ a.lockouts = acct.lockouts
               /\ a.pending = acct.pending /\ a.lastStep = acct.lastStep
               /\ g = a.failed /\ g <= guesses + 1
  <1>. DEFINE idle == acct.lastFailed = NoRow \/ acct.lastFailed < atime - Window
              a      == RegisterLoginFailure(acct)
  <1>1. acct \in Account /\ atime \in Int /\ guesses \in Nat /\ guesses = acct.failed
    BY DEF AuthTypeOK, Counters, Counted
  <1>2. a = [acct EXCEPT !.failed = IF idle THEN 1 ELSE acct.failed + 1, !.lastFailed = atime]
    BY DEF RegisterLoginFailure
  <1>3. a \in Account /\ a.failed = (IF idle THEN 1 ELSE acct.failed + 1)
    <2>1. (IF idle THEN 1 ELSE acct.failed + 1) \in Nat
      BY <1>1 DEF Account
    <2>. HIDE DEF a, idle
    <2>. QED  BY <1>1, <1>2, <2>1 DEF Account
  <1>4. /\ a.lastFailed = atime
        /\ a.until = acct.until /\ a.lockouts = acct.lockouts
        /\ a.pending = acct.pending /\ a.lastStep = acct.lastStep
    <2>. HIDE DEF a, idle
    <2>. QED  BY <1>1, <1>2 DEF Account
  <1>5. idle => InWindow(hits) = 0
    <2>. SUFFICES ASSUME idle PROVE InWindow(hits) = 0
      OBVIOUS
    <2>. DEFINE S == {i \in DOMAIN hits : hits[i] > atime - Window}
    <2>1. S = {}
      <3>. SUFFICES ASSUME NEW i \in DOMAIN hits, hits[i] > atime - Window PROVE FALSE
        OBVIOUS
      <3>1. acct.lastFailed # NoRow /\ hits[i] <= acct.lastFailed /\ hits[i] \in Int
        BY DEF Counters, HitsOld, HitsShaped
      <3>2. acct.lastFailed \in Int /\ acct.lastFailed < atime - Window
        BY <1>1, <3>1 DEF Account
      <3>. QED  BY <1>1, <3>1, <3>2, FactorAssumption
    <2>2. InWindow(hits) = Cardinality(S)
      BY DEF InWindow
    <2>. HIDE DEF S
    <2>. QED  BY <2>1, <2>2, FS_EmptySet
  <1>. HIDE DEF a, idle
  <1>6. LET g == IF InWindow(hits) = 0 /\ a.failed = 1 THEN 1 ELSE guesses + 1
        IN  g = a.failed /\ g <= guesses + 1 /\ a.failed # 0
    <2>1. CASE idle
      BY <2>1, <1>1, <1>3, <1>5
    <2>2. CASE ~idle
      BY <2>2, <1>1, <1>3 DEF Account
    <2>. QED  BY <2>1, <2>2
  <1>7. a.failed \in Nat
    BY <1>3 DEF Account
  <1>. QED  BY <1>3, <1>4, <1>6, <1>7 DEF a

(* registerFailure: the guess is counted, and if it reaches the policy's   *)
(* limit the request goes on to lock the account.                          *)
LEMMA RegisterFailureKeeps ==
    ASSUME AuthInv, NEW d \in Desks, adesk[d].op # "lock", RegisterFailure(d),
           UNCHANGED <<atime, crashes, bare>>, UNCHANGED factorRows,
           challenges' \in [ChallengeIds -> Challenge \cup {NoRow}]
    PROVE  AuthInv'
  <1>. DEFINE a == RegisterLoginFailure(acct)
              g == IF InWindow(hits) = 0 /\ a.failed = 1 THEN 1 ELSE guesses + 1
              j == [op |-> "lock", until |-> atime + LockDuration(a.lockouts)]
              locks == ShouldLock(MaxA(a.failed, InWindow(Hit(hits))))
  <1>1. /\ AuthTypeOK /\ JobsShaped /\ Counters /\ Spending /\ SecondFactorAsked
        /\ atime \in Int /\ secretSeq \in Int /\ guesses \in Nat /\ crashes \in Nat
        /\ acct \in Account
    BY DEF AuthInv, AuthTypeOK
  <1>2. /\ a \in Account /\ a.failed \in Nat \ {0} /\ a.lastFailed = atime
        /\ a.until = acct.until /\ a.lockouts = acct.lockouts
        /\ a.pending = acct.pending /\ a.lastStep = acct.lastStep
        /\ g = a.failed /\ g <= guesses + 1
    BY <1>1, FailureCounted
  <1>3. acct' = a /\ hits' = Hit(hits) /\ guesses' = g
    BY DEF RegisterFailure
  <1>4. IF locks THEN Work(d, j) ELSE Work(d, Free)
    BY DEF RegisterFailure, Done
  <1>. HIDE DEF a
  <1>5. PICK n \in Nat : hits \in [1 .. n -> Int]
    BY <1>1 DEF Counters, HitsShaped
  <1>6. PICK m \in Nat : hits' \in [1 .. m -> Int]
    BY <1>1, <1>3, <1>5, ShortList
  <1>7. InWindow(Hit(hits)) \in Nat
    BY <1>1, <1>3, <1>6, ShortList
  <1>8. a.failed >= MaxFailures => locks
    BY <1>2, <1>7, FactorAssumption DEF ShouldLock, MaxA
  <1>9. JobShape(j, atime, secretSeq) /\ j.op = "lock"
    <2>1. LockDuration(a.lockouts) \in Int /\ LockDuration(a.lockouts) <= MaxLock
      <3>1. a.lockouts \in Nat
        BY <1>2, FactorAssumption DEF Account
      <3>. QED  BY <3>1, LockDurationBounded
    <2>2. j.op = "lock" /\ j.until = atime + LockDuration(a.lockouts)
      OBVIOUS
    <2>3. j.until \in Int /\ j.until <= atime + MaxLock
      BY <2>1, <2>2, <1>1, FactorAssumption
    <2>. HIDE DEF j
    <2>. QED  BY <2>2, <2>3 DEF JobShape, WithAccount
  <1>. HIDE DEF j, locks, g
  <1>10. PICK k : /\ Work(d, k) /\ JobShape(k, atime, secretSeq)
                  /\ (locks => k.op = "lock") /\ (~locks => k.op # "lock")
    <2>1. CASE locks
      BY <2>1, <1>4, <1>9
    <2>2. CASE ~locks
      BY <2>2, <1>4, FreeShape DEF Free
    <2>. QED  BY <2>1, <2>2
  <1>11. /\ JobsShaped'
         /\ adesk'[d] = k /\ \A e \in Desks \ {d} : adesk'[e] = adesk[e]
    BY <1>1, <1>10, DeskKeeps DEF factorRows
  <1>12. AuthTypeOK'
    BY <1>1, <1>2, <1>3 DEF AuthTypeOK, factorRows
  <1>13. LocksPending'
    <2>1. CASE locks
      <3>1. Locking' = Locking \cup {d} /\ d \notin Locking
        BY <2>1, <1>10, <1>11 DEF Locking
      <3>2. Cardinality(Locking') = Cardinality(Locking) + 1
        BY <3>1, LockingFinite, FS_AddElement
      <3>. QED
        BY <3>2, <1>1, <1>2, <1>3, LockingFinite, FactorAssumption DEF Counters, LocksPending
    <2>2. CASE ~locks
      <3>1. Locking' = Locking
        BY <2>2, <1>10, <1>11 DEF Locking
      <3>2. guesses' <= MaxFailures - 1
        BY <2>2, <1>2, <1>3, <1>8, FactorAssumption
      <3>. QED
        BY <3>1, <3>2, <1>1, <1>2, <1>3, LockingFinite, FactorAssumption DEF LocksPending
    <2>. QED  BY <2>1, <2>2
  <1>14. HitsOld'
    <2>. SUFFICES ASSUME NEW i \in DOMAIN hits' PROVE hits'[i] <= atime /\ atime # NoRow
      BY <1>2, <1>3 DEF HitsOld
    <2>1. hits'[i] = atime \/ \E x \in DOMAIN hits : hits'[i] = hits[x]
      BY <1>1, <1>3, <1>5, ShortList
    <2>2. ASSUME NEW x \in DOMAIN hits PROVE hits[x] <= atime
      <3>1. acct.lastFailed # NoRow /\ hits[x] <= acct.lastFailed /\ hits[x] \in Int
        BY <1>1, <1>5 DEF Counters, HitsOld
      <3>2. acct.lastFailed \in Int /\ acct.lastFailed <= atime
        BY <1>1, <3>1 DEF AuthTypeOK, Account
      <3>. QED  BY <3>1, <3>2, <1>1
    <2>. QED  BY <2>1, <2>2, <1>1, FactorAssumption
  <1>15. Counters'
    BY <1>2, <1>3, <1>6, <1>13, <1>14 DEF Counters, HitsShaped, Counted
  <1>16. Spending' /\ SecondFactorAsked'
    BY <1>1, <1>2, <1>3, SpendingSame DEF SecondFactorAsked
  <1>. QED  BY <1>11, <1>12, <1>15, <1>16 DEF AuthInv

-----------------------------------------------------------------------------
(* The rows of the factors have their types after a step.                  *)
FactorTypes ==
    /\ secretSeq' \in 1 .. MaxSecrets /\ secretSeq <= secretSeq'
    /\ unusedCodes' \subseteq 1 .. secretSeq'
    /\ challenges' \in [ChallengeIds -> Challenge \cup {NoRow}]

(* A step that neither counts nor clears failures.                         *)
LEMMA OrdinaryStep ==
    ASSUME AuthInv, FactorTypes, NEW d \in Desks, adesk[d].op # "lock", NEW j, j.op # "lock",
           Work(d, j), JobShape(j, atime, secretSeq'),
           UNCHANGED <<hits, atime, guesses, crashes, bare>>,
           acct' \in Account, acct'.failed = acct.failed, acct'.lastFailed = acct.lastFailed,
           acct'.until = acct.until, Spending'
    PROVE  AuthInv'
  <1>1. /\ AuthTypeOK /\ JobsShaped /\ Counters /\ SecondFactorAsked
        /\ atime \in Int /\ secretSeq \in Int /\ secretSeq' \in Int
    BY DEF AuthInv, AuthTypeOK, FactorTypes
  <1>2. /\ JobsShaped'
        /\ adesk'[d] = j /\ \A e \in Desks \ {d} : adesk'[e] = adesk[e]
    BY <1>1, DeskKeeps DEF FactorTypes
  <1>3. AuthTypeOK'
    BY <1>1 DEF AuthTypeOK, FactorTypes
  <1>4. Counters'
    BY <1>1, <1>2, CountersSame DEF JobsShaped
  <1>5. SecondFactorAsked'
    BY <1>1 DEF SecondFactorAsked
  <1>. QED  BY <1>2, <1>3, <1>4, <1>5 DEF AuthInv

(* A step that clears them.                                                *)
LEMMA ClearingStep ==
    ASSUME AuthInv, FactorTypes, JobsShaped', UNCHANGED <<atime, crashes>>, ~bare',
           hits' = NoHits, guesses' = 0,
           acct' \in Account, acct'.failed = 0, acct'.lastFailed \in {NoRow, acct.lastFailed},
           acct'.until <= atime + MaxLock, Spending'
    PROVE  AuthInv'
  <1>1. AuthTypeOK /\ crashes \in Nat
    BY DEF AuthInv, AuthTypeOK
  <1>2. AuthTypeOK'
    BY <1>1 DEF AuthTypeOK, FactorTypes
  <1>3. Counters'
    BY <1>1, CountersCleared
  <1>. QED  BY <1>2, <1>3 DEF AuthInv, SecondFactorAsked

LEMMA TypesSame ==
    ASSUME AuthTypeOK, UNCHANGED factorRows, challenges' \in [ChallengeIds -> Challenge \cup {NoRow}]
    PROVE  FactorTypes
  BY DEF AuthTypeOK, FactorTypes, factorRows

(* The row as a request reads it.                                          *)
LEMMA RowShape ==
    ASSUME AuthInv, NEW j, {"op", "st"} \subseteq DOMAIN j, j.op \in WithAccount, j.st = acct
    PROVE  JobShape(j, atime, secretSeq) /\ j.op # "lock"
  BY DEF AuthInv, AuthTypeOK, Spending, JobShape, WithAccount

LEMMA LoadUserKeeps ==
    ASSUME AuthInv, NEW d \in Desks,
           NEW op \in {"login", "enroll", "confirm", "disable", "regenerate", "edit"}, LoadUser(d, op)
    PROVE  AuthInv'
  <1>. DEFINE j == [op |-> op, st |-> acct]
  <1>1. /\ adesk[d].op # "lock" /\ Work(d, j) /\ UNCHANGED factorRows
        /\ UNCHANGED <<acct, challenges, hits, atime, guesses, crashes, bare>>
    BY DEF LoadUser, Free
  <1>2. {"op", "st"} \subseteq DOMAIN j /\ j.op \in WithAccount /\ j.st = acct
    BY DEF WithAccount
  <1>. HIDE DEF j
  <1>3. JobShape(j, atime, secretSeq) /\ j.op # "lock"
    BY <1>2, RowShape
  <1>4. AuthTypeOK /\ Spending
    BY DEF AuthInv
  <1>5. FactorTypes /\ Spending' /\ acct' \in Account /\ secretSeq' = secretSeq
    BY <1>1, <1>4, TypesSame, SpendingSame DEF AuthTypeOK, factorRows
  <1>. QED  BY <1>1, <1>3, <1>5, OrdinaryStep

LEMMA LiveChallengesType ==
    ASSUME AuthTypeOK
    PROVE  LiveChallenges \in [ChallengeIds -> Challenge \cup {NoRow}]
  BY DEF AuthTypeOK, LiveChallenges

LEMMA NewChallengeType ==
    ASSUME AuthTypeOK, NEW purpose \in {"login", "enroll"}, NewChallenge(purpose)
    PROVE  challenges' \in [ChallengeIds -> Challenge \cup {NoRow}]
  <1>. DEFINE r == [purpose |-> purpose, tries |-> 0, expires |-> atime + ChallengeTTL]
  <1>1. r \in Challenge
    BY FactorAssumption DEF Challenge, AuthTypeOK
  <1>2. PICK c : challenges' = [LiveChallenges EXCEPT ![c] = r]
    BY DEF NewChallenge
  <1>. HIDE DEF r
  <1>. QED  BY <1>1, <1>2, LiveChallengesType

(* The row with its counters cleared.                                      *)
LEMMA ClearedType ==
    ASSUME NEW a \in Account
    PROVE  /\ ClearedCounters(a) \in Account
           /\ ClearedCounters(a).failed = 0 /\ ClearedCounters(a).lastFailed = NoRow
           /\ ClearedCounters(a).until = 0
           /\ ClearedCounters(a).pending = a.pending /\ ClearedCounters(a).lastStep = a.lastStep
  <1>1. 0 \in 0 .. MaxLock /\ 0 \in Nat /\ 0 \in Int
    BY FactorAssumption
  <1>. QED  BY <1>1 DEF ClearedCounters, Account

LEMMA ClearFailuresKeeps ==
    ASSUME AuthInv, FactorTypes, ClearFailures, JobsShaped', UNCHANGED <<atime, crashes>>, ~bare',
           UNCHANGED factorRows
    PROVE  AuthInv'
  <1>1. AuthTypeOK /\ Spending /\ acct \in Account /\ atime \in Nat
    BY DEF AuthInv, AuthTypeOK
  <1>2. /\ acct' \in Account /\ acct'.failed = 0 /\ acct'.lastFailed = NoRow /\ acct'.until = 0
        /\ acct'.pending = acct.pending /\ acct'.lastStep = acct.lastStep
        /\ hits' = NoHits /\ guesses' = 0
    BY <1>1, ClearedType DEF ClearFailures
  <1>3. acct'.until <= atime + MaxLock
    BY <1>1, <1>2, FactorAssumption
  <1>4. Spending'
    BY <1>1, <1>2, SpendingSame
  <1>. QED  BY <1>2, <1>3, <1>4, ClearingStep

(* A desk is done while the clock and the codes stand.                     *)
LEMMA DoneKeeps ==
    ASSUME AuthInv, NEW d \in Desks, Done(d), UNCHANGED <<atime, secretSeq>>
    PROVE  JobsShaped'
  <1>1. JobsShaped /\ atime \in Int /\ secretSeq \in Int
    BY DEF AuthInv, AuthTypeOK
  <1>. QED  BY <1>1, FreeShape, DeskKeeps DEF Done

LEMMA LoginRightKeeps ==
    ASSUME AuthInv, NEW d \in Desks, LoginRight(d)
    PROVE  AuthInv'
  <1>. DEFINE st == adesk[d].st
  <1>1. AuthTypeOK /\ Spending /\ JobsShaped /\ SecondFactorAsked
    BY DEF AuthInv
  <1>2. /\ adesk[d].op # "lock" /\ Done(d) /\ UNCHANGED factorRows /\ UNCHANGED <<atime, crashes>>
        /\ secretSeq' = secretSeq
    BY DEF LoginRight, factorRows
  <1>3. \/ /\ NewChallenge("login") \/ NewChallenge("enroll")
           /\ UNCHANGED <<acct, hits, guesses, bare>>
        \/ /\ ~MFAOn(st) /\ ~(st.mfa \/ st.required)
           /\ CompleteLogin("password", st) /\ UNCHANGED challenges
    BY DEF LoginRight
  <1>4. JobsShaped'
    BY <1>2, DoneKeeps
  <1>5. CASE /\ NewChallenge("login") \/ NewChallenge("enroll")
             /\ UNCHANGED <<acct, hits, guesses, bare>>
    <2>1. challenges' \in [ChallengeIds -> Challenge \cup {NoRow}]
      BY <1>1, <1>5, NewChallengeType
    <2>2. FactorTypes /\ Spending' /\ acct' \in Account
      BY <1>1, <1>2, <1>5, <2>1, TypesSame, SpendingSame DEF AuthTypeOK
    <2>3. Free.op # "lock" /\ JobShape(Free, atime, secretSeq')
      BY FreeShape DEF Free
    <2>. QED  BY <1>2, <1>5, <2>2, <2>3, OrdinaryStep DEF Done
  <1>6. CASE /\ ~MFAOn(st) /\ ~(st.mfa \/ st.required)
             /\ CompleteLogin("password", st) /\ UNCHANGED challenges
    <2>1. FactorTypes
      BY <1>1, <1>2, <1>6, TypesSame DEF AuthTypeOK
    <2>2. ClearFailures /\ ~bare'
      BY <1>1, <1>6 DEF CompleteLogin, SecondFactorAsked
    <2>. QED  BY <1>2, <1>4, <2>1, <2>2, ClearFailuresKeeps
  <1>. QED  BY <1>3, <1>5, <1>6

LEMMA LockAccountKeeps ==
    ASSUME AuthInv, NEW d \in Desks, LockAccount(d)
    PROVE  AuthInv'
  <1>1. /\ AuthTypeOK /\ Spending /\ JobsShaped /\ SecondFactorAsked /\ acct \in Account
        /\ adesk[d].op = "lock"
    BY DEF AuthInv, AuthTypeOK, LockAccount
  <1>. DEFINE until == adesk[d].until
  <1>2. until \in Int /\ until <= atime + MaxLock
    BY <1>1 DEF JobsShaped, JobShape
  <1>3. /\ acct' = LockUser(acct, until) /\ hits' = NoHits /\ guesses' = 0 /\ Done(d)
        /\ UNCHANGED <<challenges, atime, crashes, bare>> /\ UNCHANGED factorRows
        /\ secretSeq' = secretSeq
    BY DEF LockAccount, factorRows
  <1>. HIDE DEF until
  <1>4. /\ acct' \in Account /\ acct'.failed = 0 /\ acct'.lastFailed = acct.lastFailed
        /\ acct'.until = until
        /\ acct'.pending = acct.pending /\ acct'.lastStep = acct.lastStep
    <2>1. MinA(acct.lockouts + 1, MaxLock) \in 0 .. MaxLock
      BY <1>1, FactorAssumption DEF MinA, Account
    <2>. QED  BY <1>1, <1>2, <1>3, <2>1 DEF LockUser, Account
  <1>5. JobsShaped' /\ FactorTypes /\ Spending' /\ ~bare'
    BY <1>1, <1>3, <1>4, DoneKeeps, TypesSame, SpendingSame DEF AuthTypeOK, SecondFactorAsked
  <1>. QED  BY <1>2, <1>3, <1>4, <1>5, ClearingStep

LEMMA AttemptChallengeKeeps ==
    ASSUME AuthInv, NEW d \in Desks, NEW c \in ChallengeIds, AttemptChallenge(d, c)
    PROVE  AuthInv'
  <1>. DEFINE r == challenges[c]
              login == r.purpose = "login"
              refused == Locked(acct) \/ (login /\ ~MFAOn(acct))
              j == [op |-> IF login THEN "verify" ELSE "setup", st |-> acct, c |-> c,
                    last |-> r.tries + 1 >= ChallengeTries]
  <1>1. AuthTypeOK /\ Spending /\ JobsShaped /\ Counters /\ SecondFactorAsked
    BY DEF AuthInv
  <1>2. /\ adesk[d].op # "lock" /\ r # NoRow /\ r.tries < ChallengeTries
        /\ IF refused THEN UNCHANGED adesk ELSE Work(d, j)
        /\ UNCHANGED <<acct, hits, atime, guesses, crashes, bare>> /\ UNCHANGED factorRows
        /\ secretSeq' = secretSeq
    BY DEF AttemptChallenge, Free, factorRows
  <1>3. r \in Challenge
    BY <1>1, <1>2 DEF AuthTypeOK
  <1>4. challenges' \in [ChallengeIds -> Challenge \cup {NoRow}]
    <2>. DEFINE tried == [r EXCEPT !.tries = @ + 1]
    <2>1. tried \in Challenge
      BY <1>2, <1>3, FactorAssumption DEF Challenge
    <2>2. CASE challenges' = [challenges EXCEPT ![c] = NoRow]
      BY <1>1, <2>2 DEF AuthTypeOK
    <2>3. CASE challenges' = [challenges EXCEPT ![c].tries = @ + 1]
      <3>1. challenges' = [challenges EXCEPT ![c] = tried]
        BY <2>3
      <3>. HIDE DEF tried
      <3>. QED  BY <1>1, <2>1, <3>1 DEF AuthTypeOK
    <2>. QED  BY <2>2, <2>3 DEF AttemptChallenge
  <1>5. {"op", "st"} \subseteq DOMAIN j /\ j.op \in WithAccount /\ j.st = acct
    BY DEF WithAccount
  <1>. HIDE DEF j, refused, login, r
  <1>6. JobShape(j, atime, secretSeq) /\ j.op # "lock"
    BY <1>5, RowShape
  <1>7. FactorTypes /\ Spending' /\ acct' \in Account
    BY <1>1, <1>2, <1>4, TypesSame, SpendingSame DEF AuthTypeOK
  <1>8. CASE ~refused
    BY <1>2, <1>6, <1>7, <1>8, OrdinaryStep
  <1>9. CASE refused
    <2>1. adesk' = adesk
      BY <1>2, <1>9
    <2>2. AuthTypeOK' /\ JobsShaped' /\ SecondFactorAsked'
      BY <1>1, <1>2, <1>7, <2>1 DEF AuthTypeOK, FactorTypes, JobsShaped, SecondFactorAsked
    <2>3. Counters'
      BY <1>1, <1>2, <2>1, CountersSame DEF JobsShaped
    <2>. QED  BY <1>7, <2>2, <2>3 DEF AuthInv
  <1>. QED  BY <1>8, <1>9

LEMMA WrongAnswerKeeps ==
    ASSUME AuthInv, NEW d \in Desks, LoginWrong(d) \/ VerifyWrong(d)
    PROVE  AuthInv'
  <1>1. challenges \in [ChallengeIds -> Challenge \cup {NoRow}]
    BY DEF AuthInv, AuthTypeOK
  <1>2. challenges' \in [ChallengeIds -> Challenge \cup {NoRow}]
    BY <1>1 DEF LoginWrong, VerifyWrong
  <1>. QED  BY <1>2, RegisterFailureKeeps DEF LoginWrong, VerifyWrong

-----------------------------------------------------------------------------
(* A second factor is accepted: what is spent was not spent before.        *)

LEMMA AfterShape ==
    ASSUME AuthInv, NEW d \in Desks, adesk[d].op \in {"verify", "disable", "regenerate"}
    PROVE  LET j == [adesk[d] EXCEPT !.op = After(adesk[d].op)]
           IN  JobShape(j, atime, secretSeq) /\ j.op # "lock" /\ adesk[d].op # "lock"
  <1>. DEFINE k  == adesk[d]
              op == After(k.op)
              j  == [k EXCEPT !.op = op]
  <1>1. /\ {"op", "st"} \subseteq DOMAIN k /\ k.st \in Account /\ k.st.pending <= secretSeq
        /\ k.op \in {"verify", "disable", "regenerate"}
    BY DEF AuthInv, JobsShaped, JobShape, WithAccount
  <1>2. op \in {"open", "deactivate", "replace"}
    <2>. HIDE DEF k
    <2>. QED  BY <1>1 DEF After
  <1>. HIDE DEF k, op
  <1>3. j.op = op /\ j.st = k.st /\ DOMAIN j = DOMAIN k
    BY <1>1
  <1>. HIDE DEF j
  <1>4. JobShape(j, atime, secretSeq) /\ j.op # "lock" /\ k.op # "lock"
    BY <1>1, <1>2, <1>3 DEF JobShape, WithAccount
  <1>. QED  BY <1>4 DEF j, op, k

LEMMA CheckTOTPKeeps ==
    ASSUME AuthInv, NEW d \in Desks, NEW step \in Steps, CheckTOTP(d, step)
    PROVE  AuthInv'
  <1>. DEFINE j == [adesk[d] EXCEPT !.op = After(adesk[d].op)]
  <1>1. AuthTypeOK /\ Spending /\ acct \in Account /\ step \in Nat
    BY FactorAssumption DEF AuthInv, AuthTypeOK, Steps, LastSkew
  <1>2. /\ adesk[d].op \in {"verify", "disable", "regenerate"} /\ Work(d, j)
        /\ acct.lastStep < step /\ acct' = [acct EXCEPT !.lastStep = step]
        /\ Spend(<<"totp", step>>)
        /\ UNCHANGED <<unusedCodes, challenges, hits, secretSeq, atime, guesses, crashes, bare>>
    BY DEF CheckTOTP, AdvanceMFAStep
  <1>3. JobShape(j, atime, secretSeq) /\ j.op # "lock" /\ adesk[d].op # "lock"
    BY <1>2, AfterShape
  <1>. HIDE DEF j
  <1>4. /\ acct' \in Account /\ acct'.failed = acct.failed /\ acct'.lastFailed = acct.lastFailed
        /\ acct'.until = acct.until /\ acct'.pending = acct.pending /\ acct'.lastStep = step
        /\ acct.lastStep \in Nat
    BY <1>1, <1>2 DEF Account
  <1>5. FactorTypes
    BY <1>1, <1>2 DEF AuthTypeOK, FactorTypes
  <1>6. Spending'
    <2>1. <<"totp", step>> \notin spent
      BY <1>1, <1>2, <1>4 DEF Spending, SpentKept
    <2>2. spent' = spent \cup {<<"totp", step>>} /\ FactorSpentOnce'
      BY <1>1, <1>2, <2>1 DEF Spend, Spending, FactorSpentOnce
    <2>3. ASSUME NEW s \in Steps, <<"totp", s>> \in spent'
          PROVE  s <= step
      <3>1. CASE <<"totp", s>> \in spent
        <4>1. s <= acct.lastStep
          BY <1>1, <3>1 DEF Spending, SpentKept
        <4>. QED  BY <4>1, <1>1, <1>2, <1>4 DEF Steps
      <3>2. CASE s = step
        BY <3>2, <1>1
      <3>. QED  BY <2>2, <2>3, <3>1, <3>2
    <2>4. ASSUME NEW c \in Nat, <<"recovery", c>> \in spent'
          PROVE  c <= secretSeq /\ c \notin unusedCodes
      BY <1>1, <2>2, <2>4 DEF Spending, SpentKept
    <2>. QED  BY <1>1, <1>2, <1>4, <2>2, <2>3, <2>4 DEF Spending, SpentKept
  <1>. QED  BY <1>2, <1>3, <1>4, <1>5, <1>6, OrdinaryStep

LEMMA CheckRecoveryKeeps ==
    ASSUME AuthInv, NEW d \in Desks, NEW code \in unusedCodes, CheckRecovery(d, code)
    PROVE  AuthInv'
  <1>. DEFINE j == [adesk[d] EXCEPT !.op = After(adesk[d].op)]
  <1>1. /\ AuthTypeOK /\ Spending /\ acct \in Account /\ code \in 1 .. secretSeq
        /\ secretSeq \in Nat
    BY DEF AuthInv, AuthTypeOK
  <1>2. /\ adesk[d].op \in {"verify", "disable", "regenerate"} /\ Work(d, j)
        /\ unusedCodes' = unusedCodes \ {code} /\ Spend(<<"recovery", code>>)
        /\ UNCHANGED <<acct, challenges, hits, secretSeq, atime, guesses, crashes, bare>>
    BY DEF CheckRecovery
  <1>3. JobShape(j, atime, secretSeq) /\ j.op # "lock" /\ adesk[d].op # "lock"
    BY <1>2, AfterShape
  <1>. HIDE DEF j
  <1>4. FactorTypes
    <2>1. secretSeq \in 1 .. MaxSecrets /\ unusedCodes \subseteq 1 .. secretSeq
      BY <1>1 DEF AuthTypeOK
    <2>2. secretSeq' \in 1 .. MaxSecrets /\ secretSeq <= secretSeq'
      BY <1>1, <1>2, <2>1
    <2>3. unusedCodes' \subseteq 1 .. secretSeq'
      BY <1>2, <2>1
    <2>4. challenges' \in [ChallengeIds -> Challenge \cup {NoRow}]
      BY <1>1, <1>2, Zenon DEF AuthTypeOK
    <2>. QED  BY <2>2, <2>3, <2>4 DEF FactorTypes
  <1>5. Spending'
    <2>1. <<"recovery", code>> \notin spent
      BY <1>1 DEF Spending, SpentKept
    <2>2. spent' = spent \cup {<<"recovery", code>>} /\ FactorSpentOnce'
      BY <1>1, <1>2, <2>1 DEF Spend, Spending, FactorSpentOnce
    <2>3. ASSUME NEW s \in Steps, <<"totp", s>> \in spent'
          PROVE  s <= acct.lastStep
      BY <1>1, <2>2, <2>3 DEF Spending, SpentKept
    <2>4. ASSUME NEW c \in Nat, <<"recovery", c>> \in spent'
          PROVE  c <= secretSeq /\ c \notin unusedCodes'
      <3>1. CASE <<"recovery", c>> \in spent
        BY <3>1, <1>1, <1>2 DEF Spending, SpentKept
      <3>2. CASE c = code
        BY <3>2, <1>1, <1>2
      <3>. QED  BY <2>2, <2>4, <3>1, <3>2
    <2>. QED  BY <1>1, <1>2, <2>2, <2>3, <2>4 DEF Spending, SpentKept
  <1>. QED  BY <1>1, <1>2, <1>3, <1>4, <1>5, OrdinaryStep

LEMMA OpenSessionKeeps ==
    ASSUME AuthInv, NEW d \in Desks, OpenSession(d)
    PROVE  AuthInv'
  <1>1. AuthTypeOK /\ SecondFactorAsked
    BY DEF AuthInv
  <1>2. /\ Done(d) /\ ClearFailures /\ UNCHANGED factorRows /\ UNCHANGED <<atime, crashes>>
        /\ secretSeq' = secretSeq /\ ~bare'
        /\ challenges' = [challenges EXCEPT ![adesk[d].c] = NoRow]
    BY <1>1 DEF OpenSession, CompleteLogin, factorRows, SecondFactorAsked
  <1>3. FactorTypes
    BY <1>1, <1>2, TypesSame DEF AuthTypeOK
  <1>. QED  BY <1>2, <1>3, DoneKeeps, ClearFailuresKeeps

-----------------------------------------------------------------------------
(* Enrolment, renewal and the end of the second factor.                    *)

LEMMA StartEnrollmentKeeps ==
    ASSUME AuthInv, NEW d \in Desks, StartEnrollment(d)
    PROVE  AuthInv'
  <1>1. AuthTypeOK /\ Spending /\ acct \in Account /\ secretSeq \in Nat
    BY DEF AuthInv, AuthTypeOK
  <1>2. /\ adesk[d].op # "lock" /\ Work(d, Free) /\ secretSeq < MaxSecrets
        /\ acct' = [acct EXCEPT !.pending = secretSeq + 1] /\ secretSeq' = secretSeq + 1
        /\ UNCHANGED <<unusedCodes, challenges, hits, atime, spent, spentTwice, guesses, crashes, bare>>
    BY DEF StartEnrollment, Done
  <1>3. /\ acct' \in Account /\ acct'.failed = acct.failed /\ acct'.lastFailed = acct.lastFailed
        /\ acct'.until = acct.until /\ acct'.pending = secretSeq + 1
        /\ acct'.lastStep = acct.lastStep
    <2>1. secretSeq + 1 \in 0 .. MaxSecrets
      BY <1>1, <1>2, FactorAssumption
    <2>. QED  BY <1>1, <1>2, <2>1 DEF Account
  <1>4. FactorTypes
    BY <1>1, <1>2, FactorAssumption DEF AuthTypeOK, FactorTypes
  <1>5. Spending'
    BY <1>1, <1>2, <1>3 DEF Spending, SpentKept, FactorSpentOnce
  <1>6. Free.op # "lock" /\ JobShape(Free, atime, secretSeq')
    BY FreeShape DEF Free
  <1>. QED  BY <1>2, <1>3, <1>4, <1>5, <1>6, OrdinaryStep

LEMMA ConfirmEnrollmentKeeps ==
    ASSUME AuthInv, NEW d \in Desks, NEW step \in Steps, ConfirmEnrollment(d, step)
    PROVE  AuthInv'
  <1>. DEFINE pending == adesk[d].st.pending
              active  == ActivateMFA(acct, pending, step)
  <1>1. /\ AuthTypeOK /\ Spending /\ JobsShaped /\ SecondFactorAsked /\ acct \in Account
        /\ step \in Nat /\ secretSeq \in Nat /\ atime \in Nat
    BY FactorAssumption DEF AuthInv, AuthTypeOK, Steps, LastSkew
  <1>2. /\ adesk[d].op \in {"confirm", "setup"} /\ pending # NoSecret
        /\ unusedCodes' = {pending} /\ spent' = {} /\ spentTwice' = spentTwice
        /\ Done(d) /\ UNCHANGED <<secretSeq, atime, crashes>>
        /\ \/ acct' = active /\ UNCHANGED <<challenges, hits, guesses, bare>>
           \/ /\ acct' = ClearedCounters(active) /\ hits' = NoHits /\ guesses' = 0
              /\ challenges' = [challenges EXCEPT ![adesk[d].c] = NoRow]
              /\ UNCHANGED bare
    BY DEF ConfirmEnrollment, NewEra
  <1>3. pending \in 1 .. secretSeq /\ pending \in 0 .. MaxSecrets /\ adesk[d].op # "lock"
    <2>1. adesk[d].st \in Account /\ pending <= secretSeq
      BY <1>1, <1>2 DEF JobsShaped, JobShape, WithAccount
    <2>. QED  BY <1>1, <1>2, <2>1 DEF Account, NoSecret
  <1>. HIDE DEF pending
  <1>4. /\ active \in Account /\ active.failed = acct.failed
        /\ active.lastFailed = acct.lastFailed /\ active.until = acct.until
        /\ active.pending = 0
    <2>1. NoSecret \in 0 .. MaxSecrets /\ NoSecret = 0
      BY FactorAssumption DEF NoSecret
    <2>. QED  BY <1>1, <1>3, <2>1 DEF ActivateMFA, Account
  <1>. HIDE DEF active
  <1>5. /\ ClearedCounters(active) \in Account /\ ClearedCounters(active).failed = 0
        /\ ClearedCounters(active).lastFailed = NoRow /\ ClearedCounters(active).until = 0
        /\ ClearedCounters(active).pending = active.pending
    BY <1>4, ClearedType
  <1>6. acct' \in Account /\ acct'.pending <= secretSeq'
    BY <1>1, <1>2, <1>4, <1>5
  <1>7. FactorTypes
    BY <1>1, <1>2, <1>3, FactorAssumption DEF AuthTypeOK, FactorTypes
  <1>8. Spending'
    BY <1>1, <1>2, <1>6 DEF Spending, SpentKept, FactorSpentOnce
  <1>9. CASE acct' = active /\ UNCHANGED <<challenges, hits, guesses, bare>>
    <2>1. Free.op # "lock" /\ JobShape(Free, atime, secretSeq')
      BY FreeShape DEF Free
    <2>. QED  BY <1>2, <1>3, <1>4, <1>6, <1>7, <1>8, <1>9, <2>1, OrdinaryStep DEF Done
  <1>10. CASE /\ acct' = ClearedCounters(active) /\ hits' = NoHits /\ guesses' = 0
              /\ UNCHANGED bare
    <2>1. JobsShaped' /\ ~bare' /\ 0 <= atime + MaxLock
      BY <1>1, <1>2, <1>10, DoneKeeps, FactorAssumption DEF SecondFactorAsked
    <2>. QED  BY <1>2, <1>5, <1>7, <1>8, <1>10, <2>1, ClearingStep
  <1>. QED  BY <1>2, <1>9, <1>10

LEMMA DeactivateKeeps ==
    ASSUME AuthInv, NEW d \in Desks, Deactivate(d)
    PROVE  AuthInv'
  <1>. DEFINE j == [op |-> "dropcodes"]
  <1>1. AuthTypeOK /\ Spending /\ acct \in Account /\ secretSeq \in Nat
    BY DEF AuthInv, AuthTypeOK
  <1>2. /\ adesk[d].op # "lock" /\ Work(d, j) /\ acct' = DeactivateMFA(acct)
        /\ spent' = {} /\ spentTwice' = spentTwice
        /\ UNCHANGED <<unusedCodes, challenges, hits, secretSeq, atime, guesses, crashes, bare>>
    BY DEF Deactivate, NewEra
  <1>3. /\ acct' \in Account /\ acct'.failed = acct.failed /\ acct'.lastFailed = acct.lastFailed
        /\ acct'.until = acct.until /\ acct'.pending = 0
    <2>1. NoSecret \in 0 .. MaxSecrets /\ NoSecret = 0 /\ 0 \in Nat
      BY FactorAssumption DEF NoSecret
    <2>. QED  BY <1>1, <1>2, <2>1 DEF DeactivateMFA, Account
  <1>4. FactorTypes
    BY <1>1, <1>2 DEF AuthTypeOK, FactorTypes
  <1>5. Spending'
    BY <1>1, <1>2, <1>3 DEF Spending, SpentKept, FactorSpentOnce
  <1>6. j.op # "lock" /\ JobShape(j, atime, secretSeq')
    BY DEF JobShape, WithAccount
  <1>. HIDE DEF j
  <1>. QED  BY <1>2, <1>3, <1>4, <1>5, <1>6, OrdinaryStep

(* The codes are dropped or replaced: what is spent stays spent.           *)
LEMMA CodesKeep ==
    ASSUME AuthInv, NEW d \in Desks,
           DropCodes(d) \/ ReplaceRecoveryCodes(d) \/ InsertCodes(d)
    PROVE  AuthInv'
  <1>. DEFINE k == [op |-> "newcodes"]
  <1>1. AuthTypeOK /\ Spending /\ acct \in Account /\ secretSeq \in Nat
    BY DEF AuthInv, AuthTypeOK
  <1>2. /\ adesk[d].op # "lock"
        /\ UNCHANGED <<acct, challenges, hits, atime, spent, spentTwice, guesses, crashes, bare>>
        /\ \/ unusedCodes' = {} /\ secretSeq' = secretSeq
           \/ /\ secretSeq < MaxSecrets /\ secretSeq' = secretSeq + 1
              /\ unusedCodes' = unusedCodes \cup {secretSeq + 1}
    BY DEF DropCodes, ReplaceRecoveryCodes, InsertCodes
  <1>3. FactorTypes
    <2>1. CASE unusedCodes' = {} /\ secretSeq' = secretSeq
      BY <1>1, <1>2, <2>1 DEF AuthTypeOK, FactorTypes
    <2>2. CASE /\ secretSeq < MaxSecrets /\ secretSeq' = secretSeq + 1
               /\ unusedCodes' = unusedCodes \cup {secretSeq + 1}
      <3>1. secretSeq' \in 1 .. MaxSecrets /\ secretSeq <= secretSeq' /\ 1 .. secretSeq \subseteq 1 .. secretSeq'
        BY <1>1, <2>2, FactorAssumption
      <3>2. secretSeq + 1 \in 1 .. secretSeq'
        BY <1>1, <2>2
      <3>3. unusedCodes' \subseteq 1 .. secretSeq'
        BY <1>1, <2>2, <3>1, <3>2 DEF AuthTypeOK
      <3>. QED  BY <1>1, <1>2, <3>1, <3>3 DEF AuthTypeOK, FactorTypes
    <2>. QED  BY <1>2, <2>1, <2>2
  <1>4. Spending'
    <2>1. \A c \in Nat : <<"recovery", c>> \in spent => c <= secretSeq' /\ c \notin unusedCodes'
      BY <1>1, <1>2 DEF Spending, SpentKept
    <2>2. acct.pending \in Nat /\ acct.pending <= secretSeq'
      BY <1>1, <1>2 DEF Spending, Account
    <2>. QED  BY <1>1, <1>2, <2>1, <2>2 DEF Spending, SpentKept, FactorSpentOnce
  <1>5. /\ k.op # "lock" /\ JobShape(k, atime, secretSeq')
        /\ Free.op # "lock" /\ JobShape(Free, atime, secretSeq')
    BY FreeShape DEF JobShape, WithAccount, Free
  <1>6. Work(d, k) \/ Work(d, Free)
    BY DEF DropCodes, ReplaceRecoveryCodes, InsertCodes, Done
  <1>. HIDE DEF k
  <1>. QED  BY <1>1, <1>2, <1>3, <1>4, <1>5, <1>6, OrdinaryStep

LEMMA EditUserKeeps ==
    ASSUME AuthInv, NEW d \in Desks, NEW byAdmin \in BOOLEAN, NEW mfa \in BOOLEAN,
           EditUser(d, byAdmin, mfa)
    PROVE  AuthInv'
  <1>. DEFINE on == IF byAdmin THEN mfa ELSE adesk[d].st.mfa
  <1>1. AuthTypeOK /\ Spending /\ JobsShaped /\ acct \in Account
    BY DEF AuthInv, AuthTypeOK
  <1>2. /\ adesk[d].op = "edit" /\ acct' = [acct EXCEPT !.mfa = on] /\ Work(d, Free)
        /\ UNCHANGED <<challenges, hits, atime, guesses, crashes, bare>> /\ UNCHANGED factorRows
    BY DEF EditUser, Done
  <1>3. on \in BOOLEAN
    <2>1. adesk[d].st \in Account
      BY <1>1, <1>2 DEF JobsShaped, JobShape, WithAccount
    <2>2. adesk[d].st.mfa \in BOOLEAN
      BY <2>1 DEF Account
    <2>. QED  BY <2>2
  <1>. HIDE DEF on
  <1>4. /\ acct' \in Account /\ acct'.failed = acct.failed /\ acct'.lastFailed = acct.lastFailed
        /\ acct'.until = acct.until /\ acct'.pending = acct.pending
        /\ acct'.lastStep = acct.lastStep
    BY <1>1, <1>2, <1>3 DEF Account
  <1>5. FactorTypes /\ Spending'
    BY <1>1, <1>2, <1>4, TypesSame, SpendingSame DEF AuthTypeOK
  <1>6. Free.op # "lock" /\ JobShape(Free, atime, secretSeq') /\ adesk[d].op # "lock"
    BY <1>2, FreeShape DEF Free
  <1>. QED  BY <1>2, <1>4, <1>5, <1>6, OrdinaryStep

LEMMA UnlockKeeps ==
    ASSUME AuthInv, Unlock
    PROVE  AuthInv'
  <1>1. AuthTypeOK /\ JobsShaped /\ SecondFactorAsked
    BY DEF AuthInv
  <1>2. /\ ClearFailures /\ UNCHANGED factorRows
        /\ UNCHANGED <<challenges, atime, adesk, crashes, bare>>
    BY DEF Unlock
  <1>3. JobsShaped' /\ ~bare' /\ FactorTypes
    BY <1>1, <1>2, TypesSame DEF JobsShaped, SecondFactorAsked, factorRows, AuthTypeOK
  <1>. QED  BY <1>2, <1>3, ClearFailuresKeeps

(* A request that dies takes one pending lock with it at most.             *)
LEMMA CrashKeeps ==
    ASSUME AuthInv, NEW d \in Desks, AuthCrash(d)
    PROVE  AuthInv'
  <1>1. AuthTypeOK /\ JobsShaped /\ Counters /\ Spending /\ SecondFactorAsked
    BY DEF AuthInv
  <1>2. /\ Done(d) /\ crashes < MaxCrashes /\ crashes' = crashes + 1
        /\ UNCHANGED <<acct, challenges, hits, atime, guesses, bare>> /\ UNCHANGED factorRows
        /\ secretSeq' = secretSeq
    BY DEF AuthCrash, factorRows
  <1>3. JobsShaped'
    BY <1>2, DoneKeeps
  <1>4. AuthTypeOK'
    BY <1>1, <1>2, FactorAssumption DEF AuthTypeOK, factorRows
  <1>5. Spending' /\ SecondFactorAsked'
    BY <1>1, <1>2, SpendingSame DEF SecondFactorAsked
  <1>6. Locking \ {d} \subseteq Locking'
    BY <1>1, <1>2 DEF Locking, Done, Work, JobsShaped
  <1>7. Cardinality(Locking) - 1 <= Cardinality(Locking') /\ Cardinality(Locking') \in Nat
    <2>1. Locking' \subseteq Desks
      BY DEF Locking
    <2>2. IsFiniteSet(Locking') /\ Cardinality(Locking') \in Nat
      BY <2>1, FactorAssumption, FS_Subset, FS_CardinalityType
    <2>3. Cardinality(Locking \ {d}) <= Cardinality(Locking')
      BY <1>6, <2>2, FS_Subset
    <2>4. /\ Cardinality(Locking) \in Nat
          /\ Cardinality(Locking \ {d}) \in {Cardinality(Locking), Cardinality(Locking) - 1}
      BY LockingFinite, FS_RemoveElement
    <2>. QED  BY <2>2, <2>3, <2>4
  <1>8. LocksPending'
    BY <1>1, <1>2, <1>7, LockingFinite, FactorAssumption DEF Counters, LocksPending, AuthTypeOK
  <1>9. Counters'
    BY <1>1, <1>2, <1>8 DEF Counters, HitsShaped, HitsOld, Counted
  <1>. QED  BY <1>3, <1>4, <1>5, <1>9 DEF AuthInv

LEMMA TickKeeps ==
    ASSUME AuthInv, AuthTick
    PROVE  AuthInv'
  <1>1. /\ AuthTypeOK /\ JobsShaped /\ Counters /\ Spending /\ SecondFactorAsked
        /\ atime \in Nat /\ acct \in Account
    BY DEF AuthInv, AuthTypeOK
  <1>2. /\ atime < LastAuthTick /\ atime' = atime + 1
        /\ UNCHANGED <<acct, challenges, hits, adesk, guesses, crashes, bare>> /\ UNCHANGED factorRows
        /\ secretSeq' = secretSeq
    BY DEF AuthTick, factorRows
  <1>3. AuthTypeOK'
    <2>1. acct.until \in Int /\ acct.lastFailed \in Int \cup {NoRow}
      BY <1>1 DEF Account
    <2>2. acct'.until <= atime' + MaxLock /\ (acct'.lastFailed # NoRow => acct'.lastFailed <= atime')
      BY <1>1, <1>2, <2>1, FactorAssumption DEF AuthTypeOK
    <2>3. atime' \in 1 .. LastAuthTick
      BY <1>1, <1>2, FactorAssumption
    <2>. QED  BY <1>1, <1>2, <2>2, <2>3 DEF AuthTypeOK, factorRows
  <1>4. JobsShaped'
    <2>1. ASSUME NEW e \in Desks
          PROVE  JobShape(adesk[e], atime', secretSeq)
      <3>. DEFINE k == adesk[e]
      <3>1. JobShape(k, atime, secretSeq)
        BY <1>1 DEF JobsShaped
      <3>. HIDE DEF k
      <3>2. JobShape(k, atime', secretSeq)
        BY <1>1, <1>2, <3>1, FactorAssumption DEF JobShape
      <3>. QED  BY <3>2 DEF k
    <2>. QED  BY <1>1, <1>2, <2>1 DEF JobsShaped
  <1>5. Counters'
    BY <1>1, <1>2 DEF Counters, HitsShaped, HitsOld, Counted, LocksPending, Locking
  <1>6. Spending' /\ SecondFactorAsked'
    BY <1>1, <1>2, SpendingSame DEF SecondFactorAsked
  <1>. QED  BY <1>3, <1>4, <1>5, <1>6 DEF AuthInv

-----------------------------------------------------------------------------
LEMMA AuthInvInit == AuthInit => AuthInv
  <1>. SUFFICES ASSUME AuthInit
                PROVE  AuthInv
    OBVIOUS
  <1>1. PICK on \in BOOLEAN, req \in BOOLEAN :
          acct = [mfa |-> on, secret |-> IF on THEN 1 ELSE NoSecret, pending |-> NoSecret, lastStep |-> 0,
                  failed |-> 0, lastFailed |-> NoRow, lockouts |-> 0, until |-> 0, required |-> req]
    BY DEF AuthInit
  <1>2. /\ unusedCodes \subseteq {1} /\ challenges = [c \in ChallengeIds |-> NoRow]
        /\ hits = NoHits /\ secretSeq = 1 /\ atime = 1
        /\ adesk = [d \in Desks |-> Free] /\ spent = {} /\ ~spentTwice
        /\ guesses = 0 /\ crashes = 0 /\ ~bare
    BY DEF AuthInit
  <1>3. /\ acct \in Account /\ acct.until = 0 /\ acct.lastFailed = NoRow /\ acct.failed = 0
        /\ acct.pending = 0 /\ acct.lastStep = 0
    <2>. DEFINE secret == IF on THEN 1 ELSE NoSecret
    <2>1. /\ secret \in 0 .. MaxSecrets /\ NoSecret \in 0 .. MaxSecrets /\ NoSecret = 0
          /\ 0 \in Nat /\ 0 \in Int /\ 0 \in 0 .. MaxLock /\ NoRow \in Int \cup {NoRow}
      BY FactorAssumption DEF NoSecret
    <2>2. acct = [mfa |-> on, secret |-> secret, pending |-> NoSecret, lastStep |-> 0,
                  failed |-> 0, lastFailed |-> NoRow, lockouts |-> 0, until |-> 0, required |-> req]
      BY <1>1
    <2>. HIDE DEF secret
    <2>. QED  BY <2>1, <2>2 DEF Account
  <1>4. AuthTypeOK
    BY <1>2, <1>3, FactorAssumption DEF AuthTypeOK
  <1>5. JobsShaped
    BY <1>2, FreeShape DEF JobsShaped
  <1>6. Counters
    <2>1. Cardinality(Locking) \in Nat
      BY LockingFinite
    <2>2. hits \in [1 .. 0 -> Int] /\ DOMAIN hits = {}
      BY <1>2 DEF NoHits
    <2>. QED  BY <1>2, <1>3, <2>1, <2>2, FactorAssumption
              DEF Counters, HitsShaped, HitsOld, Counted, LocksPending
  <1>7. Spending /\ SecondFactorAsked
    BY <1>2, <1>3 DEF Spending, SpentKept, FactorSpentOnce, SecondFactorAsked
  <1>. QED  BY <1>4, <1>5, <1>6, <1>7 DEF AuthInv

LEMMA AuthInvNext == AuthInv /\ [AuthNext]_authVars => AuthInv'
  <1>. SUFFICES ASSUME AuthInv, [AuthNext]_authVars
                PROVE  AuthInv'
    OBVIOUS
  <1>1. ASSUME NEW d \in Desks,
               NEW op \in {"login", "enroll", "confirm", "disable", "regenerate", "edit"}, LoadUser(d, op)
        PROVE  AuthInv'
    BY <1>1, LoadUserKeeps
  <1>2. ASSUME NEW d \in Desks, LoginWrong(d) \/ VerifyWrong(d)
        PROVE  AuthInv'
    BY <1>2, WrongAnswerKeeps
  <1>3. ASSUME NEW d \in Desks, LockAccount(d)
        PROVE  AuthInv'
    BY <1>3, LockAccountKeeps
  <1>4. ASSUME NEW d \in Desks, LoginRight(d)
        PROVE  AuthInv'
    BY <1>4, LoginRightKeeps
  <1>5. ASSUME NEW d \in Desks, NEW c \in ChallengeIds, AttemptChallenge(d, c)
        PROVE  AuthInv'
    BY <1>5, AttemptChallengeKeeps
  <1>6. ASSUME NEW d \in Desks, NEW s \in Steps, CheckTOTP(d, s)
        PROVE  AuthInv'
    BY <1>6, CheckTOTPKeeps
  <1>7. ASSUME NEW d \in Desks, NEW c \in unusedCodes, CheckRecovery(d, c)
        PROVE  AuthInv'
    BY <1>7, CheckRecoveryKeeps
  <1>8. ASSUME NEW d \in Desks, OpenSession(d)
        PROVE  AuthInv'
    BY <1>8, OpenSessionKeeps
  <1>9. ASSUME NEW d \in Desks, StartEnrollment(d)
        PROVE  AuthInv'
    BY <1>9, StartEnrollmentKeeps
  <1>10. ASSUME NEW d \in Desks, NEW s \in Steps, ConfirmEnrollment(d, s)
         PROVE  AuthInv'
    BY <1>10, ConfirmEnrollmentKeeps
  <1>11. ASSUME NEW d \in Desks, Deactivate(d)
         PROVE  AuthInv'
    BY <1>11, DeactivateKeeps
  <1>12. ASSUME NEW d \in Desks, DropCodes(d) \/ ReplaceRecoveryCodes(d) \/ InsertCodes(d)
         PROVE  AuthInv'
    BY <1>12, CodesKeep
  <1>13. ASSUME NEW d \in Desks, NEW byAdmin \in BOOLEAN, NEW mfa \in BOOLEAN, EditUser(d, byAdmin, mfa)
         PROVE  AuthInv'
    BY <1>13, EditUserKeeps
  <1>14. ASSUME NEW d \in Desks, AuthCrash(d)
         PROVE  AuthInv'
    BY <1>14, CrashKeeps
  <1>15. CASE Unlock
    BY <1>15, UnlockKeeps
  <1>16. CASE AuthTick
    BY <1>16, TickKeeps
  <1>17. CASE UNCHANGED authVars
    BY <1>17 DEF AuthInv, AuthTypeOK, JobsShaped, Counters, HitsShaped, HitsOld, Counted, LocksPending,
                 Locking, Spending, SpentKept, FactorSpentOnce, SecondFactorAsked, authVars
  <1>18. CASE LockoutNext
    BY <1>1, <1>2, <1>3, <1>4, <1>5, <1>14, <1>15, <1>16, <1>18 DEF LockoutNext
  <1>19. CASE FactorNext
    BY <1>1, <1>4, <1>5, <1>6, <1>7, <1>8, <1>9, <1>10, <1>11, <1>12, <1>13, <1>19 DEF FactorNext
  <1>. QED  BY <1>17, <1>18, <1>19 DEF AuthNext

(* Sign-in holds, for any number of requests, challenges and secrets and   *)
(* any lockout policy: a step of the authenticator or a recovery code is   *)
(* accepted once (AdvanceMFAStep, ConsumeRecoveryCode), the wrong answers  *)
(* an account takes are bounded by the policy and the requests under way   *)
(* (registerFailure, LockUser), and no session opens by the password alone *)
(* when the request found a second factor switched on or demanded (Login). *)
THEOREM SignInHoldsAlways == AuthSpec => []SignInHolds
  <1>1. AuthInv => SignInHolds
    BY SignInFollows
  <1>. QED  BY <1>1, AuthInvInit, AuthInvNext, PTL DEF AuthSpec

-----------------------------------------------------------------------------
(* The catalogue.                                                          *)
(* What a desk writes was judged when it read; what it cannot have seen is *)
(* refused by the indexes on a tier's code and a departure's.              *)
TierSet(T) ==
    /\ \A t \in T : t.code \in TierCodes /\ t.currency \in Currencies
    /\ \A t, u \in T : t.code = u.code => t = u
OwnedRow(row) ==
    /\ row \in PackageRow
    /\ ValidCategory(row.header.kind, row.header.category)
    /\ IsPersonal(row.header.category) <=> row.owner # NoRow
DeparturesOK(deps, there) ==
    /\ deps \in [DepIds -> {NoRow} \cup DepartureRow]
    /\ \A d \in Present(deps) : deps[d].package \in there /\ TierSet(deps[d].tiers)
    /\ \A d, e \in Present(deps) : deps[d].package = deps[e].package /\ deps[d].code = deps[e].code => d = e
Standing(deps, i) == \E d \in Present(deps) : deps[d].package = i /\ deps[d].code = "OPEN"
PkgTable(pkgs) == pkgs \in [PkgIds -> {NoRow} \cup PackageRow]
PackagesOK(pkgs, deps) ==
    /\ PkgTable(pkgs)
    /\ \A i \in Present(pkgs) : OwnedRow(pkgs[i]) /\ (pkgs[i].madeVisa => Standing(deps, i))
TiersOK(tiers) == tiers = [i \in PkgIds |-> tiers[i]] /\ \A i \in PkgIds : TierSet(tiers[i])
PkgJob(t, pkgs) ==
    /\ t.op = "edit" => /\ t.id \in Present(pkgs) /\ OwnedRow(t.row)
                        /\ t.row.madeVisa <=> pkgs[t.id].madeVisa
    /\ t.op = "tiers" => t.id \in PkgIds /\ TierSet(t.rows)
PkgJobs(jobs, pkgs) == jobs = [d \in Desks |-> jobs[d]] /\ \A d \in Desks : PkgJob(jobs[d], pkgs)
CatInv ==
    /\ PackagesOK(packages, pkgDeps)
    /\ TiersOK(pkgTiers)
    /\ DeparturesOK(pkgDeps, Present(packages))
    /\ PkgJobs(pkgDesk, packages)

LEMMA CatInitHolds == PackagesInit => CatInv
  <1>. SUFFICES ASSUME PackagesInit PROVE CatInv
    OBVIOUS
  <1>1. /\ packages = [i \in PkgIds |-> NoRow] /\ pkgTiers = [i \in PkgIds |-> {}] /\ pkgDeps = [i \in DepIds |-> NoRow]
        /\ pkgDesk = [d \in Desks |-> Free]
    BY DEF PackagesInit
  <1>2. PkgJob(Free, packages)
    BY DEF PkgJob, Free
  <1>3. Present(packages) = {} /\ Present(pkgDeps) = {}
    BY <1>1 DEF Present
  <1>4. PackagesOK(packages, pkgDeps)
    BY <1>1, <1>3 DEF PackagesOK, PkgTable
  <1>5. DeparturesOK(pkgDeps, Present(packages))
    BY <1>1, <1>3 DEF DeparturesOK
  <1>6. TiersOK(pkgTiers)
    BY <1>1 DEF TiersOK, TierSet
  <1>. QED  BY <1>1, <1>2, <1>4, <1>5, <1>6 DEF CatInv, PkgJobs

LEMMA CatInvHolds == CatInv => CatalogueCoherent
  <1>. SUFFICES ASSUME CatInv PROVE CatalogueCoherent
    OBVIOUS
  <1>1. \A i \in Present(packages) : IsPersonal(packages[i].header.category) <=> packages[i].owner # NoRow
    BY DEF CatInv, PackagesOK, OwnedRow
  <1>2. ASSUME NEW i \in Present(packages), packages[i].madeVisa
        PROVE  Cardinality({d \in Present(pkgDeps) : pkgDeps[d].package = i /\ pkgDeps[d].code = "OPEN"}) = 1
    <2>1. PICK d \in Present(pkgDeps) : pkgDeps[d].package = i /\ pkgDeps[d].code = "OPEN"
      BY <1>2 DEF CatInv, PackagesOK, Standing
    <2>2. \A e \in Present(pkgDeps) : pkgDeps[e].package = i /\ pkgDeps[e].code = "OPEN" => e = d
      BY <2>1 DEF CatInv, DeparturesOK
    <2>3. {e \in Present(pkgDeps) : pkgDeps[e].package = i /\ pkgDeps[e].code = "OPEN"} = {d}
      BY <2>1, <2>2
    <2>4. Cardinality({d}) = 1
      BY FS_Singleton
    <2>. QED  BY <2>3, <2>4, Zenon
  <1>3. \A i \in PkgIds : \A t, u \in pkgTiers[i] : t.code = u.code => t = u
    BY DEF CatInv, TiersOK, TierSet
  <1>4. \A i \in Present(pkgDeps) : \A t, u \in pkgDeps[i].tiers : t.code = u.code => t = u
    BY DEF CatInv, DeparturesOK, TierSet
  <1>. QED  BY <1>1, <1>2, <1>3, <1>4, Zenon DEF CatalogueCoherent

LEMMA CatTypes == CatInv => /\ \A i \in Present(packages) : ValidCategory(packages[i].header.kind, packages[i].header.category)
                            /\ \A i \in PkgIds : \A t \in pkgTiers[i] : t.code \in TierCodes
                            /\ \A i \in Present(pkgDeps) : pkgDeps[i].package \in Present(packages)
  BY DEF CatInv, PackagesOK, OwnedRow, TiersOK, TierSet, DeparturesOK

LEMMA CatStays == CatInv /\ UNCHANGED <<packages, pkgTiers, pkgDeps, pkgDesk>> => CatInv'
  <1>. SUFFICES ASSUME CatInv, UNCHANGED <<packages, pkgTiers, pkgDeps, pkgDesk>> PROVE CatInv'
    OBVIOUS
  <1>. QED  BY DEF CatInv

-----------------------------------------------------------------------------
(* What the normalisers let through.                                       *)
LEMMA HeaderFields ==
    ASSUME NEW K, NEW C, NEW M, NEW x \in [kind : K, category : C, currency : M, days : Int, seats : Int],
           NEW k, NEW c, NEW m
    PROVE  /\ [x EXCEPT !.kind = k, !.category = c, !.currency = m]
              \in [kind : {k}, category : {c}, currency : {m}, days : {x.days}, seats : {x.seats}]
           /\ x.days \in Int /\ x.seats \in Int
  OBVIOUS

LEMMA HeaderJoined ==
    ASSUME NEW k, NEW c, NEW m, NEW d, NEW s, NEW x \in [kind : {k}, category : {c}, currency : {m}, days : {d}, seats : {s}]
    PROVE  /\ x.kind = k /\ x.category = c /\ x.currency = m /\ x.days = d /\ x.seats = s
           /\ \A K, C, M, D, S : k \in K /\ c \in C /\ m \in M /\ d \in D /\ s \in S
                => x \in [kind : K, category : C, currency : M, days : D, seats : S]
  OBVIOUS

LEMMA NonNegative == \A q \in Int : q >= 0 => q \in Nat
  OBVIOUS

LEMMA HeaderNormal ==
    ASSUME NEW K, NEW C, NEW x \in [kind : K, category : C, currency : {"", "SAR", "USD"}, days : Int, seats : Int],
           NEW h \in NormalizeHeader(x)
    PROVE  h \in HeaderRow /\ ValidCategory(h.kind, h.category)
  <1>. DEFINE n == [x EXCEPT !.kind = OrElse(@, "umrah"), !.category = OrElse(@, "standard"), !.currency = OrElse(@, "SAR")]
              kind == OrElse(x.kind, "umrah")
              category == OrElse(x.category, "standard")
              currency == OrElse(x.currency, "SAR")
  <1>1. n \in [kind : {kind}, category : {category}, currency : {currency}, days : {x.days}, seats : {x.seats}]
    BY HeaderFields
  <1>2. h = n /\ ValidCategory(n.kind, n.category) /\ n.currency \in {"SAR", "USD"} /\ n.days \in 0 .. 60 /\ n.seats >= 0
    BY DEF NormalizeHeader, When
  <1>3. x.days \in Int /\ x.seats \in Int
    BY HeaderFields
  <1>. HIDE DEF n, kind, category, currency
  <1>8. n.kind = kind /\ n.category = category /\ n.currency = currency /\ n.days = x.days /\ n.seats = x.seats
    BY <1>1, HeaderJoined
  <1>9. ValidCategory(kind, category) /\ currency \in {"SAR", "USD"} /\ x.days \in 0 .. 60 /\ x.seats >= 0
    BY <1>2, <1>8, Zenon
  <1>4. ValidCategory(kind, category) /\ currency \in {"SAR", "USD"} /\ x.days \in 0 .. 60 /\ x.seats \in Nat
    BY <1>3, <1>9, NonNegative, Zenon
  <1>5. category \in {"standard", "personal", "semester", "short"} /\ kind \in {"umrah", "hajj", "visa", "other"}
    BY <1>4 DEF ValidCategory, ValidKind, IsPilgrimage, IsVisa, legacyCategories
  <1>6. n \in HeaderRow
    BY <1>1, <1>4, <1>5, HeaderJoined DEF HeaderRow, Currencies
  <1>7. h \in HeaderRow /\ h.kind = kind /\ h.category = category
    BY <1>2, <1>6, <1>8, Zenon
  <1>. QED  BY <1>4, <1>7

LEMMA AssignmentNormal ==
    ASSUME NEW category, NEW customer \in PkgCustomers \cup {NoRow}, NEW owner \in NormalizeAssignment(category, customer)
    PROVE  owner \in PkgCustomers \cup {NoRow} /\ (IsPersonal(category) <=> owner # NoRow)
  BY DEF NormalizeAssignment, When

(* Tiers as typed: of known codes, and with a currency or none.            *)
TypedTier(t) == t \in [code : TierCodes, currency : {"", "SAR", "USD"}]
TypedTiers(in) == \A i \in DOMAIN in : TypedTier(in[i])

LEMMA TierFields ==
    ASSUME NEW M, NEW t \in [code : TierCodes, currency : M]
    PROVE  /\ t.code \in TierCodes /\ t.currency \in M
           /\ M \subseteq {"", "SAR", "USD"} => TypedTier(t)
           /\ \A m \in {"", "SAR", "USD"} : TypedTier([t EXCEPT !.currency = m])
  BY DEF TypedTier

LEMMA TierPairs ==
    ASSUME NEW A, NEW B, NEW in \in A \X B
    PROVE  \E t \in A, u \in B : in = <<t, u>>
  OBVIOUS

LEMMA ShortTuples ==
    /\ DOMAIN <<>> = {}
    /\ \A a : DOMAIN <<a>> = {1} /\ <<a>>[1] = a
    /\ \A a, b : DOMAIN <<a, b>> = {1, 2} /\ <<a, b>>[1] = a /\ <<a, b>>[2] = b
  <1>1. <<>> \in Seq({}) /\ Len(<<>>) = 0
    BY EmptySeq
  <1>2. DOMAIN <<>> = 1 .. 0
    BY <1>1, LenProperties
  <1>. QED  BY <1>2

LEMMA TierInputsTyped ==
    ASSUME NEW in \in TierInputs
    PROVE  TypedTiers(in)
  <1>. DEFINE Row == [code : TierCodes, currency : {"", "USD"}]
  <1>0. \A t \in Row : TypedTier(t)
    BY TierFields
  <1>1. CASE in = <<>>
    BY <1>1, ShortTuples DEF TypedTiers
  <1>2. CASE in \in {<<t>> : t \in Row}
    <2>1. PICK t \in Row : in = <<t>>
      BY <1>2
    <2>2. DOMAIN in = {1} /\ in[1] = t
      BY <2>1, ShortTuples, Zenon
    <2>. HIDE DEF Row
    <2>. QED  BY <1>0, <2>2 DEF TypedTiers
  <1>3. CASE in \in [code : TierCodes, currency : {""}] \X [code : TierCodes, currency : {"USD"}]
    <2>. DEFINE A == [code : TierCodes, currency : {""}]
                B == [code : TierCodes, currency : {"USD"}]
    <2>0. in \in A \X B
      BY <1>3
    <2>4. (\A t \in A : TypedTier(t)) /\ (\A u \in B : TypedTier(u))
      BY TierFields
    <2>. HIDE DEF A, B
    <2>1. PICK t \in A, u \in B : in = <<t, u>>
      BY <2>0, TierPairs
    <2>2. TypedTier(t) /\ TypedTier(u)
      BY <2>4
    <2>3. DOMAIN in = {1, 2} /\ in[1] = t /\ in[2] = u
      BY <2>1, ShortTuples, Zenon
    <2>. HIDE DEF Row
    <2>. QED  BY <1>0, <2>2, <2>3 DEF TypedTiers
  <1>. QED  BY <1>1, <1>2, <1>3 DEF TierInputs

LEMMA TiersNormal ==
    ASSUME NEW in, TypedTiers(in), NEW tiers \in normalizeTiers(in)
    PROVE  TierSet(tiers)
  <1>1. /\ \A i, j \in DOMAIN in : in[i].code = in[j].code => i = j
        /\ tiers = {[code |-> in[i].code, currency |-> OrElse(in[i].currency, "USD")] : i \in DOMAIN in}
    BY DEF normalizeTiers, When
  <1>2. \A t \in tiers : \E i \in DOMAIN in : t = [code |-> in[i].code, currency |-> OrElse(in[i].currency, "USD")]
    BY <1>1
  <1>3. \A i \in DOMAIN in : OrElse(in[i].currency, "USD") \in Currencies /\ in[i].code \in TierCodes
    BY TierFields DEF TypedTiers, TypedTier, OrElse, Currencies
  <1>. QED  BY <1>1, <1>2, <1>3 DEF TierSet

LEMMA CurrencyFilled == ASSUME NEW t, TypedTier(t), NEW currency \in Currencies
                        PROVE  TypedTier([t EXCEPT !.currency = OrElse(@, currency)])
  <1>1. OrElse(t.currency, currency) \in {"", "SAR", "USD"}
    BY TierFields DEF TypedTier, OrElse, Currencies
  <1>2. t \in [code : TierCodes, currency : {"", "SAR", "USD"}]
    BY DEF TypedTier
  <1>. QED  BY <1>1, <1>2, TierFields

LEMMA TiersForNormal ==
    ASSUME NEW in, TypedTiers(in), NEW currency \in Currencies, NEW tiers \in tiersFor(in, currency)
    PROVE  TierSet(tiers)
  <1>. DEFINE filled == [i \in DOMAIN in |-> [in[i] EXCEPT !.currency = OrElse(@, currency)]]
  <1>1. TypedTiers(filled)
    BY CurrencyFilled DEF TypedTiers
  <1>2. tiers \in normalizeTiers(filled)
    BY DEF tiersFor
  <1>. HIDE DEF filled
  <1>. QED  BY <1>1, <1>2, TiersNormal

LEMMA MintedTiers == ASSUME NEW id, NEW tiers, TierSet(tiers) PROVE TierSet(Minted(id, tiers))
  <1>1. \A m \in Minted(id, tiers) : \E t \in tiers : m = [id |-> <<id, t.code>>, code |-> t.code, currency |-> t.currency]
    BY DEF Minted
  <1>. QED  BY <1>1 DEF TierSet

LEMMA CopiedTiers == ASSUME NEW tiers, TierSet(tiers)
                     PROVE  /\ TierSet(ReplaceDepartureTiers(tiers))
                            /\ ReplaceDepartureTiers(tiers) \in SUBSET [code : TierCodes, currency : Currencies]
  <1>1. \A m \in ReplaceDepartureTiers(tiers) : \E t \in tiers : m = [code |-> t.code, currency |-> t.currency]
    BY DEF ReplaceDepartureTiers
  <1>. QED  BY <1>1 DEF TierSet

-----------------------------------------------------------------------------
(* One row changes.                                                        *)
LEMMA TiersReplaced ==
    ASSUME TiersOK(pkgTiers), NEW id \in PkgIds, NEW seen, NEW rows, TierSet(rows), ReplacePackageTiers(id, seen, rows)
    PROVE  TiersOK(pkgTiers')
  <1>. DEFINE left == pkgTiers[id] \ seen
  <1>1. /\ \A t \in rows : \A u \in left : u.code # t.code
        /\ pkgTiers' = [pkgTiers EXCEPT ![id] = left \cup rows]
    BY DEF ReplacePackageTiers, ListPackageTiers
  <1>2. TierSet(left)
    BY DEF TiersOK, TierSet
  <1>. HIDE DEF left
  <1>3. TierSet(left \cup rows)
    BY <1>1, <1>2 DEF TierSet
  <1>4. pkgTiers' = [i \in PkgIds |-> IF i = id THEN left \cup rows ELSE pkgTiers[i]]
    BY <1>1 DEF TiersOK
  <1>. QED  BY <1>3, <1>4 DEF TiersOK

(* A departure's code is free in its package.                              *)
LEMMA DepartureInserted ==
    ASSUME NEW there, DeparturesOK(pkgDeps, there), NEW dep \in Fresh(pkgDeps), NEW row \in DepartureRow,
           row.package \in there, TierSet(row.tiers), InsertDeparture(dep, row)
    PROVE  /\ DeparturesOK(pkgDeps', there)
           /\ \A i : Standing(pkgDeps, i) => Standing(pkgDeps', i)
           /\ row.code = "OPEN" => Standing(pkgDeps', row.package)
  <1>1. dep \in DepIds /\ pkgDeps[dep] = NoRow /\ pkgDeps \in [DepIds -> {NoRow} \cup DepartureRow]
    BY DEF Fresh, DeparturesOK
  <1>2. pkgDeps' = [i \in DepIds |-> IF i = dep THEN row ELSE pkgDeps[i]]
    BY <1>1 DEF InsertDeparture
  <1>3. row # NoRow
    BY PackagesAssumption
  <1>4. Present(pkgDeps') = Present(pkgDeps) \cup {dep} /\ dep \notin Present(pkgDeps)
    BY <1>1, <1>2, <1>3 DEF Present
  <1>5. \A d \in Present(pkgDeps) : pkgDeps'[d] = pkgDeps[d]
    BY <1>1, <1>2 DEF Present
  <1>6. pkgDeps'[dep] = row
    BY <1>1, <1>2
  <1>7. \A d \in Present(pkgDeps) : pkgDeps[d].package = row.package => pkgDeps[d].code # row.code
    BY DEF InsertDeparture, DepartureCodeFree
  <1>8. DeparturesOK(pkgDeps', there)
    <2>1. pkgDeps' \in [DepIds -> {NoRow} \cup DepartureRow]
      BY <1>1, <1>2
    <2>2. \A d \in Present(pkgDeps') : pkgDeps'[d].package \in there /\ TierSet(pkgDeps'[d].tiers)
      BY <1>4, <1>5, <1>6 DEF DeparturesOK
    <2>3. \A d, e \in Present(pkgDeps') : pkgDeps'[d].package = pkgDeps'[e].package /\ pkgDeps'[d].code = pkgDeps'[e].code => d = e
      BY <1>4, <1>5, <1>6, <1>7 DEF DeparturesOK
    <2>. QED  BY <2>1, <2>2, <2>3 DEF DeparturesOK
  <1>9. \A i : Standing(pkgDeps, i) => Standing(pkgDeps', i)
    BY <1>4, <1>5 DEF Standing
  <1>10. row.code = "OPEN" => Standing(pkgDeps', row.package)
    BY <1>4, <1>6 DEF Standing
  <1>. QED  BY <1>8, <1>9, <1>10

(* A package made for visas gets its standing departure.                   *)
LEMMA SlotSeeded ==
    ASSUME NEW there, DeparturesOK(pkgDeps, there), NEW id \in there, id \in PkgIds, NEW h \in HeaderRow, seedVisaSlot(id, h)
    PROVE  /\ DeparturesOK(pkgDeps', there)
           /\ \A i : Standing(pkgDeps, i) => Standing(pkgDeps', i)
           /\ IsVisa(h.kind) => Standing(pkgDeps', id)
  <1>1. CASE IsVisa(h.kind)
    <2>1. PICK dep \in Fresh(pkgDeps) : InsertDeparture(dep, StandingVisaDeparture(id, h))
      BY <1>1 DEF seedVisaSlot
    <2>. DEFINE row == StandingVisaDeparture(id, h)
    <2>2. row \in DepartureRow /\ row.package = id /\ row.code = "OPEN" /\ row.tiers = {}
      <3>1. h.currency \in Currencies
        BY DEF HeaderRow
      <3>2. OrElse(h.currency, "SAR") \in Currencies
        BY <3>1 DEF OrElse, Currencies
      <3>. DEFINE currency == OrElse(h.currency, "SAR")
      <3>3. row = [package |-> id, code |-> "OPEN", oversell |-> TRUE, currency |-> currency, tiers |-> {}]
        BY DEF StandingVisaDeparture
      <3>. HIDE DEF currency, row
      <3>. QED  BY <3>2, <3>3 DEF DepartureRow, DepCodes, currency
    <2>3. TierSet(row.tiers)
      BY <2>2 DEF TierSet
    <2>4. InsertDeparture(dep, row)
      BY <2>1
    <2>. HIDE DEF row
    <2>. QED  BY <2>2, <2>3, <2>4, DepartureInserted
  <1>2. CASE ~IsVisa(h.kind)
    <2>1. UNCHANGED pkgDeps
      BY <1>2 DEF seedVisaSlot
    <2>. QED  BY <1>2, <2>1
  <1>. QED  BY <1>1, <1>2

(* A new package, from a form or from another one.                         *)
LEMMA PackageMade ==
    ASSUME CatInv, NEW id \in Fresh(packages), NEW row, OwnedRow(row), row.madeVisa <=> IsVisa(row.header.kind),
           InsertPackage(id, row), seedVisaSlot(id, row.header), UNCHANGED pkgDesk
    PROVE  /\ PackagesOK(packages', pkgDeps') /\ DeparturesOK(pkgDeps', Present(packages')) /\ PkgJobs(pkgDesk', packages')
           /\ id \in PkgIds
  <1>1. id \in PkgIds /\ packages[id] = NoRow /\ packages \in [PkgIds -> {NoRow} \cup PackageRow]
    BY DEF Fresh, CatInv, PackagesOK, PkgTable
  <1>2. packages' = [i \in PkgIds |-> IF i = id THEN row ELSE packages[i]]
    BY <1>1 DEF InsertPackage
  <1>3. row \in PackageRow /\ row # NoRow /\ row.header \in HeaderRow
    BY PackagesAssumption DEF OwnedRow, PackageRow
  <1>4. Present(packages') = Present(packages) \cup {id} /\ id \notin Present(packages)
    BY <1>1, <1>2, <1>3 DEF Present
  <1>5. \A i \in Present(packages) : packages'[i] = packages[i]
    BY <1>1, <1>2 DEF Present
  <1>6. DeparturesOK(pkgDeps, Present(packages'))
    BY <1>4 DEF CatInv, DeparturesOK
  <1>7. /\ DeparturesOK(pkgDeps', Present(packages'))
        /\ \A i : Standing(pkgDeps, i) => Standing(pkgDeps', i)
        /\ IsVisa(row.header.kind) => Standing(pkgDeps', id)
    BY <1>1, <1>3, <1>4, <1>6, SlotSeeded
  <1>8. PackagesOK(packages', pkgDeps')
    <2>1. PkgTable(packages')
      BY <1>1, <1>2, <1>3 DEF PkgTable
    <2>2. \A i \in Present(packages) : OwnedRow(packages[i]) /\ (packages[i].madeVisa => Standing(pkgDeps, i))
      BY DEF CatInv, PackagesOK
    <2>3. packages'[id] = row
      BY <1>1, <1>2
    <2>4. \A i \in Present(packages') : OwnedRow(packages'[i]) /\ (packages'[i].madeVisa => Standing(pkgDeps', i))
      BY <1>4, <1>5, <1>7, <2>2, <2>3
    <2>. QED  BY <2>1, <2>4 DEF PackagesOK
  <1>9. PkgJobs(pkgDesk', packages')
    <2>1. \A d \in Desks : PkgJob(pkgDesk[d], packages')
      BY <1>4, <1>5 DEF CatInv, PkgJobs, PkgJob
    <2>. QED  BY <2>1 DEF CatInv, PkgJobs
  <1>. QED  BY <1>1, <1>7, <1>8, <1>9

(* A desk begins or ends a job.                                            *)
LEMMA PkgDeskGoesOn ==
    ASSUME NEW pkgs, NEW jobs, PkgJobs(jobs, pkgs), NEW d \in Desks, NEW t, PkgJob(t, pkgs)
    PROVE  PkgJobs([jobs EXCEPT ![d] = t], pkgs)
  <1>1. [jobs EXCEPT ![d] = t] = [e \in Desks |-> IF e = d THEN t ELSE jobs[e]]
    BY DEF PkgJobs
  <1>. QED  BY <1>1 DEF PkgJobs

LEMMA PkgFree == ASSUME NEW pkgs PROVE PkgJob(Free, pkgs)
  BY DEF PkgJob, Free

-----------------------------------------------------------------------------
(* Rows as they are made, cloned and edited.                               *)
LEMMA FieldsWidened ==
    ASSUME NEW K, NEW C, NEW M, NEW D, NEW N, M \subseteq N, D \subseteq Int
    PROVE  [kind : K, category : C, currency : M, days : D, seats : D] \subseteq [kind : K, category : C, currency : N, days : Int, seats : Int]
  OBVIOUS

LEMMA HeaderWidened ==
    ASSUME NEW K, NEW C
    PROVE  [kind : K, category : C, currency : {""}, days : {0}, seats : {0}]
           \subseteq [kind : K, category : C, currency : {"", "SAR", "USD"}, days : Int, seats : Int]
  <1>1. {0} \subseteq Int /\ {""} \subseteq {"", "SAR", "USD"}
    OBVIOUS
  <1>. QED  BY <1>1, FieldsWidened, Zenon

LEMMA HeaderTyped == ASSUME NEW in \in HeaderInputs, NEW h \in NormalizeHeader(in)
                     PROVE  h \in HeaderRow /\ ValidCategory(h.kind, h.category)
  <1>1. HeaderInputs \subseteq [kind : {"", "visa"}, category : {"", "personal", "short"}, currency : {"", "SAR", "USD"}, days : Int, seats : Int]
    BY HeaderWidened DEF HeaderInputs
  <1>. QED  BY <1>1, HeaderNormal

LEMMA HeaderCurrency == \A h \in HeaderRow : h.currency \in Currencies
  BY DEF HeaderRow

LEMMA RowCurrency == \A row \in PackageRow : row.header.currency \in Currencies
  BY DEF PackageRow, HeaderRow

LEMMA HeaderReedited ==
    ASSUME NEW h \in HeaderRow, NEW k, NEW c
    PROVE  [h EXCEPT !.kind = k, !.category = c] \in [kind : {k}, category : {c}, currency : {"", "SAR", "USD"}, days : Int, seats : Int]
  <1>1. h \in [kind : {"umrah", "hajj", "visa", "other"}, category : {"standard", "personal", "semester", "short"},
               currency : Currencies, days : Int, seats : Int]
    BY DEF HeaderRow
  <1>2. h.currency \in {"", "SAR", "USD"} /\ h.days \in Int /\ h.seats \in Int
    BY <1>1 DEF Currencies
  <1>. DEFINE m == h.currency
              x == [h EXCEPT !.kind = k, !.category = c]
  <1>3. x \in [kind : {k}, category : {c}, currency : {m}, days : {h.days}, seats : {h.seats}]
    BY <1>1
  <1>. HIDE DEF x
  <1>. QED  BY <1>2, <1>3, HeaderJoined DEF x

LEMMA HeaderEdited ==
    ASSUME NEW cur, OwnedRow(cur), NEW k, NEW c, NEW h \in NormalizeHeader([cur.header EXCEPT !.kind = k, !.category = c])
    PROVE  h \in HeaderRow /\ ValidCategory(h.kind, h.category)
  <1>1. cur.header \in HeaderRow
    BY DEF OwnedRow, PackageRow
  <1>. DEFINE x == [cur.header EXCEPT !.kind = k, !.category = c]
  <1>2. x \in [kind : {k}, category : {c}, currency : {"", "SAR", "USD"}, days : Int, seats : Int]
    BY <1>1, HeaderReedited
  <1>3. h \in NormalizeHeader(x)
    OBVIOUS
  <1>. HIDE DEF x
  <1>. QED  BY <1>2, <1>3, HeaderNormal

LEMMA RowOwner == ASSUME NEW cur, OwnedRow(cur), NEW customer \in {cur.owner} \cup PkgCustomers
                  PROVE  customer \in PkgCustomers \cup {NoRow}
  BY DEF OwnedRow, PackageRow

LEMMA RowMade ==
    ASSUME NEW h \in HeaderRow, ValidCategory(h.kind, h.category), NEW owner \in PkgCustomers \cup {NoRow},
           IsPersonal(h.category) <=> owner # NoRow
    PROVE  LET row == [header |-> h, owner |-> owner, madeVisa |-> IsVisa(h.kind)]
           IN  OwnedRow(row) /\ (row.madeVisa <=> IsVisa(row.header.kind)) /\ row.header = h
  <1>1. IsVisa(h.kind) \in BOOLEAN
    BY DEF IsVisa
  <1>2. ASSUME NEW made \in BOOLEAN
        PROVE  LET row == [header |-> h, owner |-> owner, madeVisa |-> made]
               IN  row \in PackageRow /\ row.madeVisa = made /\ row.header = h /\ row.owner = owner
    BY DEF PackageRow
  <1>. DEFINE made == IsVisa(h.kind)
              row == [header |-> h, owner |-> owner, madeVisa |-> made]
  <1>3. row \in PackageRow /\ row.madeVisa = made /\ row.header = h /\ row.owner = owner
    BY <1>1, <1>2
  <1>. HIDE DEF row
  <1>4. OwnedRow(row) /\ (row.madeVisa <=> IsVisa(row.header.kind)) /\ row.header = h
    BY <1>3, Zenon DEF OwnedRow
  <1>. QED  BY <1>4 DEF row

LEMMA RowCloned ==
    ASSUME NEW old, OwnedRow(old)
    PROVE  LET row == [old EXCEPT !.madeVisa = IsVisa(old.header.kind)]
           IN  OwnedRow(row) /\ (row.madeVisa <=> IsVisa(row.header.kind)) /\ row.header = old.header
  <1>1. IsVisa(old.header.kind) \in BOOLEAN /\ old \in PackageRow
    BY DEF IsVisa, OwnedRow
  <1>2. ASSUME NEW made \in BOOLEAN, NEW r \in PackageRow
        PROVE  LET row == [r EXCEPT !.madeVisa = made]
               IN  row \in PackageRow /\ row.madeVisa = made /\ row.header = r.header /\ row.owner = r.owner
    BY DEF PackageRow
  <1>. DEFINE made == IsVisa(old.header.kind)
              row == [old EXCEPT !.madeVisa = made]
  <1>3. row \in PackageRow /\ row.madeVisa = made /\ row.header = old.header /\ row.owner = old.owner
    BY <1>1, <1>2
  <1>. HIDE DEF row
  <1>4. OwnedRow(row) /\ (row.madeVisa <=> IsVisa(row.header.kind)) /\ row.header = old.header
    BY <1>3, Zenon DEF OwnedRow
  <1>. QED  BY <1>4 DEF row

LEMMA RowEdited ==
    ASSUME NEW old, OwnedRow(old), NEW h \in HeaderRow, ValidCategory(h.kind, h.category),
           NEW owner \in PkgCustomers \cup {NoRow}, IsPersonal(h.category) <=> owner # NoRow
    PROVE  LET row == [old EXCEPT !.header = h, !.owner = owner]
           IN  OwnedRow(row) /\ (row.madeVisa <=> old.madeVisa)
  <1>1. old \in PackageRow
    BY DEF OwnedRow
  <1>. DEFINE row == [old EXCEPT !.header = h, !.owner = owner]
  <1>2. row \in PackageRow /\ row.madeVisa = old.madeVisa /\ row.header = h /\ row.owner = owner
    BY <1>1 DEF PackageRow
  <1>. HIDE DEF row
  <1>3. OwnedRow(row) /\ (row.madeVisa <=> old.madeVisa)
    BY <1>2, Zenon DEF OwnedRow
  <1>. QED  BY <1>3 DEF row

Recoded(old, code, tiers) == [old EXCEPT !.code = code, !.tiers = tiers]

LEMMA DepartureEdited ==
    ASSUME NEW old \in DepartureRow, NEW code \in DepCodes, NEW tiers \in SUBSET [code : TierCodes, currency : Currencies]
    PROVE  /\ Recoded(old, code, tiers) \in DepartureRow
           /\ Recoded(old, code, tiers).package = old.package /\ Recoded(old, code, tiers).tiers = tiers
  BY DEF DepartureRow, Recoded

-----------------------------------------------------------------------------
(* The operations.                                                         *)
LEMMA CatCreated == ASSUME CatInv, CreatePackage PROVE CatInv'
  <1>1. PICK id \in Fresh(packages), in \in HeaderInputs, customer \in PkgCustomers \cup {NoRow}, tiersIn \in TierInputs :
            \E h \in NormalizeHeader(in) : \E tiers \in tiersFor(tiersIn, h.currency), owner \in NormalizeAssignment(h.category, customer) :
            /\ InsertPackage(id, [header |-> h, owner |-> owner, madeVisa |-> IsVisa(h.kind)])
            /\ ReplacePackageTiers(id, {}, Minted(id, tiers))
            /\ seedVisaSlot(id, h)
    BY DEF CreatePackage
  <1>2. PICK h \in NormalizeHeader(in) : \E tiers \in tiersFor(tiersIn, h.currency), owner \in NormalizeAssignment(h.category, customer) :
            /\ InsertPackage(id, [header |-> h, owner |-> owner, madeVisa |-> IsVisa(h.kind)])
            /\ ReplacePackageTiers(id, {}, Minted(id, tiers))
            /\ seedVisaSlot(id, h)
    BY <1>1
  <1>3. PICK tiers \in tiersFor(tiersIn, h.currency), owner \in NormalizeAssignment(h.category, customer) :
            /\ InsertPackage(id, [header |-> h, owner |-> owner, madeVisa |-> IsVisa(h.kind)])
            /\ ReplacePackageTiers(id, {}, Minted(id, tiers))
            /\ seedVisaSlot(id, h)
    BY <1>2
  <1>. DEFINE row == [header |-> h, owner |-> owner, madeVisa |-> IsVisa(h.kind)]
  <1>4. h \in HeaderRow /\ ValidCategory(h.kind, h.category)
    BY HeaderTyped
  <1>5. owner \in PkgCustomers \cup {NoRow} /\ (IsPersonal(h.category) <=> owner # NoRow)
    BY AssignmentNormal
  <1>6. OwnedRow(row) /\ (row.madeVisa <=> IsVisa(row.header.kind)) /\ row.header = h
    BY <1>4, <1>5, RowMade
  <1>7. InsertPackage(id, row) /\ seedVisaSlot(id, row.header) /\ UNCHANGED pkgDesk
    BY <1>3, <1>6 DEF CreatePackage
  <1>8. TierSet(Minted(id, tiers))
    <2>1. h.currency \in Currencies
      BY <1>4, HeaderCurrency
    <2>. QED  BY <2>1, TierInputsTyped, TiersForNormal, MintedTiers
  <1>. HIDE DEF row
  <1>9. /\ PackagesOK(packages', pkgDeps') /\ DeparturesOK(pkgDeps', Present(packages')) /\ PkgJobs(pkgDesk', packages')
        /\ id \in PkgIds
    BY <1>6, <1>7, PackageMade
  <1>10. TiersOK(pkgTiers')
    BY <1>3, <1>8, <1>9, TiersReplaced DEF CatInv
  <1>. QED  BY <1>9, <1>10 DEF CatInv

LEMMA CatCloned == ASSUME CatInv, ClonePackage PROVE CatInv'
  <1>1. PICK src \in Present(packages), id \in Fresh(packages) :
            /\ InsertPackage(id, [packages[src] EXCEPT !.madeVisa = IsVisa(packages[src].header.kind)])
            /\ ReplacePackageTiers(id, {}, ListPackageTiers(src))
            /\ seedVisaSlot(id, packages[src].header)
    BY DEF ClonePackage
  <1>. DEFINE old == packages[src]
              row == [old EXCEPT !.madeVisa = IsVisa(old.header.kind)]
  <1>2. OwnedRow(old) /\ src \in PkgIds
    BY DEF CatInv, PackagesOK, PkgTable, Present
  <1>3. OwnedRow(row) /\ (row.madeVisa <=> IsVisa(row.header.kind)) /\ row.header = old.header
    BY <1>2, RowCloned
  <1>4. InsertPackage(id, row) /\ seedVisaSlot(id, row.header) /\ UNCHANGED pkgDesk
    BY <1>1, <1>3 DEF ClonePackage
  <1>. HIDE DEF row, old
  <1>5. /\ PackagesOK(packages', pkgDeps') /\ DeparturesOK(pkgDeps', Present(packages')) /\ PkgJobs(pkgDesk', packages')
        /\ id \in PkgIds
    BY <1>3, <1>4, PackageMade
  <1>6. TierSet(ListPackageTiers(src))
    BY <1>2 DEF CatInv, TiersOK, ListPackageTiers
  <1>7. TiersOK(pkgTiers')
    BY <1>1, <1>5, <1>6, TiersReplaced DEF CatInv
  <1>. QED  BY <1>5, <1>7 DEF CatInv

LEMMA CatUpdateRead == ASSUME CatInv, NEW d \in Desks, UpdatePackageRead(d) PROVE CatInv'
  <1>0. UNCHANGED <<packages, pkgTiers, pkgDeps>>
    BY DEF UpdatePackageRead
  <1>1. PICK id \in Present(packages) :
            \E kind \in {packages[id].header.kind, "visa"}, category \in {packages[id].header.category, "personal", "standard"},
               customer \in {packages[id].owner} \cup PkgCustomers :
            \E h \in NormalizeHeader([packages[id].header EXCEPT !.kind = kind, !.category = category]) :
            \E owner \in NormalizeAssignment(h.category, customer) :
                pkgDesk' = [pkgDesk EXCEPT ![d] = [op |-> "edit", id |-> id, row |-> [packages[id] EXCEPT !.header = h, !.owner = owner]]]
    BY DEF UpdatePackageRead
  <1>. DEFINE cur == packages[id]
  <1>2. PICK kind \in {cur.header.kind, "visa"}, category \in {cur.header.category, "personal", "standard"},
             customer \in {cur.owner} \cup PkgCustomers :
            \E h \in NormalizeHeader([cur.header EXCEPT !.kind = kind, !.category = category]) :
            \E owner \in NormalizeAssignment(h.category, customer) :
                pkgDesk' = [pkgDesk EXCEPT ![d] = [op |-> "edit", id |-> id, row |-> [cur EXCEPT !.header = h, !.owner = owner]]]
    BY <1>1
  <1>14. PICK h \in NormalizeHeader([cur.header EXCEPT !.kind = kind, !.category = category]) :
            \E owner \in NormalizeAssignment(h.category, customer) :
                pkgDesk' = [pkgDesk EXCEPT ![d] = [op |-> "edit", id |-> id, row |-> [cur EXCEPT !.header = h, !.owner = owner]]]
    BY <1>2
  <1>3. PICK owner \in NormalizeAssignment(h.category, customer) :
                pkgDesk' = [pkgDesk EXCEPT ![d] = [op |-> "edit", id |-> id, row |-> [cur EXCEPT !.header = h, !.owner = owner]]]
    BY <1>14
  <1>4. OwnedRow(cur) /\ cur = packages[id]
    BY DEF CatInv, PackagesOK
  <1>. DEFINE row == [cur EXCEPT !.header = h, !.owner = owner]
              t == [op |-> "edit", id |-> id, row |-> row]
  <1>5. pkgDesk' = [pkgDesk EXCEPT ![d] = t]
    BY <1>3
  <1>. HIDE DEF cur
  <1>6. h \in HeaderRow /\ ValidCategory(h.kind, h.category)
    BY <1>4, HeaderEdited
  <1>7. customer \in PkgCustomers \cup {NoRow}
    BY <1>4, RowOwner
  <1>8. owner \in PkgCustomers \cup {NoRow} /\ (IsPersonal(h.category) <=> owner # NoRow)
    BY <1>7, AssignmentNormal
  <1>9. OwnedRow(row) /\ (row.madeVisa <=> cur.madeVisa)
    BY <1>4, <1>6, <1>8, RowEdited
  <1>10. t.op = "edit" /\ t.id = id /\ t.row = row
    OBVIOUS
  <1>. HIDE DEF row, t
  <1>11. PkgJob(t, packages)
    BY <1>4, <1>9, <1>10 DEF PkgJob
  <1>12. PkgJobs(pkgDesk', packages)
    BY <1>5, <1>11, PkgDeskGoesOn DEF CatInv
  <1>. QED  BY <1>0, <1>12 DEF CatInv

LEMMA CatUpdateWrite == ASSUME CatInv, NEW d \in Desks, UpdatePackageWrite(d) PROVE CatInv'
  <1>. DEFINE id == pkgDesk[d].id
              row == pkgDesk[d].row
  <1>0. id = pkgDesk[d].id /\ row = pkgDesk[d].row
    OBVIOUS
  <1>1. /\ packages' = [packages EXCEPT ![id] = row] /\ UNCHANGED pkgDeps
        /\ pkgDesk' = [pkgDesk EXCEPT ![d] = Free]
        /\ \/ UNCHANGED pkgTiers
           \/ \E in \in TierInputs : \E tiers \in tiersFor(in, row.header.currency) :
                 ReplacePackageTiers(id, ListPackageTiers(id), Minted(id, tiers))
    BY DEF UpdatePackageWrite, InsertPackage
  <1>2. /\ id \in Present(packages) /\ OwnedRow(row)
        /\ row.madeVisa <=> packages[id].madeVisa
    BY DEF UpdatePackageWrite, CatInv, PkgJobs, PkgJob
  <1>. HIDE DEF id, row
  <1>3. id \in PkgIds /\ packages \in [PkgIds -> {NoRow} \cup PackageRow]
    BY <1>2 DEF CatInv, PackagesOK, PkgTable, Present
  <1>4. row \in PackageRow /\ row # NoRow /\ row.header.currency \in Currencies
    BY <1>2, PackagesAssumption, RowCurrency DEF OwnedRow
  <1>5. packages' = [i \in PkgIds |-> IF i = id THEN row ELSE packages[i]]
    BY <1>1, <1>3
  <1>6. Present(packages') = Present(packages)
    BY <1>2, <1>3, <1>4, <1>5 DEF Present
  <1>7. packages'[id] = row /\ \A i \in Present(packages) : i # id => packages'[i] = packages[i]
    BY <1>3, <1>5 DEF Present
  <1>8. PackagesOK(packages', pkgDeps')
    <2>1. PkgTable(packages')
      BY <1>3, <1>4, <1>5 DEF PkgTable
    <2>2. \A i \in Present(packages) : OwnedRow(packages[i]) /\ (packages[i].madeVisa => Standing(pkgDeps, i))
      BY DEF CatInv, PackagesOK
    <2>3. \A i \in Present(packages) : OwnedRow(packages'[i]) /\ (packages'[i].madeVisa => Standing(pkgDeps, i))
      BY <1>2, <1>7, <2>2, Zenon
    <2>. QED  BY <1>1, <1>6, <2>1, <2>3 DEF PackagesOK
  <1>9. DeparturesOK(pkgDeps', Present(packages'))
    BY <1>1, <1>6 DEF CatInv
  <1>10. PkgJobs(pkgDesk, packages')
    <2>1. \A e \in Desks : PkgJob(pkgDesk[e], packages)
      BY DEF CatInv, PkgJobs
    <2>2. \A i \in Present(packages) : packages'[i].madeVisa <=> packages[i].madeVisa
      BY <1>2, <1>7, Zenon
    <2>3. \A e \in Desks : PkgJob(pkgDesk[e], packages')
      BY <1>6, <2>1, <2>2, Zenon DEF PkgJob
    <2>. QED  BY <2>3 DEF CatInv, PkgJobs
  <1>11. PkgJobs(pkgDesk', packages')
    BY <1>1, <1>10, PkgDeskGoesOn, PkgFree
  <1>12. TiersOK(pkgTiers')
    <2>1. CASE UNCHANGED pkgTiers
      BY <2>1 DEF CatInv
    <2>2. ASSUME NEW in \in TierInputs, NEW tiers \in tiersFor(in, row.header.currency),
                 ReplacePackageTiers(id, ListPackageTiers(id), Minted(id, tiers))
          PROVE  TiersOK(pkgTiers')
      <3>1. TierSet(Minted(id, tiers))
        BY <1>4, TierInputsTyped, TiersForNormal, MintedTiers
      <3>. QED  BY <1>3, <2>2, <3>1, TiersReplaced DEF CatInv
    <2>. QED  BY <1>1, <2>1, <2>2
  <1>. QED  BY <1>8, <1>9, <1>11, <1>12 DEF CatInv

LEMMA CatTiersBegin == ASSUME CatInv, NEW d \in Desks, SetPackageTiersBegin(d) PROVE CatInv'
  <1>0. UNCHANGED <<packages, pkgTiers, pkgDeps>>
    BY DEF SetPackageTiersBegin
  <1>1. PICK id \in Present(packages), in \in TierInputs : \E tiers \in normalizeTiers(in) :
            pkgDesk' = [pkgDesk EXCEPT ![d] = [op |-> "tiers", id |-> id, seen |-> ListPackageTiers(id), rows |-> Minted(id, tiers)]]
    BY DEF SetPackageTiersBegin
  <1>2. PICK tiers \in normalizeTiers(in) :
            pkgDesk' = [pkgDesk EXCEPT ![d] = [op |-> "tiers", id |-> id, seen |-> ListPackageTiers(id), rows |-> Minted(id, tiers)]]
    BY <1>1
  <1>. DEFINE t == [op |-> "tiers", id |-> id, seen |-> ListPackageTiers(id), rows |-> Minted(id, tiers)]
  <1>3. t.op = "tiers" /\ t.id = id /\ t.rows = Minted(id, tiers) /\ pkgDesk' = [pkgDesk EXCEPT ![d] = t]
    BY <1>2
  <1>. HIDE DEF t
  <1>4. id \in PkgIds
    BY DEF CatInv, PackagesOK, PkgTable, Present
  <1>5. TierSet(Minted(id, tiers))
    BY TierInputsTyped, TiersNormal, MintedTiers
  <1>6. PkgJob(t, packages)
    BY <1>3, <1>4, <1>5 DEF PkgJob
  <1>7. PkgJobs(pkgDesk', packages)
    BY <1>3, <1>6, PkgDeskGoesOn DEF CatInv
  <1>. QED  BY <1>0, <1>7 DEF CatInv

LEMMA CatTiersEnd == ASSUME CatInv, NEW d \in Desks, SetPackageTiersCommit(d) \/ SetPackageTiersRefused(d) PROVE CatInv'
  <1>1. /\ pkgDesk[d].op = "tiers" /\ pkgDesk' = [pkgDesk EXCEPT ![d] = Free] /\ UNCHANGED <<packages, pkgDeps>>
        /\ \/ UNCHANGED pkgTiers
           \/ ReplacePackageTiers(pkgDesk[d].id, pkgDesk[d].seen, pkgDesk[d].rows)
    BY DEF SetPackageTiersCommit, SetPackageTiersRefused
  <1>2. pkgDesk[d].id \in PkgIds /\ TierSet(pkgDesk[d].rows)
    BY <1>1 DEF CatInv, PkgJobs, PkgJob
  <1>3. TiersOK(pkgTiers')
    BY <1>1, <1>2, TiersReplaced DEF CatInv
  <1>4. PkgJobs(pkgDesk', packages)
    BY <1>1, PkgDeskGoesOn, PkgFree DEF CatInv
  <1>. QED  BY <1>1, <1>3, <1>4 DEF CatInv

(* A departure of a package that is there, with its tiers as they are now. *)
LEMMA DepartureAdded ==
    ASSUME CatInv, NEW dep \in Fresh(pkgDeps), NEW row \in DepartureRow, row.package \in Present(packages), TierSet(row.tiers),
           InsertDeparture(dep, row), UNCHANGED <<packages, pkgTiers, pkgDesk>>
    PROVE  CatInv'
  <1>1. /\ DeparturesOK(pkgDeps', Present(packages))
        /\ \A i : Standing(pkgDeps, i) => Standing(pkgDeps', i)
    BY DepartureInserted DEF CatInv
  <1>2. PackagesOK(packages, pkgDeps')
    BY <1>1 DEF CatInv, PackagesOK
  <1>. QED  BY <1>1, <1>2 DEF CatInv

LEMMA CatDepartureMade == ASSUME CatInv, CreateDeparture PROVE CatInv'
  <1>1. PICK id \in Present(packages), dep \in Fresh(pkgDeps), code \in DepCodes :
            InsertDeparture(dep, [package |-> id, code |-> code, oversell |-> FALSE, currency |-> "USD", tiers |-> SnapshotTiersToDeparture(id)])
    BY DEF CreateDeparture
  <1>. DEFINE tiers == SnapshotTiersToDeparture(id)
              row == [package |-> id, code |-> code, oversell |-> FALSE, currency |-> "USD", tiers |-> tiers]
  <1>2. id \in PkgIds
    BY DEF CatInv, PackagesOK, PkgTable, Present
  <1>3. TierSet(tiers) /\ tiers \in SUBSET [code : TierCodes, currency : Currencies]
    <2>1. TierSet(ListPackageTiers(id))
      BY <1>2 DEF CatInv, TiersOK, ListPackageTiers
    <2>. QED  BY <2>1, CopiedTiers DEF SnapshotTiersToDeparture
  <1>. HIDE DEF tiers
  <1>4. row \in DepartureRow /\ row.package = id /\ row.tiers = tiers
    BY <1>2, <1>3 DEF DepartureRow, Currencies
  <1>5. InsertDeparture(dep, row) /\ UNCHANGED <<packages, pkgTiers, pkgDesk>>
    BY <1>1 DEF CreateDeparture, tiers
  <1>. HIDE DEF row
  <1>. QED  BY <1>3, <1>4, <1>5, DepartureAdded

LEMMA CatDepartureCloned == ASSUME CatInv, CloneDeparture PROVE CatInv'
  <1>1. PICK src \in Present(pkgDeps), dep \in Fresh(pkgDeps), code \in DepCodes :
            InsertDeparture(dep, [pkgDeps[src] EXCEPT !.code = code,
                !.tiers = IF pkgDeps[src].tiers = {} THEN SnapshotTiersToDeparture(pkgDeps[src].package) ELSE ReplaceDepartureTiers(pkgDeps[src].tiers)])
    BY DEF CloneDeparture
  <1>. DEFINE old == pkgDeps[src]
              tiers == IF old.tiers = {} THEN SnapshotTiersToDeparture(old.package) ELSE ReplaceDepartureTiers(old.tiers)
              row == Recoded(old, code, tiers)
  <1>2. old \in DepartureRow /\ old.package \in Present(packages) /\ TierSet(old.tiers)
    BY DEF CatInv, DeparturesOK, Present
  <1>3. TierSet(tiers) /\ tiers \in SUBSET [code : TierCodes, currency : Currencies]
    <2>1. old.package \in PkgIds
      BY <1>2 DEF CatInv, PackagesOK, PkgTable, Present
    <2>2. TierSet(ListPackageTiers(old.package))
      BY <2>1 DEF CatInv, TiersOK, ListPackageTiers
    <2>. QED  BY <1>2, <2>2, CopiedTiers DEF SnapshotTiersToDeparture
  <1>4. InsertDeparture(dep, row) /\ UNCHANGED <<packages, pkgTiers, pkgDesk>>
    BY <1>1 DEF CloneDeparture, Recoded
  <1>. HIDE DEF tiers, old
  <1>5. row \in DepartureRow /\ row.package = old.package /\ row.tiers = tiers
    BY <1>2, <1>3, DepartureEdited, Zenon
  <1>. HIDE DEF row
  <1>. QED  BY <1>2, <1>3, <1>4, <1>5, DepartureAdded

LEMMA CatInvNext == CatInv /\ CatalogueNext => CatInv'
  BY CatCreated, CatCloned, CatUpdateRead, CatUpdateWrite, CatTiersBegin, CatTiersEnd, CatDepartureMade, CatDepartureCloned, Zenon
  DEF CatalogueNext

LEMMA CatalogueInit == MCInit => CatInv
  BY CatInitHolds DEF MCInit

LEMMA CatalogueStep == CatInv /\ [MCNext]_<<part, vars, authVars, packageVars>> => CatInv'
  <1>. SUFFICES ASSUME CatInv, [MCNext]_<<part, vars, authVars, packageVars>> PROVE CatInv'
    OBVIOUS
  <1>1. CatalogueNext \/ AskProgramme \/ UNCHANGED packageVars
    BY DEF MCNext
  <1>2. AskProgramme \/ UNCHANGED packageVars => UNCHANGED <<packages, pkgTiers, pkgDeps, pkgDesk>>
    BY DEF AskProgramme, packageVars, catalogueVars
  <1>. QED  BY <1>1, <1>2, CatInvNext, CatStays

(* However edits, clones and tier lists overlap, for any number of desks,  *)
(* packages, departures and codes: whom a package is for fits what it is,  *)
(* no code appears twice in a package or a departure, and a package made   *)
(* for visas has exactly one standing departure.                           *)
THEOREM CatalogueCoheres == MCSpec => []CatalogueCoherent
  <1>. QED  BY CatInvHolds, CatalogueInit, CatalogueStep, PTL DEF MCSpec
=============================================================================
