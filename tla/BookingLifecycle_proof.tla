----------------------- MODULE BookingLifecycle_proof -----------------------
(***************************************************************************)
(* Proofs about BookingLifecycle, for any number of clerks, any party      *)
(* sizes, any amounts and any horizon of the clock.                        *)
(***************************************************************************)
EXTENDS BookingLifecycle, TLAPS

-----------------------------------------------------------------------------
(* Facts about the domain operators.                                       *)

(* A derived status is always in the confirmed family.                     *)
LEMMA DerivedInFamily ==
    ASSUME NEW b, NEW ready
    PROVE  DerivedStatus(b, ready) \in ConfirmedFamily
BY DEF DerivedStatus, DeriveStatus, ConfirmedFamily

(* rederive leaves a row alone, or moves it inside the confirmed family to *)
(* its derived status and clears the hold; ready_forced stays.             *)
LEMMA RederiveEffect ==
    ASSUME NEW b \in Rows, NEW ready
    PROVE  \/ Rederive(b, ready) = b
           \/ /\ b.status \in ConfirmedFamily
              /\ DerivedStatus(b, ready) # b.status
              /\ Rederive(b, ready)
                   = [b EXCEPT !.status = DerivedStatus(b, ready), !.hold = NoHold]
<1>1. CASE IsConfirmedFamily(b.status) /\ DerivedStatus(b, ready) # b.status
  <2>1. DerivedStatus(b, ready) \in ConfirmedFamily
      BY DerivedInFamily
  <2>2. /\ DerivedStatus(b, ready) # "option_hold"
        /\ IsConfirmedFamily(DerivedStatus(b, ready))
      BY <2>1 DEF ConfirmedFamily, IsConfirmedFamily
  <2>3. Rederive(b, ready)
          = ApplyTransition(b, [to |-> DerivedStatus(b, ready), actor |-> "system", hold |-> NoHold])
      BY <1>1 DEF Rederive
  <2>4. ApplyTransition(b, [to |-> DerivedStatus(b, ready), actor |-> "system", hold |-> NoHold])
          = [b EXCEPT !.status = DerivedStatus(b, ready), !.hold = NoHold]
      BY <2>2 DEF ApplyTransition, Rows
  <2> QED
      BY <1>1, <2>3, <2>4 DEF IsConfirmedFamily
<1>2. CASE ~(IsConfirmedFamily(b.status) /\ DerivedStatus(b, ready) # b.status)
    BY <1>2 DEF Rederive
<1> QED
    BY <1>1, <1>2

(* A row that rederives to ready has earned it: readiness is complete and  *)
(* nothing is owed, or ready was forced.                                   *)
LEMMA DerivedReadyIsEarned ==
    ASSUME NEW b \in Rows, NEW ready \in BOOLEAN, DerivedStatus(b, ready) = "ready"
    PROVE  b.forced \/ (b.balance = 0 /\ ready)
BY DEF DerivedStatus, DeriveStatus, Rows

(* RecomputeBalance on a remembered copy gives a copy again.               *)
LEMMA RecomputedCopy ==
    ASSUME NEW copy \in Copies
    PROVE  RecomputeBalance(copy) \in Copies
<1>1. (IF copy.total > copy.collected THEN copy.total - copy.collected ELSE 0) \in Nat
    BY DEF Copies
<1> QED
    BY <1>1 DEF Copies, RecomputeBalance

(* Repository.Update writes no lifecycle column.                           *)
LEMMA WriteBackEffect ==
    ASSUME NEW b \in Rows, NEW copy \in Copies
    PROVE  /\ WriteBack(b, copy) \in Rows
           /\ WriteBack(b, copy).status = b.status
           /\ WriteBack(b, copy).hold = b.hold
           /\ WriteBack(b, copy).forced = b.forced
BY DEF Rows, Copies, WriteBack

(* SaveStatus writes all that a transition changes.                        *)
LEMMA SavedWhole ==
    ASSUME NEW b \in Rows, NEW x \in Rows,
           x.pax = b.pax, x.total = b.total, x.collected = b.collected, x.balance = b.balance
    PROVE  [b EXCEPT !.status = x.status, !.hold = x.hold, !.forced = x.forced] = x
BY DEF Rows

-----------------------------------------------------------------------------
(* The inductive invariant.                                                *)

(* A sweep carries an instant that has passed.                             *)
ListedInPast == \A s \in Sweeps : listed[s] # None => listed[s] <= now

(* What the row lock is for: while a unit of work holds it, the row, the   *)
(* checklist and the override are what it has read, and participants are   *)
(* only removed, its own insert aside.  Documents are not covered.         *)
UnitInv ==
    unit # Free =>
        /\ unit.row = row /\ unit.checklist = checklist
        /\ unit.docs # None => unit.override = override
        /\ party <= unit.count
        /\ unit.op \in Clerks => party + 1 <= unit.count

IInv == TypeOK /\ HoldSetExactlyOnOption /\ ForcedOnlyWhileReady /\ ListedInPast /\ UnitInv

(* What a step may do to the bookings row: nothing, a write of the money   *)
(* and party columns, a derivation, a manual transition followed by one,   *)
(* an extended hold, a lapsed hold, or a departure.  A derivation uses the *)
(* participants and documents that were read, and the checklist and the    *)
(* override as they are when it commits.                                   *)
Rewritten ==
    /\ row' \in Rows
    /\ row'.status = row.status /\ row'.hold = row.hold /\ row'.forced = row.forced

Derivation == Facts(checklist', override')

Reads == unit \in Units /\ unit.docs \in BOOLEAN /\ unit.row = row

Rederived == Reads /\ row' = Rederive(row, Derivation)

Requested ==
    /\ Reads
    /\ \E to \in Statuses, actor \in {"user", "override"}, reason \in Reasons,
          hold \in Holds \cup {NoHold}, seen \in DepartureViews :
         LET req == Request(to, actor, reason, hold, now, seen, Derivation)
         IN Admissible(row, req) /\ row' = Rederive(ApplyTransition(row, req), Derivation)

Extended ==
    /\ row.status = "option_hold"
    /\ \E until \in Holds : row' = [row EXCEPT !.hold = until]

Lapsed ==
    /\ row.status = "option_hold" /\ row.hold <= now
    /\ row' = [row EXCEPT !.status = "draft", !.hold = NoHold, !.forced = FALSE]

Departed ==
    /\ row.status \in ConfirmedFamily /\ DepartureReached(departDay, now)
    /\ row' = [row EXCEPT !.status = "travelled", !.hold = NoHold, !.forced = FALSE]

RowChange ==
    \/ row' = row \/ Rewritten \/ Rederived \/ Requested \/ Extended \/ Lapsed \/ Departed

-----------------------------------------------------------------------------
(* What a manual transition leaves behind.                                 *)

(* An admissible manual request gives a typed row whose hold is set exactly *)
(* on option_hold and whose ready_forced flag comes only from an override  *)
(* to ready.                                                               *)
LEMMA RequestEffect ==
    ASSUME IInv, NEW to \in Statuses, NEW actor \in {"user", "override"}, NEW reason \in Reasons,
           NEW hold \in Holds \cup {NoHold}, NEW seen \in DepartureViews, NEW ready,
           Admissible(row, Request(to, actor, reason, hold, now, seen, ready))
    PROVE  LET new == ApplyTransition(row, Request(to, actor, reason, hold, now, seen, ready))
           IN /\ new \in Rows
              /\ new.status = to /\ CanTransition(row.status, to, actor)
              /\ new.balance = row.balance /\ new.pax = row.pax
              /\ new.total = row.total /\ new.collected = row.collected
              /\ (to = "option_hold") <=> (new.hold # NoHold)
              /\ new.forced => to = "ready" /\ actor = "override"
<1> USE DomainAssumption, LifecycleAssumption
<1> TypeOK /\ ForcedOnlyWhileReady
    BY DEF IInv
<1> DEFINE req == Request(to, actor, reason, hold, now, seen, ready)
           new == ApplyTransition(row, req)
<1>1. req.to = to /\ req.actor = actor /\ req.hold = hold
    BY DEF Request
<1>2. CanTransition(row.status, to, actor) /\ HardGuards(row, req) = {}
    BY <1>1 DEF Admissible
<1>3. to = "option_hold" => hold # NoHold
  <2>1. SUFFICES ASSUME to = "option_hold", hold = NoHold PROVE FALSE
      OBVIOUS
  <2>2. "hold_expiry_required" \in Guards(row, req)
      BY <1>1, <2>1 DEF Guards, HoldGuards
  <2>3. "hold_expiry_required" \in HardGuards(row, req)
      BY <2>2 DEF HardGuards, Bypassable
  <2> QED
      BY <1>2, <2>3
<1>4. row.forced => to \notin ConfirmedFamily
    BY <1>2 DEF ForcedOnlyWhileReady, CanTransition, UserEdges, OverrideOnlyEdges, ConfirmedFamily
<1>5. new = [row EXCEPT !.status = to,
                        !.hold = IF to = "option_hold" THEN hold ELSE NoHold,
                        !.forced = IF actor = "override" /\ to = "ready" THEN TRUE
                                   ELSE IF ~IsConfirmedFamily(to) THEN FALSE ELSE row.forced]
    BY <1>1 DEF ApplyTransition
<1>6. row \in Rows
    BY DEF TypeOK
<1>7. /\ new \in Rows /\ new.status = to /\ new.balance = row.balance /\ new.pax = row.pax
      /\ new.total = row.total /\ new.collected = row.collected
      /\ new.hold = IF to = "option_hold" THEN hold ELSE NoHold
      /\ new.forced = IF actor = "override" /\ to = "ready" THEN TRUE
                      ELSE IF ~IsConfirmedFamily(to) THEN FALSE ELSE row.forced
  <2> HIDE DEF new
  <2> QED
    BY <1>5, <1>6 DEF Rows
<1> HIDE DEF new, req
<1>8. new.forced => to = "ready" /\ actor = "override"
    BY <1>4, <1>7 DEF IsConfirmedFamily
<1>9. (to = "option_hold") <=> (new.hold # NoHold)
    BY <1>3, <1>7
<1> QED
    BY <1>2, <1>7, <1>8, <1>9 DEF new, req

(* rederive keeps a row well formed.                                       *)
LEMMA RederiveKeeps ==
    ASSUME NEW b \in Rows, NEW ready,
           (b.status = "option_hold") <=> (b.hold # NoHold), b.forced => b.status = "ready"
    PROVE  LET new == Rederive(b, ready)
           IN /\ new \in Rows
              /\ (new.status = "option_hold") <=> (new.hold # NoHold)
              /\ new.forced => new.status = "ready"
              /\ new.forced = b.forced /\ new.balance = b.balance /\ new.pax = b.pax
              /\ new.total = b.total /\ new.collected = b.collected
              /\ new = b \/ (/\ b.status \in ConfirmedFamily
                             /\ new.status = DerivedStatus(b, ready))
<1> DEFINE new == Rederive(b, ready)
<1>1. CASE new = b
    BY <1>1
<1>2. CASE /\ b.status \in ConfirmedFamily
           /\ DerivedStatus(b, ready) # b.status
           /\ new = [b EXCEPT !.status = DerivedStatus(b, ready), !.hold = NoHold]
  <2> HIDE DEF new
  <2>1. DerivedStatus(b, ready) \in ConfirmedFamily
      BY DerivedInFamily
  <2>2. DerivedStatus(b, ready) \in Statuses \ {"option_hold"}
      BY <2>1 DEF ConfirmedFamily, Statuses
  <2>3. /\ new \in Rows /\ new.status = DerivedStatus(b, ready) /\ new.hold = NoHold
        /\ new.forced = b.forced /\ new.balance = b.balance /\ new.pax = b.pax
        /\ new.total = b.total /\ new.collected = b.collected
      BY <1>2, <2>2 DEF Rows
  <2>4. ~b.forced
      BY <1>2 DEF DerivedStatus
  <2> QED
      BY <1>2, <2>2, <2>3, <2>4 DEF new
<1> QED
    BY <1>1, <1>2, RederiveEffect

(* Every step of the system is one of these changes.                       *)
LEMMA EveryStepIsARowChange ==
    ASSUME IInv, [Next]_vars
    PROVE  RowChange
<1> USE DomainAssumption, LifecycleAssumption
<1> TypeOK /\ ListedInPast /\ HoldSetExactlyOnOption
    BY DEF IInv
<1>1. ASSUME NEW c \in Clerks, UpdateCommit(c) PROVE Rewritten
  <2>1. PICK pax \in 1 .. MaxPax, total \in Totals :
          row' = WriteBack(row, RecomputeBalance([desk[c].read EXCEPT !.pax = pax, !.total = total]))
      BY <1>1 DEF UpdateCommit
  <2>2. desk[c].read \in Copies /\ row \in Rows
      BY <1>1 DEF UpdateCommit, TypeOK, RowWorks
  <2>3. [desk[c].read EXCEPT !.pax = pax, !.total = total] \in Copies
      BY <2>2 DEF Copies
  <2> QED
      BY <2>1, <2>2, <2>3, RecomputedCopy, WriteBackEffect DEF Rewritten
<1>2. ASSUME NEW c \in Clerks, PaymentCommit(c) PROVE Rewritten
  <2>1. PICK sum \in Ledger :
          row' = WriteBack(row, RecomputeBalance([desk[c].read EXCEPT !.collected = sum]))
      BY <1>2 DEF PaymentCommit
  <2>2. desk[c].read \in Copies /\ row \in Rows
      BY <1>2 DEF PaymentCommit, TypeOK, RowWorks
  <2>3. [desk[c].read EXCEPT !.collected = sum] \in Copies
      BY <2>2 DEF Copies
  <2> QED
      BY <2>1, <2>2, <2>3, RecomputedCopy, WriteBackEffect DEF Rewritten
<1>3. ASSUME NEW check, NEW ovr, check = checklist', ovr = override',
             unit \in Units, unit.docs # None, SaveStatus(Rederive(unit.row, Facts(check, ovr)))
      PROVE  Rederived
  <2>1. unit # Free /\ unit.docs \in BOOLEAN
      BY <1>3 DEF Units, Free, Ops
  <2>2. unit.row = row /\ row \in Rows
      BY <2>1 DEF IInv, UnitInv, TypeOK
  <2> DEFINE new == Rederive(row, Derivation)
  <2>3. /\ new \in Rows /\ new.pax = row.pax /\ new.total = row.total
        /\ new.collected = row.collected /\ new.balance = row.balance
      BY <2>2, RederiveKeeps DEF IInv, HoldSetExactlyOnOption, ForcedOnlyWhileReady
  <2>4. row' = [row EXCEPT !.status = new.status, !.hold = new.hold, !.forced = new.forced]
      BY <1>3, <2>2 DEF SaveStatus, Derivation
  <2> HIDE DEF new
  <2>5. row' = new
      BY <2>2, <2>3, <2>4, SavedWhole
  <2> QED
      BY <1>3, <2>1, <2>2, <2>5 DEF Rederived, Reads, new
<1>a. ASSUME NEW c \in Clerks, AddParticipantCommit(c) PROVE Rederived
  <2>1. unit \in Units /\ unit # Free /\ unit.docs # None
      BY <1>a DEF AddParticipantCommit, Commits, TypeOK, Free
  <2>2. unit.checklist = checklist' /\ unit.override = override'
      BY <1>a, <2>1 DEF AddParticipantCommit, IInv, UnitInv
  <2> QED
      BY <1>3, <1>a, <2>1, <2>2 DEF AddParticipantCommit, FactsRead
<1>4. CASE SetLineItems
  <2>1. PICK total \in Totals : row' = RecomputeBalance([row EXCEPT !.total = total])
      BY <1>4 DEF SetLineItems
  <2>2. row \in Rows /\ total \in Nat
      BY DEF TypeOK
  <2>3. (IF total > row.collected THEN total - row.collected ELSE 0) \in Nat
      BY <2>2 DEF Rows
  <2> QED
      BY <2>1, <2>2, <2>3 DEF Rewritten, RecomputeBalance, Rows, RowChange
<1>5. ASSUME Commits("request") \/ Commits("sweep")
      PROVE  /\ unit \in Units /\ unit # Free /\ unit.docs # None
             /\ unit.row = row /\ unit.checklist = checklist /\ unit.override = override
    BY <1>5 DEF Commits, TypeOK, Free, IInv, UnitInv
<1>6. CASE UpdateParticipant \/ HandleEvent \/ RunRecompute \/ UpdateChecklistItem \/ OverrideReadiness
  <2>1. CASE UpdateParticipant \/ HandleEvent \/ RunRecompute
      BY <1>3, <1>5, <2>1 DEF UpdateParticipant, HandleEvent, RunRecompute, FactsRead, inputs, RowChange
  <2>2. CASE UpdateChecklistItem
      BY <1>3, <1>5, <2>2 DEF UpdateChecklistItem, RowChange
  <2>3. CASE OverrideReadiness
      BY <1>3, <1>5, <2>3 DEF OverrideReadiness, RowChange
  <2> QED
      BY <1>6, <2>1, <2>2, <2>3
<1>7. CASE Transition
  <2>1. /\ unit \in Units /\ unit.docs \in BOOLEAN /\ unit.row = row /\ row \in Rows
        /\ FactsRead = Derivation
      BY <1>5, <1>7 DEF Transition, FactsRead, Derivation, inputs, Units, TypeOK
  <2>2. PICK to \in Statuses, actor \in {"user", "override"} :
          \E reason \in Reasons, seen \in DepartureViews,
             hold \in IF to = "option_hold" THEN Holds \cup {NoHold} ELSE {NoHold} :
            LET req == Request(to, actor, reason, hold, now, seen, FactsRead)
            IN /\ Admissible(unit.row, req)
               /\ SaveStatus(Rederive(ApplyTransition(unit.row, req), FactsRead))
      BY <1>7 DEF Transition
  <2>3. PICK reason \in Reasons, seen \in DepartureViews,
             hold \in IF to = "option_hold" THEN Holds \cup {NoHold} ELSE {NoHold} :
            LET req == Request(to, actor, reason, hold, now, seen, FactsRead)
            IN /\ Admissible(unit.row, req)
               /\ SaveStatus(Rederive(ApplyTransition(unit.row, req), FactsRead))
      BY <2>2
  <2> DEFINE req == Request(to, actor, reason, hold, now, seen, Derivation)
             mid == ApplyTransition(row, req)
             new == Rederive(mid, Derivation)
  <2>4. hold \in Holds \cup {NoHold} /\ Admissible(row, req) /\ SaveStatus(new)
      BY <2>1, <2>3
  <2>5. /\ mid \in Rows
        /\ (mid.status = "option_hold") <=> (mid.hold # NoHold)
        /\ mid.forced => mid.status = "ready"
        /\ mid.pax = row.pax /\ mid.total = row.total
        /\ mid.collected = row.collected /\ mid.balance = row.balance
      BY <2>4, RequestEffect
  <2>6. /\ new \in Rows /\ new.pax = row.pax /\ new.total = row.total
        /\ new.collected = row.collected /\ new.balance = row.balance
    <3> HIDE DEF mid
    <3> QED
      BY <2>5, RederiveKeeps
  <2>7. row' = new
    <3> HIDE DEF new
    <3> QED
      BY <2>1, <2>4, <2>6, SavedWhole DEF SaveStatus
  <2> QED
      BY <2>1, <2>4, <2>7 DEF Requested, Reads, RowChange
<1>8. CASE ExtendHold
    BY <1>8 DEF ExtendHold, Extended, RowChange
<1>9. CASE RunHoldExpiry
  <2> DEFINE t == listed["hold_expiry"]
             req == SystemRequest("draft", t)
  <2>1. t \in Times /\ t <= now /\ now \in Times
      BY <1>9 DEF RunHoldExpiry, TypeOK, ListedInPast, Sweeps
  <2>2. CASE ExpiredHold(row, t) /\ Admissible(row, req)
    <3>1. row' = ApplyTransition(row, req)
        BY <1>9, <2>2 DEF RunHoldExpiry, SystemTransition
    <3>2. req.to = "draft" /\ req.actor = "system"
        BY DEF SystemRequest, Request
    <3>3. row' = [row EXCEPT !.status = "draft", !.hold = NoHold, !.forced = FALSE]
        BY <3>1, <3>2 DEF ApplyTransition, IsConfirmedFamily, ConfirmedFamily, TypeOK, Rows
    <3>4. row.status = "option_hold" /\ row.hold \in Holds /\ row.hold <= t
        BY <2>2 DEF ExpiredHold, TypeOK, Rows
    <3>5. row.hold <= now
        BY <2>1, <3>4 DEF Times, Holds
    <3> QED
        BY <3>3, <3>4, <3>5 DEF Lapsed, RowChange
  <2>3. CASE ~(ExpiredHold(row, t) /\ Admissible(row, req))
      BY <1>9, <2>3 DEF RunHoldExpiry, SystemTransition, RowChange
  <2> QED
      BY <2>2, <2>3
<1>10. CASE RunTravelled
  <2> DEFINE t == listed["travelled"]
             req == SystemRequest("travelled", t)
  <2>1. t \in Times /\ t <= now /\ now \in Times /\ departDay \in Times
      BY <1>10 DEF RunTravelled, TypeOK, ListedInPast, Sweeps
  <2>2. CASE IsConfirmedFamily(row.status) /\ Admissible(row, req)
    <3>1. row' = ApplyTransition(row, req)
        BY <1>10, <2>2 DEF RunTravelled, SystemTransition
    <3>2. /\ req.to = "travelled" /\ req.actor = "system"
          /\ req.facts.reached <=> DepartureReached(departDay, t)
        BY DEF SystemRequest, Request, DepartureReached
    <3>3. row' = [row EXCEPT !.status = "travelled", !.hold = NoHold, !.forced = FALSE]
        BY <3>1, <3>2 DEF ApplyTransition, IsConfirmedFamily, ConfirmedFamily, TypeOK, Rows
    <3>4. SystemGuards(row, req) \subseteq HardGuards(row, req)
        BY <3>2 DEF HardGuards, Guards
    <3>5. SystemGuards(row, req) = {}
        BY <2>2, <3>4 DEF Admissible
    <3>6. DepartureReached(departDay, t)
        BY <3>2, <3>5 DEF SystemGuards, IsConfirmedFamily, ConfirmedFamily, If
    <3>7. DepartureReached(departDay, now)
        BY <2>1, <3>6 DEF DepartureReached, Times
    <3> QED
        BY <2>2, <3>3, <3>7 DEF Departed, IsConfirmedFamily, RowChange
  <2>3. CASE ~(IsConfirmedFamily(row.status) /\ Admissible(row, req))
      BY <1>10, <2>3 DEF RunTravelled, SystemTransition, RowChange
  <2> QED
      BY <2>2, <2>3
<1>11. CASE \/ \E c \in Clerks : \/ UpdateRead(c) \/ AddParticipantRead(c)
                                 \/ DeleteParticipantRead(c) \/ DeleteParticipantCommit(c)
                                 \/ AddParticipantInsert(c)
                                 \/ RecordPaymentRead(c) \/ CorrectPaymentRead(c) \/ Abort(c)
            \/ \E s \in Sweeps : SweepStep(s)
            \/ ReviewDocuments \/ RequestLocks \/ SweepLocks \/ ReadDocuments \/ Rollback
            \/ Tick \/ MoveDeparture
            \/ UNCHANGED vars
  <2>1. row' = row
      BY <1>11 DEF UpdateRead, AddParticipantRead, DeleteParticipantRead,
            DeleteParticipantCommit, RecordPaymentRead, CorrectPaymentRead, Abort, SweepStep,
            ListSweep, SweepFails, ReviewDocuments, AddParticipantInsert, RequestLocks,
            SweepLocks, ReadDocuments, Rollback, Tick, MoveDeparture, vars
  <2> QED
      BY <2>1 DEF RowChange
<1> QED
    BY <1>1, <1>2, <1>a, <1>4, <1>6, <1>7, <1>8, <1>9, <1>10, <1>11
       DEF Next, ClerkStep, RowChange

-----------------------------------------------------------------------------
(* The row part of the invariant.                                          *)
RowInv == row \in Rows /\ HoldSetExactlyOnOption /\ ForcedOnlyWhileReady

(* Every change of the row keeps it well formed.                           *)
LEMMA RowChangeKeepsRowInv ==
    ASSUME IInv, RowChange
    PROVE  RowInv'
<1> USE DomainAssumption, LifecycleAssumption
<1> RowInv
    BY DEF IInv, TypeOK, RowInv
<1> USE DEF RowInv, HoldSetExactlyOnOption, ForcedOnlyWhileReady
<1>1. CASE row' = row
    BY <1>1
<1>2. CASE Rewritten
    BY <1>2 DEF Rewritten
<1>3. CASE Rederived
    BY <1>3, RederiveKeeps DEF Rederived
<1>4. CASE Requested
  <2>1. PICK to \in Statuses, actor \in {"user", "override"}, reason \in Reasons,
             hold \in Holds \cup {NoHold}, seen \in DepartureViews :
          /\ Admissible(row, Request(to, actor, reason, hold, now, seen, Derivation))
          /\ row' = Rederive(ApplyTransition(row, Request(to, actor, reason, hold, now, seen, Derivation)),
                             Derivation)
      BY <1>4 DEF Requested
  <2> DEFINE mid == ApplyTransition(row, Request(to, actor, reason, hold, now, seen, Derivation))
  <2>2. /\ mid \in Rows /\ mid.status = to
        /\ (to = "option_hold") <=> (mid.hold # NoHold)
        /\ mid.forced => to = "ready"
      BY <2>1, RequestEffect
  <2> HIDE DEF mid
  <2> QED
      BY <2>1, <2>2, RederiveKeeps DEF mid
<1>5. CASE Extended
  <2>1. PICK until \in Holds : row' = [row EXCEPT !.hold = until]
      BY <1>5 DEF Extended
  <2>2. until # NoHold
      BY DEF Holds
  <2> QED
      BY <1>5, <2>1, <2>2 DEF Extended, Rows
<1>6. CASE Lapsed
    BY <1>6 DEF Lapsed, Rows, Statuses
<1>7. CASE Departed
    BY <1>7 DEF Departed, Rows, Statuses
<1> QED
    BY <1>1, <1>2, <1>3, <1>4, <1>5, <1>6, <1>7 DEF RowChange

(* Initially a draft without money is well formed.                         *)
LEMMA InitIInv == Init => IInv
<1> SUFFICES ASSUME Init PROVE IInv
    OBVIOUS
<1> USE DomainAssumption, LifecycleAssumption
<1>1. PICK pax \in 1 .. MaxPax, total \in Totals :
        /\ row = RecomputeBalance([status |-> "draft", pax |-> pax, total |-> total,
                     collected |-> 0, balance |-> 0, hold |-> NoHold, forced |-> FALSE])
        /\ party \in {0, pax} \cap (0 .. MaxParty)
    BY DEF Init
<1>2. row = [status |-> "draft", pax |-> pax, total |-> total, collected |-> 0,
             balance |-> IF total > 0 THEN total - 0 ELSE 0, hold |-> NoHold, forced |-> FALSE]
    BY <1>1 DEF RecomputeBalance
<1>3. RowInv
    BY <1>2 DEF RowInv, Rows, Statuses, HoldSetExactlyOnOption, ForcedOnlyWhileReady
<1>4. TypeOK
  <2>1. desk \in [Clerks -> [work: Works, read: Copies \cup {None}]]
      BY DEF Init, Idle, Works
  <2>2. \A c \in Clerks : desk[c].work \notin RowWorks
      BY DEF Init, Idle, RowWorks
  <2>3. listed \in [Sweeps -> Times \cup {None}] /\ now \in Times /\ departDay \in Times
      BY DEF Init, Times
  <2> QED
      BY <1>1, <1>3, <2>1, <2>2, <2>3 DEF Init, TypeOK, RowInv
<1>5. ListedInPast /\ UnitInv
    BY DEF Init, ListedInPast, UnitInv
<1> QED
    BY <1>3, <1>4, <1>5 DEF IInv, RowInv

(* The units of work in flight stay typed: what a clerk remembers is a     *)
(* copy of a row that was well formed when it was read.                    *)
LEMMA DeskStaysTyped ==
    ASSUME TypeOK, [Next]_vars
    PROVE  /\ desk' \in [Clerks -> [work: Works, read: Copies \cup {None}]]
           /\ \A c \in Clerks : desk'[c].work \in RowWorks => desk'[c].read \in Copies
<1>1. CopyOf(row) \in Copies
    BY DEF TypeOK, Rows, CopyOf, Copies
<1>2. ASSUME NEW c \in Clerks, NEW work \in RowWorks, Begin(c, work, CopyOf(row))
      PROVE  /\ desk' \in [Clerks -> [work: Works, read: Copies \cup {None}]]
             /\ \A d \in Clerks : desk'[d].work \in RowWorks => desk'[d].read \in Copies
    BY <1>1, <1>2 DEF Begin, TypeOK, Works
<1>3. ASSUME NEW c \in Clerks, NEW work \in {"add", "remove"}, Begin(c, work, None)
      PROVE  /\ desk' \in [Clerks -> [work: Works, read: Copies \cup {None}]]
             /\ \A d \in Clerks : desk'[d].work \in RowWorks => desk'[d].read \in Copies
    BY <1>3 DEF Begin, TypeOK, Works, RowWorks
<1>4. ASSUME NEW c \in Clerks, End(c)
      PROVE  /\ desk' \in [Clerks -> [work: Works, read: Copies \cup {None}]]
             /\ \A d \in Clerks : desk'[d].work \in RowWorks => desk'[d].read \in Copies
    BY <1>4 DEF End, Idle, TypeOK, Works, RowWorks
<1>5. ASSUME NEW c \in Clerks, ClerkStep(c)
      PROVE  \/ \E work \in RowWorks : Begin(c, work, CopyOf(row))
             \/ \E work \in {"add", "remove"} : Begin(c, work, None)
             \/ End(c) \/ desk' = desk
    BY <1>5 DEF ClerkStep, UpdateRead, UpdateCommit, AddParticipantRead, AddParticipantInsert,
         AddParticipantCommit, DeleteParticipantRead, DeleteParticipantCommit, RecordPaymentRead,
         CorrectPaymentRead, PaymentCommit, Abort, RowWorks
<1>6. CASE desk' = desk
    BY <1>6 DEF TypeOK
<1>7. CASE Rollback
    BY <1>7 DEF Rollback, TypeOK, Idle, Works, RowWorks
<1>8. CASE ~Rollback /\ \A c \in Clerks : ~ClerkStep(c)
  <2>1. desk' = desk
      BY <1>8 DEF Next, vars, SweepStep, ListSweep, SweepFails, SetLineItems, UpdateParticipant,
           Transition, ExtendHold, UpdateChecklistItem, ReviewDocuments, OverrideReadiness,
           HandleEvent, RequestLocks, ReadDocuments, RunHoldExpiry, RunTravelled, SweepLocks,
           RunRecompute, Tick, MoveDeparture
  <2> QED
      BY <1>6, <2>1
<1> QED
    BY <1>2, <1>3, <1>4, <1>5, <1>6, <1>7, <1>8

(* What a step does to the inputs of readiness: a clerk whose insert was   *)
(* counted under the lock commits it, a removal commits at any time, and   *)
(* the checklist and the override are only written at a commit.            *)
LEMMA InputsStayTyped ==
    ASSUME IInv, [Next]_vars
    PROVE  /\ party' \in 0 .. MaxParty
           /\ checklist' \in BOOLEAN /\ docs' \in BOOLEAN /\ override' \in BOOLEAN
           /\ party' <= party \/ unit' = Free
           /\ UNCHANGED <<checklist, override>> \/ unit' = Free
           /\ docs' = docs \/ row' = row
<1> USE LifecycleAssumption
<1> TypeOK /\ UnitInv
    BY DEF IInv
<1>1. ASSUME NEW c \in Clerks, AddParticipantCommit(c)
      PROVE  party' \in 0 .. MaxParty /\ unit' = Free /\ UNCHANGED <<checklist, docs, override>>
  <2>1. unit.op = c /\ unit.op # "none"
      BY <1>1 DEF AddParticipantCommit, Commits
  <2>2. unit \in Units /\ unit # Free
      BY <2>1 DEF TypeOK, Free
  <2>3. party + 1 <= unit.count /\ unit.count \in 0 .. MaxParty
      BY <2>1, <2>2 DEF UnitInv, Units
  <2> QED
      BY <1>1, <2>3 DEF AddParticipantCommit, Commits, TypeOK
<1>2. ASSUME NEW c \in Clerks, DeleteParticipantCommit(c)
      PROVE  party' \in 0 .. MaxParty /\ party' <= party /\ UNCHANGED <<checklist, docs, override>>
    BY <1>2 DEF DeleteParticipantCommit, TypeOK
<1>3. ASSUME NEW c \in Clerks, ClerkStep(c),
             ~(AddParticipantCommit(c) \/ DeleteParticipantCommit(c))
      PROVE  UNCHANGED inputs
    BY <1>3 DEF ClerkStep, UpdateRead, UpdateCommit, AddParticipantRead, AddParticipantInsert,
         DeleteParticipantRead, RecordPaymentRead, CorrectPaymentRead, PaymentCommit, Abort, inputs
<1>4. CASE ReviewDocuments
    BY <1>4 DEF ReviewDocuments, TypeOK
<1>5. CASE UpdateChecklistItem \/ OverrideReadiness
    BY <1>5 DEF UpdateChecklistItem, OverrideReadiness, Commits, TypeOK
<1>6. CASE \/ \E s \in Sweeps : SweepStep(s)
           \/ SetLineItems \/ ExtendHold \/ RequestLocks \/ ReadDocuments \/ Rollback
           \/ Transition \/ UpdateParticipant \/ HandleEvent
           \/ RunHoldExpiry \/ RunTravelled \/ SweepLocks \/ RunRecompute
           \/ Tick \/ MoveDeparture \/ UNCHANGED vars
  <2>1. UNCHANGED inputs
      BY <1>6 DEF SweepStep, ListSweep, SweepFails, SetLineItems, ExtendHold, RequestLocks,
           ReadDocuments, Rollback, Transition, UpdateParticipant, HandleEvent, RunHoldExpiry,
           RunTravelled, SweepLocks, RunRecompute, Tick, MoveDeparture, vars, inputs
  <2> QED
      BY <2>1 DEF inputs, TypeOK
<1>7. UNCHANGED inputs => /\ party' \in 0 .. MaxParty /\ party' <= party
                         /\ checklist' \in BOOLEAN /\ docs' \in BOOLEAN /\ override' \in BOOLEAN
                         /\ UNCHANGED <<checklist, docs, override>>
    BY DEF inputs, TypeOK
<1>8. ASSUME NEW c \in Clerks, ClerkStep(c)
      PROVE  /\ party' \in 0 .. MaxParty
             /\ checklist' \in BOOLEAN /\ docs' \in BOOLEAN /\ override' \in BOOLEAN
             /\ party' <= party \/ unit' = Free
             /\ UNCHANGED <<checklist, override>> \/ unit' = Free
             /\ docs' = docs
    BY <1>1, <1>2, <1>3, <1>7, <1>8 DEF TypeOK
<1> QED
    BY <1>4, <1>5, <1>6, <1>8, <1>7 DEF Next, TypeOK

(* The row lock does its work: whoever holds it keeps what it has read.    *)
LEMMA UnitStays ==
    ASSUME IInv, [Next]_vars
    PROVE  unit' \in Units \cup {Free} /\ UnitInv'
<1> USE LifecycleAssumption
<1> TypeOK /\ UnitInv
    BY DEF IInv
<1>1. ASSUME NEW op \in Ops, NEW own \in {0, 1}, FindForUpdate(op, own), party + own <= MaxParty,
             op \in Clerks => own = 1, UNCHANGED <<row, inputs>>
      PROVE  unit' \in Units \cup {Free} /\ UnitInv'
  <2>1. unit' = [op |-> op, row |-> row, count |-> party + own, checklist |-> checklist,
                 docs |-> None, override |-> FALSE]
      BY <1>1 DEF FindForUpdate
  <2>2. party + own \in 0 .. MaxParty
      BY <1>1 DEF TypeOK
  <2>3. unit' \in Units
      BY <2>1, <2>2 DEF Units, TypeOK
  <2>4. UnitInv'
      BY <1>1, <2>1 DEF UnitInv, inputs, TypeOK
  <2> QED
      BY <2>3, <2>4
<1>2. CASE ReadDocuments
  <2>1. unit \in Units /\ unit # Free
      BY <1>2 DEF ReadDocuments, TypeOK, Ops, Free
  <2>2. unit' = [unit EXCEPT !.docs = docs, !.override = override] /\ UNCHANGED <<row, inputs>>
      BY <1>2 DEF ReadDocuments
  <2>3. unit' \in Units
      BY <2>1, <2>2 DEF Units, TypeOK
  <2>4. /\ unit'.row = row' /\ unit'.checklist = checklist' /\ unit'.override = override'
        /\ party' = party /\ unit'.count = unit.count /\ unit'.op = unit.op
      BY <2>1, <2>2 DEF UnitInv, Units, inputs
  <2> QED
      BY <2>1, <2>3, <2>4 DEF UnitInv
<1>3. CASE unit' = Free
    BY <1>3 DEF UnitInv
<1>4. CASE unit' = unit /\ row' = row /\ unit' # Free
  <2>1. party' <= party /\ UNCHANGED <<checklist, override>> /\ party' \in 0 .. MaxParty
      BY <1>4, InputsStayTyped
  <2>2. unit \in Units
      BY <1>4 DEF TypeOK
  <2> QED
      BY <1>4, <2>1, <2>2 DEF UnitInv, TypeOK, Units
<1>5. CASE RequestLocks
    BY <1>1, <1>5 DEF RequestLocks, Ops, TypeOK
<1>6. CASE SweepLocks
    BY <1>1, <1>6 DEF SweepLocks, Ops, TypeOK
<1>7. ASSUME NEW c \in Clerks, AddParticipantInsert(c)
      PROVE  unit' \in Units \cup {Free} /\ UnitInv'
  <2>1. /\ FindForUpdate(c, 1) /\ party + 1 <= MaxParty /\ c \in Ops
        /\ UNCHANGED <<row, inputs>>
      BY <1>7 DEF AddParticipantInsert, Ops, TypeOK
  <2> QED
      BY <1>1, <2>1
<1>8. ASSUME NEW c \in Clerks, ClerkStep(c), ~AddParticipantInsert(c)
      PROVE  unit' = Free \/ (unit' = unit /\ row' = row)
    BY <1>8 DEF ClerkStep, UpdateRead, UpdateCommit, AddParticipantRead, AddParticipantCommit,
         DeleteParticipantRead, DeleteParticipantCommit, RecordPaymentRead, CorrectPaymentRead,
         PaymentCommit, Abort, RowFree, Commits
<1>9. CASE \/ \E s \in Sweeps : SweepStep(s)
           \/ SetLineItems \/ ExtendHold \/ ReviewDocuments \/ Rollback
           \/ Transition \/ UpdateParticipant \/ UpdateChecklistItem \/ OverrideReadiness
           \/ HandleEvent \/ RunHoldExpiry \/ RunTravelled \/ RunRecompute
           \/ Tick \/ MoveDeparture \/ UNCHANGED vars
  <2>1. unit' = Free \/ (unit' = unit /\ row' = row)
      BY <1>9 DEF SweepStep, ListSweep, SweepFails, SetLineItems, ExtendHold, ReviewDocuments,
           Rollback, Transition, UpdateParticipant, UpdateChecklistItem, OverrideReadiness,
           HandleEvent, RunHoldExpiry, RunTravelled, RunRecompute, Tick, MoveDeparture, vars,
           RowFree, Commits
  <2> QED
      BY <1>3, <1>4, <2>1
<1> QED
    BY <1>2, <1>3, <1>4, <1>5, <1>6, <1>7, <1>8, <1>9 DEF Next

(* Listings, dates and the clock stay typed, and a listing stays in the    *)
(* past.                                                                   *)
LEMMA TimesStayTyped ==
    ASSUME TypeOK, ListedInPast, [Next]_vars
    PROVE  /\ listed' \in [Sweeps -> Times \cup {None}]
           /\ departDay' \in Times /\ now' \in Times
           /\ ListedInPast'
<1> USE LifecycleAssumption
<1>1. CASE Tick
  <2>1. now' = now + 1 /\ now < MaxTime /\ listed' = listed /\ departDay' = departDay
      BY <1>1 DEF Tick
  <2>2. ASSUME NEW s \in Sweeps, listed[s] # None PROVE listed[s] <= now + 1
      BY <2>2 DEF TypeOK, ListedInPast, Times
  <2> QED
      BY <2>1, <2>2 DEF TypeOK, ListedInPast, Times
<1>2. CASE MoveDeparture
    BY <1>2 DEF MoveDeparture, TypeOK, ListedInPast
<1>3. ASSUME NEW s \in Sweeps, ListSweep(s)
      PROVE  /\ listed' \in [Sweeps -> Times \cup {None}]
             /\ departDay' \in Times /\ now' \in Times /\ ListedInPast'
  <2>1. PICK i \in Times : i <= now /\ listed' = [listed EXCEPT ![s] = i]
      BY <1>3 DEF ListSweep, TypeOK, Times
  <2>2. UNCHANGED <<departDay, now>>
      BY <1>3 DEF ListSweep
  <2> QED
      BY <2>1, <2>2 DEF TypeOK, ListedInPast
<1>4. ASSUME NEW s \in Sweeps, listed' = [listed EXCEPT ![s] = None], UNCHANGED <<departDay, now>>
      PROVE  /\ listed' \in [Sweeps -> Times \cup {None}]
             /\ departDay' \in Times /\ now' \in Times /\ ListedInPast'
    BY <1>4 DEF TypeOK, ListedInPast
<1>5. ASSUME UNCHANGED <<listed, departDay, now>>
      PROVE  /\ listed' \in [Sweeps -> Times \cup {None}]
             /\ departDay' \in Times /\ now' \in Times /\ ListedInPast'
    BY <1>5 DEF TypeOK, ListedInPast
<1>6. CASE RunHoldExpiry \/ RunTravelled \/ RunRecompute
  <2>1. \E s \in Sweeps : listed' = [listed EXCEPT ![s] = None] /\ UNCHANGED <<departDay, now>>
      BY <1>6 DEF RunHoldExpiry, RunTravelled, RunRecompute, Sweeps
  <2> QED
      BY <1>4, <2>1
<1>a. CASE Rollback
  <2>1. "recompute" \in Sweeps /\ UNCHANGED <<departDay, now>>
      BY <1>a DEF Rollback, Sweeps
  <2>2. \/ listed' = [listed EXCEPT !["recompute"] = None]
        \/ listed' = [listed EXCEPT !["recompute"] = @]
      BY <1>a DEF Rollback
  <2>3. CASE listed' = [listed EXCEPT !["recompute"] = @]
      BY <1>5, <2>1, <2>3 DEF TypeOK
  <2> QED
      BY <1>4, <2>1, <2>2, <2>3
<1>7. ASSUME NEW s \in Sweeps, SweepFails(s)
      PROVE  listed' = [listed EXCEPT ![s] = None] /\ UNCHANGED <<departDay, now>>
    BY <1>7 DEF SweepFails
<1>8. ASSUME NEW c \in Clerks, ClerkStep(c) PROVE UNCHANGED <<listed, departDay, now>>
    BY <1>8 DEF ClerkStep, UpdateRead, UpdateCommit, AddParticipantRead, AddParticipantInsert,
         AddParticipantCommit, DeleteParticipantRead, DeleteParticipantCommit, RecordPaymentRead,
         CorrectPaymentRead, PaymentCommit, Abort
<1>9. CASE \/ SetLineItems \/ UpdateParticipant \/ Transition \/ ExtendHold
           \/ UpdateChecklistItem \/ ReviewDocuments \/ OverrideReadiness
           \/ RequestLocks \/ ReadDocuments \/ SweepLocks
           \/ HandleEvent \/ UNCHANGED vars
  <2>1. UNCHANGED <<listed, departDay, now>>
      BY <1>9 DEF SetLineItems, UpdateParticipant, Transition, ExtendHold, UpdateChecklistItem,
           ReviewDocuments, OverrideReadiness, RequestLocks, ReadDocuments, SweepLocks,
           HandleEvent, vars
  <2> QED
      BY <1>5, <2>1
<1> QED
    BY <1>1, <1>2, <1>3, <1>4, <1>5, <1>6, <1>a, <1>7, <1>8, <1>9 DEF Next, SweepStep

-----------------------------------------------------------------------------
(* The invariant is inductive.                                             *)
LEMMA NextIInv == IInv /\ [Next]_vars => IInv'
<1> SUFFICES ASSUME IInv, [Next]_vars PROVE IInv'
    OBVIOUS
<1>1. TypeOK /\ ListedInPast
    BY DEF IInv
<1>2. RowInv'
    BY EveryStepIsARowChange, RowChangeKeepsRowInv
<1>3. TypeOK' /\ ListedInPast' /\ UnitInv'
    BY <1>1, <1>2, DeskStaysTyped, InputsStayTyped, UnitStays, TimesStayTyped DEF TypeOK, RowInv
<1> QED
    BY <1>2, <1>3 DEF IInv, RowInv

(* The inductive invariant holds in every reachable state.                 *)
THEOREM LifecycleInvariant == Spec => []IInv
BY InitIInv, NextIInv, PTL DEF Spec

(* TypeOK holds in every reachable state.                                  *)
THEOREM LifecycleTypeCorrect == Spec => []TypeOK
<1>1. IInv => TypeOK
    BY DEF IInv
<1> QED
    BY <1>1, LifecycleInvariant, PTL

(* A hold deadline is set exactly while the booking is on option.          *)
THEOREM HoldSetExactlyOnOptionHolds == Spec => []HoldSetExactlyOnOption
<1>1. IInv => HoldSetExactlyOnOption
    BY DEF IInv
<1> QED
    BY <1>1, LifecycleInvariant, PTL

(* ready_forced is only ever set on a ready booking.                       *)
THEOREM ForcedOnlyWhileReadyHolds == Spec => []ForcedOnlyWhileReady
<1>1. IInv => ForcedOnlyWhileReady
    BY DEF IInv
<1> QED
    BY <1>1, LifecycleInvariant, PTL

(* hold_expires_at and ready_forced follow the status (Booking, and the    *)
(* CHECK bookings_hold_expiry_check), whatever users and sweeps interleave.*)
THEOREM FlagsFollowStatusHolds == Spec => []FlagsFollowStatus
<1>1. HoldSetExactlyOnOption /\ ForcedOnlyWhileReady => FlagsFollowStatus
  BY DEF FlagsFollowStatus
<1> QED
  BY <1>1, HoldSetExactlyOnOptionHolds, ForcedOnlyWhileReadyHolds, PTL

(* The reconcile sweep's SQL predicate misses no drifted row.              *)
THEOREM DriftIsListedHolds == Spec => []DriftIsListed
<1>1. IInv => DriftIsListed
  <2> SUFFICES ASSUME IInv, Drifted PROVE DerivedCandidate(row)
      BY DEF DriftIsListed
  <2>1. row \in Rows /\ (row.forced => row.status = "ready")
      BY DEF IInv, TypeOK, ForcedOnlyWhileReady
  <2>2. IsConfirmedFamily(row.status) /\ row.status # DerivedStatus(row, ReadyNow(row))
      BY DEF Drifted
  <2>3. ~row.forced /\ row.status # DeriveStatus(row.collected, row.balance, ReadyNow(row))
      BY <2>1, <2>2 DEF DerivedStatus
  <2>4. row.balance > 0 =>
          DeriveStatus(row.collected, row.balance, ReadyNow(row))
            = IF row.collected > 0 THEN "partially_paid" ELSE "confirmed"
      BY <2>1 DEF DeriveStatus, Rows
  <2> QED
      BY <2>1, <2>2, <2>3, <2>4 DEF DerivedCandidate, Rows
<1> QED
    BY <1>1, LifecycleInvariant, PTL

-----------------------------------------------------------------------------
(* What a change of the row may do to the status: it stays, it moves along *)
(* a manual edge and is possibly derived further, it is derived, or a      *)
(* sweep moves it.                                                         *)
LEMMA StatusChange ==
    ASSUME IInv, RowChange
    PROVE  \/ row'.status = row.status
           \/ row.status \in ConfirmedFamily /\ row'.status \in ConfirmedFamily
           \/ \E to \in Statuses, actor \in {"user", "override"} :
                 /\ CanTransition(row.status, to, actor)
                 /\ row'.status = to \/ (to \in ConfirmedFamily /\ row'.status \in ConfirmedFamily)
           \/ row.status = "option_hold" /\ row'.status = "draft" /\ row.hold <= now
           \/ /\ row.status \in ConfirmedFamily /\ row'.status = "travelled"
              /\ DepartureReached(departDay, now)
<1> USE DomainAssumption, LifecycleAssumption
<1> row \in Rows /\ HoldSetExactlyOnOption /\ ForcedOnlyWhileReady
    BY DEF IInv, TypeOK
<1>1. CASE row' = row \/ Rewritten
    BY <1>1 DEF Rewritten
<1>2. CASE Rederived
  <2>1. \/ row' = row
        \/ /\ row.status \in ConfirmedFamily
           /\ row'.status = DerivedStatus(row, Derivation)
      BY <1>2, RederiveKeeps DEF Rederived, HoldSetExactlyOnOption, ForcedOnlyWhileReady
  <2> QED
      BY <2>1, DerivedInFamily
<1>3. CASE Requested
  <2>1. PICK to \in Statuses, actor \in {"user", "override"}, reason \in Reasons,
             hold \in Holds \cup {NoHold}, seen \in DepartureViews :
          /\ Admissible(row, Request(to, actor, reason, hold, now, seen, Derivation))
          /\ row' = Rederive(ApplyTransition(row, Request(to, actor, reason, hold, now, seen, Derivation)),
                             Derivation)
      BY <1>3 DEF Requested
  <2> DEFINE mid == ApplyTransition(row, Request(to, actor, reason, hold, now, seen, Derivation))
  <2>2. /\ mid \in Rows /\ mid.status = to /\ CanTransition(row.status, to, actor)
        /\ (to = "option_hold") <=> (mid.hold # NoHold)
        /\ mid.forced => to = "ready"
      BY <2>1, RequestEffect
  <2>3. row' = Rederive(mid, Derivation)
      BY <2>1
  <2> HIDE DEF mid
  <2>4. row' = mid \/ (mid.status \in ConfirmedFamily /\ row'.status = DerivedStatus(mid, Derivation))
      BY <2>2, <2>3, RederiveKeeps
  <2>5. row'.status = to \/ (to \in ConfirmedFamily /\ row'.status \in ConfirmedFamily)
      BY <2>2, <2>4, DerivedInFamily
  <2> QED
      BY <2>2, <2>5
<1>4. CASE Extended
    BY <1>4 DEF Extended, Rows
<1>5. CASE Lapsed
    BY <1>5 DEF Lapsed, Rows
<1>6. CASE Departed
    BY <1>6 DEF Departed, Rows
<1> QED
    BY <1>1, <1>2, <1>3, <1>4, <1>5, <1>6 DEF RowChange

(* A sale is not undone except by a cancellation, and a terminal status    *)
(* stays.                                                                  *)
THEOREM SoldStaysSoldHolds == Spec => SoldStaysSold
<1>1. IInv /\ [Next]_vars =>
        [/\ IsSold(row.status) => IsSold(row'.status) \/ row'.status = "cancelled"
         /\ Terminal(row.status) => row'.status = row.status]_vars
  <2> SUFFICES ASSUME IInv, [Next]_vars
               PROVE  /\ IsSold(row.status) => IsSold(row'.status) \/ row'.status = "cancelled"
                      /\ Terminal(row.status) => row'.status = row.status
      OBVIOUS
  <2>1. RowChange
      BY EveryStepIsARowChange
  <2>2. CASE \E to \in Statuses, actor \in {"user", "override"} :
                 /\ CanTransition(row.status, to, actor)
                 /\ row'.status = to \/ (to \in ConfirmedFamily /\ row'.status \in ConfirmedFamily)
      BY <2>2 DEF CanTransition, UserEdges, OverrideOnlyEdges, IsSold, Terminal,
                  IsConfirmedFamily, ConfirmedFamily
  <2> QED
      BY <2>1, <2>2, StatusChange DEF IsSold, Terminal, IsConfirmedFamily, ConfirmedFamily
<1> QED
    BY <1>1, LifecycleInvariant, PTL DEF Spec, SoldStaysSold

(* The sweeps act on the row and the departure as they are.                *)
THEOREM SweepsActOnCurrentRowHolds == Spec => SweepsActOnCurrentRow
<1>1. IInv /\ [Next]_vars =>
        [/\ row.status = "option_hold" /\ row'.status = "draft" => row.hold <= now
         /\ row'.status = "travelled" /\ row.status # "travelled" =>
              IsConfirmedFamily(row.status) /\ DepartureReached(departDay, now)]_vars
  <2> SUFFICES ASSUME IInv, [Next]_vars
               PROVE  /\ row.status = "option_hold" /\ row'.status = "draft" => row.hold <= now
                      /\ row'.status = "travelled" /\ row.status # "travelled" =>
                           IsConfirmedFamily(row.status) /\ DepartureReached(departDay, now)
      OBVIOUS
  <2>1. RowChange
      BY EveryStepIsARowChange
  <2>2. ASSUME NEW to \in Statuses, NEW actor \in {"user", "override"},
               CanTransition(row.status, to, actor),
               row'.status = to \/ (to \in ConfirmedFamily /\ row'.status \in ConfirmedFamily)
        PROVE  row'.status # "travelled" /\ (row.status = "option_hold" => row'.status # "draft")
      BY <2>2 DEF CanTransition, UserEdges, OverrideOnlyEdges, ConfirmedFamily
  <2> QED
      BY <2>1, <2>2, StatusChange DEF IsConfirmedFamily, ConfirmedFamily
<1> QED
    BY <1>1, LifecycleInvariant, PTL DEF Spec, SweepsActOnCurrentRow

(* What a unit of work took for ready is ready as it commits, but for the  *)
(* documents reviewed and the participants removed since it read them.     *)
LEMMA ReadyAtCommit ==
    ASSUME IInv, [Next]_vars, Reads, Derivation, row' # row, row'.pax = row.pax
    PROVE  /\ party' >= row'.pax \/ RemovedSinceRead
           /\ override' \/ (checklist' /\ (docs' \/ ReviewedSinceRead))
<1> USE LifecycleAssumption
<1>1. /\ unit.count \in Nat /\ row.pax \in Nat /\ party' \in Nat
      /\ unit.docs \in BOOLEAN /\ unit.row = row
    BY InputsStayTyped DEF Reads, Units, Rows, IInv, TypeOK
<1>2. ~(unit.count < row.pax) /\ (override' \/ (checklist' /\ unit.docs))
    BY <1>1 DEF Derivation, Facts, Ready, ReadinessOK
<1>3. docs' = docs
    BY InputsStayTyped
<1> QED
    BY <1>1, <1>2, <1>3 DEF RemovedSinceRead, ReviewedSinceRead

(* A booking becomes ready only when it has earned it or is forced; only   *)
(* documents reviewed or participants removed since the unit of work read  *)
(* them excuse a booking that has not.                                     *)
THEOREM ReadyIsEarnedHolds == Spec => ReadyIsEarned
<1>1. IInv /\ [Next]_vars =>
        [row'.status = "ready" /\ row.status # "ready" =>
           \/ row'.forced
           \/ /\ row'.balance = 0
              /\ party' >= row'.pax \/ RemovedSinceRead
              /\ override' \/ (checklist' /\ (docs' \/ ReviewedSinceRead))]_vars
  <2> SUFFICES ASSUME IInv, [Next]_vars, row'.status = "ready", row.status # "ready"
               PROVE  \/ row'.forced
                      \/ /\ row'.balance = 0
                         /\ party' >= row'.pax \/ RemovedSinceRead
                         /\ override' \/ (checklist' /\ (docs' \/ ReviewedSinceRead))
      OBVIOUS
  <2> USE DomainAssumption, LifecycleAssumption
  <2>1. RowChange
      BY EveryStepIsARowChange
  <2>2. row \in Rows /\ HoldSetExactlyOnOption /\ ForcedOnlyWhileReady
      BY DEF IInv, TypeOK
  <2>3. Derivation \in BOOLEAN
      BY InputsStayTyped DEF Derivation, Facts, Ready, ReadinessOK
  <2>4. CASE Rederived
    <3>1. /\ row'.forced = row.forced /\ row'.balance = row.balance /\ row'.pax = row.pax
          /\ DerivedStatus(row, Derivation) = "ready" /\ Reads
        BY <2>2, <2>4, RederiveKeeps DEF Rederived, HoldSetExactlyOnOption, ForcedOnlyWhileReady
    <3>2. row.forced \/ (row.balance = 0 /\ Derivation)
        BY <2>2, <2>3, <3>1, DerivedReadyIsEarned
    <3> QED
        BY <3>1, <3>2, ReadyAtCommit
  <2>5. CASE Requested
    <3>1. PICK to \in Statuses, actor \in {"user", "override"}, reason \in Reasons,
               hold \in Holds \cup {NoHold}, seen \in DepartureViews :
            /\ Admissible(row, Request(to, actor, reason, hold, now, seen, Derivation))
            /\ row' = Rederive(ApplyTransition(row, Request(to, actor, reason, hold, now, seen, Derivation)),
                               Derivation)
        BY <2>5 DEF Requested
    <3> DEFINE mid == ApplyTransition(row, Request(to, actor, reason, hold, now, seen, Derivation))
    <3>2. /\ mid \in Rows /\ mid.status = to /\ CanTransition(row.status, to, actor)
          /\ mid.balance = row.balance /\ mid.pax = row.pax
          /\ (to = "option_hold") <=> (mid.hold # NoHold)
          /\ mid.forced => to = "ready"
        BY <3>1, RequestEffect
    <3>3. row' = Rederive(mid, Derivation) /\ Reads
        BY <2>5, <3>1 DEF Requested
    <3>4. to = "ready" => actor = "override" /\ mid.forced
        BY <3>1, <3>2 DEF CanTransition, UserEdges, ConfirmedFamily, ApplyTransition, Request, Rows
    <3> HIDE DEF mid
    <3>5. /\ row'.forced = mid.forced /\ row'.balance = mid.balance /\ row'.pax = mid.pax
          /\ row' = mid \/ DerivedStatus(mid, Derivation) = "ready"
        BY <3>2, <3>3, RederiveKeeps
    <3>6. CASE row' = mid
        BY <3>2, <3>4, <3>6
    <3>7. CASE DerivedStatus(mid, Derivation) = "ready"
      <4>1. mid.forced \/ (mid.balance = 0 /\ Derivation)
          BY <2>3, <3>2, <3>7, DerivedReadyIsEarned
      <4> QED
          BY <3>2, <3>3, <3>5, <4>1, ReadyAtCommit
    <3> QED
        BY <3>5, <3>6, <3>7
  <2>6. CASE row' = row \/ Rewritten \/ Extended \/ Lapsed \/ Departed
      BY <2>2, <2>6 DEF Rewritten, Extended, Lapsed, Departed, Rows
  <2> QED
      BY <2>1, <2>4, <2>5, <2>6 DEF RowChange
<1> QED
    BY <1>1, LifecycleInvariant, PTL DEF Spec, ReadyIsEarned

=============================================================================
