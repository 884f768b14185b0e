-------------------------- MODULE BookingLifecycle --------------------------
(***************************************************************************)
(* The life of one booking: its row, the readiness inputs next to it, the  *)
(* clerks who edit it, the payments that move its balance, and the three   *)
(* sweeps that move it without a user.                                     *)
(* Modelled code: src/internal/app/booking (service, transition,           *)
(* lifecycle, workspace), src/internal/adapter/postgres/booking and the    *)
(* booking side of src/internal/app/payment/service.go.                    *)
(*                                                                         *)
(* Granularity.  A unit of work that derives the status locks the row with *)
(* FindForUpdate and then reads the readiness inputs one statement at a    *)
(* time (READ COMMITTED): it is three actions, the lock with the           *)
(* participants and the checklist, the documents, and the commit, which    *)
(* derives from what was read.  Document reviews and DeleteParticipant     *)
(* take no lock on the booking and commit in between; whatever writes the  *)
(* row waits.  A unit of work that locks the row and derives nothing is    *)
(* one action.  Update, AddParticipant, DeleteParticipant and every        *)
(* payment operation read the row without a lock and write it later: a     *)
(* read that remembers the row and a commit that writes from memory.  An   *)
(* error or a crash rolls the unit of work back (Abort, Rollback).         *)
(* Seats are the subject of SeatAllocation: here sales being open, there   *)
(* being room, and the departure being visible to the caller are any       *)
(* Boolean values.                                                         *)
(***************************************************************************)
EXTENDS BookingDomain

CONSTANTS
    Clerks,      \* concurrent unlocked units of work
    MaxPax,      \* largest pax_count entered
    MaxParty,    \* bound on the number of participants
    Totals,      \* amounts total_amount may be set to
    Ledger,      \* sums the payment ledger may yield for the booking
    MaxTime,     \* last instant of the clock
    None         \* nothing remembered

ASSUME LifecycleAssumption ==
    /\ MaxPax \in Nat \ {0}
    /\ MaxParty \in Nat
    /\ MaxTime \in Nat
    /\ Totals \subseteq Nat
    /\ Ledger \subseteq Int
    /\ None \notin Nat \cup BOOLEAN
    /\ Clerks \cap {"none", "request", "sweep"} = {}

VARIABLES
    row,         \* the bookings row
    party,       \* number of booking_participants rows
    checklist,   \* the required checklist items are completed
    docs,        \* the required documents are approved
    override,    \* a booking_readiness_overrides row exists
    unit,        \* the deriving unit of work that holds the row lock, and what it has read
    desk,        \* per clerk: the unit of work in flight and the row it read
    listed,      \* per sweep: when it listed this booking, or None
    departDay,   \* departures.depart_date
    now          \* the clock

inputs == <<party, checklist, docs, override>>
vars == <<row, inputs, unit, desk, listed, departDay, now>>

Times  == 0 .. MaxTime
Holds  == 0 .. (MaxTime + MaxHold)
Sweeps == {"hold_expiry", "travelled", "recompute"}

Rows == [status: Statuses, pax: 1 .. MaxPax, total: Nat, collected: Int,
         balance: Nat, hold: Holds \cup {NoHold}, forced: BOOLEAN]

(* The columns a unit of work remembers and Repository.Update writes.      *)
Copies == [pax: 1 .. MaxPax, total: Nat, collected: Int, balance: Nat]

RowWorks == {"edit", "settle"}   \* works that write the row back
Works    == RowWorks \cup {"add", "remove", "none"}
Idle     == [work |-> "none", read |-> None]

(* What holds the row lock: a request or the handler of an event, the      *)
(* reconcile sweep, or a clerk whose participant is inserted but not       *)
(* committed; and what it has read.  docs is None until the documents were *)
(* read, with the override after them.                                     *)
Ops   == {"request", "sweep"} \cup Clerks
Units == [op: Ops, row: Rows, count: 0 .. MaxParty, checklist: BOOLEAN,
          docs: BOOLEAN \cup {None}, override: BOOLEAN]
Free  == [op |-> "none", row |-> None, count |-> 0, checklist |-> FALSE,
          docs |-> None, override |-> FALSE]

(* Type correctness of the whole state.                                    *)
TypeOK ==
    /\ row \in Rows
    /\ party \in 0 .. MaxParty
    /\ checklist \in BOOLEAN /\ docs \in BOOLEAN /\ override \in BOOLEAN
    /\ unit \in Units \cup {Free}
    /\ desk \in [Clerks -> [work: Works, read: Copies \cup {None}]]
    /\ \A c \in Clerks : desk[c].work \in RowWorks => desk[c].read \in Copies
    /\ listed \in [Sweeps -> Times \cup {None}]
    /\ departDay \in Times
    /\ now \in Times

-----------------------------------------------------------------------------
(* Reading and settling.                                                   *)

(* readinessFacts(b).OK() for n participants and what was read beside them.*)
Ready(b, n, check, approved, ovr) == ReadinessOK(n < b.pax, check /\ approved, ovr)

ReadyNow(b) == Ready(b, party, checklist, docs, override)

(* FindForUpdate takes the row lock and returns the row; readinessFacts    *)
(* then lists the participants, of which own are the unit's own insert,    *)
(* and the checklist.                                                      *)
FindForUpdate(op, own) ==
    /\ unit = Free
    /\ unit' = [op |-> op, row |-> row, count |-> party + own, checklist |-> checklist,
                docs |-> None, override |-> FALSE]

(* The facts of a unit of work: what it has read, or its own write of the  *)
(* checklist or the override.                                              *)
Facts(check, ovr) == Ready(unit.row, unit.count, check, unit.docs, ovr)
FactsRead == Facts(unit.checklist, unit.override)

(* SaveStatus writes the lifecycle columns of the row that was read, and   *)
(* no other.                                                               *)
SaveStatus(b) == row' = [row EXCEPT !.status = b.status, !.hold = b.hold, !.forced = b.forced]

(* The unit of work has read everything, and commits.                      *)
Commits(op) ==
    /\ unit.op = op /\ unit.docs # None
    /\ unit' = Free

(* A write of the row waits for whoever holds its lock.                    *)
RowFree == unit = Free /\ unit' = unit

(* rederive: a confirmed-family row moves to its derived status as a       *)
(* system transition; any other row is left alone.                         *)
Rederive(b, ready) ==
    IF IsConfirmedFamily(b.status) /\ DerivedStatus(b, ready) # b.status
    THEN ApplyTransition(b, [to |-> DerivedStatus(b, ready), actor |-> "system", hold |-> NoHold])
    ELSE b

(* Repository.Update: every editable and money column comes from the copy  *)
(* the unit of work read; the lifecycle columns keep their current values. *)
CopyOf(b) == [pax |-> b.pax, total |-> b.total, collected |-> b.collected, balance |-> b.balance]

WriteBack(b, copy) ==
    [b EXCEPT !.pax = copy.pax, !.total = copy.total,
              !.collected = copy.collected, !.balance = copy.balance]

DepartureReached(day, t) == day <= t

-----------------------------------------------------------------------------
(* CreateDraft: a draft without money; the party, when given, sets pax.    *)
Init ==
    /\ \E pax \in 1 .. MaxPax, total \in Totals :
         /\ row = RecomputeBalance([status |-> "draft", pax |-> pax, total |-> total,
                     collected |-> 0, balance |-> 0, hold |-> NoHold, forced |-> FALSE])
         /\ party \in {0, pax} \cap (0 .. MaxParty)
    /\ checklist = FALSE /\ docs = FALSE /\ override = FALSE
    /\ unit = Free
    /\ desk = [c \in Clerks |-> Idle]
    /\ listed = [s \in Sweeps |-> None]
    /\ departDay \in Times
    /\ now = 0

(* A clerk's unit of work reads without a lock, and ends.                  *)
Begin(c, work, copy) ==
    /\ desk[c] = Idle
    /\ desk' = [desk EXCEPT ![c] = [work |-> work, read |-> copy]]

End(c) == desk' = [desk EXCEPT ![c] = Idle]

(* Service.Update: the Editable check is made on the copy that was read.   *)
UpdateRead(c) ==
    /\ Editable(row.status)
    /\ Begin(c, "edit", CopyOf(row))
    /\ UNCHANGED <<row, inputs, unit, listed, departDay, now>>

(* An update that does not validate the party size it was given.           *)
UpdateCommitUnvalidated(c) ==
    /\ desk[c].work = "edit" /\ RowFree
    /\ \E pax \in 0 .. MaxPax, total \in Totals :
         row' = WriteBack(row,
                  RecomputeBalance([desk[c].read EXCEPT !.pax = pax, !.total = total]))
    /\ End(c)
    /\ UNCHANGED <<inputs, listed, departDay, now>>

UpdateCommit(c) ==
    /\ desk[c].work = "edit" /\ RowFree
    /\ \E pax \in 1 .. MaxPax, total \in Totals :
         row' = WriteBack(row,
                  RecomputeBalance([desk[c].read EXCEPT !.pax = pax, !.total = total]))
    /\ End(c)
    /\ UNCHANGED <<inputs, listed, departDay, now>>

(* SetLineItems locks the row before it checks.                            *)
SetLineItems ==
    /\ Editable(row.status) /\ RowFree
    /\ \E total \in Totals : row' = RecomputeBalance([row EXCEPT !.total = total])
    /\ UNCHANGED <<inputs, desk, listed, departDay, now>>

(* AddParticipant: status and pax cap are checked unlocked; the insert,    *)
(* the lock and the derivation are one unit of work.                       *)
AddParticipantRead(c) ==
    /\ ~Terminal(row.status)
    /\ party < row.pax
    /\ Begin(c, "add", None)
    /\ UNCHANGED <<row, inputs, unit, listed, departDay, now>>

AddParticipantInsert(c) ==
    /\ desk[c].work = "add"
    /\ party < MaxParty
    /\ FindForUpdate(c, 1)
    /\ UNCHANGED <<row, inputs, desk, listed, departDay, now>>

AddParticipantCommit(c) ==
    /\ Commits(c)
    /\ party' = party + 1
    /\ SaveStatus(Rederive(unit.row, FactsRead))
    /\ End(c)
    /\ UNCHANGED <<checklist, docs, override, listed, departDay, now>>

(* DeleteParticipant: checked unlocked, nothing is locked or recomputed.   *)
DeleteParticipantRead(c) ==
    /\ Editable(row.status)
    /\ party > 0
    /\ Begin(c, "remove", None)
    /\ UNCHANGED <<row, inputs, unit, listed, departDay, now>>

DeleteParticipantCommit(c) ==
    /\ desk[c].work = "remove"
    /\ party > 0
    /\ party' = party - 1
    /\ End(c)
    /\ UNCHANGED <<row, checklist, docs, override, unit, listed, departDay, now>>

(* Payment Record refuses a cancelled booking, on the copy it read.        *)
RecordPaymentRead(c) ==
    /\ row.status # "cancelled"
    /\ Begin(c, "settle", CopyOf(row))
    /\ UNCHANGED <<row, inputs, unit, listed, departDay, now>>

(* Reverse, and Verify, Adjust and ApproveRefund, make no check on the     *)
(* booking.                                                                *)
CorrectPaymentRead(c) ==
    /\ Begin(c, "settle", CopyOf(row))
    /\ UNCHANGED <<row, inputs, unit, listed, departDay, now>>

(* recomputeBooking: the sum of the ledger becomes collected_amt and the   *)
(* whole copy is written back.  The status is left to whoever recomputes   *)
(* the booking later.                                                      *)
PaymentCommit(c) ==
    /\ desk[c].work = "settle" /\ RowFree
    /\ \E sum \in Ledger :
         row' = WriteBack(row, RecomputeBalance([desk[c].read EXCEPT !.collected = sum]))
    /\ End(c)
    /\ UNCHANGED <<inputs, listed, departDay, now>>

(* A clerk's unit of work fails before it holds the row lock.              *)
Abort(c) ==
    /\ desk[c] # Idle /\ unit.op # c
    /\ End(c)
    /\ UNCHANGED <<row, inputs, unit, listed, departDay, now>>

(* A document is approved, rejected, replaced or expires, or the policy of *)
(* what is required changes: no lock on the booking, nothing recomputed.   *)
ReviewDocuments ==
    /\ docs' = ~docs
    /\ UNCHANGED <<row, party, checklist, override, unit, desk, listed, departDay, now>>

-----------------------------------------------------------------------------
(* Units of work under the row lock.                                       *)

(* A unit of work takes the lock: a transition, a change of a participant  *)
(* or of the checklist, an override, or the recomputation an event asks    *)
(* for.  Which one it is shows at its commit: until then they do the same. *)
RequestLocks ==
    /\ FindForUpdate("request", 0)
    /\ UNCHANGED <<row, inputs, desk, listed, departDay, now>>

(* readinessFacts goes on to the missing documents and the override.       *)
ReadDocuments ==
    /\ unit.op \in Ops /\ unit.docs = None
    /\ unit' = [unit EXCEPT !.docs = docs, !.override = override]
    /\ UNCHANGED <<row, inputs, desk, listed, departDay, now>>

(* What the caller may find of the departure; all zero when it is not      *)
(* visible.                                                                *)
DepartureViews ==
    [found: {TRUE}, open: BOOLEAN, room: BOOLEAN]
    \cup {[found |-> FALSE, open |-> FALSE, room |-> FALSE]}

Request(to, actor, reason, hold, t, seen, ready) ==
    [to |-> to, actor |-> actor, reason |-> reason, hold |-> hold, now |-> t,
     facts |-> [found |-> seen.found, open |-> seen.open, room |-> seen.room,
                reached |-> seen.found /\ DepartureReached(departDay, t),
                ready |-> ready]]

(* Transition: a manual change of status, then rederive in the same unit   *)
(* of work.  Confirm is the case to = "confirmed".  A move to ready reads  *)
(* the facts for its guard and again to rederive: a second reading that    *)
(* differs settles the row as HandleEvent does.                            *)
Transition ==
    /\ Commits("request")
    /\ \E to \in Statuses, actor \in {"user", "override"} :
         /\ CanTransition(unit.row.status, to, actor)
         /\ \E reason \in Reasons, seen \in DepartureViews,
               hold \in IF to = "option_hold" THEN Holds \cup {NoHold} ELSE {NoHold} :
              LET req == Request(to, actor, reason, hold, now, seen, FactsRead)
              IN /\ Admissible(unit.row, req)
                 /\ SaveStatus(Rederive(ApplyTransition(unit.row, req), FactsRead))
    /\ UNCHANGED <<inputs, desk, listed, departDay, now>>

(* UpdateParticipant changes no count but recomputes under the lock.       *)
UpdateParticipant ==
    /\ Commits("request")
    /\ ~Terminal(unit.row.status)
    /\ unit.count > 0
    /\ SaveStatus(Rederive(unit.row, FactsRead))
    /\ UNCHANGED <<inputs, desk, listed, departDay, now>>

(* The status derived before the item is written.                          *)
UpdateChecklistItemDerivedFirst ==
    /\ Commits("request")
    /\ checklist' \in BOOLEAN
    /\ SaveStatus(Rederive(unit.row, FactsRead))
    /\ UNCHANGED <<party, docs, override, desk, listed, departDay, now>>

(* UpdateChecklistItem: the item, then the locked recompute.               *)
UpdateChecklistItem ==
    /\ Commits("request")
    /\ checklist' \in BOOLEAN
    /\ SaveStatus(Rederive(unit.row, Facts(checklist', unit.override)))
    /\ UNCHANGED <<party, docs, override, desk, listed, departDay, now>>

OverrideReadiness ==
    /\ Commits("request")
    /\ ~Terminal(unit.row.status)
    /\ override' = TRUE
    /\ SaveStatus(Rederive(unit.row, Facts(unit.checklist, TRUE)))
    /\ UNCHANGED <<party, checklist, docs, desk, listed, departDay, now>>

ExtendHold ==
    /\ row.status = "option_hold" /\ row.hold # NoHold /\ RowFree
    /\ \E until \in Holds :
         /\ until > now
         /\ until > row.hold
         /\ until - now <= MaxHold
         /\ row' = [row EXCEPT !.hold = until]
    /\ UNCHANGED <<inputs, desk, listed, departDay, now>>

(* Lifecycle.onPayment and the Reactor recompute the booking a payment or  *)
(* a document event names.  Events are not tracked: Publish drops one whose*)
(* handler fails, a crash loses it, most payment operations publish none,  *)
(* and the outbox delivers late and again.  So a handler may run at any    *)
(* time, and nothing says that it will.                                    *)
HandleEvent ==
    /\ Commits("request")
    /\ SaveStatus(Rederive(unit.row, FactsRead))
    /\ UNCHANGED <<inputs, desk, listed, departDay, now>>

-----------------------------------------------------------------------------
(* Sweeps: a listing without a lock, then one unit of work per booking,    *)
(* which checks again under the lock.                                      *)

ExpiredHold(b, t)   == b.status = "option_hold" /\ b.hold # NoHold /\ b.hold <= t
DueForTravel(b, t)  == IsConfirmedFamily(b.status) /\ DepartureReached(departDay, t)

(* A listing that takes every booking with money on it to be settled.      *)
DerivedCandidateUnpaidOnly(b) ==
    /\ IsConfirmedFamily(b.status)
    /\ b.balance <= 0
    /\ ~(b.status = "ready" /\ b.forced)

DerivedCandidate(b) ==
    /\ IsConfirmedFamily(b.status)
    /\ ~(b.balance > 0 /\ \/ b.status = "confirmed" /\ b.collected <= 0
                          \/ b.status = "partially_paid" /\ b.collected > 0)
    /\ ~(b.status = "ready" /\ b.forced)

(* ExpireHolds and MarkTravelled carry the instant they started with;      *)
(* ReconcileDerived takes no time, 0 stands for listed.                    *)
ListSweep(s) ==
    /\ listed[s] = None
    /\ \/ /\ s = "hold_expiry" /\ ExpiredHold(row, now)
          /\ listed' = [listed EXCEPT ![s] = now]
       \/ /\ s = "travelled" /\ DueForTravel(row, now)
          /\ listed' = [listed EXCEPT ![s] = now]
       \/ /\ s = "recompute" /\ DerivedCandidate(row)
          /\ listed' = [listed EXCEPT ![s] = 0]
    /\ UNCHANGED <<row, inputs, unit, desk, departDay, now>>

SystemRequest(to, t) ==
    Request(to, "system", "full", NoHold, t, [found |-> TRUE, open |-> TRUE, room |-> TRUE],
            ReadyNow(row))

(* The sweep's unit of work when the booking still qualifies.  Neither     *)
(* edge depends on readiness, which markTravelled reads for its audit.     *)
SystemTransition(to, t) ==
    IF Admissible(row, SystemRequest(to, t))
    THEN ApplyTransition(row, SystemRequest(to, t)) ELSE row

(* Sweeps that trust their listing instead of checking again.              *)
RunHoldExpiryUnchecked ==
    /\ listed["hold_expiry"] # None /\ RowFree
    /\ row' = ApplyTransition(row, SystemRequest("draft", now))
    /\ listed' = [listed EXCEPT !["hold_expiry"] = None]
    /\ UNCHANGED <<inputs, desk, departDay, now>>

RunHoldExpiry ==
    /\ listed["hold_expiry"] # None /\ RowFree
    /\ row' = IF ExpiredHold(row, listed["hold_expiry"])
              THEN SystemTransition("draft", listed["hold_expiry"]) ELSE row
    /\ listed' = [listed EXCEPT !["hold_expiry"] = None]
    /\ UNCHANGED <<inputs, desk, departDay, now>>

RunTravelledUnchecked ==
    /\ listed["travelled"] # None /\ RowFree
    /\ row' = ApplyTransition(row, SystemRequest("travelled", now))
    /\ listed' = [listed EXCEPT !["travelled"] = None]
    /\ UNCHANGED <<inputs, desk, departDay, now>>

RunTravelled ==
    /\ listed["travelled"] # None /\ RowFree
    /\ row' = IF IsConfirmedFamily(row.status)
              THEN SystemTransition("travelled", listed["travelled"]) ELSE row
    /\ listed' = [listed EXCEPT !["travelled"] = None]
    /\ UNCHANGED <<inputs, desk, departDay, now>>

SweepLocks ==
    /\ listed["recompute"] # None
    /\ FindForUpdate("sweep", 0)
    /\ UNCHANGED <<row, inputs, desk, listed, departDay, now>>

SweepReadsDocuments == unit.op = "sweep" /\ ReadDocuments

RunRecompute ==
    /\ Commits("sweep")
    /\ SaveStatus(Rederive(unit.row, FactsRead))
    /\ listed' = [listed EXCEPT !["recompute"] = None]
    /\ UNCHANGED <<inputs, desk, departDay, now>>

(* One booking of a sweep fails (its follow-up task, a lost connection):   *)
(* the unit of work rolls back and the sweep goes on to the next booking.  *)
(* FindForUpdate waits for the lock, so the failure comes after it.        *)
SweepFails(s) ==
    /\ listed[s] # None /\ RowFree
    /\ listed' = [listed EXCEPT ![s] = None]
    /\ UNCHANGED <<row, inputs, desk, departDay, now>>

(* A unit of work that holds the lock fails or its process dies: the       *)
(* clerk's insert is gone, and the sweep goes on to the next booking.      *)
Rollback ==
    /\ unit # Free
    /\ unit' = Free
    /\ desk' = [c \in Clerks |-> IF unit.op = c THEN Idle ELSE desk[c]]
    /\ listed' = [listed EXCEPT !["recompute"] = IF unit.op = "sweep" THEN None ELSE @]
    /\ UNCHANGED <<row, inputs, departDay, now>>

-----------------------------------------------------------------------------
(* The environment: time, and a departure moved by UpdateDeparture.        *)

Tick ==
    /\ now < MaxTime
    /\ now' = now + 1
    /\ UNCHANGED <<row, inputs, unit, desk, listed, departDay>>

MoveDeparture ==
    /\ departDay' \in Times
    /\ UNCHANGED <<row, inputs, unit, desk, listed, now>>

ClerkStep(c) ==
    \/ UpdateRead(c) \/ UpdateCommit(c)
    \/ AddParticipantRead(c) \/ AddParticipantInsert(c) \/ AddParticipantCommit(c)
    \/ DeleteParticipantRead(c) \/ DeleteParticipantCommit(c)
    \/ RecordPaymentRead(c) \/ CorrectPaymentRead(c) \/ PaymentCommit(c)
    \/ Abort(c)

SweepStep(s) == ListSweep(s) \/ SweepFails(s)

Next ==
    \/ \E c \in Clerks : ClerkStep(c)
    \/ \E s \in Sweeps : SweepStep(s)
    \/ SetLineItems \/ ExtendHold \/ ReviewDocuments
    \/ RequestLocks \/ ReadDocuments \/ Rollback
    \/ Transition \/ UpdateParticipant \/ UpdateChecklistItem \/ OverrideReadiness
    \/ HandleEvent
    \/ RunHoldExpiry \/ RunTravelled \/ SweepLocks \/ RunRecompute
    \/ Tick \/ MoveDeparture

Spec == Init /\ [][Next]_vars

(* The scheduler fires each sweep again and again (WF on the listing), no  *)
(* unit of work holds the row lock for ever (WithinTransaction ends it one *)
(* way or the other), and no booking fails every run of its sweep (SF on   *)
(* the steps of its unit of work).  No fairness is assumed of users,       *)
(* payments, event delivery or the clock.                                  *)
Fairness ==
    /\ \A s \in Sweeps : WF_vars(ListSweep(s))
    /\ WF_vars(Rollback)
    /\ SF_vars(RunHoldExpiry)
    /\ SF_vars(RunTravelled)
    /\ SF_vars(SweepLocks) /\ SF_vars(SweepReadsDocuments) /\ SF_vars(RunRecompute)

FairSpec == Spec /\ Fairness

-----------------------------------------------------------------------------
(* Safety.                                                                 *)

(* hold_expires_at is set exactly while the status is option_hold: no      *)
(* interleaving of transitions, stale write-backs and sweeps leaves a      *)
(* deadline behind or a hold without one (Booking.HoldExpiresAt, and the   *)
(* CHECK bookings_hold_expiry_check).                                      *)
HoldSetExactlyOnOption == (row.status = "option_hold") <=> (row.hold # NoHold)

(* ready_forced is only ever set on a ready booking: a forced ready sticks *)
(* until the booking leaves the family and no stale write revives the flag *)
(* afterwards.  DerivedStatus and the listing of the reconcile sweep rely  *)
(* on it.                                                                  *)
ForcedOnlyWhileReady == row.forced => row.status = "ready"

(* Both flags of the row follow its status, through every interleaving of  *)
(* users' transitions, sweeps and stale write-backs.                       *)
FlagsFollowStatus == HoldSetExactlyOnOption /\ ForcedOnlyWhileReady

Drifted ==
    /\ IsConfirmedFamily(row.status)
    /\ row.status # DerivedStatus(row, ReadyNow(row))

(* ListDerivedCandidates skips rows that "cannot" have drifted.  It never  *)
(* skips one that has: every confirmed-family row whose status differs     *)
(* from the derived one satisfies the SQL predicate.                       *)
DriftIsListed == Drifted => DerivedCandidate(row)

(* A sale is not undone by a late sweep: from a sold status the booking    *)
(* only moves among sold statuses or to cancelled, also when a hold-expiry *)
(* sweep listed it before it was confirmed; and a terminal status stays.   *)
SoldStaysSold ==
    [][/\ IsSold(row.status) => IsSold(row'.status) \/ row'.status = "cancelled"
       /\ Terminal(row.status) => row'.status = row.status]_vars

(* The sweeps act on the row as it is, not as it was listed: a hold lapses *)
(* only at or after its (possibly extended) deadline, and a booking        *)
(* travels only from the confirmed family, on or after the (possibly       *)
(* moved) departure date.                                                  *)
SweepsActOnCurrentRow ==
    [][/\ row.status = "option_hold" /\ row'.status = "draft" => row.hold <= now
       /\ row'.status = "travelled" /\ row.status # "travelled" =>
            IsConfirmedFamily(row.status) /\ DepartureReached(departDay, now)]_vars

(* A booking becomes ready only when nothing is owed and its participants, *)
(* checklist and documents are complete as it commits (or lifted by an     *)
(* override), or by a manager's override of the status.  What the row lock *)
(* covers - balance, party size, checklist, override, added participants - *)
(* cannot move under the derivation.  The two inputs it does not cover can:*)
(* documents reviewed, or participants removed, after this unit of work    *)
(* has read them and before it commits.  Nothing else excuses a ready      *)
(* booking that is not; one so excused has drifted, and DriftIsListed and  *)
(* SweepsCatchUp are about it.                                             *)
ReviewedSinceRead == unit.docs # docs
RemovedSinceRead  == party' < unit.count

ReadyIsEarned ==
    [][row'.status = "ready" /\ row.status # "ready" =>
         \/ row'.forced
         \/ /\ row'.balance = 0
            /\ party' >= row'.pax \/ RemovedSinceRead
            /\ override' \/ (checklist' /\ (docs' \/ ReviewedSinceRead))]_vars

(* "Editable reports whether pax, money and line items may still change"   *)
(* (lifecycle.go): outside draft and quoted, pax and total stay.  Update   *)
(* checks Editable on an unlocked read, so this does not hold.             *)
FrozenOutsideDraft ==
    [][~Editable(row.status) => row'.pax = row.pax /\ row'.total = row.total]_vars

-----------------------------------------------------------------------------
(* Liveness, under Fairness.                                               *)

(* A lapsed hold gives its seats back: the booking leaves option_hold or   *)
(* has its deadline extended.                                              *)
LapsedHoldIsReleased == ExpiredHold(row, now) ~> ~ExpiredHold(row, now)

(* A drifted status is settled again, also when the payment event was lost *)
(* or never published: the hourly reconcile sweep catches it.              *)
DriftIsSettled == Drifted ~> ~Drifted

(* A confirmed-family booking whose departure date was reached travels,    *)
(* unless the date is moved or the booking cancelled first.                *)
DepartedIsMarked == DueForTravel(row, now) ~> ~DueForTravel(row, now)

(* The three sweeps catch up with whatever became due or drifted.          *)
SweepsCatchUp == LapsedHoldIsReleased /\ DriftIsSettled /\ DepartedIsMarked

=============================================================================
