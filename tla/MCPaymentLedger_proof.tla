----------------------- MODULE MCPaymentLedger_proof ------------------------
(***************************************************************************)
(* The payment ledger for any number of concurrent units of work, users,   *)
(* keys and amounts: types, one entry per key, refunds approved by         *)
(* another, a balance that follows the ledger unless a commit overtook it, *)
(* and an append-only ledger.  And the services around it, for any number  *)
(* of desks and rows: what is settled is settled once, nothing that must   *)
(* stand is rewritten, and the accounts, the suppliers' funds and the      *)
(* conversions agree with the rows they follow from.                       *)
(*                                                                         *)
(* The ledger's inductive invariant says what the units in flight hold: a  *)
(* copy to insert that nobody has approved yet, a row version that differs *)
(* from the committed row only in status and approver, row locks and index *)
(* entries of their own, and a sum that is the sum of what the unit sees   *)
(* as long as no commit overtook it.                                       *)
(*                                                                         *)
(* Every service keeps its own variables, so a step of the composition is  *)
(* a step of one service and a stutter of the others (StepOfEach), and     *)
(* each service has an inductive invariant of its own.  It says what a     *)
(* desk holds between two of its statements: why a promise it read may be  *)
(* settled, which account a transfer has locked, what a rate it will       *)
(* overwrite looked like.                                                  *)
(***************************************************************************)
EXTENDS MCPaymentLedger, FiniteSetTheorems, WellFoundedInduction, TLAPS

-----------------------------------------------------------------------------
(* Parts of the inductive invariant, each about the progress p of a unit.  *)

Writing(p) == p.phase \in {"written", "summed"}

TypedUnit(p) ==
    /\ p \in Progress
    /\ p.phase \in {"insert", "update", "written", "summed"} => p.new \in Entry
    /\ p.phase \in {"update", "written", "summed"} => p.id \in Ids

(* What a decision on a refund needs.                                      *)
Decided(e) == e.status = "approved" => e.approver # Absent /\ e.approver # e.by

(* new is old but for its status and approver.                             *)
Revises(new, old) ==
    /\ new.key = old.key /\ new.type = old.type
    /\ new.amount = old.amount /\ new.by = old.by

(* A copy waits to be written: a new entry is not approved, a revision is  *)
(* one of a row that is still there.                                       *)
CopyWaits(p) ==
    /\ p.phase = "insert" => p.new.status # "approved"
    /\ p.phase = "update" =>
         /\ ledger[p.id] # Absent
         /\ Revises(p.new, ledger[p.id])
         /\ Decided(p.new)

(* A version that is written and not committed: a revision passed the      *)
(* trigger, a new entry has the index entry of its key.                    *)
VersionHeld(p) ==
    Writing(p) =>
        /\ Decided(p.new)
        /\ ledger[p.id] # Absent =>
             /\ Revises(p.new, ledger[p.id])
             /\ p.new.status # ledger[p.id].status =>
                  CanTransition(ledger[p.id].type, ledger[p.id].status, p.new.status)
             /\ ledger[p.id].approver = Absent
        /\ ledger[p.id] = Absent => ~KeyTaken(p.new.key)

(* What was summed or read is still true unless it was overtaken.          *)
SumTrue(p) ==
    /\ p.phase = "summed" /\ ~p.stale => p.sum = SumCollected([ledger EXCEPT ![p.id] = p.new])
    /\ p.phase = "edit" /\ ~p.stale /\ ~raced => p.sum = collected

UnitHolds(p) == CopyWaits(p) /\ VersionHeld(p) /\ SumTrue(p)

(* Two units never hold one row or one key.                                *)
Apart(p, q) == Writing(p) /\ Writing(q) => p.id # q.id /\ p.new.key # q.new.key

LedgerInv ==
    /\ TypeOK
    /\ OneEntryPerKey
    /\ RefundsApprovedByAnother
    /\ BalanceFollowsLedger
    /\ \A t \in Txs : UnitHolds(tx[t])
    /\ \A t, u \in Txs : t # u => Apart(tx[t], tx[u])

-----------------------------------------------------------------------------
(* The sum of a ledger is a number: it counts two finite sets.             *)
LEMMA UnitsFinite ==
    ASSUME NEW view \in [Ids -> Entry \cup {Absent}], NEW sign \in {-1, 1}
    PROVE  IsFiniteSet(Units(view, sign))
<1> DEFINE C == CountedRows(view)
           Of(i) == {i} \X (1 .. sign * view[i].amount)
           f == [i \in C |-> Of(i)]
           All == {Of(i) : i \in C}
<1>1. IsFiniteSet(Ids)
    BY FS_Interval, LedgerAssumption DEF Ids
<1>2. IsFiniteSet(C)
  <2>1. C \in SUBSET Ids
      BY DEF CountedRows
  <2> QED BY <1>1, <2>1, FS_Subset
<1>3. \A i \in C : IsFiniteSet(Of(i))
  <2> SUFFICES ASSUME NEW i \in C PROVE IsFiniteSet(Of(i))
      OBVIOUS
  <2>1. view[i] \in Entry
      BY DEF CountedRows
  <2>2. sign * view[i].amount \in Int
      BY <2>1 DEF Entry
  <2>3. IsFiniteSet(1 .. sign * view[i].amount)
      BY <2>2, FS_Interval
  <2>4. IsFiniteSet({i})
      BY FS_Singleton
  <2> QED BY <2>3, <2>4, FS_Product
<1>4. f \in Surjection(C, All)
  <2>1. f \in [C -> All]
      OBVIOUS
  <2>2. \A T \in All : \E i \in C : f[i] = T
      OBVIOUS
  <2> QED BY <2>1, <2>2 DEF Surjection
<1>5. IsFiniteSet(All)
    BY <1>2, <1>4, FS_Surjection
<1>6. \A T \in All : IsFiniteSet(T)
    BY <1>3
<1>7. IsFiniteSet(UNION All)
    BY <1>5, <1>6, FS_UNION
<1> QED BY <1>7 DEF Units

LEMMA SumType ==
    ASSUME NEW view \in [Ids -> Entry \cup {Absent}]
    PROVE  SumCollected(view) \in Int
<1>1. Cardinality(Units(view, 1)) \in Nat /\ Cardinality(Units(view, -1)) \in Nat
    BY UnitsFinite, FS_CardinalityType
<1> QED BY <1>1 DEF SumCollected

(* A row that did not count and does not count now leaves the sum alone.   *)
LEMMA UncountedRow ==
    ASSUME NEW view \in [Ids -> Entry \cup {Absent}], NEW i \in Ids, NEW e \in Entry,
           ~CountsTowardCollected(e),
           view[i] # Absent => ~CountsTowardCollected(view[i])
    PROVE  SumCollected([view EXCEPT ![i] = e]) = SumCollected(view)
<1> DEFINE next == [view EXCEPT ![i] = e]
<1>1. CountedRows(next) = CountedRows(view)
    BY DEF CountedRows
<1>2. \A j \in CountedRows(view) : next[j] = view[j]
    BY DEF CountedRows
<1>3. Units(next, 1) = Units(view, 1)
    BY <1>1, <1>2 DEF Units
<1>4. Units(next, -1) = Units(view, -1)
    BY <1>1, <1>2 DEF Units
<1> QED BY <1>3, <1>4 DEF SumCollected

(* The type invariant, in terms of the units.                              *)
LEMMA TypedUnits ==
    TypeOK <=> /\ ledger \in [Ids -> Entry \cup {Absent}]
               /\ collected \in Int /\ cancelled \in BOOLEAN /\ raced \in BOOLEAN
               /\ tx \in [Txs -> Progress]
               /\ \A t \in Txs : TypedUnit(tx[t])
BY DEF TypeOK, TypedUnit

LEMMA IdleType == Idle \in Progress
BY DEF Idle, Progress, Phases

LEMMA IdleHolds == TypedUnit(Idle) /\ UnitHolds(Idle) /\ \A q : Apart(Idle, q) /\ Apart(q, Idle)
BY DEF Idle, TypedUnit, Progress, Phases, UnitHolds, CopyWaits, VersionHeld, SumTrue, Apart, Writing

-----------------------------------------------------------------------------
(* A step of one unit that touches neither the ledger nor the balance.     *)
LEMMA OwnStep ==
    ASSUME LedgerInv, NEW t \in Txs, NEW p,
           TypedUnit(p), UnitHolds(p),
           \A u \in Txs \ {t} : Apart(p, tx[u]),
           tx' = [tx EXCEPT ![t] = p],
           UNCHANGED <<ledger, collected, cancelled, raced>>
    PROVE  LedgerInv'
<1>1. \A u \in Txs : tx'[u] = IF u = t THEN p ELSE tx[u]
    BY DEF LedgerInv, TypeOK
<1>2. TypeOK'
  <2>1. tx' \in [Txs -> Progress]
      BY DEF LedgerInv, TypeOK, TypedUnit
  <2>2. \A u \in Txs : TypedUnit(tx'[u])
      BY <1>1, TypedUnits DEF LedgerInv
  <2> QED BY <2>1, <2>2 DEF LedgerInv, TypeOK, TypedUnit
<1>3. OneEntryPerKey' /\ RefundsApprovedByAnother' /\ BalanceFollowsLedger'
    BY DEF LedgerInv, OneEntryPerKey, RefundsApprovedByAnother, BalanceFollowsLedger, Rows,
           SumCollected, Units, CountedRows
<1>4. \A u \in Txs : UnitHolds(tx[u])'
  <2> SUFFICES ASSUME NEW u \in Txs PROVE UnitHolds(tx[u])'
      OBVIOUS
  <2>1. UnitHolds(tx'[u])
      BY <1>1 DEF LedgerInv
  <2> QED BY <2>1 DEF UnitHolds, CopyWaits, VersionHeld, SumTrue, KeyTaken, Rows,
                      SumCollected, Units, CountedRows
<1>5. \A u, v \in Txs : u # v => Apart(tx[u], tx[v])'
    BY <1>1 DEF LedgerInv, Apart, Writing
<1> QED BY <1>2, <1>3, <1>4, <1>5 DEF LedgerInv

(* What a unit starts from is idle, and idle units hold nothing.           *)
LEMMA StartInsertStep ==
    ASSUME LedgerInv, NEW t \in Txs, NEW e \in Entry, e.status # "approved", StartInsert(t, e)
    PROVE  LedgerInv'
<1> DEFINE p == [Idle EXCEPT !.phase = "insert", !.new = e]
<1>1. p \in Progress /\ p.phase = "insert" /\ p.new = e
    BY IdleType DEF Progress, Phases
<1>2. TypedUnit(p)
    BY <1>1 DEF TypedUnit
<1>3. UnitHolds(p)
    BY <1>1 DEF UnitHolds, CopyWaits, VersionHeld, SumTrue, Writing
<1>4. \A u \in Txs \ {t} : Apart(p, tx[u])
    BY <1>1 DEF Apart, Writing
<1>5. tx' = [tx EXCEPT ![t] = p] /\ UNCHANGED <<ledger, collected, cancelled, raced>>
    BY DEF StartInsert
<1> HIDE DEF p
<1> QED BY <1>2, <1>3, <1>4, <1>5, OwnStep

LEMMA StartUpdateStep ==
    ASSUME LedgerInv, NEW t \in Txs, NEW i \in Rows, NEW to \in PaymentStatuses,
           NEW approver \in Users \cup {Absent},
           to = "approved" => approver # Absent /\ approver # ledger[i].by,
           StartUpdate(t, i, to, approver)
    PROVE  LedgerInv'
<1> DEFINE e == [ledger[i] EXCEPT !.status = to, !.approver = approver]
           p == [Idle EXCEPT !.phase = "update", !.id = i, !.new = e]
<1>1. i \in Ids /\ i \in Nat /\ ledger[i] \in Entry /\ ledger[i] # Absent
    BY LedgerAssumption DEF LedgerInv, TypeOK, Rows, Ids
<1>2. e \in Entry /\ Revises(e, ledger[i]) /\ e.status = to /\ e.approver = approver /\ e.by = ledger[i].by
    BY <1>1 DEF Entry, Revises
<1> HIDE DEF e
<1>3. p \in Progress /\ p.phase = "update" /\ p.id = i /\ p.new = e
    BY <1>1, <1>2, IdleType DEF Progress, Phases
<1>4. TypedUnit(p)
    BY <1>1, <1>2, <1>3 DEF TypedUnit
<1>5. UnitHolds(p)
    BY <1>1, <1>2, <1>3 DEF UnitHolds, CopyWaits, VersionHeld, SumTrue, Writing, Decided
<1>6. \A u \in Txs \ {t} : Apart(p, tx[u])
    BY <1>3 DEF Apart, Writing
<1>7. tx' = [tx EXCEPT ![t] = p] /\ UNCHANGED <<ledger, collected, cancelled, raced>>
    BY DEF StartUpdate, e
<1> HIDE DEF p
<1> QED BY <1>4, <1>5, <1>6, <1>7, OwnStep

(* New entries are entries, and none of them is approved.                  *)
LEMMA NewEntryType ==
    ASSUME NEW k \in Keys, NEW type \in EventTypes, NEW amount \in Int,
           NEW status \in PaymentStatuses, NEW user \in Users
    PROVE  NewEntry(k, type, amount, status, user) \in Entry
BY DEF NewEntry, Entry

LEMMA RequestSteps ==
    ASSUME LedgerInv, NEW t \in Txs,
           Record(t) \/ ReverseEntry(t) \/ Adjust(t) \/ RequestRefund(t)
    PROVE  LedgerInv'
<1>1. CASE Record(t)
  <2>1. PICK k \in Keys, amount \in Amounts, status \in {"unverified", "verified"}, user \in Users :
           StartInsert(t, NewEntry(k, "charge", amount, status, user))
      BY <1>1 DEF Record
  <2>2. amount \in Int /\ status \in PaymentStatuses /\ "charge" \in EventTypes
      BY LedgerAssumption DEF PaymentStatuses, EventTypes
  <2>3. NewEntry(k, "charge", amount, status, user) \in Entry
      BY <2>2, NewEntryType
  <2>4. NewEntry(k, "charge", amount, status, user).status # "approved"
      BY DEF NewEntry
  <2> QED BY <2>1, <2>3, <2>4, StartInsertStep
<1>2. CASE ReverseEntry(t)
  <2>1. PICK k \in Keys, orig \in Rows, user \in Users :
           StartInsert(t, NewEntry(k, "reverse", -ledger[orig].amount, "verified", user))
      BY <1>2 DEF ReverseEntry
  <2>2. ledger[orig] \in Entry
      BY DEF LedgerInv, TypeOK, Rows
  <2>3. -ledger[orig].amount \in Int /\ "verified" \in PaymentStatuses /\ "reverse" \in EventTypes
      BY <2>2 DEF PaymentStatuses, EventTypes, Entry
  <2>4. NewEntry(k, "reverse", -ledger[orig].amount, "verified", user) \in Entry
      BY <2>3, NewEntryType
  <2>5. NewEntry(k, "reverse", -ledger[orig].amount, "verified", user).status # "approved"
      BY DEF NewEntry
  <2> QED BY <2>1, <2>4, <2>5, StartInsertStep
<1>3. CASE Adjust(t)
  <2>1. PICK k \in Keys, amount \in Amounts, sign \in {-1, 1}, user \in Users :
           StartInsert(t, NewEntry(k, "adjust", sign * amount, "verified", user))
      BY <1>3 DEF Adjust
  <2>2. sign * amount \in Int /\ "verified" \in PaymentStatuses /\ "adjust" \in EventTypes
      BY LedgerAssumption DEF PaymentStatuses, EventTypes
  <2>3. NewEntry(k, "adjust", sign * amount, "verified", user) \in Entry
      BY <2>2, NewEntryType
  <2>4. NewEntry(k, "adjust", sign * amount, "verified", user).status # "approved"
      BY DEF NewEntry
  <2> QED BY <2>1, <2>3, <2>4, StartInsertStep
<1>4. CASE RequestRefund(t)
  <2>1. PICK k \in Keys, amount \in Amounts, user \in Users :
           StartInsert(t, NewEntry(k, "refund", -amount, "pending_approval", user))
      BY <1>4 DEF RequestRefund
  <2>2. -amount \in Int /\ "pending_approval" \in PaymentStatuses /\ "refund" \in EventTypes
      BY LedgerAssumption DEF PaymentStatuses, EventTypes
  <2>3. NewEntry(k, "refund", -amount, "pending_approval", user) \in Entry
      BY <2>2, NewEntryType
  <2>4. NewEntry(k, "refund", -amount, "pending_approval", user).status # "approved"
      BY DEF NewEntry
  <2> QED BY <2>1, <2>3, <2>4, StartInsertStep
<1> QED BY <1>1, <1>2, <1>3, <1>4

LEMMA DecisionSteps ==
    ASSUME LedgerInv, NEW t \in Txs, Verify(t) \/ ApproveRefund(t)
    PROVE  LedgerInv'
<1>1. CASE Verify(t)
  <2>1. PICK i \in Rows : StartUpdate(t, i, "verified", Absent)
      BY <1>1 DEF Verify
  <2>2. "verified" \in PaymentStatuses
      BY DEF PaymentStatuses
  <2> QED BY <2>1, <2>2, StartUpdateStep
<1>2. CASE ApproveRefund(t)
  <2>1. PICK i \in Rows, user \in Users, to \in {"approved", "rejected"} :
           /\ to = "approved" => CheckRefundApprover(ledger[i], user)
           /\ StartUpdate(t, i, to, user)
      BY <1>2 DEF ApproveRefund
  <2>2. to \in PaymentStatuses
      BY DEF PaymentStatuses
  <2>3. to = "approved" => user # Absent /\ user # ledger[i].by
      BY <2>1, LedgerAssumption DEF CheckRefundApprover
  <2> QED BY <2>1, <2>2, <2>3, StartUpdateStep
<1> QED BY <1>1, <1>2

-----------------------------------------------------------------------------
(* Writing the row: the index and the row lock keep the writers apart.     *)
LEMMA InsertStep ==
    ASSUME LedgerInv, NEW t \in Txs, Insert(t)
    PROVE  LedgerInv'
<1>1. PICK i \in Ids : FreshId(i) /\ tx' = [tx EXCEPT ![t] = [@ EXCEPT !.phase = "written", !.id = i]]
    BY DEF Insert
<1> DEFINE p == [tx[t] EXCEPT !.phase = "written", !.id = i]
<1>2. tx[t].phase = "insert" /\ tx[t].new \in Entry /\ tx[t].new.status # "approved" /\ tx[t] \in Progress
    BY DEF Insert, LedgerInv, TypeOK, UnitHolds, CopyWaits
<1>3. i \in Nat /\ i \in Ids
    BY LedgerAssumption DEF Ids
<1>4. p \in Progress /\ p.phase = "written" /\ p.id = i /\ p.new = tx[t].new
    BY <1>2, <1>3 DEF Progress, Phases
<1>5. ledger[i] = Absent /\ \A u \in Writers : tx[u].id # i
    BY <1>1, <1>3 DEF FreshId, Rows
<1>6. TypedUnit(p)
    BY <1>2, <1>3, <1>4 DEF TypedUnit
<1>7. UnitHolds(p)
  <2>1. ~KeyTaken(p.new.key)
      BY <1>4 DEF Insert
  <2> QED BY <1>2, <1>4, <1>5, <2>1 DEF UnitHolds, CopyWaits, VersionHeld, SumTrue, Decided
<1>8. \A u \in Txs \ {t} : Apart(p, tx[u])
  <2> SUFFICES ASSUME NEW u \in Txs \ {t}, Writing(tx[u]) PROVE p.id # tx[u].id /\ p.new.key # tx[u].new.key
      BY DEF Apart
  <2>1. u \in Writers
      BY DEF Writers, Writing
  <2>2. tx[u].new.key # tx[t].new.key
      BY <2>1 DEF Insert
  <2> QED BY <1>4, <1>5, <2>1, <2>2
<1>9. tx' = [tx EXCEPT ![t] = p] /\ UNCHANGED <<ledger, collected, cancelled, raced>>
    BY <1>1 DEF Insert
<1> HIDE DEF p
<1> QED BY <1>6, <1>7, <1>8, <1>9, OwnStep

LEMMA UpdateStatusStep ==
    ASSUME LedgerInv, NEW t \in Txs, UpdateStatus(t)
    PROVE  LedgerInv'
<1> DEFINE p == [tx[t] EXCEPT !.phase = "written"]
           i == tx[t].id
           old == ledger[i]
<1>1. /\ tx[t].phase = "update" /\ tx[t] \in Progress /\ tx[t].new \in Entry /\ i \in Ids
      /\ old # Absent /\ Revises(tx[t].new, old) /\ Decided(tx[t].new)
    BY DEF UpdateStatus, LedgerInv, TypeOK, UnitHolds, CopyWaits
<1>2. p \in Progress /\ p.phase = "written" /\ p.id = i /\ p.new = tx[t].new
    BY <1>1 DEF Progress, Phases
<1>3. TypedUnit(p)
    BY <1>1, <1>2 DEF TypedUnit
<1>4. UnitHolds(p)
  <2>1. /\ old.status # p.new.status => CanTransition(old.type, old.status, p.new.status)
        /\ old.approver = Absent
      BY <1>2 DEF UpdateStatus
  <2> QED BY <1>1, <1>2, <2>1 DEF UnitHolds, CopyWaits, VersionHeld, SumTrue
<1>5. \A u \in Txs \ {t} : Apart(p, tx[u])
  <2> SUFFICES ASSUME NEW u \in Txs \ {t}, Writing(tx[u]) PROVE p.id # tx[u].id /\ p.new.key # tx[u].new.key
      BY DEF Apart
  <2>1. tx[u].id # i
      BY DEF UpdateStatus, Writers, Writing
  <2>2. tx[u].id \in Ids /\ VersionHeld(tx[u])
      BY DEF LedgerInv, TypeOK, UnitHolds, Writing
  <2>3. p.new.key = old.key /\ i \in Rows
      BY <1>1, <1>2 DEF Revises, Rows
  <2>4. CASE ledger[tx[u].id] = Absent
      BY <1>2, <2>1, <2>2, <2>3, <2>4 DEF VersionHeld, KeyTaken
  <2>5. CASE ledger[tx[u].id] # Absent
    <3>1. tx[u].new.key = ledger[tx[u].id].key /\ tx[u].id \in Rows
        BY <2>2, <2>5 DEF VersionHeld, Revises, Rows
    <3>2. ledger[tx[u].id].key # old.key
        BY <2>1, <2>3, <3>1 DEF LedgerInv, OneEntryPerKey
    <3> QED BY <1>2, <2>1, <2>3, <3>1, <3>2
  <2> QED BY <2>4, <2>5
<1>6. tx' = [tx EXCEPT ![t] = p] /\ UNCHANGED <<ledger, collected, cancelled, raced>>
    BY DEF UpdateStatus
<1> HIDE DEF p
<1> QED BY <1>3, <1>4, <1>5, <1>6, OwnStep

LEMMA SumStep ==
    ASSUME LedgerInv, NEW t \in Txs, SumUp(t)
    PROVE  LedgerInv'
<1> DEFINE s == SumCollected(View(t))
           p == [tx[t] EXCEPT !.phase = "summed", !.sum = s]
<1>1. /\ tx[t].phase = "written" /\ tx[t] \in Progress /\ tx[t].new \in Entry /\ tx[t].id \in Ids
      /\ ledger \in [Ids -> Entry \cup {Absent}] /\ VersionHeld(tx[t])
    BY DEF SumUp, LedgerInv, TypeOK, UnitHolds
<1>2. s \in Int
  <2>1. View(t) \in [Ids -> Entry \cup {Absent}]
      BY <1>1 DEF View
  <2> QED BY <2>1, SumType
<1> HIDE DEF s
<1>3. p \in Progress /\ p.phase = "summed" /\ p.id = tx[t].id /\ p.new = tx[t].new /\ p.sum = s
    BY <1>1, <1>2 DEF Progress, Phases
<1>4. TypedUnit(p)
    BY <1>1, <1>3 DEF TypedUnit
<1>5. UnitHolds(p)
  <2>1. VersionHeld(p)
      BY <1>1, <1>3 DEF VersionHeld, Writing
  <2>2. p.sum = SumCollected([ledger EXCEPT ![p.id] = p.new])
      BY <1>3 DEF s, View
  <2> QED BY <1>3, <2>1, <2>2 DEF UnitHolds, CopyWaits, SumTrue
<1>6. \A u \in Txs \ {t} : Apart(p, tx[u])
    BY <1>1, <1>3 DEF LedgerInv, Apart, Writing
<1>7. tx' = [tx EXCEPT ![t] = p] /\ UNCHANGED <<ledger, collected, cancelled, raced>>
    BY DEF SumUp, s
<1> HIDE DEF p
<1> QED BY <1>4, <1>5, <1>6, <1>7, OwnStep

LEMMA RollbackStep ==
    ASSUME LedgerInv, NEW t \in Txs, Rollback(t)
    PROVE  LedgerInv'
BY IdleHolds, OwnStep DEF Rollback

LEMMA EditReadStep ==
    ASSUME LedgerInv, NEW t \in Txs, EditRead(t)
    PROVE  LedgerInv'
<1> DEFINE p == [Idle EXCEPT !.phase = "edit", !.sum = collected]
<1>1. p \in Progress /\ p.phase = "edit" /\ p.sum = collected
    BY IdleType DEF Progress, Phases, LedgerInv, TypeOK
<1>2. TypedUnit(p)
    BY <1>1 DEF TypedUnit
<1>3. UnitHolds(p)
    BY <1>1 DEF UnitHolds, CopyWaits, VersionHeld, SumTrue, Writing
<1>4. \A u \in Txs \ {t} : Apart(p, tx[u])
    BY <1>1 DEF Apart, Writing
<1>5. tx' = [tx EXCEPT ![t] = p] /\ UNCHANGED <<ledger, collected, cancelled, raced>>
    BY DEF EditRead
<1> HIDE DEF p
<1> QED BY <1>2, <1>3, <1>4, <1>5, OwnStep

-----------------------------------------------------------------------------
(* Committing: what the others hold stays, but for the mark of staleness.  *)
LEMMA Overtaken ==
    ASSUME LedgerInv, NEW t \in Txs, NEW changed \in BOOLEAN, tx' = Overtake(t, changed)
    PROVE  /\ tx' \in [Txs -> Progress]
           /\ tx'[t] = Idle /\ tx'[t].phase = "idle"
           /\ \A u \in Txs \ {t} :
                /\ tx'[u].phase = tx[u].phase /\ tx'[u].id = tx[u].id
                /\ tx'[u].new = tx[u].new /\ tx'[u].sum = tx[u].sum
<1>1. tx \in [Txs -> Progress]
    BY DEF LedgerInv, TypeOK
<1>2. tx' = [u \in Txs |-> IF u = t THEN Idle
                           ELSE IF changed /\ tx[u].phase \in {"summed", "edit"}
                                THEN [tx[u] EXCEPT !.stale = TRUE] ELSE tx[u]]
    BY DEF Overtake
<1>3. tx'[t] = Idle /\ tx'[t].phase = "idle"
    BY <1>2 DEF Idle
<1>4. ASSUME NEW u \in Txs \ {t}
      PROVE  /\ tx'[u] \in Progress
             /\ tx'[u].phase = tx[u].phase /\ tx'[u].id = tx[u].id
             /\ tx'[u].new = tx[u].new /\ tx'[u].sum = tx[u].sum
  <2>1. tx'[u] = [tx[u] EXCEPT !.stale = TRUE] \/ tx'[u] = tx[u]
      BY <1>2
  <2> QED BY <1>1, <2>1 DEF Progress
<1>5. tx' \in [Txs -> Progress]
    BY <1>2, <1>3, <1>4, IdleType
<1> QED BY <1>3, <1>4, <1>5

(* What Commit overtakes is stale; the other commits overtake nobody.      *)
LEMMA OvertakenByChange ==
    ASSUME LedgerInv, NEW t \in Txs, tx' = Overtake(t, TRUE), NEW u \in Txs \ {t},
           tx[u].phase \in {"summed", "edit"}
    PROVE  tx'[u].stale
<1>1. tx'[u] = [tx[u] EXCEPT !.stale = TRUE]
    BY DEF Overtake
<1>2. tx[u] \in Progress
    BY DEF LedgerInv, TypeOK
<1> QED BY <1>1, <1>2 DEF Progress

LEMMA OvertakenByNone ==
    ASSUME NEW t \in Txs, tx' = Overtake(t, FALSE), NEW u \in Txs \ {t}
    PROVE  tx'[u] = tx[u]
BY DEF Overtake

(* The row version of a writer becomes the committed row.                  *)
LEMMA CommittedRow ==
    ASSUME LedgerInv, NEW t \in Txs, Writing(tx[t]), ledger' = View(t)
    PROVE  /\ ledger' \in [Ids -> Entry \cup {Absent}]
           /\ tx[t].id \in Ids /\ tx[t].new \in Entry /\ tx[t].new # Absent
           /\ \A j \in Ids : ledger'[j] = IF j = tx[t].id THEN tx[t].new ELSE ledger[j]
           /\ Rows' = Rows \cup {tx[t].id}
<1>1. tx[t].id \in Ids /\ tx[t].new \in Entry /\ ledger \in [Ids -> Entry \cup {Absent}]
    BY DEF LedgerInv, TypeOK, Writing
<1>2. tx[t].new # Absent
    BY <1>1, AbsentAssumption
<1>3. ledger' = [ledger EXCEPT ![tx[t].id] = tx[t].new]
    BY DEF View
<1>4. \A j \in Ids : ledger'[j] = IF j = tx[t].id THEN tx[t].new ELSE ledger[j]
    BY <1>1, <1>3
<1>5. Rows' = Rows \cup {tx[t].id}
    BY <1>1, <1>2, <1>4 DEF Rows
<1>6. ledger' \in [Ids -> Entry \cup {Absent}]
    BY <1>1, <1>3
<1> QED BY <1>1, <1>2, <1>4, <1>5, <1>6

(* All of the invariant but the sums.                                      *)
LEMMA CommitKeeps ==
    ASSUME LedgerInv, NEW t \in Txs, Writing(tx[t]), NEW changed \in BOOLEAN,
           ledger' = View(t), tx' = Overtake(t, changed),
           collected' \in Int, raced' \in BOOLEAN, cancelled' = cancelled
    PROVE  /\ TypeOK' /\ OneEntryPerKey' /\ RefundsApprovedByAnother'
           /\ \A u \in Txs : CopyWaits(tx[u])' /\ VersionHeld(tx[u])'
           /\ \A u, v \in Txs : u # v => Apart(tx[u], tx[v])'
<1> DEFINE i == tx[t].id
           new == tx[t].new
<1>1. VersionHeld(tx[t])
    BY DEF LedgerInv, UnitHolds
<1>2. /\ i \in Ids /\ new \in Entry /\ new # Absent
      /\ \A j \in Ids : ledger'[j] = IF j = i THEN new ELSE ledger[j]
      /\ Rows' = Rows \cup {i} /\ Rows \subseteq Ids
    BY CommittedRow DEF Rows
<1>3. TypeOK'
  <2>1. \A u \in Txs : TypedUnit(tx[u])
      BY TypedUnits DEF LedgerInv
  <2>2. \A u \in Txs : TypedUnit(tx'[u])
      BY <2>1, Overtaken, IdleHolds DEF TypedUnit
  <2>3. cancelled \in BOOLEAN
      BY DEF LedgerInv, TypeOK
  <2> QED BY <2>2, <2>3, Overtaken, CommittedRow DEF TypeOK, TypedUnit
<1>4. OneEntryPerKey'
  <2>1. ASSUME NEW j \in Rows, j # i PROVE ledger[j].key # new.key
    <3>1. CASE ledger[i] = Absent
        BY <1>1, <3>1 DEF VersionHeld, KeyTaken
    <3>2. CASE ledger[i] # Absent
      <4>1. new.key = ledger[i].key /\ i \in Rows
          BY <1>1, <1>2, <3>2 DEF VersionHeld, Revises, Rows
      <4> QED BY <2>1, <4>1 DEF LedgerInv, OneEntryPerKey
    <3> QED BY <3>1, <3>2
  <2> SUFFICES ASSUME NEW j \in Rows', NEW k \in Rows', ledger'[j].key = ledger'[k].key PROVE j = k
      BY DEF OneEntryPerKey
  <2>2. CASE j # i /\ k # i
      BY <1>2, <2>2 DEF LedgerInv, OneEntryPerKey
  <2>3. CASE j = i /\ k # i
      BY <1>2, <2>1, <2>3
  <2>4. CASE j # i /\ k = i
      BY <1>2, <2>1, <2>4
  <2> QED BY <2>2, <2>3, <2>4
<1>5. RefundsApprovedByAnother'
  <2> SUFFICES ASSUME NEW j \in Rows', ledger'[j].status = "approved"
               PROVE  ledger'[j].approver # Absent /\ ledger'[j].approver # ledger'[j].by
      BY DEF RefundsApprovedByAnother
  <2>1. CASE j = i
      BY <1>1, <1>2, <2>1 DEF VersionHeld, Decided
  <2>2. CASE j # i
      BY <1>2, <2>2 DEF LedgerInv, RefundsApprovedByAnother
  <2> QED BY <2>1, <2>2
<1>6. ASSUME NEW u \in Txs PROVE CopyWaits(tx[u])' /\ VersionHeld(tx[u])'
  <2>1. CASE u = t
    <3>1. tx'[u].phase = "idle"
        BY <2>1, Overtaken
    <3> QED BY <3>1 DEF CopyWaits, VersionHeld, Writing
  <2>2. CASE u # t
    <3>1. tx'[u].phase = tx[u].phase /\ tx'[u].id = tx[u].id /\ tx'[u].new = tx[u].new
        BY <2>2, Overtaken
    <3>2. CopyWaits(tx[u]) /\ VersionHeld(tx[u])
        BY DEF LedgerInv, UnitHolds
    <3>3. CopyWaits(tx[u])'
      <4>1. ASSUME tx[u].phase = "update"
            PROVE  ledger'[tx[u].id] # Absent /\ Revises(tx[u].new, ledger'[tx[u].id])
        <5>1. tx[u].id \in Ids /\ ledger[tx[u].id] # Absent /\ Revises(tx[u].new, ledger[tx[u].id])
            BY <3>2, <4>1 DEF CopyWaits, LedgerInv, TypeOK
        <5>2. CASE tx[u].id = i
          <6>1. Revises(new, ledger[i])
              BY <1>1, <5>1, <5>2 DEF VersionHeld
          <6> QED BY <1>2, <5>1, <5>2, <6>1 DEF Revises
        <5>3. CASE tx[u].id # i
            BY <1>2, <5>1, <5>3
        <5> QED BY <5>2, <5>3
      <4> QED BY <3>1, <3>2, <4>1 DEF CopyWaits
    <3>4. VersionHeld(tx[u])'
      <4> SUFFICES ASSUME Writing(tx[u]) PROVE VersionHeld(tx[u])'
          BY <3>1 DEF VersionHeld, Writing
      <4>1. tx[u].id # i /\ tx[u].new.key # new.key
          BY <2>2 DEF LedgerInv, Apart
      <4>2. tx[u].id \in Ids
          BY DEF LedgerInv, TypeOK, Writing
      <4>3. ledger'[tx[u].id] = ledger[tx[u].id]
          BY <1>2, <4>1, <4>2
      <4>4. ledger[tx[u].id] = Absent => ~\E j \in Rows' : ledger'[j].key = tx[u].new.key
        <5>1. ASSUME ledger[tx[u].id] = Absent, NEW j \in Rows' PROVE ledger'[j].key # tx[u].new.key
          <6>1. ~KeyTaken(tx[u].new.key)
              BY <3>2, <5>1 DEF VersionHeld
          <6>2. CASE j = i
              BY <1>2, <4>1, <6>2
          <6>3. CASE j # i
              BY <1>2, <6>1, <6>3 DEF KeyTaken
          <6> QED BY <6>2, <6>3
        <5> QED BY <5>1
      <4> QED BY <3>1, <3>2, <4>3, <4>4 DEF VersionHeld, Writing, KeyTaken
    <3> QED BY <3>3, <3>4
  <2> QED BY <2>1, <2>2
<1>7. ASSUME NEW u \in Txs, NEW v \in Txs, u # v PROVE Apart(tx[u], tx[v])'
  <2>1. \A w \in Txs : w = t => tx'[w].phase = "idle"
      BY Overtaken
  <2>2. \A w \in Txs : w # t => tx'[w].phase = tx[w].phase /\ tx'[w].id = tx[w].id /\ tx'[w].new = tx[w].new
      BY Overtaken
  <2>3. Apart(tx[u], tx[v])
      BY <1>7 DEF LedgerInv
  <2> QED BY <2>1, <2>2, <2>3 DEF Apart, Writing
<1> QED BY <1>3, <1>4, <1>5, <1>6, <1>7

(* Commit writes the sum of what it commits, unless it was overtaken, and  *)
(* overtakes every other sum and copy.                                     *)
LEMMA CommitStep ==
    ASSUME LedgerInv, NEW t \in Txs, Commit(t)
    PROVE  LedgerInv'
<1>1. /\ Writing(tx[t]) /\ tx[t] \in Progress /\ SumTrue(tx[t])
      /\ tx[t].sum \in Int /\ tx[t].stale \in BOOLEAN
    BY DEF Commit, LedgerInv, TypeOK, UnitHolds, Writing, Progress
<1>2. /\ TypeOK' /\ OneEntryPerKey' /\ RefundsApprovedByAnother'
      /\ \A u \in Txs : CopyWaits(tx[u])' /\ VersionHeld(tx[u])'
      /\ \A u, v \in Txs : u # v => Apart(tx[u], tx[v])'
    BY <1>1, CommitKeeps DEF Commit
<1>3. BalanceFollowsLedger'
  <2> SUFFICES ASSUME ~raced' PROVE collected' = SumCollected(ledger)'
      BY DEF BalanceFollowsLedger
  <2>1. tx[t].phase = "summed" /\ ~tx[t].stale /\ collected' = tx[t].sum /\ ledger' = View(t)
      BY DEF Commit
  <2>2. collected' = SumCollected(ledger')
      BY <1>1, <2>1 DEF SumTrue, View
  <2> QED BY <2>2 DEF SumCollected, Units, CountedRows
<1>4. ASSUME NEW u \in Txs PROVE SumTrue(tx[u])'
  <2>1. tx' = Overtake(t, TRUE)
      BY DEF Commit
  <2>2. tx'[t].phase = "idle" /\ (u # t => tx'[u].phase = tx[u].phase)
      BY <2>1, Overtaken
  <2>3. tx'[u].phase \in {"summed", "edit"} => tx'[u].stale
      BY <2>1, <2>2, OvertakenByChange
  <2> QED BY <2>3 DEF SumTrue
<1> QED BY <1>2, <1>3, <1>4 DEF LedgerInv, UnitHolds

(* A refund request or a rejection counts neither before nor after, so no  *)
(* sum changes.                                                            *)
LEMMA CommitOnlyStep ==
    ASSUME LedgerInv, NEW t \in Txs, CommitOnly(t)
    PROVE  LedgerInv'
<1> DEFINE i == tx[t].id
           new == tx[t].new
<1>1. /\ Writing(tx[t]) /\ VersionHeld(tx[t]) /\ i \in Ids /\ new \in Entry
      /\ ledger \in [Ids -> Entry \cup {Absent}] /\ collected \in Int /\ raced \in BOOLEAN
    BY DEF CommitOnly, LedgerInv, TypeOK, UnitHolds, Writing
<1>2. /\ TypeOK' /\ OneEntryPerKey' /\ RefundsApprovedByAnother'
      /\ \A u \in Txs : CopyWaits(tx[u])' /\ VersionHeld(tx[u])'
      /\ \A u, v \in Txs : u # v => Apart(tx[u], tx[v])'
    BY <1>1, CommitKeeps DEF CommitOnly
<1>3. ledger' = [ledger EXCEPT ![i] = new] /\ collected' = collected /\ raced' = raced
    BY DEF CommitOnly, View
<1>4. ~CountsTowardCollected(new) /\ (ledger[i] # Absent => ~CountsTowardCollected(ledger[i]))
  <2>1. new.type = "refund" /\ new.status \in {"pending_approval", "rejected"}
      BY DEF CommitOnly, Recomputes
  <2>2. ASSUME ledger[i] # Absent PROVE ledger[i].status \in {"pending_approval", "rejected"}
      BY <1>1, <2>1, <2>2 DEF VersionHeld, Revises, CanTransition
  <2> QED BY <2>1, <2>2 DEF CountsTowardCollected
<1>5. SumCollected(ledger') = SumCollected(ledger)
    BY <1>1, <1>3, <1>4, UncountedRow
<1>6. BalanceFollowsLedger'
  <2>1. ~raced => collected' = SumCollected(ledger')
      BY <1>3, <1>5 DEF LedgerInv, BalanceFollowsLedger
  <2> QED BY <1>3, <2>1 DEF BalanceFollowsLedger, SumCollected, Units, CountedRows
<1>7. ASSUME NEW u \in Txs PROVE SumTrue(tx[u])'
  <2>1. CASE u = t
    <3>1. tx'[u].phase = "idle"
        BY <2>1, Overtaken DEF CommitOnly
    <3> QED BY <3>1 DEF SumTrue
  <2>2. CASE u # t
    <3>1. tx'[u] = tx[u] /\ SumTrue(tx[u])
        BY <2>2, OvertakenByNone DEF CommitOnly, LedgerInv, UnitHolds
    <3>2. ASSUME tx[u].phase = "summed"
          PROVE  SumCollected([ledger' EXCEPT ![tx[u].id] = tx[u].new])
                   = SumCollected([ledger EXCEPT ![tx[u].id] = tx[u].new])
      <4> DEFINE seen == [ledger EXCEPT ![tx[u].id] = tx[u].new]
      <4>1. tx[u].id # i
          BY <1>1, <2>2, <3>2 DEF LedgerInv, Apart, Writing
      <4>2. tx[u].id \in Ids /\ tx[u].new \in Entry
          BY <3>2 DEF LedgerInv, TypeOK
      <4>3. seen \in [Ids -> Entry \cup {Absent}] /\ seen[i] = ledger[i]
          BY <1>1, <4>1, <4>2
      <4>4. [ledger' EXCEPT ![tx[u].id] = tx[u].new] = [seen EXCEPT ![i] = new]
          BY <1>1, <1>3, <4>1, <4>2
      <4> HIDE DEF seen
      <4>5. SumCollected([seen EXCEPT ![i] = new]) = SumCollected(seen)
          BY <1>1, <1>4, <4>3, UncountedRow
      <4> QED BY <4>4, <4>5 DEF seen
    <3> QED BY <1>3, <3>1, <3>2 DEF SumTrue, SumCollected, Units, CountedRows
  <2> QED BY <2>1, <2>2
<1> QED BY <1>2, <1>6, <1>7 DEF LedgerInv, UnitHolds

(* Writing a copy of the booking back: the same amount, unless overtaken.  *)
LEMMA EditCommitStep ==
    ASSUME LedgerInv, NEW t \in Txs, EditCommit(t)
    PROVE  LedgerInv'
<1>1. /\ tx[t].phase = "edit" /\ tx[t].sum \in Int /\ tx[t].stale \in BOOLEAN /\ raced \in BOOLEAN
      /\ SumTrue(tx[t])
    BY DEF EditCommit, LedgerInv, TypeOK, UnitHolds, Progress
<1>2. /\ ledger' = ledger /\ cancelled' = cancelled /\ collected' = tx[t].sum
      /\ raced' = (raced \/ tx[t].stale)
    BY DEF EditCommit
<1>3. ~raced' => ~raced /\ collected' = collected
    BY <1>1, <1>2 DEF SumTrue
<1>4. tx'[t] = Idle /\ tx' \in [Txs -> Progress] /\ \A u \in Txs \ {t} : tx'[u] = tx[u]
    BY Overtaken, OvertakenByNone DEF EditCommit
<1>5. TypeOK'
  <2>1. \A u \in Txs : TypedUnit(tx'[u])
      BY <1>4, IdleHolds, TypedUnits DEF LedgerInv
  <2> QED BY <1>1, <1>2, <1>4, <2>1 DEF LedgerInv, TypeOK, TypedUnit
<1>6. OneEntryPerKey' /\ RefundsApprovedByAnother'
    BY <1>2 DEF LedgerInv, OneEntryPerKey, RefundsApprovedByAnother, Rows
<1>7. BalanceFollowsLedger'
    BY <1>2, <1>3 DEF LedgerInv, BalanceFollowsLedger, SumCollected, Units, CountedRows
<1>8. ASSUME NEW u \in Txs PROVE UnitHolds(tx[u])'
  <2>1. CASE u = t
    <3>1. tx'[u].phase = "idle"
        BY <1>4, <2>1 DEF Idle
    <3> QED BY <3>1 DEF UnitHolds, CopyWaits, VersionHeld, SumTrue, Writing
  <2>2. CASE u # t
    <3>1. tx'[u] = tx[u] /\ UnitHolds(tx[u])
        BY <1>4, <2>2 DEF LedgerInv
    <3> QED BY <1>2, <1>3, <3>1 DEF UnitHolds, CopyWaits, VersionHeld, SumTrue, KeyTaken, Rows,
                                    SumCollected, Units, CountedRows
  <2> QED BY <2>1, <2>2
<1>9. ASSUME NEW u \in Txs, NEW v \in Txs, u # v PROVE Apart(tx[u], tx[v])'
  <2>1. \A w \in Txs : tx'[w].phase = "idle" \/ tx'[w] = tx[w]
      BY <1>4 DEF Idle
  <2>2. Apart(tx[u], tx[v])
      BY <1>9 DEF LedgerInv
  <2> QED BY <2>1, <2>2 DEF Apart, Writing
<1> QED BY <1>5, <1>6, <1>7, <1>8, <1>9 DEF LedgerInv

-----------------------------------------------------------------------------
LEMMA LedgerInit == Init => LedgerInv
<1> SUFFICES ASSUME Init PROVE LedgerInv
    OBVIOUS
<1>1. \A t \in Txs : tx[t] = Idle
    BY DEF Init
<1>2. TypeOK
  <2>1. tx \in [Txs -> Progress] /\ \A t \in Txs : TypedUnit(tx[t])
      BY <1>1, IdleHolds, IdleType DEF Init
  <2>2. ledger \in [Ids -> Entry \cup {Absent}] /\ collected \in Int
      BY DEF Init
  <2>3. cancelled \in BOOLEAN /\ raced \in BOOLEAN
      BY DEF Init
  <2> QED BY <2>1, <2>2, <2>3, TypedUnits
<1>3. Rows = {} /\ CountedRows(ledger) = {}
    BY DEF Rows, Init, CountedRows
<1>4. OneEntryPerKey /\ RefundsApprovedByAnother
    BY <1>3 DEF OneEntryPerKey, RefundsApprovedByAnother
<1>5. BalanceFollowsLedger
  <2>1. Units(ledger, 1) = {} /\ Units(ledger, -1) = {}
      BY <1>3 DEF Units
  <2> QED BY <2>1, FS_EmptySet DEF BalanceFollowsLedger, SumCollected, Init
<1>6. (\A t \in Txs : UnitHolds(tx[t])) /\ \A t, u \in Txs : t # u => Apart(tx[t], tx[u])
    BY <1>1, IdleHolds
<1> QED BY <1>2, <1>4, <1>5, <1>6 DEF LedgerInv

LEMMA NothingMoves ==
    ASSUME LedgerInv, UNCHANGED <<ledger, collected, tx, raced>>, cancelled' \in BOOLEAN
    PROVE  LedgerInv'
<1>1. TypeOK'
    BY DEF LedgerInv, TypeOK
<1>2. OneEntryPerKey' /\ RefundsApprovedByAnother' /\ BalanceFollowsLedger'
    BY DEF LedgerInv, OneEntryPerKey, RefundsApprovedByAnother, BalanceFollowsLedger, Rows,
           SumCollected, Units, CountedRows
<1>3. ASSUME NEW u \in Txs PROVE UnitHolds(tx[u])'
  <2>1. UnitHolds(tx[u])
      BY DEF LedgerInv
  <2> QED BY <2>1 DEF UnitHolds, CopyWaits, VersionHeld, SumTrue, KeyTaken, Rows, Writing,
                      SumCollected, Units, CountedRows
<1>4. \A u, v \in Txs : u # v => Apart(tx[u], tx[v])'
    BY DEF LedgerInv, Apart, Writing
<1> QED BY <1>1, <1>2, <1>3, <1>4 DEF LedgerInv

(* The invariant is inductive.                                             *)
LEMMA LedgerNext == LedgerInv /\ [Next]_vars => LedgerInv'
<1> SUFFICES ASSUME LedgerInv, [Next]_vars PROVE LedgerInv'
    OBVIOUS
<1>1. CASE Cancel
    BY <1>1, NothingMoves DEF Cancel
<1>2. ASSUME NEW t \in Txs, TxStep(t) PROVE LedgerInv'
  <2>1. CASE Record(t) \/ ReverseEntry(t) \/ Adjust(t) \/ RequestRefund(t)
      BY <2>1, RequestSteps
  <2>2. CASE Verify(t) \/ ApproveRefund(t)
      BY <2>2, DecisionSteps
  <2>3. CASE Insert(t)
      BY <2>3, InsertStep
  <2>4. CASE UpdateStatus(t)
      BY <2>4, UpdateStatusStep
  <2>5. CASE SumUp(t)
      BY <2>5, SumStep
  <2>6. CASE Commit(t)
      BY <2>6, CommitStep
  <2>7. CASE CommitOnly(t)
      BY <2>7, CommitOnlyStep
  <2>8. CASE Rollback(t)
      BY <2>8, RollbackStep
  <2>9. CASE EditRead(t)
      BY <2>9, EditReadStep
  <2>10. CASE EditCommit(t)
      BY <2>10, EditCommitStep
  <2> QED BY <1>2, <2>1, <2>2, <2>3, <2>4, <2>5, <2>6, <2>7, <2>8, <2>9, <2>10 DEF TxStep
<1>3. CASE UNCHANGED vars
    BY <1>3, NothingMoves DEF vars, LedgerInv, TypeOK
<1> QED BY <1>1, <1>2, <1>3 DEF Next

LEMMA LedgerInvariant == Spec => []LedgerInv
<1> QED BY LedgerInit, LedgerNext, PTL DEF Spec

-----------------------------------------------------------------------------
(* Type correctness, for any number of units of work, users and keys, any  *)
(* positive amounts and any size of the ledger (Record, Verify,            *)
(* ApproveRefund, recomputeBooking).                                       *)
THEOREM LedgerTypeCorrect == Spec => []TypeOK
<1>1. LedgerInv => TypeOK
    BY DEF LedgerInv
<1> QED BY <1>1, LedgerInvariant, PTL

(* No key has two entries, however requests are retried and overlap: the   *)
(* unique index decides, not the check before the insert (Record).         *)
THEOREM OneEntryPerKeyHolds == Spec => []OneEntryPerKey
<1>1. LedgerInv => OneEntryPerKey
    BY DEF LedgerInv
<1> QED BY <1>1, LedgerInvariant, PTL

(* No refund is ever approved by its requester or by nobody, although the  *)
(* check is made on a copy of the row (ApproveRefund, CheckRefundApprover).*)
THEOREM RefundsApprovedByAnotherHolds == Spec => []RefundsApprovedByAnother
<1>1. LedgerInv => RefundsApprovedByAnother
    BY DEF LedgerInv
<1> QED BY <1>1, LedgerInvariant, PTL

(* collected_amt is the sum of the ledger unless its last writer was       *)
(* overtaken by another commit (recomputeBooking, Service.Update).         *)
THEOREM BalanceFollowsLedgerHolds == Spec => []BalanceFollowsLedger
<1>1. LedgerInv => BalanceFollowsLedger
    BY DEF LedgerInv
<1> QED BY <1>1, LedgerInvariant, PTL

(* The ledger is append-only and decisions stick: commits revise only the  *)
(* status and approver of a row, along the list and never twice            *)
(* (payments_ledger_guard).                                                *)
THEOREM LedgerAppendOnlyHolds == Spec => LedgerAppendOnly
<1> DEFINE Kept(i) ==
             LET old == ledger[i]
                 new == ledger'[i]
             IN /\ new # Absent
                /\ new = [old EXCEPT !.status = new.status, !.approver = new.approver]
                /\ new.status # old.status => CanTransition(old.type, old.status, new.status)
                /\ old.approver # Absent => new.approver = old.approver
<1>1. ASSUME LedgerInv, [Next]_vars PROVE [\A i \in Rows : Kept(i)]_vars
  <2> SUFFICES ASSUME NEW i \in Rows PROVE Kept(i)
      OBVIOUS
  <2>1. i \in Ids /\ ledger[i] \in Entry /\ ledger[i] # Absent
      BY <1>1 DEF LedgerInv, TypeOK, Rows
  <2>2. CASE ledger' = ledger
    <3>1. ledger[i] = [ledger[i] EXCEPT !.status = ledger[i].status, !.approver = ledger[i].approver]
        BY <2>1 DEF Entry
    <3> QED BY <2>1, <2>2, <3>1
  <2>3. ASSUME NEW t \in Txs, Writing(tx[t]), ledger' = View(t) PROVE Kept(i)
    <3>1. /\ tx[t].id \in Ids /\ tx[t].new \in Entry /\ tx[t].new # Absent
          /\ ledger'[i] = IF i = tx[t].id THEN tx[t].new ELSE ledger[i]
        BY <1>1, <2>1, <2>3, CommittedRow
    <3>2. CASE i # tx[t].id
      <4>1. ledger'[i] = ledger[i]
          BY <3>1, <3>2
      <4>2. ledger[i] = [ledger[i] EXCEPT !.status = ledger[i].status, !.approver = ledger[i].approver]
          BY <2>1 DEF Entry
      <4> QED BY <2>1, <4>1, <4>2
    <3>3. CASE i = tx[t].id
      <4>1. /\ Revises(tx[t].new, ledger[i]) /\ ledger[i].approver = Absent
            /\ tx[t].new.status # ledger[i].status =>
                 CanTransition(ledger[i].type, ledger[i].status, tx[t].new.status)
          BY <1>1, <2>1, <2>3, <3>3 DEF LedgerInv, UnitHolds, VersionHeld
      <4>2. tx[t].new = [ledger[i] EXCEPT !.status = tx[t].new.status, !.approver = tx[t].new.approver]
          BY <2>1, <3>1, <4>1 DEF Entry, Revises
      <4> QED BY <3>1, <3>3, <4>1, <4>2
    <3> QED BY <3>2, <3>3
  <2>4. ledger' = ledger \/ \E t \in Txs : Writing(tx[t]) /\ ledger' = View(t)
      BY <1>1 DEF Next, TxStep, vars, Cancel, Record, ReverseEntry, Adjust, RequestRefund, StartInsert,
                  Verify, ApproveRefund, StartUpdate, Insert, UpdateStatus, SumUp, Commit, CommitOnly,
                  Rollback, EditRead, EditCommit, Writing
  <2> QED BY <2>2, <2>3, <2>4
<1>2. LedgerInv /\ [Next]_vars => [\A i \in Rows : Kept(i)]_vars
    BY <1>1
<1> QED BY <1>2, LedgerInvariant, PTL DEF Spec, LedgerAppendOnly

-----------------------------------------------------------------------------
(* Payment plans.                                                          *)

(* What a desk has read still gives the reason for what it will write.     *)
PlanJob(j) ==
    /\ j.op \in {"free", "resolve", "cancel", "tell", "alert", "mark"}
    /\ j.op \in {"resolve", "cancel"} =>
         /\ promise # NoRow /\ j.to \in {"kept", "broken", "cancelled"}
         /\ j.to = "kept" => covered
         /\ j.to = "broken" => planDay > promise.on
    /\ j.op = "tell" => promise # NoRow /\ promise.status = "broken" /\ brokenTold = 0
    /\ j.op \in {"alert", "mark"} => instalment # NoRow
    /\ j.op = "mark" => dueClaimed

PlanJobs ==
    /\ DOMAIN pjob = Desks
    /\ \A d \in Desks : PlanJob(pjob[d])
    /\ \A d, e \in Desks : pjob[d].op = "tell" /\ pjob[e].op = "tell" => d = e

(* The rows of a promise and of an instalment with their histories.        *)
PromiseHolds ==
    /\ PromiseSettledForAReason
    /\ promise = NoRow => brokenTask = 0
    /\ planCollected >= PromisedAmount => covered
    /\ brokenTold \in 0 .. 1
InstalmentHolds ==
    /\ dueTold = IF dueClaimed THEN 1 ELSE 0
    /\ instalment # NoRow /\ instalment.reminded => dueClaimed

PlanInv == PlanTypeOK /\ PlanJobs /\ PromiseHolds /\ InstalmentHolds

-----------------------------------------------------------------------------
(* Treasury.                                                               *)

(* A transfer holds the lock of its lower account, and nobody else holds   *)
(* any: what it waits for lies above what it holds.                        *)
Transfers(j) == j.op = "transfer" => j.from \in AccountIds /\ j.to \in AccountIds /\ j.from # j.to
LocksHeld ==
    /\ DOMAIN tjob = Desks /\ DOMAIN heldBy = AccountIds
    /\ \A d \in Desks :
         /\ Transfers(tjob[d])
         /\ tjob[d].op = "auto" => {"op", "credits"} = DOMAIN tjob[d]
    /\ \A a \in AccountIds, d \in Desks :
         heldBy[a] = d => tjob[d].op = "transfer" /\ a = LockOrder(tjob[d].from, tjob[d].to)[1]
CreditsHold == DOMAIN credit = ExternalIds /\ DOMAIN paidFor = ExternalIds /\ CreditPaidOnce

TreasuryInv == LocksHeld /\ CreditsHold

-----------------------------------------------------------------------------
(* Agencies and their letters.                                             *)
LetterHolds ==
    /\ DOMAIN rjob = Desks
    /\ \A d \in Desks : rjob[d].op = "answer" => letter # NoRow /\ rjob[d].to \in {"confirmed", "disputed"}
    /\ answers \in Nat /\ AnsweredOnce
ReasonGiven == agency.reason # "" <=> agency.status = "suspended"

ReceivablesInv == ReceivablesTypeOK /\ LetterHolds /\ ReasonGiven

-----------------------------------------------------------------------------
(* Exchange rates.  A row is known by its id, which no later row has.      *)
RateShape(row) == row = NoRow \/ (DOMAIN row = {"scaled", "source", "id"} /\ row.id \in Nat /\ row.id <= rateIds)
RateJob(j) ==
    j.op = "update" =>
      /\ j.dir \in Directions /\ j.day \in FxDays /\ j.row.id \in Nat /\ j.row.id <= rateIds
      /\ rates[j.dir][j.day] # NoRow /\ rates[j.dir][j.day].id = j.row.id => rates[j.dir][j.day].source = j.row.source
RatesHold ==
    /\ rateIds \in Nat
    /\ DOMAIN rates = Directions /\ \A r \in Directions : DOMAIN rates[r] = FxDays
    /\ \A r \in Directions, day \in FxDays : RateShape(rates[r][day])
    /\ DOMAIN fxjob = Desks /\ \A d \in Desks : RateJob(fxjob[d])

(* A snapshot is stored with the instant of a clock that has started.      *)
Snapshot == [fetched : Int, attempted : Int, next : Int, ok : BOOLEAN]
StoreJob(j) == j.op = "store" => {"op", "now", "good", "todo"} = DOMAIN j /\ j.now \in Nat \ {0}
SnapshotsHold ==
    /\ tick \in Nat \ {0}
    /\ DOMAIN snaps = Kinds /\ \A k \in Kinds : snaps[k] \in Snapshot \cup {NoRow}
    /\ \A d \in Desks : StoreJob(fxjob[d])

FxInv == RatesHold /\ SnapshotsHold

ServicesInv == PlanInv /\ TreasuryInv /\ ReceivablesInv /\ FxInv

-----------------------------------------------------------------------------
(* The plans, one lemma per group of operations.                           *)
LEMMA PlanInitHolds == PlanInit => PlanInv
  <1>. SUFFICES ASSUME PlanInit
                PROVE  PlanInv
    OBVIOUS
  <1>1. PlanTypeOK
    BY PlanAssumption DEF PlanInit, PlanTypeOK, PlanDays
  <1>2. PlanJobs
    BY DEF PlanInit, PlanJobs, PlanJob, Free
  <1>3. PromiseHolds /\ InstalmentHolds
    BY PlanAssumption DEF PlanInit, PromiseHolds, InstalmentHolds, PromiseSettledForAReason
  <1>. QED  BY <1>1, <1>2, <1>3 DEF PlanInv

(* A desk takes up a job, or drops it, and the rows stay.                  *)
LEMMA PlanDesk ==
    ASSUME PlanInv, NEW d \in Desks, NEW j, pjob' = [pjob EXCEPT ![d] = j], PlanJob(j), j.op # "tell",
           UNCHANGED <<promiseVars, instalmentVars, planDay>>
    PROVE  PlanInv'
  <1>1. /\ DOMAIN pjob' = Desks /\ pjob'[d] = j
        /\ \A e \in Desks \ {d} : pjob'[e] = pjob[e]
    BY DEF PlanInv, PlanJobs
  <1>2. PlanJobs'
    <2>1. \A e \in Desks : PlanJob(pjob[e])
      BY DEF PlanInv, PlanJobs
    <2>2. \A e \in Desks : PlanJob(pjob'[e])
      BY <1>1, <2>1
    <2>3. \A e \in Desks : PlanJob(pjob[e])'
      BY <2>2 DEF PlanJob, promiseVars, instalmentVars
    <2>. QED  BY <1>1, <2>3 DEF PlanInv, PlanJobs
  <1>3. PlanTypeOK' /\ PromiseHolds' /\ InstalmentHolds'
    BY DEF PlanInv, PlanTypeOK, PromiseHolds, PromiseSettledForAReason, InstalmentHolds, promiseVars, instalmentVars
  <1>. QED  BY <1>2, <1>3 DEF PlanInv

LEMMA PlanFree == PlanJob(Free) /\ Free.op # "tell"
  BY DEF PlanJob, Free

LEMMA PlanReads ==
    ASSUME PlanInv, NEW d \in Desks,
           ResolveDue(d) \/ CancelPromise(d) \/ ListDueForReminder(d) \/ PlanCrash(d)
    PROVE  PlanInv'
  <1>1. CASE ResolveDue(d)
    <2>. DEFINE j == [op |-> "resolve", to |-> EffectiveOutcome]
    <2>1. /\ promise # NoRow /\ promise.status = "open" /\ EffectiveOutcome # "open"
          /\ pjob' = [pjob EXCEPT ![d] = j] /\ UNCHANGED <<promiseVars, instalmentVars, planDay>>
      BY <1>1 DEF ResolveDue, ReadPromise, OpenPromise
    <2>2. PlanJob(j) /\ j.op # "tell"
      BY <2>1 DEF PlanJob, EffectiveOutcome, Outcome, PlanInv, PromiseHolds
    <2>. HIDE DEF j
    <2>. QED  BY <2>1, <2>2, PlanDesk
  <1>2. CASE CancelPromise(d)
    <2>. DEFINE j == [op |-> "cancel", to |-> "cancelled"]
    <2>1. /\ promise # NoRow
          /\ pjob' = [pjob EXCEPT ![d] = j] /\ UNCHANGED <<promiseVars, instalmentVars, planDay>>
      BY <1>2 DEF CancelPromise, ReadPromise, OpenPromise
    <2>2. PlanJob(j) /\ j.op # "tell"
      BY <2>1 DEF PlanJob
    <2>. HIDE DEF j
    <2>. QED  BY <2>1, <2>2, PlanDesk
  <1>3. CASE ListDueForReminder(d)
    <2>. DEFINE j == [op |-> "alert"]
    <2>1. /\ instalment # NoRow
          /\ pjob' = [pjob EXCEPT ![d] = j] /\ UNCHANGED <<promiseVars, instalmentVars, planDay>>
      BY <1>3 DEF ListDueForReminder
    <2>2. PlanJob(j) /\ j.op # "tell"
      BY <2>1 DEF PlanJob
    <2>. HIDE DEF j
    <2>. QED  BY <2>1, <2>2, PlanDesk
  <1>4. CASE PlanCrash(d)
    BY <1>4, PlanFree, PlanDesk DEF PlanCrash
  <1>. QED  BY <1>1, <1>2, <1>3, <1>4

LEMMA CreatePromiseKeeps ==
    ASSUME PlanInv, NEW on \in PlanDays, CreatePromise(on)
    PROVE  PlanInv'
  <1>. DEFINE row == [status |-> "open", on |-> on]
  <1>1. /\ promise = NoRow /\ promise' = row /\ followUp' = "open" /\ planCollected' = 0 /\ covered' = FALSE
        /\ UNCHANGED <<brokenTask, bookingOff, brokenTold, instalmentVars, planDay, pjob>>
    BY DEF CreatePromise
  <1>2. row \in PromiseRow /\ row.status = "open"
    BY DEF PromiseRow, PromiseStatuses
  <1>. HIDE DEF row
  <1>3. PlanTypeOK'
    BY <1>1, <1>2, PlanAssumption DEF PlanInv, PlanTypeOK, instalmentVars
  <1>4. PlanJobs'
    <2>1. \A d \in Desks : PlanJob(pjob[d])'
      BY <1>1 DEF PlanInv, PlanJobs, PlanJob, instalmentVars
    <2>. QED  BY <1>1, <2>1 DEF PlanInv, PlanJobs
  <1>5. PromiseHolds' /\ InstalmentHolds'
    BY <1>1, <1>2, PlanAssumption
       DEF PlanInv, PromiseHolds, PromiseSettledForAReason, InstalmentHolds, instalmentVars
  <1>. QED  BY <1>3, <1>4, <1>5 DEF PlanInv

LEMMA ResolvePromiseKeeps ==
    ASSUME PlanInv, NEW d \in Desks, ResolvePromise(d)
    PROVE  PlanInv'
  <1>. DEFINE to == pjob[d].to
  <1>1. /\ PlanTypeOK /\ PlanJobs /\ PromiseHolds /\ InstalmentHolds
        /\ pjob[d].op \in {"resolve", "cancel"}
        /\ UNCHANGED <<planCollected, bookingOff, covered, brokenTold, instalmentVars, planDay>>
    BY DEF PlanInv, ResolvePromise
  <1>2. /\ promise \in PromiseRow /\ promise # NoRow /\ to \in {"kept", "broken", "cancelled"}
        /\ to = "kept" => covered
        /\ to = "broken" => planDay > promise.on
    BY <1>1 DEF PlanJobs, PlanJob, PlanTypeOK
  <1>3. CASE promise.status # "open"
    <2>1. pjob' = [pjob EXCEPT ![d] = Free] /\ UNCHANGED <<promise, followUp, brokenTask>>
      BY <1>3 DEF ResolvePromise
    <2>2. UNCHANGED <<promiseVars, instalmentVars, planDay>>
      BY <1>1, <2>1 DEF promiseVars
    <2>. QED  BY <2>1, <2>2, PlanFree, PlanDesk
  <1>4. CASE promise.status = "open"
    <2>. DEFINE j == IF to = "broken" THEN [op |-> "tell"] ELSE Free
    <2>1. /\ promise' = [promise EXCEPT !.status = to]
          /\ to = "broken" => brokenTask' = 1 /\ followUp' = followUp
          /\ to # "broken" => /\ brokenTask' = brokenTask
                              /\ followUp' = (IF followUp = "open" THEN IF to = "kept" THEN "done" ELSE "cancelled"
                                              ELSE followUp)
          /\ pjob' = [pjob EXCEPT ![d] = j]
      BY <1>2, <1>4 DEF ResolvePromise, EnsurePromiseBroken, CloseTask
    <2>2. promise' \in PromiseRow /\ promise'.status = to /\ promise'.on = promise.on /\ promise' # NoRow
      BY <1>2, <2>1, PlanAssumption DEF PromiseRow, PromiseStatuses
    <2>3. brokenTask = 0 /\ brokenTold = 0
      BY <1>1, <1>2, <1>4 DEF PromiseHolds, PromiseSettledForAReason, PlanTypeOK
    <2>4. PlanTypeOK'
      BY <1>1, <1>2, <2>1, <2>2 DEF PlanTypeOK, instalmentVars
    <2>5. PromiseHolds'
      BY <1>1, <1>2, <2>1, <2>2, <2>3 DEF PromiseHolds, PromiseSettledForAReason, PlanTypeOK
    <2>6. InstalmentHolds'
      BY <1>1 DEF InstalmentHolds, instalmentVars
    <2>7. /\ DOMAIN pjob' = Desks /\ pjob'[d] = j
          /\ \A e \in Desks \ {d} : pjob'[e] = pjob[e] /\ pjob[e].op # "tell"
      BY <1>1, <1>4, <2>1 DEF PlanJobs, PlanJob
    <2>8. j.op \in {"free", "tell"} /\ (j.op = "tell" => to = "broken")
      BY DEF Free
    <2>. HIDE DEF j
    <2>9. \A e \in Desks \ {d} : PlanJob(pjob[e])'
      <3>1. \A e \in Desks \ {d} : PlanJob(pjob[e])
        BY <1>1 DEF PlanJobs
      <3>. QED  BY <1>1, <2>2, <2>7, <3>1 DEF PlanJob, instalmentVars
    <2>10. PlanJob(pjob[d])'
      BY <1>1, <2>2, <2>3, <2>7, <2>8 DEF PlanJob, instalmentVars
    <2>11. PlanJobs'
      BY <2>7, <2>9, <2>10 DEF PlanJobs
    <2>. QED  BY <2>4, <2>5, <2>6, <2>11 DEF PlanInv
  <1>. QED  BY <1>3, <1>4

LEMMA NotifyKeeps ==
    ASSUME PlanInv, NEW d \in Desks, NotifyPromiseBroken(d)
    PROVE  PlanInv'
  <1>1. /\ PlanTypeOK /\ PlanJobs /\ PromiseHolds /\ InstalmentHolds
        /\ pjob[d].op = "tell" /\ brokenTold' = brokenTold + 1 /\ pjob' = [pjob EXCEPT ![d] = Free]
        /\ UNCHANGED <<promise, followUp, brokenTask, planCollected, bookingOff, covered, instalmentVars, planDay>>
    BY DEF PlanInv, NotifyPromiseBroken
  <1>2. promise # NoRow /\ promise.status = "broken" /\ brokenTold = 0
    BY <1>1 DEF PlanJobs, PlanJob
  <1>3. PlanTypeOK' /\ InstalmentHolds'
    BY <1>1 DEF PlanTypeOK, InstalmentHolds, instalmentVars
  <1>4. PromiseHolds'
    BY <1>1, <1>2 DEF PromiseHolds, PromiseSettledForAReason
  <1>5. /\ DOMAIN pjob' = Desks /\ pjob'[d] = Free
        /\ \A e \in Desks \ {d} : pjob'[e] = pjob[e] /\ pjob[e].op # "tell"
    BY <1>1 DEF PlanJobs
  <1>6. \A e \in Desks : PlanJob(pjob[e]) 
    BY <1>1 DEF PlanJobs
  <1>7. \A e \in Desks \ {d} : PlanJob(pjob[e])'
    BY <1>1, <1>5, <1>6 DEF PlanJob, instalmentVars
  <1>8. PlanJob(pjob[d])' /\ Free.op # "tell"
    BY <1>5 DEF PlanJob, Free
  <1>9. PlanJobs'
    BY <1>5, <1>7, <1>8 DEF PlanJobs
  <1>. QED  BY <1>3, <1>4, <1>9 DEF PlanInv

(* The instalment, or its history, changes and the promise stays.          *)
LEMMA InstalmentStep ==
    ASSUME PlanInv, UNCHANGED <<promiseVars, planDay>>, instalment' \in InstalmentRow \cup {NoRow},
           InstalmentHolds', PlanJobs'
    PROVE  PlanInv'
  <1>1. PlanTypeOK' /\ PromiseHolds'
    BY DEF PlanInv, PlanTypeOK, PromiseHolds, PromiseSettledForAReason, promiseVars
  <1>. QED  BY <1>1 DEF PlanInv

LEMMA ScheduleKeeps ==
    ASSUME PlanInv, (\E due \in PlanDays : UpsertSchedule(due)) \/ CancelSchedule \/ MarkSchedulesOverdue
    PROVE  PlanInv'
  <1>1. PlanTypeOK /\ PlanJobs /\ InstalmentHolds
    BY DEF PlanInv
  <1>2. UNCHANGED <<promiseVars, dueClaimed, dueTold, planDay, pjob>>
    BY DEF UpsertSchedule, CancelSchedule, MarkSchedulesOverdue
  <1>3. /\ instalment' \in InstalmentRow
        /\ instalment'.reminded => instalment # NoRow /\ instalment.reminded
    <2>1. ASSUME NEW due \in PlanDays, UpsertSchedule(due)
          PROVE  instalment' \in InstalmentRow /\ ~instalment'.reminded
      BY <2>1 DEF UpsertSchedule, InstalmentRow, ScheduleStatuses
    <2>2. ASSUME NEW s \in ScheduleStatuses, instalment # NoRow, instalment' = [instalment EXCEPT !.status = s]
          PROVE  instalment' \in InstalmentRow /\ instalment'.reminded = instalment.reminded
      <3>1. instalment \in InstalmentRow
        BY <1>1, <2>2 DEF PlanTypeOK
      <3>. QED  BY <2>2, <3>1 DEF InstalmentRow
    <2>. QED  BY <2>1, <2>2 DEF CancelSchedule, MarkSchedulesOverdue, ScheduleStatuses
  <1>4. instalment' # NoRow
    BY <1>3, PlanAssumption
  <1>5. InstalmentHolds'
    BY <1>1, <1>2, <1>3 DEF InstalmentHolds
  <1>6. PlanJobs'
    <2>1. \A e \in Desks : PlanJob(pjob[e])
      BY <1>1 DEF PlanJobs
    <2>2. \A e \in Desks : PlanJob(pjob[e])'
      BY <1>2, <1>4, <2>1 DEF PlanJob, promiseVars
    <2>. QED  BY <1>1, <1>2, <2>2 DEF PlanJobs
  <1>. QED  BY <1>2, <1>3, <1>5, <1>6, InstalmentStep

(* Both steps of the reminder.                                             *)
LEMMA ReminderKeeps ==
    ASSUME PlanInv, NEW d \in Desks, PaymentDueAlert(d) \/ MarkReminderSent(d)
    PROVE  PlanInv'
  <1>. DEFINE j == pjob'[d]
  <1>1. PlanTypeOK /\ PlanJobs /\ InstalmentHolds
    BY DEF PlanInv
  <1>2. /\ UNCHANGED <<promiseVars, planDay>> /\ pjob[d].op \in {"alert", "mark"}
        /\ dueClaimed => dueClaimed'
        /\ \/ pjob' = [pjob EXCEPT ![d] = [op |-> "mark"]] /\ dueClaimed'
           \/ pjob' = [pjob EXCEPT ![d] = Free]
    BY DEF PaymentDueAlert, MarkReminderSent
  <1>3. instalment \in InstalmentRow /\ instalment # NoRow
    BY <1>1, <1>2 DEF PlanJobs, PlanJob, PlanTypeOK
  <1>4. instalment' \in InstalmentRow /\ InstalmentHolds'
    <2>1. CASE PaymentDueAlert(d)
      BY <1>1, <1>3, <2>1 DEF PaymentDueAlert, InstalmentHolds
    <2>2. CASE MarkReminderSent(d)
      <3>1. dueClaimed
        BY <1>1, <2>2 DEF MarkReminderSent, PlanJobs, PlanJob
      <3>2. instalment' \in InstalmentRow
        BY <1>3, <2>2 DEF MarkReminderSent, InstalmentRow
      <3>. QED  BY <1>1, <2>2, <3>1, <3>2 DEF MarkReminderSent, InstalmentHolds
    <2>. QED  BY <2>1, <2>2
  <1>5. instalment' # NoRow
    BY <1>4, PlanAssumption
  <1>6. /\ DOMAIN pjob' = Desks /\ j.op \in {"free", "mark"} /\ (j.op = "mark" => dueClaimed')
        /\ \A e \in Desks \ {d} : pjob'[e] = pjob[e]
    BY <1>1, <1>2 DEF PlanJobs, Free
  <1>7. PlanJobs'
    <2>1. \A e \in Desks : PlanJob(pjob[e])
      BY <1>1 DEF PlanJobs
    <2>2. \A e \in Desks \ {d} : PlanJob(pjob[e])'
      BY <1>2, <1>5, <1>6, <2>1 DEF PlanJob, promiseVars
    <2>3. PlanJob(pjob[d])'
      BY <1>5, <1>6 DEF PlanJob
    <2>. QED  BY <1>1, <1>6, <2>2, <2>3 DEF PlanJobs
  <1>. QED  BY <1>2, <1>4, <1>7, InstalmentStep

(* What goes on around the plans.                                          *)
LEMMA AroundPlansKeeps ==
    ASSUME PlanInv, (\E n \in 0 .. MaxCollected : Money(n)) \/ PlanOutside
    PROVE  PlanInv'
  <1>1. PlanTypeOK /\ PlanJobs /\ PromiseHolds /\ InstalmentHolds
    BY DEF PlanInv
  <1>2. /\ UNCHANGED <<promise, brokenTask, brokenTold, instalmentVars, pjob>>
        /\ covered => covered'
        /\ planCollected' >= PromisedAmount => covered'
        /\ planCollected' \in 0 .. MaxCollected
        /\ planDay' \in PlanDays /\ planDay <= planDay'
        /\ followUp' \in {followUp, "done", "cancelled"}
    <2>1. ASSUME NEW n \in 0 .. MaxCollected, Money(n)
          PROVE  <1>2!:
      <3>1. planCollected' = n /\ covered' = (covered \/ n >= PromisedAmount)
        BY <2>1, Zenon DEF Money
      <3>2. (covered => covered') /\ (planCollected' >= PromisedAmount => covered')
        BY <3>1, Zenon
      <3>3. /\ UNCHANGED <<promise, brokenTask, brokenTold, instalmentVars, pjob>>
            /\ planDay' = planDay /\ followUp' = followUp
        BY <2>1 DEF Money
      <3>. QED  BY <1>1, <3>1, <3>2, <3>3 DEF PlanTypeOK, PlanDays
    <2>2. CASE PlanOutside
      BY <1>1, <2>2, PlanAssumption DEF PlanOutside, PlanTypeOK, PlanDays, CloseTask, PromiseHolds, promiseVars
    <2>. QED  BY <2>1, <2>2
  <1>3. PlanTypeOK' /\ InstalmentHolds'
    BY <1>1, <1>2 DEF PlanTypeOK, InstalmentHolds, instalmentVars
  <1>4. promise # NoRow => promise.on \in Int
    BY <1>1 DEF PlanTypeOK, PromiseRow, PlanDays
  <1>5. planDay \in Int /\ planDay' \in Int
    BY <1>1, <1>2 DEF PlanTypeOK, PlanDays
  <1>6. PromiseHolds'
    BY <1>1, <1>2, <1>4, <1>5 DEF PromiseHolds, PromiseSettledForAReason
  <1>7. PlanJobs'
    <2>1. \A e \in Desks : PlanJob(pjob[e])
      BY <1>1 DEF PlanJobs
    <2>2. \A e \in Desks : PlanJob(pjob[e])'
      BY <1>2, <1>4, <1>5, <2>1 DEF PlanJob, instalmentVars
    <2>. QED  BY <1>1, <1>2, <2>2 DEF PlanJobs
  <1>. QED  BY <1>3, <1>6, <1>7 DEF PlanInv

LEMMA PlanInvNext == PlanInv /\ [PlanNext]_planVars => PlanInv'
  <1>. SUFFICES ASSUME PlanInv, [PlanNext]_planVars
                PROVE  PlanInv'
    OBVIOUS
  <1>1. CASE UNCHANGED planVars
    BY <1>1 DEF planVars, promiseVars, instalmentVars, PlanInv, PlanTypeOK, PlanJobs, PlanJob, PromiseHolds,
                PromiseSettledForAReason, InstalmentHolds
  <1>2. CASE PlanNext
    BY <1>2, CreatePromiseKeeps, ScheduleKeeps, AroundPlansKeeps, PlanReads, ResolvePromiseKeeps, NotifyKeeps,
       ReminderKeeps DEF PlanNext
  <1>. QED  BY <1>1, <1>2

LEMMA PlanSettled == PlanInv => PlanTypeOK /\ PromiseSettledForAReason /\ DueToldOnce
  BY DEF PlanInv, PromiseHolds, InstalmentHolds, DueToldOnce

-----------------------------------------------------------------------------
(* The treasury.                                                           *)
LEMMA LockOrderIs ==
    ASSUME NEW from \in AccountIds, NEW to \in AccountIds, from # to
    PROVE  /\ LockOrder(from, to)[1] \in AccountIds /\ LockOrder(from, to)[2] \in AccountIds
           /\ LockOrder(from, to)[1] < LockOrder(from, to)[2]
  <1>1. from \in Nat /\ to \in Nat
    BY TreasuryAssumption
  <1>. QED  BY <1>1 DEF LockOrder

(* Locks are taken in the order of the accounts, so no two transfers wait  *)
(* for each other.                                                         *)
LEMMA NoLockCycleFollows == LocksHeld => NoLockCycle
  <1>. SUFFICES ASSUME LocksHeld, NEW d \in Desks, NEW e \in Desks,
                       tjob[d].op = "transfer", tjob[e].op = "transfer",
                       heldBy[Awaited(d)] = e, heldBy[Awaited(e)] = d
                PROVE  FALSE
    BY DEF NoLockCycle
  <1>. DEFINE low(x)  == LockOrder(tjob[x].from, tjob[x].to)[1]
              high(x) == LockOrder(tjob[x].from, tjob[x].to)[2]
  <1>1. \A x \in {d, e} : low(x) \in AccountIds /\ high(x) \in AccountIds /\ low(x) < high(x)
    BY LockOrderIs DEF LocksHeld, Transfers
  <1>2. low(e) = high(d) /\ low(d) = high(e)
    BY <1>1 DEF LocksHeld, Awaited
  <1>3. low(d) \in Nat /\ high(d) \in Nat /\ low(d) < high(d) /\ low(e) < high(e)
    <2>. HIDE DEF low, high
    <2>. QED  BY <1>1, TreasuryAssumption
  <1>. HIDE DEF low, high
  <1>. QED  BY <1>2, <1>3

LEMMA TreasuryInitHolds == TreasuryInit => TreasuryInv
  <1>. SUFFICES ASSUME TreasuryInit
                PROVE  TreasuryInv
    OBVIOUS
  <1>1. LocksHeld
    BY TreasuryAssumption DEF TreasuryInit, LocksHeld, Transfers, Free
  <1>2. CreditsHold
    BY TreasuryAssumption DEF TreasuryInit, CreditsHold, CreditPaidOnce, MatchStatuses
  <1>. QED  BY <1>1, <1>2 DEF TreasuryInv

LEMMA NoTransfer == Free.op # "transfer" /\ Free.op # "auto"
  BY DEF Free

(* A desk that is in no transfer takes up a job that is none.              *)
LEMMA OtherWork ==
    ASSUME LocksHeld, NEW d \in Desks, NEW j, tjob[d].op # "transfer", tjob' = [tjob EXCEPT ![d] = j],
           j.op # "transfer", j.op = "auto" => DOMAIN j = {"op", "credits"}, heldBy' = heldBy
    PROVE  LocksHeld'
  <1>1. /\ DOMAIN tjob' = Desks /\ tjob'[d] = j
        /\ \A e \in Desks \ {d} : tjob'[e] = tjob[e]
    BY DEF LocksHeld
  <1>2. \A a \in AccountIds : heldBy[a] # d
    BY DEF LocksHeld
  <1>. QED  BY <1>1, <1>2 DEF LocksHeld, Transfers

(* Locks and jobs stay; so do the credits.                                 *)
LEMMA LocksStay ==
    ASSUME LocksHeld, UNCHANGED <<heldBy, tjob>>
    PROVE  LocksHeld'
  BY DEF LocksHeld, Transfers
LEMMA CreditsStay ==
    ASSUME CreditsHold, UNCHANGED feedVars
    PROVE  CreditsHold'
  BY DEF CreditsHold, CreditPaidOnce, feedVars

LEMMA TransferLockKeeps ==
    ASSUME TreasuryInv, NEW d \in Desks, NEW from \in AccountIds, NEW to \in AccountIds, TransferLock(d, from, to)
    PROVE  TreasuryInv'
  <1>. DEFINE j == [op |-> "transfer", from |-> from, to |-> to]
              low == LockOrder(from, to)[1]
  <1>1. /\ LocksHeld /\ CreditsHold /\ tjob[d] = Free /\ from # to
        /\ heldBy[low] = NoRow /\ heldBy' = [heldBy EXCEPT ![low] = d]
        /\ tjob' = [tjob EXCEPT ![d] = j] /\ UNCHANGED feedVars
    BY DEF TreasuryInv, TransferLock
  <1>2. j.op = "transfer" /\ j.from = from /\ j.to = to /\ tjob[d].op # "transfer"
    BY <1>1 DEF Free
  <1>3. \A a \in AccountIds : heldBy[a] # d
    BY <1>1, <1>2 DEF LocksHeld
  <1>. HIDE DEF j
  <1>4. /\ DOMAIN tjob' = Desks /\ tjob'[d] = j
        /\ \A e \in Desks \ {d} : tjob'[e] = tjob[e]
    BY <1>1 DEF LocksHeld
  <1>5. low = LockOrder(j.from, j.to)[1]
    BY <1>2
  <1>. HIDE DEF low
  <1>6. /\ DOMAIN heldBy' = AccountIds
        /\ \A a \in AccountIds : heldBy'[a] = IF a = low THEN d ELSE heldBy[a]
    BY <1>1 DEF LocksHeld
  <1>7. \A e \in Desks : Transfers(tjob'[e]) /\ (tjob'[e].op = "auto" => {"op", "credits"} = DOMAIN tjob'[e])
    <2>1. Transfers(j) /\ j.op # "auto"
      BY <1>1, <1>2 DEF Transfers
    <2>. QED  BY <1>1, <1>4, <2>1 DEF LocksHeld
  <1>8. ASSUME NEW a \in AccountIds, NEW e \in Desks, heldBy'[a] = e
        PROVE  tjob'[e].op = "transfer" /\ a = LockOrder(tjob'[e].from, tjob'[e].to)[1]
    <2>1. CASE a = low
      BY <1>2, <1>4, <1>5, <1>6, <1>8, <2>1
    <2>2. CASE a # low
      <3>1. heldBy[a] = e /\ e # d
        BY <1>3, <1>6, <1>8, <2>2
      <3>. QED  BY <1>1, <1>4, <3>1 DEF LocksHeld
    <2>. QED  BY <2>1, <2>2
  <1>9. LocksHeld'
    BY <1>4, <1>6, <1>7, <1>8 DEF LocksHeld, Transfers
  <1>. QED  BY <1>1, <1>9, CreditsStay DEF TreasuryInv

(* A desk gives up its locks.                                              *)
LEMMA ReleaseKeeps ==
    ASSUME TreasuryInv, NEW d \in Desks, tjob' = [tjob EXCEPT ![d] = Free], UNCHANGED feedVars,
           heldBy' = [a \in AccountIds |-> IF heldBy[a] = d THEN NoRow ELSE heldBy[a]]
    PROVE  TreasuryInv'
  <1>1. /\ LocksHeld /\ CreditsHold /\ DOMAIN tjob' = Desks /\ tjob'[d] = Free /\ Free.op = "free"
        /\ \A e \in Desks \ {d} : tjob'[e] = tjob[e]
    BY DEF TreasuryInv, LocksHeld, Free
  <1>2. \A a \in AccountIds, e \in Desks : heldBy'[a] = e => e # d /\ heldBy[a] = e
    BY TreasuryAssumption
  <1>3. LocksHeld'
    BY <1>1, <1>2 DEF LocksHeld, Transfers
  <1>. QED  BY <1>1, <1>3, CreditsStay DEF TreasuryInv

(* settle pays for a credit in the step that takes it from the waiting.    *)
LEMMA SettleKeeps ==
    ASSUME CreditsHold, NEW e, Settle(e)
    PROVE  CreditsHold'
  <1>1. CASE Unresolved(e)
    <2>1. credit' = [credit EXCEPT ![e] = "matched"] /\ paidFor' = [paidFor EXCEPT ![e] = @ + 1] /\ credit[e] = "unmatched"
      BY <1>1 DEF Settle, Unresolved
    <2>. QED  BY <2>1 DEF CreditsHold, CreditPaidOnce
  <1>2. CASE ~Unresolved(e)
    BY <1>2, CreditsStay DEF Settle
  <1>. QED  BY <1>1, <1>2

LEMMA ImportFeedKeeps ==
    ASSUME TreasuryInv, NEW d \in Desks, NEW a, NEW rows, ImportFeed(d, a, rows)
    PROVE  TreasuryInv'
  <1>1. PICK new :
          /\ tjob[d] = Free /\ UNCHANGED <<heldBy, paidFor>>
          /\ credit' = [e \in ExternalIds |-> IF e \in new /\ credit[e] = NoRow THEN "unmatched" ELSE credit[e]]
          /\ tjob' = [tjob EXCEPT ![d] = IF new = {} THEN Free ELSE [op |-> "auto", credits |-> new]]
    BY DEF ImportFeed
  <1>. DEFINE j == IF new = {} THEN Free ELSE [op |-> "auto", credits |-> new]
  <1>2. LocksHeld /\ CreditsHold /\ tjob[d].op # "transfer" /\ tjob' = [tjob EXCEPT ![d] = j]
    BY <1>1 DEF TreasuryInv, Free
  <1>3. j.op # "transfer" /\ (j.op = "auto" => DOMAIN j = {"op", "credits"})
    BY DEF Free
  <1>. HIDE DEF j
  <1>4. LocksHeld'
    BY <1>1, <1>2, <1>3, OtherWork
  <1>5. CreditsHold'
    BY <1>1, <1>2, TreasuryAssumption DEF CreditsHold, CreditPaidOnce, MatchStatuses
  <1>. QED  BY <1>4, <1>5 DEF TreasuryInv

LEMMA MatchingKeeps ==
    ASSUME TreasuryInv, NEW d \in Desks,
           \/ \E hits \in SUBSET {1, 2} : AutoMatch(d, hits)
           \/ \E e \in ExternalIds : ReadMovement(d, "match", e) \/ ReadMovement(d, "ignore", e)
           \/ Match(d) \/ Ignore(d)
    PROVE  TreasuryInv'
  <1>1. LocksHeld /\ CreditsHold
    BY DEF TreasuryInv
  <1>2. ASSUME NEW hits, AutoMatch(d, hits)
        PROVE  TreasuryInv'
    <2>1. PICK e \in tjob[d].credits :
            /\ IF MatchCredit(hits) THEN Settle(e) ELSE UNCHANGED feedVars
            /\ tjob' = [tjob EXCEPT ![d] = IF tjob[d].credits \ {e} = {} THEN Free
                                           ELSE [tjob[d] EXCEPT !.credits = tjob[d].credits \ {e}]]
      BY <1>2 DEF AutoMatch
    <2>. DEFINE j == IF tjob[d].credits \ {e} = {} THEN Free
                     ELSE [tjob[d] EXCEPT !.credits = tjob[d].credits \ {e}]
    <2>2. /\ tjob[d].op = "auto" /\ DOMAIN tjob[d] = {"op", "credits"} /\ heldBy' = heldBy
          /\ tjob' = [tjob EXCEPT ![d] = j]
      BY <1>1, <1>2, <2>1 DEF AutoMatch, LocksHeld, accountVars
    <2>3. j.op # "transfer" /\ (j.op = "auto" => DOMAIN j = {"op", "credits"})
      BY <2>2 DEF Free
    <2>. HIDE DEF j
    <2>4. LocksHeld'
      BY <1>1, <2>2, <2>3, OtherWork
    <2>5. CreditsHold'
      BY <1>1, <2>1, SettleKeeps, CreditsStay
    <2>. QED  BY <2>4, <2>5 DEF TreasuryInv
  <1>3. ASSUME NEW e, NEW op \in {"match", "ignore"}, ReadMovement(d, op, e)
        PROVE  TreasuryInv'
    <2>. DEFINE j == [op |-> op, id |-> e]
    <2>1. tjob[d].op # "transfer" /\ tjob' = [tjob EXCEPT ![d] = j] /\ heldBy' = heldBy /\ UNCHANGED feedVars
      BY <1>3 DEF ReadMovement, Free, accountVars
    <2>2. j.op # "transfer" /\ j.op # "auto"
      OBVIOUS
    <2>. HIDE DEF j
    <2>3. LocksHeld'
      BY <1>1, <2>1, <2>2, OtherWork
    <2>. QED  BY <1>1, <2>1, <2>3, CreditsStay DEF TreasuryInv
  <1>4. ASSUME Match(d) \/ Ignore(d)
        PROVE  TreasuryInv'
    <2>1. tjob[d].op # "transfer" /\ tjob' = [tjob EXCEPT ![d] = Free] /\ heldBy' = heldBy
      BY <1>4 DEF Match, Ignore, accountVars
    <2>2. LocksHeld'
      BY <1>1, <2>1, NoTransfer, OtherWork
    <2>3. CASE Match(d)
      BY <1>1, <2>2, <2>3, SettleKeeps DEF Match, TreasuryInv
    <2>4. CASE Ignore(d)
      <3>1. CreditsHold'
        BY <1>1, <2>4 DEF Ignore, Unresolved, CreditsHold, CreditPaidOnce
      <3>. QED  BY <2>2, <3>1 DEF TreasuryInv
    <2>. QED  BY <1>4, <2>3, <2>4
  <1>. QED  BY <1>2, <1>3, <1>4

LEMMA PostingKeeps ==
    ASSUME TreasuryInv,
           \/ \E a, kind, dir, fee : PostMovement(a, kind, dir, fee)
           \/ \E a, b : UpdateAccount(a, b)
           \/ \E a : TopUpDeposit(a)
    PROVE  TreasuryInv'
  <1>1. LocksHeld /\ CreditsHold
    BY DEF TreasuryInv
  <1>2. UNCHANGED <<heldBy, tjob>> /\ UNCHANGED feedVars
    BY DEF PostMovement, UpdateAccount, TopUpDeposit, PostOn
  <1>. QED  BY <1>1, <1>2, LocksStay, CreditsStay DEF TreasuryInv

LEMMA PayablesKeep ==
    ASSUME TreasuryInv, NEW d \in Desks, ReadPayable(d) \/ \E a : PayInvoice(d, a)
    PROVE  TreasuryInv'
  <1>1. LocksHeld /\ CreditsHold
    BY DEF TreasuryInv
  <1>2. CASE ReadPayable(d)
    <2>. DEFINE j == [op |-> "pay", inv |-> invoice, f |-> sup]
    <2>1. tjob[d].op # "transfer" /\ tjob' = [tjob EXCEPT ![d] = j] /\ heldBy' = heldBy /\ UNCHANGED feedVars
      BY <1>2 DEF ReadPayable, Free, accountVars
    <2>2. j.op # "transfer" /\ j.op # "auto"
      OBVIOUS
    <2>. HIDE DEF j
    <2>3. LocksHeld'
      BY <1>1, <2>1, <2>2, OtherWork
    <2>. QED  BY <1>1, <2>1, <2>3, CreditsStay DEF TreasuryInv
  <1>3. ASSUME NEW a, PayInvoice(d, a)
        PROVE  TreasuryInv'
    <2>1. tjob[d].op # "transfer" /\ tjob' = [tjob EXCEPT ![d] = Free] /\ heldBy' = heldBy /\ UNCHANGED feedVars
      BY <1>3 DEF PayInvoice, PostOn, accountVars
    <2>2. LocksHeld'
      BY <1>1, <2>1, NoTransfer, OtherWork
    <2>. QED  BY <1>1, <2>1, <2>2, CreditsStay DEF TreasuryInv
  <1>. QED  BY <1>2, <1>3

LEMMA TreasuryInvNext ==
    ASSUME TreasuryInv, TreasuryNext \/ PayablesNext \/ UNCHANGED treasuryVars
    PROVE  TreasuryInv'
  <1>1. CASE UNCHANGED treasuryVars
    BY <1>1, LocksStay, CreditsStay DEF treasuryVars, accountVars, TreasuryInv
  <1>2. CASE TreasuryNext
    <2>1. ASSUME NEW d \in Desks, Transfer(d) \/ TreasuryCrash(d)
          PROVE  TreasuryInv'
      BY <2>1, ReleaseKeeps DEF Transfer, TreasuryCrash
    <2>. QED  BY <1>2, <2>1, PostingKeeps, TransferLockKeeps, ImportFeedKeeps, MatchingKeeps DEF TreasuryNext
  <1>3. CASE PayablesNext
    <2>1. \/ \E d \in Desks : ReadPayable(d) \/ \E a \in AccountIds : PayInvoice(d, a)
          \/ \E a \in AccountIds : TopUpDeposit(a)
          \/ UNCHANGED treasuryVars
      BY <1>3 DEF PayablesNext
    <2>. QED  BY <1>1, <2>1, PayablesKeep, PostingKeeps
  <1>. QED  BY <1>1, <1>2, <1>3

-----------------------------------------------------------------------------
(* Agencies and letters.                                                   *)
LEMMA ReceivablesInitHolds == ReceivablesInit => ReceivablesInv
  <1>. SUFFICES ASSUME ReceivablesInit
                PROVE  ReceivablesInv
    OBVIOUS
  <1>1. ReceivablesTypeOK
    <2>1. agency \in [status : AgencyStatuses, reason : {"", "manual", "overdue"}, limit : AgencyLimits, auto : BOOLEAN]
      BY ReceivablesAssumption DEF ReceivablesInit, AgencyStatuses
    <2>2. owes \in [AgencyBookings -> [sold : BOOLEAN, open : BOOLEAN, late : BOOLEAN]]
      BY DEF ReceivablesInit
    <2>3. letter = NoRow /\ rday = 0
      BY DEF ReceivablesInit
    <2>4. 0 \in 0 .. LastAgencyDay
      BY ReceivablesAssumption
    <2>. QED  BY <2>1, <2>2, <2>3, <2>4 DEF ReceivablesTypeOK
  <1>2. LetterHolds
    <2>1. letter = NoRow /\ answers = 0 /\ rjob = [d \in Desks |-> Free]
      BY DEF ReceivablesInit
    <2>. QED  BY <2>1 DEF LetterHolds, AnsweredOnce, Free
  <1>3. ReasonGiven
    <2>1. agency.reason = "" /\ agency.status = "active"
      BY DEF ReceivablesInit
    <2>. QED  BY <2>1 DEF ReasonGiven
  <1>. QED  BY <1>1, <1>2, <1>3 DEF ReceivablesInv

LEMMA LettersStay ==
    ASSUME LetterHolds, UNCHANGED <<letter, answers>>, DOMAIN rjob' = Desks,
           \A d \in Desks : rjob'[d] = rjob[d] \/ rjob'[d].op # "answer"
    PROVE  LetterHolds'
  BY DEF LetterHolds, AnsweredOnce

Debt == [sold : BOOLEAN, open : BOOLEAN, late : BOOLEAN]
AgencyRow == [status : AgencyStatuses, reason : {"", "manual", "overdue"}, limit : AgencyLimits, auto : BOOLEAN]

(* The bookings change, one column of one row at a time.                   *)
LEMMA DebtsTyped ==
    ASSUME owes \in [AgencyBookings -> Debt], NEW b \in AgencyBookings,
           AssignBooking(b) \/ UnassignBooking(b) \/ BookingTurns(b)
    PROVE  owes' \in [AgencyBookings -> Debt]
  <1>1. \/ owes' = [owes EXCEPT ![b].sold = TRUE] \/ owes' = [owes EXCEPT ![b].sold = FALSE]
        \/ owes' = [owes EXCEPT ![b].late = TRUE] \/ owes' = [owes EXCEPT ![b].open = FALSE]
    BY DEF AssignBooking, UnassignBooking, BookingTurns
  <1>. QED  BY <1>1 DEF Debt

LEMMA AgencyTyped ==
    ASSUME agency \in AgencyRow, ReasonGiven,
           \/ \E l \in AgencyLimits, auto \in BOOLEAN : UpdateAgency(l, auto)
           \/ \E s \in AgencyStatuses : SetStatus(s)
           \/ \E d \in Desks : SweepSuspend(d)
           \/ UNCHANGED agency
    PROVE  /\ agency' \in AgencyRow /\ ReasonGiven'
           /\ agency.status = "closed" => agency'.status = "closed"
  <1>1. ASSUME NEW l \in AgencyLimits, NEW auto \in BOOLEAN, UpdateAgency(l, auto)
        PROVE  /\ agency' \in AgencyRow /\ agency'.status = agency.status /\ agency'.reason = agency.reason
    BY <1>1 DEF UpdateAgency, AgencyRow
  <1>2. ASSUME NEW s \in AgencyStatuses, SetStatus(s)
        PROVE  /\ agency' \in AgencyRow /\ agency'.status = s
               /\ agency'.reason = (IF s = "suspended" THEN "manual" ELSE "")
               /\ agency.status = "closed" => s = "closed"
    BY <1>2 DEF SetStatus, AgencyRow, AgencyStatuses
  <1>3. ASSUME NEW d \in Desks, SweepSuspend(d)
        PROVE  \/ agency' = agency
               \/ /\ agency' \in AgencyRow /\ agency'.status = "suspended" /\ agency'.reason = "overdue"
                  /\ agency.status = "active"
    BY <1>3 DEF SweepSuspend, ShouldSuspend, AgencyRow, AgencyStatuses
  <1>. QED  BY <1>1, <1>2, <1>3 DEF ReasonGiven, AgencyStatuses

LEMMA AgencyKeeps ==
    ASSUME ReceivablesInv, AgencyNext, UNCHANGED letterVars
    PROVE  /\ ReceivablesInv'
           /\ agency.status = "closed" => agency'.status = "closed"
  <1>1. /\ ReceivablesTypeOK /\ LetterHolds /\ ReasonGiven
        /\ agency \in AgencyRow /\ owes \in [AgencyBookings -> Debt]
    BY DEF ReceivablesInv, ReceivablesTypeOK, AgencyRow, Debt
  <1>2. /\ agency' \in AgencyRow /\ ReasonGiven' /\ (agency.status = "closed" => agency'.status = "closed")
        /\ owes' \in [AgencyBookings -> Debt]
    <2>1. ASSUME NEW b \in AgencyBookings, AssignBooking(b) \/ UnassignBooking(b) \/ BookingTurns(b)
          PROVE  <1>2!:
      <3>1. agency' = agency
        BY <2>1 DEF AssignBooking, UnassignBooking, BookingTurns
      <3>. QED  BY <1>1, <2>1, <3>1, DebtsTyped, AgencyTyped
    <2>2. CASE \/ \E l \in AgencyLimits, auto \in BOOLEAN : UpdateAgency(l, auto)
               \/ \E s \in AgencyStatuses : SetStatus(s)
               \/ \E d \in Desks : SweepSuspend(d)
      <3>1. owes' = owes
        BY <2>2 DEF UpdateAgency, SetStatus, SweepSuspend
      <3>. QED  BY <1>1, <2>2, <3>1, AgencyTyped
    <2>3. ASSUME NEW d \in Desks, SweepRead(d)
          PROVE  <1>2!:
      <3>1. agency' = agency /\ owes' = owes
        BY <2>3 DEF SweepRead, agencyVars
      <3>. QED  BY <1>1, <3>1, AgencyTyped
    <2>. QED  BY <2>1, <2>2, <2>3 DEF AgencyNext
  <1>3. DOMAIN rjob' = Desks /\ \A d \in Desks : rjob'[d] = rjob[d] \/ rjob'[d].op # "answer"
    <2>1. \/ rjob' = rjob
          \/ \E d \in Desks : rjob' = [rjob EXCEPT ![d] = Free]
          \/ \E d \in Desks, late \in {Exposure.late} : rjob' = [rjob EXCEPT ![d] = [op |-> "suspend", late |-> late]]
      BY DEF AgencyNext, AssignBooking, UnassignBooking, BookingTurns, UpdateAgency, SetStatus, SweepRead, SweepSuspend
    <2>. QED  BY <1>1, <2>1 DEF LetterHolds, Free
  <1>4. LetterHolds'
    BY <1>1, <1>3, LettersStay DEF letterVars
  <1>5. ReceivablesTypeOK'
    BY <1>1, <1>2 DEF ReceivablesTypeOK, letterVars, AgencyRow, Debt
  <1>. QED  BY <1>2, <1>4, <1>5 DEF ReceivablesInv

LEMMA LetterKeeps ==
    ASSUME ReceivablesInv, LetterNext, UNCHANGED agencyVars
    PROVE  ReceivablesInv'
  <1>1. /\ ReceivablesTypeOK /\ LetterHolds /\ ReasonGiven
        /\ letter \in Letter \cup {NoRow} /\ rday \in 0 .. LastAgencyDay
        /\ UNCHANGED <<agency, owes>>
    BY DEF ReceivablesInv, ReceivablesTypeOK, agencyVars
  <1>2. CASE CreateLetter
    <2>1. letter = NoRow /\ letter' \in Letter /\ letter'.status = "sent" /\ UNCHANGED <<answers, rday, rjob>>
      BY <1>1, <1>2, ReceivablesAssumption DEF CreateLetter, Letter
    <2>2. LetterHolds'
      BY <1>1, <2>1, ReceivablesAssumption DEF LetterHolds, AnsweredOnce
    <2>. QED  BY <1>1, <2>1, <2>2 DEF ReceivablesInv, ReceivablesTypeOK, ReasonGiven
  <1>3. CASE LetterDay
    <2>1. rday' \in 0 .. LastAgencyDay /\ UNCHANGED <<letter, answers, rjob>>
      BY <1>1, <1>3, ReceivablesAssumption DEF LetterDay
    <2>. QED  BY <1>1, <2>1 DEF ReceivablesInv, ReceivablesTypeOK, ReasonGiven, LetterHolds, AnsweredOnce
  <1>4. ASSUME NEW d \in Desks, NEW a \in {"confirmed", "disputed"}, LetterByToken(d, a)
        PROVE  ReceivablesInv'
    <2>1. letter # NoRow /\ UNCHANGED <<letter, answers, rday>> /\ rjob' = [rjob EXCEPT ![d] = [op |-> "answer", to |-> a]]
      BY <1>4 DEF LetterByToken, letterVars
    <2>2. LetterHolds'
      BY <1>1, <2>1 DEF LetterHolds, AnsweredOnce
    <2>. QED  BY <1>1, <2>1, <2>2 DEF ReceivablesInv, ReceivablesTypeOK, ReasonGiven
  <1>5. ASSUME NEW d \in Desks, ReceivablesCrash(d)
        PROVE  ReceivablesInv'
    <2>1. UNCHANGED <<letter, answers, rday>> /\ rjob' = [rjob EXCEPT ![d] = Free]
      BY <1>5 DEF ReceivablesCrash, letterVars
    <2>2. LetterHolds'
      BY <1>1, <2>1 DEF LetterHolds, AnsweredOnce, Free
    <2>. QED  BY <1>1, <2>1, <2>2 DEF ReceivablesInv, ReceivablesTypeOK, ReasonGiven
  <1>6. ASSUME NEW d \in Desks, SaveLetterResponse(d)
        PROVE  ReceivablesInv'
    <2>1. /\ rjob[d].op = "answer" /\ rday' = rday /\ rjob' = [rjob EXCEPT ![d] = Free]
          /\ letter \in Letter /\ letter # NoRow /\ rjob[d].to \in {"confirmed", "disputed"}
      BY <1>1, <1>6 DEF SaveLetterResponse, LetterHolds
    <2>2. /\ letter' \in Letter
          /\ \/ UNCHANGED <<letter, answers>>
             \/ letter.status = "sent" /\ letter'.status # "sent" /\ answers' = answers + 1
      BY <1>6, <2>1 DEF SaveLetterResponse, Letter
    <2>3. letter' # NoRow
      BY <2>2, ReceivablesAssumption
    <2>4. answers' \in Nat /\ AnsweredOnce'
      BY <1>1, <2>1, <2>2, <2>3 DEF LetterHolds, AnsweredOnce
    <2>5. LetterHolds'
      BY <1>1, <2>1, <2>3, <2>4 DEF LetterHolds, Free
    <2>. QED  BY <1>1, <2>1, <2>2, <2>5 DEF ReceivablesInv, ReceivablesTypeOK, ReasonGiven
  <1>. QED  BY <1>2, <1>3, <1>4, <1>5, <1>6 DEF LetterNext

LEMMA ReceivablesInvNext ==
    ASSUME ReceivablesInv,
           \/ AgencyNext /\ UNCHANGED letterVars
           \/ LetterNext /\ UNCHANGED agencyVars
           \/ UNCHANGED receivablesVars
    PROVE  ReceivablesInv'
  <1>1. CASE UNCHANGED receivablesVars
    BY <1>1 DEF receivablesVars, agencyVars, letterVars, ReceivablesInv, ReceivablesTypeOK, LetterHolds, AnsweredOnce,
                ReasonGiven
  <1>. QED  BY <1>1, AgencyKeeps, LetterKeeps

-----------------------------------------------------------------------------
(* Exchange rates.                                                         *)
LEMMA FxInitHolds == FxInit => FxInv
  <1>. SUFFICES ASSUME FxInit
                PROVE  FxInv
    OBVIOUS
  <1>1. /\ rates = [r \in Directions |-> [d \in FxDays |-> NoRow]] /\ rateIds = 0
        /\ snaps = [k \in Kinds |-> NoRow] /\ tick = 1 /\ fxjob = [d \in Desks |-> Free]
    BY DEF FxInit
  <1>2. \A d \in Desks : fxjob[d].op = "free"
    BY <1>1 DEF Free
  <1>3. RatesHold
    BY <1>1, <1>2 DEF RatesHold, RateShape, RateJob
  <1>4. SnapshotsHold
    BY <1>1, <1>2 DEF SnapshotsHold, StoreJob
  <1>. QED  BY <1>3, <1>4 DEF FxInv

(* What a step may do to the rates: a row stays the row it was, goes, or   *)
(* comes with a new id where there was none.                               *)
CellStep(old, new, ids) ==
    \/ new = NoRow
    \/ old # NoRow /\ new.id = old.id /\ new.source = old.source
    \/ old = NoRow /\ new.id > ids
RatesStep ==
    /\ rateIds' \in Nat /\ rateIds <= rateIds'
    /\ DOMAIN rates' = Directions /\ \A r \in Directions : DOMAIN rates'[r] = FxDays
    /\ \A r \in Directions, day \in FxDays :
         RateShape(rates[r][day])' /\ CellStep(rates[r][day], rates'[r][day], rateIds)

(* A job that waits survives such a step, because ids are not used again.  *)
LEMMA JobSurvives ==
    ASSUME RatesHold, RatesStep, NEW j, RateJob(j)
    PROVE  j.op = "update" =>
             /\ j.dir \in Directions /\ j.day \in FxDays /\ j.row.id \in Nat /\ j.row.id <= rateIds'
             /\ rates'[j.dir][j.day] # NoRow /\ rates'[j.dir][j.day].id = j.row.id =>
                  rates'[j.dir][j.day].source = j.row.source
  <1>. SUFFICES ASSUME j.op = "update"
                PROVE  /\ j.dir \in Directions /\ j.day \in FxDays /\ j.row.id \in Nat /\ j.row.id <= rateIds'
                       /\ rates'[j.dir][j.day] # NoRow /\ rates'[j.dir][j.day].id = j.row.id =>
                            rates'[j.dir][j.day].source = j.row.source
    OBVIOUS
  <1>. DEFINE old == rates[j.dir][j.day]
              new == rates'[j.dir][j.day]
  <1>1. /\ j.dir \in Directions /\ j.day \in FxDays /\ j.row.id \in Nat /\ j.row.id <= rateIds
        /\ old # NoRow /\ old.id = j.row.id => old.source = j.row.source
    BY DEF RateJob
  <1>2. rateIds \in Nat /\ rateIds' \in Nat /\ rateIds <= rateIds' /\ CellStep(old, new, rateIds)
    BY <1>1 DEF RatesStep, RatesHold
  <1>3. new # NoRow => new.id \in Nat
    BY <1>1 DEF RatesStep, RateShape
  <1>. HIDE DEF old, new
  <1>4. new # NoRow /\ new.id = j.row.id => new.source = j.row.source
    BY <1>1, <1>2, <1>3 DEF CellStep
  <1>. QED  BY <1>1, <1>2, <1>4 DEF new

LEMMA RatesKeep ==
    ASSUME RatesHold, RatesStep, DOMAIN fxjob' = Desks,
           \A d \in Desks : fxjob'[d] = fxjob[d] \/ fxjob'[d].op # "update"
    PROVE  RatesHold'
  <1>1. \A d \in Desks : RateJob(fxjob[d])'
    <2>. SUFFICES ASSUME NEW d \in Desks
                  PROVE  RateJob(fxjob[d])'
      OBVIOUS
    <2>1. CASE fxjob'[d] = fxjob[d]
      <3>1. RateJob(fxjob[d])
        BY DEF RatesHold
      <3>. QED  BY <2>1, <3>1, JobSurvives DEF RateJob
    <2>2. CASE fxjob'[d].op # "update"
      BY <2>2 DEF RateJob
    <2>. QED  BY <2>1, <2>2
  <1>. QED  BY <1>1 DEF RatesStep, RatesHold

LEMMA NoRates ==
    ASSUME RatesHold, UNCHANGED rateVars
    PROVE  RatesStep
  <1>1. rates' = rates /\ rateIds' = rateIds
    BY DEF rateVars
  <1>. QED  BY <1>1 DEF RatesHold, RatesStep, RateShape, CellStep

(* One cell of the table is written.                                       *)
LEMMA OneCell ==
    ASSUME RatesHold, NEW dir \in Directions, NEW day \in FxDays, NEW v,
           rates' = [rates EXCEPT ![dir][day] = v], rateIds' \in Nat, rateIds <= rateIds',
           v = NoRow \/ (DOMAIN v = {"scaled", "source", "id"} /\ v.id \in Nat /\ v.id <= rateIds'),
           CellStep(rates[dir][day], v, rateIds)
    PROVE  RatesStep
  <1>1. /\ DOMAIN rates' = Directions /\ \A r \in Directions : DOMAIN rates'[r] = FxDays
        /\ rates'[dir][day] = v
        /\ \A r \in Directions, x \in FxDays : r # dir \/ x # day => rates'[r][x] = rates[r][x]
    BY DEF RatesHold
  <1>2. ASSUME NEW r \in Directions, NEW x \in FxDays
        PROVE  RateShape(rates[r][x])' /\ CellStep(rates[r][x], rates'[r][x], rateIds)
    <2>1. CASE r = dir /\ x = day
      BY <1>1, <2>1 DEF RateShape
    <2>2. CASE r # dir \/ x # day
      <3>1. rates'[r][x] = rates[r][x] /\ RateShape(rates[r][x]) /\ rateIds \in Nat
        BY <1>1, <2>2 DEF RatesHold
      <3>. QED  BY <3>1 DEF RateShape, CellStep
    <2>. QED  BY <2>1, <2>2
  <1>. QED  BY <1>1, <1>2 DEF RatesStep

LEMMA InsertRateStep ==
    ASSUME RatesHold, NEW dir \in Directions, NEW day \in FxDays, NEW scaled, NEW source,
           InsertRate(dir, day, scaled, source)
    PROVE  RatesStep
  <1>. DEFINE v == [scaled |-> scaled, source |-> source, id |-> rateIds + 1]
  <1>1. CASE rates[dir][day] # NoRow
    BY <1>1, NoRates DEF InsertRate
  <1>2. CASE rates[dir][day] = NoRow
    <2>1. rates' = [rates EXCEPT ![dir][day] = v] /\ rateIds' = rateIds + 1 /\ rateIds \in Nat
      BY <1>2 DEF InsertRate, RatesHold
    <2>2. DOMAIN v = {"scaled", "source", "id"} /\ v.id = rateIds + 1
      OBVIOUS
    <2>. HIDE DEF v
    <2>3. CellStep(rates[dir][day], v, rateIds)
      BY <1>2, <2>1, <2>2 DEF CellStep
    <2>4. /\ rateIds' \in Nat /\ rateIds <= rateIds'
          /\ v = NoRow \/ (DOMAIN v = {"scaled", "source", "id"} /\ v.id \in Nat /\ v.id <= rateIds')
      BY <2>1, <2>2
    <2>. QED  BY <2>1, <2>3, <2>4, OneCell
  <1>. QED  BY <1>1, <1>2

LEMMA UpdateRateStep ==
    ASSUME RatesHold, NEW d \in Desks, NEW scaled, UpdateRate(d, scaled)
    PROVE  RatesStep
  <1>. DEFINE j    == fxjob[d]
              here == rates[j.dir][j.day]
              v    == [here EXCEPT !.scaled = scaled, !.source = j.row.source]
  <1>1. /\ j.op = "update" /\ rateIds' = rateIds /\ rateIds \in Nat /\ RateJob(j)
        /\ rates' = IF here = NoRow THEN rates ELSE IF here.id # j.row.id THEN rates
                    ELSE [rates EXCEPT ![j.dir][j.day] = v]
    BY DEF UpdateRate, RatesHold
  <1>2. j.dir \in Directions /\ j.day \in FxDays
    BY <1>1 DEF RateJob
  <1>3. CASE rates' = rates
    BY <1>1, <1>3, NoRates DEF rateVars
  <1>4. CASE here # NoRow /\ here.id = j.row.id
    <2>1. /\ here.source = j.row.source
          /\ DOMAIN here = {"scaled", "source", "id"} /\ here.id \in Nat /\ here.id <= rateIds
      BY <1>1, <1>2, <1>4 DEF RateJob, RatesHold, RateShape
    <2>2. DOMAIN v = {"scaled", "source", "id"} /\ v.id = here.id /\ v.source = j.row.source
      BY <2>1
    <2>3. rates' = [rates EXCEPT ![j.dir][j.day] = v]
      BY <1>1, <1>4
    <2>. HIDE DEF v
    <2>4. CellStep(here, v, rateIds)
      BY <1>4, <2>1, <2>2 DEF CellStep
    <2>5. /\ rateIds' \in Nat /\ rateIds <= rateIds'
          /\ v = NoRow \/ (DOMAIN v = {"scaled", "source", "id"} /\ v.id \in Nat /\ v.id <= rateIds')
      BY <1>1, <2>1, <2>2
    <2>. HIDE DEF j
    <2>. QED  BY <1>2, <2>3, <2>4, <2>5, OneCell
  <1>. QED  BY <1>1, <1>3, <1>4

LEMMA DeleteRateStep ==
    ASSUME RatesHold, NEW dir \in Directions, NEW day \in FxDays, DeleteRate(dir, day)
    PROVE  RatesStep
  <1>1. /\ rates' = [rates EXCEPT ![dir][day] = NoRow]
        /\ rateIds' \in Nat /\ rateIds <= rateIds' /\ CellStep(rates[dir][day], NoRow, rateIds)
    BY DEF DeleteRate, RatesHold, CellStep
  <1>. QED  BY <1>1, OneCell

(* What the operations on rates leave the desks with: a rate to write that *)
(* is in the table as it was read, or nothing to write.                    *)
QuietJobs ==
    /\ DOMAIN fxjob' = Desks
    /\ \A d \in Desks : fxjob'[d] = fxjob[d] \/ fxjob'[d].op \notin {"update", "store"}

LEMMA QuietKeep ==
    ASSUME FxInv, RatesStep, QuietJobs, UNCHANGED liveVars
    PROVE  FxInv'
  <1>1. RatesHold'
    BY RatesKeep DEF QuietJobs, FxInv
  <1>2. snaps' = snaps /\ tick' = tick
    BY DEF liveVars
  <1>3. \A d \in Desks : StoreJob(fxjob[d])'
    BY DEF FxInv, SnapshotsHold, StoreJob, QuietJobs
  <1>4. SnapshotsHold'
    BY <1>2, <1>3 DEF FxInv, SnapshotsHold
  <1>. QED  BY <1>1, <1>4 DEF FxInv

LEMMA GetRateKeeps ==
    ASSUME FxInv, UNCHANGED liveVars, NEW d \in Desks, NEW dir \in Directions, NEW day \in FxDays, GetRate(d, dir, day)
    PROVE  RatesStep /\ FxInv'
  <1>1. /\ rates' = rates /\ rateIds' = rateIds /\ rates[dir][day] # NoRow /\ rateIds \in Nat
        /\ fxjob' = [fxjob EXCEPT ![d] = [op |-> "update", dir |-> dir, day |-> day, row |-> rates[dir][day]]]
    BY DEF GetRate, rateVars, FxInv, RatesHold
  <1>2. RatesStep
    BY <1>1, NoRates DEF FxInv, rateVars
  <1>3. rates[dir][day].id \in Nat /\ rates[dir][day].id <= rateIds
    BY <1>1 DEF FxInv, RatesHold, RateShape
  <1>4. DOMAIN fxjob' = Desks /\ \A e \in Desks : e # d => fxjob'[e] = fxjob[e]
    BY <1>1 DEF FxInv, RatesHold
  <1>5. /\ fxjob'[d].op = "update" /\ fxjob'[d].dir = dir /\ fxjob'[d].day = day /\ fxjob'[d].row = rates[dir][day]
    BY <1>1 DEF FxInv, RatesHold
  <1>6. \A e \in Desks : RateJob(fxjob[e])'
    <2>1. RateJob(fxjob[d])'
      BY <1>1, <1>3, <1>5 DEF RateJob
    <2>2. ASSUME NEW e \in Desks, e # d
          PROVE  RateJob(fxjob[e])'
      BY <1>1, <1>4, <2>2 DEF RateJob, FxInv, RatesHold
    <2>. QED  BY <2>1, <2>2
  <1>7. RatesHold'
    BY <1>1, <1>4, <1>6 DEF FxInv, RatesHold, RateShape
  <1>8. SnapshotsHold'
    <2>1. \A e \in Desks : StoreJob(fxjob[e])'
      BY <1>4, <1>5 DEF FxInv, SnapshotsHold, StoreJob
    <2>. QED  BY <2>1 DEF FxInv, SnapshotsHold, liveVars
  <1>. QED  BY <1>2, <1>7, <1>8 DEF FxInv

LEMMA RateNextKeeps ==
    ASSUME FxInv, RateNext
    PROVE  RatesStep /\ FxInv'
  <1>1. UNCHANGED liveVars /\ RatesHold
    BY DEF RateNext, FxInv
  <1>2. DOMAIN fxjob = Desks
    BY <1>1 DEF RatesHold
  <1>3. ASSUME NEW r \in Directions, NEW day \in FxDays, DeleteRate(r, day)
        PROVE  RatesStep /\ FxInv'
    <2>1. RatesStep /\ QuietJobs
      BY <1>1, <1>2, <1>3, DeleteRateStep DEF DeleteRate, QuietJobs
    <2>. QED  BY <1>1, <2>1, QuietKeep
  <1>4. ASSUME NEW r \in Directions, NEW day \in FxDays, NEW w \in {0, 1, 3}, CreateRate(r, day, w, IF w = 1 THEN 1 ELSE 0)
        PROVE  RatesStep /\ FxInv'
    <2>1. RatesStep /\ QuietJobs
      BY <1>1, <1>2, <1>4, InsertRateStep DEF CreateRate, QuietJobs
    <2>. QED  BY <1>1, <2>1, QuietKeep
  <1>5. ASSUME NEW day \in FxDays, NEW v \in FxValues, Adopt(day, v)
        PROVE  RatesStep /\ FxInv'
    <2>1. "direct" \in Directions
      BY DEF Directions
    <2>2. RatesStep /\ QuietJobs
      BY <1>1, <1>2, <1>5, <2>1, InsertRateStep DEF Adopt, QuietJobs
    <2>. QED  BY <1>1, <2>2, QuietKeep
  <1>6. ASSUME NEW d \in Desks, SyncProvider(d)
        PROVE  RatesStep /\ FxInv'
    <2>1. "direct" \in Directions /\ FxToday \in FxDays
      BY FxAssumption DEF Directions, FxToday
    <2>2. RatesStep /\ QuietJobs
      BY <1>1, <1>2, <1>6, <2>1, InsertRateStep DEF SyncProvider, QuietJobs, Free
    <2>. QED  BY <1>1, <2>2, QuietKeep
  <1>7. ASSUME NEW d \in Desks, NEW v \in FxValues, UpdateRate(d, v)
        PROVE  RatesStep /\ FxInv'
    <2>1. RatesStep /\ QuietJobs
      BY <1>1, <1>2, <1>7, UpdateRateStep DEF UpdateRate, QuietJobs, Free
    <2>. QED  BY <1>1, <2>1, QuietKeep
  <1>8. ASSUME NEW d \in Desks, NEW v \in FxValues, ProviderFetch(d, v)
        PROVE  RatesStep /\ FxInv'
    <2>1. RatesStep /\ QuietJobs
      BY <1>1, <1>2, <1>8, NoRates DEF ProviderFetch, QuietJobs
    <2>. QED  BY <1>1, <2>1, QuietKeep
  <1>. QED  BY <1>1, <1>3, <1>4, <1>5, <1>6, <1>7, <1>8, GetRateKeeps DEF RateNext

(* What a step may do to the snapshots of the live sources.                *)
GoodKept == \A k \in Kinds : snaps[k] # NoRow => snaps'[k] # NoRow /\ (snaps[k].fetched > 0 => snaps'[k].fetched > 0)

LEMMA SnapshotMade ==
    ASSUME NEW now \in Nat, NEW next \in Int
    PROVE  [fetched |-> now, attempted |-> now, next |-> next, ok |-> TRUE] \in Snapshot
  BY DEF Snapshot

LEMMA StoredSnapshot ==
    ASSUME NEW row \in Snapshot \cup {NoRow}, NEW now \in Nat \ {0}, NEW k, NEW ok,
           NEW new, new = IF ok THEN SaveSuccess(k, now) ELSE SaveFailure(row, now)
    PROVE  new \in Snapshot /\ (row # NoRow => (row.fetched > 0 => new.fetched > 0))
  <1>1. CASE ok
    <2>1. new = [fetched |-> now, attempted |-> now, next |-> NextUpdate(k, now), ok |-> TRUE]
      BY <1>1 DEF SaveSuccess
    <2>2. NextUpdate(k, now) \in Int
      BY DEF NextUpdate
    <2>3. new \in Snapshot
      BY <2>1, <2>2, SnapshotMade
    <2>4. new.fetched > 0
      BY <2>1
    <2>. QED  BY <2>3, <2>4
  <1>2. CASE ~ok /\ row = NoRow
    BY <1>2 DEF SaveFailure, Snapshot
  <1>3. CASE ~ok /\ row # NoRow
    <2>1. row \in Snapshot /\ new = [row EXCEPT !.attempted = now, !.ok = FALSE]
      BY <1>3 DEF SaveFailure
    <2>2. new \in Snapshot
      <3>1. now \in Int
        OBVIOUS
      <3>. QED  BY <2>1, <3>1, Zenon DEF Snapshot
    <2>3. new.fetched = row.fetched
      BY <2>1 DEF Snapshot
    <2>. QED  BY <2>2, <2>3
  <1>. QED  BY <1>1, <1>2, <1>3

LEMMA StoreSnapshotKeeps ==
    ASSUME SnapshotsHold, DOMAIN fxjob = Desks, NEW d \in Desks, StoreSnapshot(d)
    PROVE  SnapshotsHold' /\ GoodKept /\ DOMAIN fxjob' = Desks /\ fxjob'[d].op = "store"
  <1>. DEFINE k   == Head(fxjob[d].todo)
              now == fxjob[d].now
              ok  == IF k = "reference" THEN "erapi" \in fxjob[d].good ELSE "lirascope" \in fxjob[d].good
  <1>1. /\ fxjob[d].op = "store" /\ now \in Nat \ {0} /\ {"op", "now", "good", "todo"} = DOMAIN fxjob[d]
        /\ tick' = tick /\ fxjob' = [fxjob EXCEPT ![d].todo = Tail(@)]
    BY DEF StoreSnapshot, SnapshotsHold, StoreJob
  <1>2. snaps' = [snaps EXCEPT ![k] = IF ok THEN SaveSuccess(k, now) ELSE SaveFailure(@, now)]
    BY DEF StoreSnapshot
  <1>. HIDE DEF k, now, ok
  <1>3. DOMAIN snaps' = Kinds
    BY <1>2 DEF SnapshotsHold
  <1>4. ASSUME NEW x \in Kinds
        PROVE  /\ snaps'[x] \in Snapshot \cup {NoRow}
               /\ snaps[x] # NoRow => snaps'[x] # NoRow /\ (snaps[x].fetched > 0 => snaps'[x].fetched > 0)
    <2>1. CASE x # k
      BY <1>2, <2>1 DEF SnapshotsHold
    <2>2. CASE x = k
      <3>1. snaps'[x] = IF ok THEN SaveSuccess(k, now) ELSE SaveFailure(snaps[x], now)
        BY <1>2, <2>2 DEF SnapshotsHold
      <3>2. snaps[x] \in Snapshot \cup {NoRow}
        BY DEF SnapshotsHold
      <3>3. snaps'[x] \in Snapshot /\ (snaps[x] # NoRow => (snaps[x].fetched > 0 => snaps'[x].fetched > 0))
        BY <1>1, <3>1, <3>2, StoredSnapshot
      <3>. QED  BY <3>3, FxAssumption DEF Snapshot
    <2>. QED  BY <2>1, <2>2
  <1>5. /\ DOMAIN fxjob' = Desks /\ \A e \in Desks : e # d => fxjob'[e] = fxjob[e]
        /\ fxjob'[d] = [fxjob[d] EXCEPT !.todo = Tail(fxjob[d].todo)]
    BY <1>1
  <1>6. DOMAIN fxjob'[d] = DOMAIN fxjob[d] /\ fxjob'[d].op = "store" /\ fxjob'[d].now = now
    BY <1>1, <1>5 DEF now
  <1>7. \A e \in Desks : StoreJob(fxjob[e])'
    <2>1. StoreJob(fxjob[d])'
      BY <1>1, <1>6 DEF StoreJob
    <2>. QED  BY <1>5, <2>1 DEF SnapshotsHold, StoreJob
  <1>. QED  BY <1>1, <1>3, <1>4, <1>5, <1>6, <1>7 DEF SnapshotsHold, GoodKept

LEMMA LiveNextKeeps ==
    ASSUME FxInv, LiveNext
    PROVE  RatesStep /\ FxInv' /\ GoodKept
  <1>1. RatesStep
    BY NoRates DEF LiveNext, FxInv
  <1>2. DOMAIN fxjob = Desks /\ SnapshotsHold /\ RatesHold
    BY DEF FxInv, RatesHold
  <1>. SUFFICES /\ SnapshotsHold' /\ GoodKept /\ DOMAIN fxjob' = Desks
                /\ \A d \in Desks : fxjob'[d] = fxjob[d] \/ fxjob'[d].op # "update"
    BY <1>1, <1>2, RatesKeep DEF FxInv
  <1>3. CASE Tick
    <2>1. tick' = tick + 1 /\ snaps' = snaps /\ fxjob' = fxjob
      BY <1>3 DEF Tick
    <2>2. tick' \in Nat \ {0}
      BY <1>2, <2>1 DEF SnapshotsHold
    <2>. QED  BY <1>2, <2>1, <2>2 DEF SnapshotsHold, GoodKept, StoreJob
  <1>4. CASE ServeBoard
    BY <1>2, <1>4 DEF ServeBoard, SnapshotsHold, GoodKept, StoreJob
  <1>5. ASSUME NEW d \in Desks, NEW force \in BOOLEAN, SyncStart(d, force)
        PROVE  /\ SnapshotsHold' /\ GoodKept /\ DOMAIN fxjob' = Desks
               /\ \A e \in Desks : fxjob'[e] = fxjob[e] \/ fxjob'[e].op # "update"
    <2>1. PICK good : fxjob' = [fxjob EXCEPT ![d] = [op |-> "store", now |-> tick, good |-> good, todo |-> DueKinds(force)]]
      BY <1>5 DEF SyncStart
    <2>2. snaps' = snaps /\ tick' = tick
      BY <1>5 DEF SyncStart, liveVars
    <2>3. /\ DOMAIN fxjob' = Desks /\ \A e \in Desks : e # d => fxjob'[e] = fxjob[e]
          /\ fxjob'[d].op = "store" /\ fxjob'[d].now = tick /\ DOMAIN fxjob'[d] = {"op", "now", "good", "todo"}
      BY <1>2, <2>1
    <2>4. \A e \in Desks : StoreJob(fxjob[e])'
      BY <1>2, <2>3 DEF SnapshotsHold, StoreJob
    <2>. QED  BY <1>2, <2>2, <2>3, <2>4 DEF SnapshotsHold, GoodKept
  <1>6. ASSUME NEW d \in Desks, StoreSnapshot(d)
        PROVE  /\ SnapshotsHold' /\ GoodKept /\ DOMAIN fxjob' = Desks
               /\ \A e \in Desks : fxjob'[e] = fxjob[e] \/ fxjob'[e].op # "update"
    <2>1. \A e \in Desks : e # d => fxjob'[e] = fxjob[e]
      BY <1>2, <1>6 DEF StoreSnapshot
    <2>. QED  BY <1>2, <1>6, <2>1, StoreSnapshotKeeps
  <1>7. ASSUME NEW d \in Desks, SyncEnd(d) \/ Restart(d)
        PROVE  /\ SnapshotsHold' /\ GoodKept /\ DOMAIN fxjob' = Desks
               /\ \A e \in Desks : fxjob'[e] = fxjob[e] \/ fxjob'[e].op # "update"
    <2>1. snaps' = snaps /\ tick' = tick /\ fxjob' = [fxjob EXCEPT ![d] = Free]
      BY <1>7 DEF SyncEnd, Restart
    <2>. QED  BY <1>2, <2>1 DEF SnapshotsHold, GoodKept, StoreJob, Free
  <1>. QED  BY <1>3, <1>4, <1>5, <1>6, <1>7 DEF LiveNext

(* The exchange rates as a whole.                                          *)
LEMMA FxInvNext ==
    ASSUME FxInv, RateNext \/ LiveNext \/ SideNext \/ UNCHANGED fxVars
    PROVE  FxInv' /\ RatesStep /\ GoodKept
  <1>1. CASE RateNext
    <2>1. snaps' = snaps
      BY <1>1 DEF RateNext, liveVars
    <2>. QED  BY <1>1, <2>1, RateNextKeeps DEF GoodKept
  <1>2. CASE SideNext \/ UNCHANGED fxVars
    <2>1. UNCHANGED <<rateVars, liveVars, fxjob>>
      BY <1>2 DEF SideNext, fxVars
    <2>2. RatesStep /\ QuietJobs
      BY <2>1, NoRates DEF FxInv, RatesHold, QuietJobs
    <2>3. GoodKept
      BY <2>1 DEF liveVars, GoodKept
    <2>. QED  BY <2>1, <2>2, <2>3, QuietKeep
  <1>. QED  BY <1>1, <1>2, LiveNextKeeps

-----------------------------------------------------------------------------
(* What a step may never do, service by service.                           *)
PlanSettles ==
    /\ promise # NoRow /\ promise.status # "open" => promise'.status = promise.status
    /\ instalment # NoRow /\ instalment.status = "cancelled" => instalment'.status = "cancelled"
Sold(debts) == {x \in AgencyBookings : debts[x].sold /\ debts[x].open}
SaleWithin ==
    \A b \in AgencyBookings : ~owes[b].sold /\ owes'[b].sold =>
      /\ agency.status = "active"
      /\ agency.limit > 0 => Cardinality(Sold(owes')) <= agency.limit
ChangesStand == \A i \in DOMAIN deskChanges : deskChanges[i] \in {"completed", "rejected"} => deskChanges'[i] = deskChanges[i]

LEMMA PlanStaysSettled ==
    ASSUME PlanInv, PlanNext \/ UNCHANGED planVars
    PROVE  PlanSettles
  <1>1. /\ promise \in PromiseRow \cup {NoRow} /\ instalment \in InstalmentRow \cup {NoRow}
        /\ \A d \in Desks : pjob[d].op = "mark" => instalment # NoRow
    BY DEF PlanInv, PlanTypeOK, PlanJobs, PlanJob
  <1>2. promise' = promise \/ promise = NoRow \/ promise.status = "open"
    BY DEF PlanNext, CreatePromise, UpsertSchedule, CancelSchedule, MarkSchedulesOverdue, Money, PlanOutside, ResolveDue,
           CancelPromise, ReadPromise, ResolvePromise, NotifyPromiseBroken, ListDueForReminder, PaymentDueAlert,
           MarkReminderSent, PlanCrash, planVars, promiseVars
  <1>3. \/ instalment' = instalment \/ instalment = NoRow \/ instalment.status = "open"
        \/ instalment' = [instalment EXCEPT !.status = "cancelled"]
        \/ instalment' = [instalment EXCEPT !.reminded = TRUE]
    BY DEF PlanNext, CreatePromise, UpsertSchedule, CancelSchedule, MarkSchedulesOverdue, Money, PlanOutside, ResolveDue,
           CancelPromise, ReadPromise, ResolvePromise, NotifyPromiseBroken, ListDueForReminder, PaymentDueAlert,
           MarkReminderSent, PlanCrash, planVars, instalmentVars
  <1>4. instalment # NoRow /\ instalment.status = "cancelled" => instalment'.status = "cancelled"
    <2>1. ASSUME instalment # NoRow, instalment.status = "cancelled"
          PROVE  instalment'.status = "cancelled"
      <3>1. instalment \in InstalmentRow
        BY <1>1, <2>1
      <3>. QED  BY <1>3, <2>1, <3>1 DEF InstalmentRow
    <2>. QED  BY <2>1
  <1>. QED  BY <1>2, <1>4 DEF PlanSettles

(* A sale adds the booking to what the exposure was read from.             *)
LEMMA AssignWithin ==
    ASSUME ReceivablesInv, NEW b \in AgencyBookings, AssignBooking(b)
    PROVE  /\ agency.status = "active"
           /\ agency.limit > 0 => Cardinality(Sold(owes')) <= agency.limit
  <1>. DEFINE amount == IF owes[b].open THEN 1 ELSE 0
  <1>1. owes \in [AgencyBookings -> Debt] /\ agency.limit \in Nat
    BY ReceivablesAssumption DEF ReceivablesInv, ReceivablesTypeOK, Debt
  <1>2. /\ ~owes[b].sold /\ owes' = [owes EXCEPT ![b].sold = TRUE] /\ agency.status = "active"
        /\ agency.limit > 0 => Cardinality(Sold(owes)) + amount <= agency.limit
    BY DEF AssignBooking, CanSell, Exposure, OpenSold, Sold
  <1>3. IsFiniteSet(Sold(owes)) /\ Cardinality(Sold(owes)) \in Nat
    BY ReceivablesAssumption, FS_Subset, FS_CardinalityType DEF Sold
  <1>4. /\ owes'[b].sold /\ owes'[b].open = owes[b].open
        /\ \A x \in AgencyBookings \ {b} : owes'[x] = owes[x]
    BY <1>1, <1>2 DEF Debt
  <1>5. CASE owes[b].open
    <2>1. Sold(owes') = Sold(owes) \cup {b} /\ b \notin Sold(owes)
      BY <1>2, <1>4, <1>5 DEF Sold
    <2>2. Cardinality(Sold(owes')) = Cardinality(Sold(owes)) + 1
      BY <1>3, <2>1, FS_AddElement
    <2>. QED  BY <1>2, <1>5, <2>2
  <1>6. CASE ~owes[b].open
    <2>1. Sold(owes') = Sold(owes)
      BY <1>2, <1>4, <1>6 DEF Sold
    <2>. QED  BY <1>1, <1>2, <1>3, <1>6, <2>1
  <1>. QED  BY <1>5, <1>6

LEMMA SalesWithin ==
    ASSUME ReceivablesInv, AgencyNext \/ UNCHANGED owes
    PROVE  SaleWithin
  <1>. SUFFICES ASSUME NEW b \in AgencyBookings, ~owes[b].sold, owes'[b].sold
                PROVE  /\ agency.status = "active"
                       /\ agency.limit > 0 => Cardinality(Sold(owes')) <= agency.limit
    BY DEF SaleWithin
  <1>1. owes \in [AgencyBookings -> Debt]
    BY DEF ReceivablesInv, ReceivablesTypeOK, Debt
  <1>2. PICK c \in AgencyBookings : AssignBooking(c) \/ UnassignBooking(c) \/ BookingTurns(c)
    BY DEF AgencyNext, UpdateAgency, SetStatus, SweepRead, SweepSuspend, agencyVars
  <1>3. CASE AssignBooking(c)
    BY <1>3, AssignWithin
  <1>4. CASE UnassignBooking(c)
    BY <1>1, <1>4 DEF UnassignBooking, Debt
  <1>5. CASE BookingTurns(c)
    <2>1. owes' = [owes EXCEPT ![c].late = TRUE] \/ owes' = [owes EXCEPT ![c].open = FALSE]
      BY <1>5 DEF BookingTurns
    <2>. QED  BY <1>1, <2>1 DEF Debt
  <1>. QED  BY <1>2, <1>3, <1>4, <1>5

LEMMA ChangesStay ==
    ASSUME AmountNext \/ CollabNext \/ AskWorkspace \/ UNCHANGED deskVars
    PROVE  ChangesStand
  <1>1. CASE UNCHANGED deskChanges
    BY <1>1 DEF ChangesStand
  <1>2. CASE RequestChange
    <2>1. PICK id \in Fresh(deskChanges) : deskChanges' = [deskChanges EXCEPT ![id] = "requested"]
      BY <1>2 DEF RequestChange, CreateChange
    <2>2. deskChanges[id] \notin {"completed", "rejected"}
      BY <2>1, DeskAssumption DEF Fresh
    <2>. QED  BY <2>1, <2>2 DEF ChangesStand
  <1>3. CASE ResolveChange
    <2>1. PICK id, status : deskChanges[id] = "requested" /\ deskChanges' = [deskChanges EXCEPT ![id] = status]
      BY <1>3 DEF ResolveChange, ResolveChangeRow
    <2>. QED  BY <2>1 DEF ChangesStand
  <1>4. UNCHANGED deskChanges \/ RequestChange \/ ResolveChange
    BY DEF AmountNext, CollabNext, AskWorkspace, deskVars, collabVars, CreateDeskDraft, DeskSetLines, DeskRemove, DeskMove,
           DeskUpdateRead, DeskUpdateCommit, DeskAddRead, DeskAddCommit, AddNote, DeleteNote
  <1>. QED  BY <1>1, <1>2, <1>3, <1>4

-----------------------------------------------------------------------------
(* The composition.  The services share no variable but the suppliers'     *)
(* rows, so each of them sees a step of its own or nothing.                *)
StepOfEach ==
    /\ [Next]_vars
    /\ PlanNext \/ UNCHANGED planVars
    /\ TreasuryNext \/ PayablesNext \/ UNCHANGED treasuryVars
    /\ \/ AgencyNext /\ UNCHANGED letterVars
       \/ LetterNext /\ UNCHANGED agencyVars
       \/ UNCHANGED receivablesVars
    /\ RateNext \/ LiveNext \/ SideNext \/ UNCHANGED fxVars
    /\ AmountNext \/ CollabNext \/ AskWorkspace \/ UNCHANGED deskVars

LEMMA EachStep == [MCNext]_<<part, vars, otherVars>> => StepOfEach
  <1>. SUFFICES ASSUME [MCNext]_<<part, vars, otherVars>>
                PROVE  StepOfEach
    OBVIOUS
  <1>1. CASE UNCHANGED <<part, vars, otherVars>>
    BY <1>1 DEF StepOfEach, otherVars, partyVars
  <1>2. CASE Next /\ UNCHANGED <<part, otherVars>>
    BY <1>2 DEF StepOfEach, otherVars, partyVars
  <1>3. CASE PlansStep /\ UNCHANGED <<part, vars>>
    BY <1>3 DEF StepOfEach, PlansStep, partyVars
  <1>4. CASE SuppliersStep /\ UNCHANGED <<part, vars>>
    BY <1>4 DEF StepOfEach, SuppliersStep
  <1>5. CASE TreasuryStep /\ UNCHANGED <<part, vars>>
    BY <1>5 DEF StepOfEach, TreasuryStep
  <1>6. CASE ReceivablesStep /\ UNCHANGED <<part, vars>>
    BY <1>6 DEF StepOfEach, ReceivablesStep
  <1>7. CASE RulesStep /\ UNCHANGED <<part, vars>>
    BY <1>7 DEF StepOfEach, RulesStep
  <1>8. CASE FxStep /\ UNCHANGED <<part, vars>>
    BY <1>8 DEF StepOfEach, FxStep, partyVars
  <1>9. CASE TargetsStep /\ UNCHANGED <<part, vars>>
    BY <1>9 DEF StepOfEach, TargetsStep, partyVars
  <1>10. CASE DeskStep /\ UNCHANGED <<part, vars>>
    BY <1>10 DEF StepOfEach, DeskStep, partyVars
  <1>. QED  BY <1>1, <1>2, <1>3, <1>4, <1>5, <1>6, <1>7, <1>8, <1>9, <1>10 DEF MCNext

LEMMA ServicesInvariant == MCSpec => []ServicesInv
  <1>1. MCInit => ServicesInv
    BY PlanInitHolds, TreasuryInitHolds, ReceivablesInitHolds, FxInitHolds DEF MCInit, ServicesInv
  <1>2. ServicesInv /\ [MCNext]_<<part, vars, otherVars>> => ServicesInv'
    <2>. SUFFICES ASSUME ServicesInv, StepOfEach
                  PROVE  ServicesInv'
      BY EachStep
    <2>1. PlanInv'
      BY PlanInvNext DEF ServicesInv, StepOfEach
    <2>2. TreasuryInv'
      BY TreasuryInvNext DEF ServicesInv, StepOfEach
    <2>3. ReceivablesInv'
      BY ReceivablesInvNext DEF ServicesInv, StepOfEach
    <2>4. FxInv'
      BY FxInvNext DEF ServicesInv, StepOfEach
    <2>. QED  BY <2>1, <2>2, <2>3, <2>4 DEF ServicesInv
  <1>. QED  BY <1>1, <1>2, PTL DEF MCSpec

(* Whatever desks race, crash or repeat: a promise is settled once and for *)
(* its reason and an instalment announced once (Promises.resolve,          *)
(* PaymentDue), a bank credit is paid once (autoMatch, Match, settle), a   *)
(* letter is answered once (SaveLetterResponse), and two transfers never   *)
(* wait for each other's account (Transfer).                               *)
THEOREM SettledOnceHolds == MCSpec => []SettledOnce
  <1>1. ServicesInv => SettledOnce
    BY PlanSettled, NoLockCycleFollows
       DEF ServicesInv, TreasuryInv, CreditsHold, ReceivablesInv, LetterHolds, SettledOnce
  <1>. QED  BY <1>1, ServicesInvariant, PTL

-----------------------------------------------------------------------------
(* The ledger inside the composition is the ledger by itself.              *)
LEMMA LedgerInside == MCSpec => Spec
  <1>1. MCInit => Init
    BY DEF MCInit
  <1>2. [MCNext]_<<part, vars, otherVars>> => [Next]_vars
    BY EachStep DEF StepOfEach
  <1>. QED  BY <1>1, <1>2, PTL DEF MCSpec, Spec

LEMMA PlansStand == MCSpec => SettledStaysSettled
  <1>1. ServicesInv /\ [MCNext]_<<part, vars, otherVars>> =>
          [/\ promise # NoRow /\ promise.status # "open" => promise'.status = promise.status
           /\ instalment # NoRow /\ instalment.status = "cancelled" => instalment'.status = "cancelled"
          ]_<<promise, instalment>>
    BY EachStep, PlanStaysSettled DEF ServicesInv, StepOfEach, PlanSettles
  <1>. QED  BY <1>1, ServicesInvariant, PTL DEF MCSpec, SettledStaysSettled

LEMMA AgenciesStand == MCSpec => ClosedForGood /\ SoldWithinLimit
  <1>1. ServicesInv /\ [MCNext]_<<part, vars, otherVars>> =>
          [/\ agency.status = "closed" => agency'.status = "closed"
           /\ agency'.reason # "" <=> agency'.status = "suspended"]_agency
    <2>. SUFFICES ASSUME ServicesInv, StepOfEach
                  PROVE  <1>1!2
      BY EachStep
    <2>1. ReceivablesInv /\ ReceivablesInv'
      BY ReceivablesInvNext DEF ServicesInv, StepOfEach
    <2>2. agency.status = "closed" => agency'.status = "closed"
      BY <2>1, AgencyKeeps DEF StepOfEach, agencyVars, receivablesVars
    <2>. QED  BY <2>1, <2>2 DEF ReceivablesInv, ReasonGiven
  <1>2. ServicesInv /\ [MCNext]_<<part, vars, otherVars>> =>
          [\A b \in AgencyBookings : ~owes[b].sold /\ owes'[b].sold =>
             /\ agency.status = "active"
             /\ agency.limit > 0 => Cardinality({x \in AgencyBookings : owes'[x].sold /\ owes'[x].open}) <= agency.limit
          ]_<<owes, agency>>
    <2>. SUFFICES ASSUME ServicesInv, StepOfEach
                  PROVE  <1>2!2
      BY EachStep
    <2>1. SaleWithin
      BY SalesWithin DEF ServicesInv, StepOfEach, agencyVars, receivablesVars
    <2>. QED  BY <2>1 DEF SaleWithin, Sold
  <1>. QED  BY <1>1, <1>2, ServicesInvariant, PTL DEF MCSpec, ClosedForGood, SoldWithinLimit

LEMMA RatesStand == MCSpec => EnteredRateStands /\ LastGoodKept
  <1>1. ServicesInv /\ [MCNext]_<<part, vars, otherVars>> =>
          [\A r \in Directions, day \in FxDays :
             rates[r][day] # NoRow /\ rates'[r][day] # NoRow =>
               rates'[r][day].id = rates[r][day].id /\ rates'[r][day].source = rates[r][day].source]_rates
    <2>. SUFFICES ASSUME ServicesInv, StepOfEach
                  PROVE  <1>1!2
      BY EachStep
    <2>1. RatesStep
      BY FxInvNext DEF ServicesInv, StepOfEach
    <2>. QED  BY <2>1 DEF RatesStep, CellStep
  <1>2. ServicesInv /\ [MCNext]_<<part, vars, otherVars>> =>
          [\A k \in Kinds : snaps[k] # NoRow =>
             snaps'[k] # NoRow /\ (snaps[k].fetched > 0 => snaps'[k].fetched > 0)]_snaps
    BY EachStep, FxInvNext DEF ServicesInv, StepOfEach, GoodKept
  <1>. QED  BY <1>1, <1>2, ServicesInvariant, PTL DEF MCSpec, EnteredRateStands, LastGoodKept

LEMMA ChangesResolved == MCSpec => ResolvedForGood
  <1>1. [MCNext]_<<part, vars, otherVars>> =>
          [\A i \in DOMAIN deskChanges : deskChanges[i] \in {"completed", "rejected"} => deskChanges'[i] = deskChanges[i]]_deskVars
    BY EachStep, ChangesStay DEF StepOfEach, ChangesStand
  <1>. QED  BY <1>1, PTL DEF MCSpec, ResolvedForGood

(* No step of any desk rewrites what must stand: an entry of the ledger    *)
(* (payments_ledger_guard), a settled promise or cancelled instalment      *)
(* (Promises.resolve), a closed agency (SetStatus, SweepOverdue), a rate   *)
(* entered by hand (SyncRates, Update), the last good quotes               *)
(* (SaveFailure) or a resolved change request (ResolveChange); and no sale *)
(* passes an agency's limit (AssignBooking).                               *)
THEOREM NothingRewrittenHolds == MCSpec => NothingRewritten
  BY LedgerInside, LedgerAppendOnlyHolds, PlansStand, AgenciesStand, RatesStand, ChangesResolved DEF NothingRewritten

-----------------------------------------------------------------------------
(* A supplier, its account and its invoice.                                *)
(* Copies in flight are rows of an earlier moment.                         *)
SupplierRow == [model : PaymentModels, active : BOOLEAN, health : HealthStatuses, limit : CreditLimits,
                deposit : 0 .. MaxFunds, used : 0 .. MaxFunds, last : 0 .. MaxFunds]
InvoiceRow == [status : InvoiceStatuses, total : 0 .. 2, lines : 0 .. 2]
SupplierJob(j, inv) ==
    /\ j.op = "probe" => j.health \in HealthStatuses
    /\ j.op = "status" => j.in.to \in InvoiceStatuses /\ j.row \in InvoiceRow /\ inv # NoRow
    /\ j.op = "lines" => j.in.sum \in 1 .. 2 /\ j.row \in InvoiceRow /\ inv # NoRow
PayJob(j, inv) == j.op = "pay" => inv # NoRow /\ j.inv \in InvoiceRow /\ j.f \in SupplierRow
SupplierJobs(jobs, inv) == jobs = [d \in Desks |-> jobs[d]] /\ \A d \in Desks : SupplierJob(jobs[d], inv)
PayJobs(jobs, inv) == \A d \in Desks : PayJob(jobs[d], inv)
OnItsSide(f) ==
    /\ f \in SupplierRow
    /\ f.model # "prepaid" => f.deposit = 0
    /\ f.model # "postpaid" => f.used = 0
    /\ f.last = Balance(f)
SupplierInv ==
    /\ OnItsSide(sup) /\ invoice \in InvoiceRow \cup {NoRow}
    /\ dispute \in DisputeStatuses \cup {NoRow} /\ slink \in LinkStatuses \cup {NoRow} /\ chase \in {"none", "open", "done"}
    /\ SupplierJobs(sjob, invoice) /\ PayJobs(tjob, invoice)

LEMMA SupplierInitHolds == SupplierInit /\ TreasuryInit => SupplierInv
  <1>. SUFFICES ASSUME SupplierInit, TreasuryInit PROVE SupplierInv
    OBVIOUS
  <1>1. /\ sup = [model |-> "postpaid", active |-> TRUE, health |-> "unknown", limit |-> 0, deposit |-> 0, used |-> 0, last |-> 0]
        /\ dispute = NoRow /\ invoice = NoRow /\ slink = NoRow /\ chase = "none"
        /\ sjob = [d \in Desks |-> Free] /\ tjob = [d \in Desks |-> Free]
    BY DEF SupplierInit, TreasuryInit
  <1>2. OnItsSide(sup)
    BY <1>1, SupplierAssumption DEF OnItsSide, SupplierRow, PaymentModels, HealthStatuses, Balance
  <1>3. SupplierJobs(sjob, invoice) /\ PayJobs(tjob, invoice)
    BY <1>1 DEF SupplierJobs, SupplierJob, PayJobs, PayJob, Free
  <1>. QED  BY <1>1, <1>2, <1>3 DEF SupplierInv

(* The account after an entry that was not refused.                        *)
LEMMA SignsAre ==
    ASSUME NEW m \in PaymentModels, NEW kind \in DOMAIN EntrySign[m], NEW n \in Int
    PROVE  /\ EntrySign[m][kind] * n \in {-n, 0, n}
           /\ m = "card" => EntrySign[m][kind] * n = 0
           /\ kind = "payment" => m = "postpaid" /\ EntrySign[m][kind] * n = -n
           /\ kind = "topup" => EntrySign[m][kind] * n = n
  <1>1. CASE m = "prepaid"
    <2>1. EntrySign[m] = [topup |-> 1, charge |-> -1, refund |-> 1, adjustment |-> 1]
      BY <1>1 DEF EntrySign
    <2>2. kind \in {"topup", "charge", "refund", "adjustment"}
      BY <2>1
    <2>3. EntrySign[m][kind] = (IF kind = "charge" THEN -1 ELSE 1)
      BY <2>1, <2>2
    <2>. QED  BY <1>1, <2>2, <2>3
  <1>2. CASE m = "postpaid"
    <2>1. EntrySign[m] = [charge |-> 1, refund |-> -1, payment |-> -1, adjustment |-> 1]
      BY <1>2 DEF EntrySign
    <2>2. kind \in {"charge", "refund", "payment", "adjustment"}
      BY <2>1
    <2>3. EntrySign[m][kind] = (IF kind \in {"refund", "payment"} THEN -1 ELSE 1)
      BY <2>1, <2>2
    <2>. QED  BY <1>2, <2>2, <2>3
  <1>3. CASE m = "card"
    <2>1. EntrySign[m] = [charge |-> 0, refund |-> 0]
      BY <1>3 DEF EntrySign
    <2>2. kind \in {"charge", "refund"} /\ EntrySign[m][kind] = 0
      BY <2>1
    <2>. QED  BY <1>3, <2>2
  <1>. QED  BY <1>1, <1>2, <1>3 DEF PaymentModels

LEMMA PostedKeeps ==
    ASSUME OnItsSide(sup), NEW kind, NEW n \in Int, NEW g \in Posted(kind, n),
           \/ Balance(g) <= MaxFunds
           \/ kind = "payment"
           \/ kind = "topup" /\ n = 1 /\ sup.deposit < MaxFunds
    PROVE  OnItsSide(g)
  <1>1. PICK m \in Apply(sup, kind, n) : g = [m EXCEPT !.last = Balance(m)]
    BY DEF Posted
  <1>. DEFINE by == EntrySign[sup.model][kind] * n
  <1>2. /\ sup.model \in PaymentModels /\ sup \in SupplierRow /\ MaxFunds \in Nat
        /\ kind \in DOMAIN EntrySign[sup.model] /\ m = Moved(sup, by)
        /\ n # 0 /\ (kind # "adjustment" => n > 0) /\ Balance(m) >= 0
    BY <1>1, SupplierAssumption DEF Apply, OnItsSide, SupplierRow
  <1>3. /\ by \in {-n, 0, n} /\ (sup.model = "card" => by = 0)
        /\ kind = "payment" => sup.model = "postpaid" /\ by = -n
        /\ kind = "topup" => by = n
    BY <1>2, SignsAre
  <1>. HIDE DEF by
  <1>4. by \in Int /\ (kind = "payment" => by < 0)
    BY <1>2, <1>3
  <1>5. CASE sup.model = "prepaid"
    <2>1. m = [sup EXCEPT !.deposit = sup.deposit + by] /\ Balance(m) = sup.deposit + by
      BY <1>2, <1>5 DEF Moved, Balance, SupplierRow
    <2>2. g = [sup EXCEPT !.deposit = sup.deposit + by, !.last = sup.deposit + by]
      BY <1>1, <1>2, <2>1 DEF SupplierRow
    <2>3. g.deposit = sup.deposit + by /\ g.model = "prepaid" /\ g.used = sup.used /\ g.last = g.deposit
      BY <1>2, <1>5, <2>2 DEF SupplierRow
    <2>4. sup.deposit \in 0 .. MaxFunds
      BY <1>2 DEF SupplierRow
    <2>5. sup.deposit + by \in 0 .. MaxFunds
      BY <1>2, <1>3, <1>4, <1>5, <2>1, <2>3, <2>4 DEF Balance
    <2>6. g \in SupplierRow
      BY <1>2, <2>2, <2>5 DEF SupplierRow
    <2>. QED  BY <1>5, <2>3, <2>6 DEF OnItsSide, Balance
  <1>6. CASE sup.model = "postpaid"
    <2>1. m = [sup EXCEPT !.used = sup.used + by] /\ Balance(m) = sup.used + by
      BY <1>2, <1>6 DEF Moved, Balance, SupplierRow
    <2>2. g = [sup EXCEPT !.used = sup.used + by, !.last = sup.used + by]
      BY <1>1, <1>2, <2>1 DEF SupplierRow
    <2>3. g.used = sup.used + by /\ g.model = "postpaid" /\ g.deposit = sup.deposit /\ g.last = g.used
      BY <1>2, <1>6, <2>2 DEF SupplierRow
    <2>4. sup.used \in 0 .. MaxFunds /\ kind # "topup"
      BY <1>2, <1>6 DEF SupplierRow, EntrySign
    <2>5. sup.used + by \in 0 .. MaxFunds
      BY <1>2, <1>3, <1>4, <1>6, <2>1, <2>3, <2>4 DEF Balance
    <2>6. g \in SupplierRow
      BY <1>2, <2>2, <2>5 DEF SupplierRow
    <2>. QED  BY <1>6, <2>3, <2>6 DEF OnItsSide, Balance
  <1>7. CASE sup.model = "card"
    <2>1. m = sup /\ Balance(m) = 0
      BY <1>2, <1>7 DEF Moved, Balance
    <2>2. g = sup
      BY <1>1, <1>2, <1>7, <2>1 DEF OnItsSide, SupplierRow, Balance
    <2>. QED  BY <2>2
  <1>. QED  BY <1>2, <1>5, <1>6, <1>7 DEF PaymentModels

(* A desk takes up a job or drops it.                                      *)
LEMMA SupplierDesk ==
    ASSUME SupplierJobs(sjob, invoice), NEW d \in Desks, NEW j, SupplierJob(j, invoice), sjob' = [sjob EXCEPT ![d] = j],
           invoice # NoRow => invoice' # NoRow
    PROVE  SupplierJobs(sjob', invoice')
  <1>1. sjob' = [e \in Desks |-> IF e = d THEN j ELSE sjob[e]]
    BY DEF SupplierJobs
  <1>. QED  BY <1>1 DEF SupplierJobs, SupplierJob

LEMMA FundsKeep ==
    ASSUME SupplierInv, FundsNext, UNCHANGED <<invoiceVars, chaseVars, tjob>>
    PROVE  SupplierInv'
  <1>1. /\ OnItsSide(sup) /\ sup \in SupplierRow /\ SupplierJobs(sjob, invoice) /\ UNCHANGED <<invoice, dispute, slink, chase, tjob>>
        /\ PayJobs(tjob, invoice)
    BY DEF SupplierInv, OnItsSide, invoiceVars, chaseVars
  <1>2. SUFFICES OnItsSide(sup') /\ SupplierJobs(sjob', invoice')
    BY <1>1 DEF SupplierInv
  <1>3. ASSUME NEW m \in PaymentModels, NEW l \in CreditLimits, UpdateSupplier(m, l)
        PROVE  OnItsSide(sup') /\ SupplierJobs(sjob', invoice')
    <2>1. sup' = [sup EXCEPT !.model = m, !.limit = l] /\ sjob' = sjob /\ (sup.deposit # 0 \/ sup.used # 0 => m = sup.model)
      BY <1>3 DEF UpdateSupplier
    <2>. QED  BY <1>1, <2>1 DEF OnItsSide, SupplierRow, Balance
  <1>4. ASSUME NEW b \in BOOLEAN, SetActive(b)
        PROVE  OnItsSide(sup') /\ SupplierJobs(sjob', invoice')
    BY <1>1, <1>4 DEF SetActive, OnItsSide, SupplierRow, Balance
  <1>5. ASSUME NEW h \in HealthStatuses, SetHealth(h)
        PROVE  OnItsSide(sup') /\ SupplierJobs(sjob', invoice')
    BY <1>1, <1>5 DEF SetHealth, OnItsSide, SupplierRow, Balance
  <1>6. ASSUME NEW d \in Desks, Probe(d)
        PROVE  OnItsSide(sup') /\ SupplierJobs(sjob', invoice')
    <2>1. PICK slow, failed \in BOOLEAN : sjob' = [sjob EXCEPT ![d] = [op |-> "probe", health |-> ClassifyProbe(slow, failed)]]
      BY <1>6 DEF Probe
    <2>2. SupplierJob([op |-> "probe", health |-> ClassifyProbe(slow, failed)], invoice)
      BY DEF SupplierJob, ClassifyProbe, HealthStatuses
    <2>3. sup' = sup
      BY <1>6 DEF Probe, fundsVars
    <2>. QED  BY <1>1, <2>1, <2>2, <2>3, SupplierDesk
  <1>7. SupplierJob(Free, invoice)
    BY DEF SupplierJob, Free
  <1>8. ASSUME NEW d \in Desks, HealthCheck(d)
        PROVE  OnItsSide(sup') /\ SupplierJobs(sjob', invoice')
    <2>1. sjob[d].health \in HealthStatuses /\ sup' = [sup EXCEPT !.health = sjob[d].health] /\ sjob' = [sjob EXCEPT ![d] = Free]
      BY <1>1, <1>8 DEF HealthCheck, SupplierJobs, SupplierJob
    <2>2. OnItsSide(sup')
      BY <1>1, <2>1 DEF OnItsSide, SupplierRow, Balance
    <2>. QED  BY <1>1, <1>7, <2>1, <2>2, SupplierDesk
  <1>9. ASSUME NEW d \in Desks, SupplierLowBalance(d) \/ (SupplierCrash(d) /\ UNCHANGED fundsVars)
        PROVE  OnItsSide(sup') /\ SupplierJobs(sjob', invoice')
    BY <1>1, <1>7, <1>9, SupplierDesk DEF SupplierLowBalance, SupplierCrash, fundsVars
  <1>10. ASSUME NEW d \in Desks, NEW k \in EntryKinds, NEW n \in Int, PostLedger(d, k, n)
         PROVE  OnItsSide(sup') /\ SupplierJobs(sjob', invoice')
    <2>1. PICK g \in Posted(k, n) :
            /\ Balance(g) <= MaxFunds /\ sup' = g
            /\ sjob' = [sjob EXCEPT ![d] = [op |-> "low", exhausted |-> Exhausted(g)]] \/ sjob' = sjob
      BY <1>10 DEF PostLedger
    <2>2. OnItsSide(sup')
      BY <1>1, <2>1, PostedKeeps
    <2>3. SupplierJob([op |-> "low", exhausted |-> Exhausted(g)], invoice)
      BY DEF SupplierJob
    <2>. QED  BY <1>1, <2>1, <2>2, <2>3, SupplierDesk
  <1>11. \A n \in EntryAmounts : n \in Int /\ -n \in Int
    BY SupplierAssumption
  <1>. QED  BY <1>3, <1>4, <1>5, <1>6, <1>8, <1>9, <1>10, <1>11 DEF FundsNext

LEMMA InvoicesKeep ==
    ASSUME SupplierInv, InvoiceNext, UNCHANGED <<fundsVars, chaseVars, tjob>>
    PROVE  SupplierInv'
  <1>1. /\ invoice \in InvoiceRow \cup {NoRow} /\ SupplierJobs(sjob, invoice) /\ UNCHANGED <<sup, dispute, slink, chase, tjob>>
        /\ SupplierJob(Free, invoice) /\ PayJobs(tjob, invoice)
    BY DEF SupplierInv, SupplierJob, Free, fundsVars, chaseVars
  <1>2. SUFFICES invoice' \in InvoiceRow \cup {NoRow} /\ SupplierJobs(sjob', invoice') /\ (invoice # NoRow => invoice' # NoRow)
    BY <1>1 DEF SupplierInv, PayJobs, PayJob
  <1>3. CASE CreateInvoice
    BY <1>1, <1>3 DEF CreateInvoice, InvoiceRow, InvoiceStatuses, SupplierJobs, SupplierJob
  <1>4. ASSUME NEW d \in Desks, NEW to \in InvoiceStatuses, ReadInvoice(d, [op |-> "status", to |-> to])
        PROVE  invoice' \in InvoiceRow \cup {NoRow} /\ SupplierJobs(sjob', invoice') /\ (invoice # NoRow => invoice' # NoRow)
    <2>. DEFINE j == [op |-> "status", in |-> [op |-> "status", to |-> to], row |-> invoice]
    <2>1. sjob' = [sjob EXCEPT ![d] = j] /\ invoice' = invoice /\ invoice # NoRow
      BY <1>4 DEF ReadInvoice
    <2>2. j.op = "status" /\ j.in.to = to /\ j.row = invoice
      OBVIOUS
    <2>3. SupplierJob(j, invoice)
      BY <1>1, <2>1, <2>2 DEF SupplierJob
    <2>. HIDE DEF j
    <2>. QED  BY <1>1, <2>1, <2>3, SupplierDesk
  <1>5. ASSUME NEW d \in Desks, NEW n \in 1 .. 2, ReadInvoice(d, [op |-> "lines", sum |-> n])
        PROVE  invoice' \in InvoiceRow \cup {NoRow} /\ SupplierJobs(sjob', invoice') /\ (invoice # NoRow => invoice' # NoRow)
    <2>. DEFINE j == [op |-> "lines", in |-> [op |-> "lines", sum |-> n], row |-> invoice]
    <2>1. sjob' = [sjob EXCEPT ![d] = j] /\ invoice' = invoice /\ invoice # NoRow
      BY <1>5 DEF ReadInvoice
    <2>2. j.op = "lines" /\ j.in.sum = n /\ j.row = invoice
      OBVIOUS
    <2>3. SupplierJob(j, invoice)
      BY <1>1, <2>1, <2>2 DEF SupplierJob
    <2>. HIDE DEF j
    <2>. QED  BY <1>1, <2>1, <2>3, SupplierDesk
  <1>6. ASSUME NEW d \in Desks, UpdateInvoiceStatus(d)
        PROVE  invoice' \in InvoiceRow \cup {NoRow} /\ SupplierJobs(sjob', invoice') /\ (invoice # NoRow => invoice' # NoRow)
    <2>1. /\ sjob[d].row \in InvoiceRow /\ sjob[d].in.to \in InvoiceStatuses /\ sjob' = [sjob EXCEPT ![d] = Free]
          /\ invoice # NoRow /\ invoice' = [sjob[d].row EXCEPT !.status = sjob[d].in.to, !.lines = invoice.lines]
      BY <1>1, <1>6 DEF UpdateInvoiceStatus, SupplierJobs, SupplierJob
    <2>2. invoice' \in InvoiceRow /\ invoice' # NoRow
      BY <1>1, <2>1, InvoiceAssumption DEF InvoiceRow
    <2>. QED  BY <1>1, <2>1, <2>2, SupplierDesk
  <1>7. ASSUME NEW d \in Desks, SetInvoiceLines(d)
        PROVE  invoice' \in InvoiceRow \cup {NoRow} /\ SupplierJobs(sjob', invoice') /\ (invoice # NoRow => invoice' # NoRow)
    <2>1. /\ sjob[d].row \in InvoiceRow /\ sjob[d].in.sum \in 1 .. 2 /\ sjob' = [sjob EXCEPT ![d] = Free]
          /\ invoice # NoRow /\ invoice' = [sjob[d].row EXCEPT !.total = sjob[d].in.sum, !.lines = sjob[d].in.sum]
      BY <1>1, <1>7 DEF SetInvoiceLines, SupplierJobs, SupplierJob
    <2>. DEFINE sum == sjob[d].in.sum
    <2>2. sum \in 0 .. 2
      BY <2>1
    <2>. HIDE DEF sum
    <2>3. invoice' = [[sjob[d].row EXCEPT !.total = sum] EXCEPT !.lines = sum]
      BY <2>1 DEF sum
    <2>4. invoice' \in InvoiceRow /\ invoice' # NoRow
      BY <2>1, <2>2, <2>3, InvoiceAssumption DEF InvoiceRow
    <2>. QED  BY <1>1, <2>1, <2>4, SupplierDesk
  <1>. QED  BY <1>3, <1>4, <1>5, <1>6, <1>7 DEF InvoiceNext

LEMMA ChasesKeep ==
    ASSUME SupplierInv, ChaseNext, UNCHANGED <<fundsVars, invoiceVars, tjob>>
    PROVE  SupplierInv'
  <1>1. /\ SupplierJobs(sjob, invoice) /\ UNCHANGED <<sup, invoice, tjob>> /\ SupplierJob(Free, invoice)
        /\ dispute \in DisputeStatuses \cup {NoRow} /\ slink \in LinkStatuses \cup {NoRow} /\ chase \in {"none", "open", "done"}
    BY DEF SupplierInv, SupplierJob, Free, fundsVars, invoiceVars
  <1>2. \A op \in {"confirmed", "chase"} : SupplierJob([op |-> op], invoice)
    BY DEF SupplierJob
  <1>3. \/ sjob' = sjob
        \/ \E d \in Desks : sjob' = [sjob EXCEPT ![d] = Free]
        \/ \E d \in Desks, op \in {"confirmed", "chase"} : sjob' = [sjob EXCEPT ![d] = [op |-> op]]
    BY DEF ChaseNext, CreateLink, DeleteLink, OpenDispute, CloseDispute, ConfirmLink, SupplierConfirmed,
           ListUnconfirmed, SupplierUnconfirmed, SupplierCrash, chaseVars
  <1>4. SupplierJobs(sjob', invoice')
    BY <1>1, <1>2, <1>3, SupplierDesk
  <1>5. /\ dispute' \in DisputeStatuses \cup {NoRow} /\ slink' \in LinkStatuses \cup {NoRow} /\ chase' \in {"none", "open", "done"}
    BY <1>1 DEF ChaseNext, CreateLink, DeleteLink, OpenDispute, CloseDispute, ConfirmLink, SupplierConfirmed,
           ListUnconfirmed, SupplierUnconfirmed, SupplierCrash, chaseVars, DisputeStatuses, LinkStatuses
  <1>. QED  BY <1>1, <1>4, <1>5 DEF SupplierInv

(* A desk of the treasury takes up a job that pays nothing.                *)
LEMMA PaysNothing ==
    ASSUME DOMAIN tjob = Desks, PayJobs(tjob, invoice), NEW d \in Desks, NEW j, PayJob(j, invoice), tjob' = [tjob EXCEPT ![d] = j]
    PROVE  PayJobs(tjob', invoice)
  BY DEF PayJobs

LEMMA TreasuryPaysNothing ==
    ASSUME TreasuryInv, PayJobs(tjob, invoice), TreasuryNext
    PROVE  PayJobs(tjob', invoice)
  <1>1. DOMAIN tjob = Desks /\ PayJob(Free, invoice) /\ \A d \in Desks : tjob[d].op = "auto" => {"op", "credits"} = DOMAIN tjob[d]
    BY DEF TreasuryInv, LocksHeld, PayJob, Free
  <1>2. ASSUME NEW d \in Desks, NEW from, NEW to, TransferLock(d, from, to)
        PROVE  PayJobs(tjob', invoice)
    <2>1. tjob' = [tjob EXCEPT ![d] = [op |-> "transfer", from |-> from, to |-> to]]
      BY <1>2 DEF TransferLock
    <2>2. PayJob([op |-> "transfer", from |-> from, to |-> to], invoice)
      BY DEF PayJob
    <2>. QED  BY <1>1, <2>1, <2>2, PaysNothing
  <1>3. ASSUME NEW d \in Desks, NEW rows, ImportFeed(d, FeedAccount, rows)
        PROVE  PayJobs(tjob', invoice)
    <2>1. PICK new : tjob' = [tjob EXCEPT ![d] = IF new = {} THEN Free ELSE [op |-> "auto", credits |-> new]]
      BY <1>3 DEF ImportFeed
    <2>2. PayJob([op |-> "auto", credits |-> new], invoice)
      BY DEF PayJob
    <2>. QED  BY <1>1, <2>1, <2>2, PaysNothing
  <1>4. ASSUME NEW d \in Desks, NEW hits, AutoMatch(d, hits)
        PROVE  PayJobs(tjob', invoice)
    <2>1. PICK rest : tjob[d].op = "auto" /\ tjob' = [tjob EXCEPT ![d] = IF rest = {} THEN Free ELSE [tjob[d] EXCEPT !.credits = rest]]
      BY <1>4 DEF AutoMatch
    <2>2. PayJob([tjob[d] EXCEPT !.credits = rest], invoice)
      BY <1>1, <2>1 DEF PayJob
    <2>. QED  BY <1>1, <2>1, <2>2, PaysNothing
  <1>5. ASSUME NEW d \in Desks, NEW op \in {"match", "ignore"}, NEW e, ReadMovement(d, op, e)
        PROVE  PayJobs(tjob', invoice)
    <2>1. tjob' = [tjob EXCEPT ![d] = [op |-> op, id |-> e]]
      BY <1>5 DEF ReadMovement
    <2>2. PayJob([op |-> op, id |-> e], invoice)
      BY DEF PayJob
    <2>. QED  BY <1>1, <2>1, <2>2, PaysNothing
  <1>6. ASSUME NEW d \in Desks, Transfer(d) \/ Match(d) \/ Ignore(d) \/ TreasuryCrash(d)
        PROVE  PayJobs(tjob', invoice)
    BY <1>1, <1>6, PaysNothing DEF Transfer, Match, Ignore, TreasuryCrash
  <1>7. ASSUME NEW a, NEW kind, NEW dir, NEW fee, PostMovement(a, kind, dir, fee)
        PROVE  PayJobs(tjob', invoice)
    BY <1>7 DEF PostMovement
  <1>8. ASSUME NEW a, NEW b, UpdateAccount(a, b)
        PROVE  PayJobs(tjob', invoice)
    BY <1>8 DEF UpdateAccount
  <1>. QED  BY <1>2, <1>3, <1>4, <1>5, <1>6, <1>7, <1>8 DEF TreasuryNext

(* What an invoice settles is at most what was used when it was read.      *)
LEMMA SettlementType ==
    ASSUME NEW inv \in InvoiceRow, NEW f \in SupplierRow
    PROVE  Settlement(inv, f) \in Int
  <1>1. inv.total \in Int /\ f.used \in Int
    BY SupplierAssumption DEF InvoiceRow, SupplierRow
  <1>. QED  BY <1>1 DEF Settlement

LEMMA PayablesAddUp ==
    ASSUME SupplierInv, TreasuryInv, PayablesNext, UNCHANGED chaseVars
    PROVE  SupplierInv'
  <1>1. /\ OnItsSide(sup) /\ sup \in SupplierRow /\ invoice \in InvoiceRow \cup {NoRow} /\ SupplierJobs(sjob, invoice) /\ PayJobs(tjob, invoice)
        /\ UNCHANGED <<dispute, slink, chase, sjob>> /\ DOMAIN tjob = Desks /\ PayJob(Free, invoice)
    BY DEF SupplierInv, OnItsSide, chaseVars, TreasuryInv, LocksHeld, PayJob, Free, PayablesNext
  <1>2. ASSUME OnItsSide(sup'), invoice' \in InvoiceRow \cup {NoRow}, invoice # NoRow => invoice' # NoRow, PayJobs(tjob', invoice)
        PROVE  SupplierInv'
    <2>1. SupplierJobs(sjob', invoice')
      BY <1>1, <1>2 DEF SupplierJobs, SupplierJob
    <2>. QED  BY <1>1, <1>2, <2>1 DEF SupplierInv, PayJobs, PayJob
  <1>3. ASSUME NEW d \in Desks, ReadPayable(d)
        PROVE  SupplierInv'
    <2>1. /\ tjob' = [tjob EXCEPT ![d] = [op |-> "pay", inv |-> invoice, f |-> sup]] /\ UNCHANGED <<sup, invoice>> /\ invoice # NoRow
      BY <1>3 DEF ReadPayable, fundsVars
    <2>2. PayJob([op |-> "pay", inv |-> invoice, f |-> sup], invoice)
      BY <1>1, <2>1 DEF PayJob
    <2>3. PayJobs(tjob', invoice)
      BY <1>1, <2>1, <2>2, PaysNothing
    <2>. QED  BY <1>1, <1>2, <2>1, <2>3
  <1>4. ASSUME NEW d \in Desks, NEW a \in AccountIds, PayInvoice(d, a)
        PROVE  SupplierInv'
    <2>1. tjob[d].inv \in InvoiceRow /\ tjob[d].f \in SupplierRow /\ invoice \in InvoiceRow /\ PayJobs(tjob', invoice)
      BY <1>1, <1>4, PaysNothing DEF PayInvoice, PayJobs, PayJob
    <2>. DEFINE due == Settlement(tjob[d].inv, tjob[d].f)
                line == IF due = 0 THEN {sup} ELSE Posted("payment", due)
    <2>2. due \in Int
      BY <2>1, SettlementType
    <2>3. \/ InvoiceMoves(invoice.status, "paid") /\ invoice' = [invoice EXCEPT !.status = "paid"] /\ \E g \in line : sup' = g
          \/ UNCHANGED <<sup, invoice>>
      BY <1>4 DEF PayInvoice, fundsVars
    <2>. HIDE DEF due
    <2>4. \A g \in line : OnItsSide(g)
      BY <1>1, <2>2, PostedKeeps
    <2>. HIDE DEF line
    <2>7. OnItsSide(sup')
      BY <1>1, <2>3, <2>4
    <2>5. CASE UNCHANGED <<sup, invoice>>
      BY <1>1, <1>2, <2>1, <2>5
    <2>6. CASE invoice' = [invoice EXCEPT !.status = "paid"]
      <3>1. invoice' \in InvoiceRow /\ invoice' # NoRow
        BY <2>1, <2>6, InvoiceAssumption DEF InvoiceRow, InvoiceStatuses
      <3>. QED  BY <1>1, <1>2, <2>1, <2>7, <3>1
    <2>. QED  BY <2>3, <2>5, <2>6
  <1>5. ASSUME NEW a \in AccountIds, TopUpDeposit(a)
        PROVE  SupplierInv'
    <2>1. PICK g \in Posted("topup", 1) : sup' = g
      BY <1>5 DEF TopUpDeposit
    <2>2. OnItsSide(sup')
      BY <1>1, <1>5, <2>1, PostedKeeps DEF TopUpDeposit
    <2>. QED  BY <1>1, <1>2, <1>5, <2>2 DEF TopUpDeposit
  <1>6. CASE InvoiceTurns /\ UNCHANGED <<fundsVars, sjob, treasuryVars>>
    <2>1. UNCHANGED <<sup, tjob>>
      BY <1>6 DEF fundsVars, treasuryVars
    <2>2. invoice' \in InvoiceRow /\ invoice' # NoRow
      BY <1>1, <1>6, InvoiceAssumption DEF InvoiceTurns, InvoiceRow, InvoiceStatuses
    <2>. QED  BY <1>1, <1>2, <2>1, <2>2
  <1>7. CASE LedgerTurns /\ UNCHANGED <<fundsTold, sjob, invoice, treasuryVars>>
    <2>1. UNCHANGED <<invoice, tjob>>
      BY <1>7 DEF treasuryVars
    <2>2. ASSUME NEW k \in EntryKinds, NEW g \in Posted(k, 1), Balance(g) <= MaxFunds, sup' = g
          PROVE  OnItsSide(sup')
      BY <1>1, <2>2, PostedKeeps
    <2>3. ASSUME NEW m \in PaymentModels, sup.deposit = 0, sup.used = 0, sup' = [sup EXCEPT !.model = m]
          PROVE  OnItsSide(sup')
      BY <1>1, <2>3 DEF OnItsSide, SupplierRow, Balance
    <2>4. OnItsSide(sup')
      BY <1>7, <2>2, <2>3 DEF LedgerTurns
    <2>. QED  BY <1>1, <1>2, <2>1, <2>4
  <1>. QED  BY <1>3, <1>4, <1>5, <1>6, <1>7 DEF PayablesNext

-----------------------------------------------------------------------------
(* The accounts.  Only a feed posts more than one movement at once, so     *)
(* every other account's balance is what was posted to it.                 *)
BookHolds(a, row, sum) ==
    /\ DOMAIN row = {"balance", "active"}
    /\ a # FeedAccount \/ a \in CashAccounts => row.balance \in Int /\ row.balance = sum
    /\ a \in CashAccounts => row.balance >= 0
BooksInv ==
    /\ DOMAIN account = AccountIds /\ DOMAIN posted = AccountIds
    /\ \A a \in AccountIds : BookHolds(a, account[a], posted[a])

LEMMA BooksInitHolds == TreasuryInit => BooksInv
  BY DEF TreasuryInit, BooksInv, BookHolds

LEMMA PostOnKeeps ==
    ASSUME BooksInv, NEW a \in AccountIds, NEW n, PostOn(a, n)
    PROVE  BooksInv'
  <1>1. /\ account' = [account EXCEPT ![a] = [account[a] EXCEPT !.balance = account[a].balance + n]]
        /\ posted' = [posted EXCEPT ![a] = posted[a] + n]
        /\ a \in CashAccounts => account[a].balance + n >= 0
        /\ account[a].balance + n \in -MaxBalance .. MaxBalance
    BY DEF PostOn, AccountPost
  <1>2. BookHolds(a, account[a], posted[a])
    BY DEF BooksInv
  <1>3. account[a].balance + n \in Int
    BY <1>1, TreasuryAssumption
  <1>. DEFINE row == [account[a] EXCEPT !.balance = account[a].balance + n]
  <1>4. DOMAIN row = {"balance", "active"} /\ row.balance = account[a].balance + n
    BY <1>2 DEF BookHolds
  <1>. HIDE DEF row
  <1>5. BookHolds(a, row, posted[a] + n)
    BY <1>1, <1>2, <1>3, <1>4 DEF BookHolds
  <1>. QED  BY <1>1, <1>5 DEF BooksInv, row

LEMMA TransferKeeps ==
    ASSUME BooksInv, TreasuryInv, NEW d \in Desks, Transfer(d)
    PROVE  BooksInv'
  <1>. DEFINE from == tjob[d].from
              to == tjob[d].to
  <1>1. from \in AccountIds /\ to \in AccountIds /\ from # to
    BY DEF Transfer, TreasuryInv, LocksHeld, Transfers
  <1>2. CASE UNCHANGED <<account, posted>>
    BY <1>2 DEF BooksInv
  <1>3. CASE ~UNCHANGED <<account, posted>>
    <2>1. /\ account' = [account EXCEPT ![from] = [account[from] EXCEPT !.balance = account[from].balance + Net("out", 1, 0)],
                                        ![to] = [account[to] EXCEPT !.balance = account[to].balance + Net("in", 1, 0)]]
          /\ posted' = [posted EXCEPT ![from] = @ - 1, ![to] = @ + 1]
          /\ from \in CashAccounts => account[from].balance + Net("out", 1, 0) >= 0
          /\ to \in CashAccounts => account[to].balance + Net("in", 1, 0) >= 0
      BY <1>3 DEF Transfer, AccountPost
    <2>2. Net("out", 1, 0) = -1 /\ Net("in", 1, 0) = 1
      BY DEF Net
    <2>3. BookHolds(from, account[from], posted[from]) /\ BookHolds(to, account[to], posted[to])
      BY <1>1 DEF BooksInv
    <2>. DEFINE less == [account[from] EXCEPT !.balance = account[from].balance + Net("out", 1, 0)]
                more == [account[to] EXCEPT !.balance = account[to].balance + Net("in", 1, 0)]
    <2>4. /\ DOMAIN less = {"balance", "active"} /\ less.balance = account[from].balance + Net("out", 1, 0)
          /\ DOMAIN more = {"balance", "active"} /\ more.balance = account[to].balance + Net("in", 1, 0)
      BY <2>3 DEF BookHolds
    <2>. HIDE DEF less, more
    <2>5. BookHolds(from, less, posted[from] - 1)
      BY <2>1, <2>2, <2>3, <2>4 DEF BookHolds
    <2>6. BookHolds(to, more, posted[to] + 1)
      BY <2>1, <2>2, <2>3, <2>4 DEF BookHolds
    <2>7. account' = [account EXCEPT ![from] = less, ![to] = more]
      BY <2>1 DEF less, more
    <2>. HIDE DEF from, to
    <2>8. /\ account'[from] = less /\ account'[to] = more /\ DOMAIN account' = AccountIds
          /\ posted'[from] = posted[from] - 1 /\ posted'[to] = posted[to] + 1 /\ DOMAIN posted' = AccountIds
          /\ \A a \in AccountIds \ {from, to} : account'[a] = account[a] /\ posted'[a] = posted[a]
      BY <1>1, <2>1, <2>7 DEF BooksInv
    <2>. QED  BY <2>5, <2>6, <2>8 DEF BooksInv
  <1>. QED  BY <1>2, <1>3

LEMMA BooksKeep ==
    ASSUME BooksInv, TreasuryInv, TreasuryNext \/ PayablesNext \/ UNCHANGED treasuryVars
    PROVE  BooksInv'
  <1>1. ASSUME UNCHANGED <<account, posted>> PROVE BooksInv'
    BY <1>1 DEF BooksInv
  <1>2. CASE TreasuryNext
    <2>1. ASSUME NEW a \in AccountIds, NEW kind, NEW dir, NEW fee, PostMovement(a, kind, dir, fee)
          PROVE  BooksInv'
      BY <2>1, PostOnKeeps DEF PostMovement
    <2>2. ASSUME NEW a \in AccountIds, NEW b, UpdateAccount(a, b)
          PROVE  BooksInv'
      BY <2>2 DEF UpdateAccount, BooksInv, BookHolds
    <2>3. ASSUME NEW d \in Desks, NEW from, NEW to, TransferLock(d, from, to)
          PROVE  BooksInv'
      BY <1>1, <2>3 DEF TransferLock
    <2>4. ASSUME NEW d \in Desks, NEW rows, ImportFeed(d, FeedAccount, rows)
          PROVE  BooksInv'
      <3>1. PICK b, n : /\ account' = [account EXCEPT ![FeedAccount].balance = b] /\ FeedAccount \notin CashAccounts
                        /\ posted' = [posted EXCEPT ![FeedAccount] = @ + n]
        BY <2>4 DEF ImportFeed
      <3>. QED  BY <3>1, TreasuryAssumption DEF BooksInv, BookHolds
    <2>5. ASSUME NEW d \in Desks,
                 \/ \E hits \in SUBSET {1, 2} : AutoMatch(d, hits)
                 \/ \E e \in ExternalIds : ReadMovement(d, "match", e) \/ ReadMovement(d, "ignore", e)
                 \/ Match(d) \/ Ignore(d) \/ TreasuryCrash(d)
          PROVE  BooksInv'
      BY <1>1, <2>5 DEF AutoMatch, ReadMovement, Match, Ignore, TreasuryCrash, accountVars
    <2>. QED  BY <1>2, <2>1, <2>2, <2>3, <2>4, <2>5, TransferKeeps DEF TreasuryNext
  <1>3. CASE PayablesNext
    <2>1. ASSUME NEW d \in Desks, ReadPayable(d)
          PROVE  BooksInv'
      BY <1>1, <2>1 DEF ReadPayable, accountVars
    <2>2. ASSUME NEW d \in Desks, NEW a \in AccountIds, PayInvoice(d, a)
          PROVE  BooksInv'
      BY <1>1, <2>2, PostOnKeeps DEF PayInvoice, accountVars
    <2>3. ASSUME NEW a \in AccountIds, TopUpDeposit(a)
          PROVE  BooksInv'
      BY <2>3, PostOnKeeps DEF TopUpDeposit
    <2>. QED  BY <1>1, <1>3, <2>1, <2>2, <2>3 DEF PayablesNext, treasuryVars, accountVars
  <1>4. CASE UNCHANGED treasuryVars
    BY <1>1, <1>4 DEF treasuryVars, accountVars
  <1>. QED  BY <1>2, <1>3, <1>4

-----------------------------------------------------------------------------
(* What the services around the ledger hold of their amounts.              *)
AmountsInv == ServicesInv /\ SupplierInv /\ BooksInv

LEMMA AmountsInit == MCInit => SupplierInv /\ BooksInv
  BY SupplierInitHolds, BooksInitHolds DEF MCInit

LEMMA AmountsNext == AmountsInv /\ [MCNext]_<<part, vars, otherVars>> => SupplierInv' /\ BooksInv'
  <1>. SUFFICES ASSUME AmountsInv, [MCNext]_<<part, vars, otherVars>>
                PROVE  SupplierInv' /\ BooksInv'
    OBVIOUS
  <1>1. SupplierInv /\ BooksInv /\ TreasuryInv
    BY DEF AmountsInv, ServicesInv
  <1>2. BooksInv'
    BY <1>1, EachStep, BooksKeep DEF StepOfEach
  <1>. SUFFICES SupplierInv'
    BY <1>2
  <1>3. CASE SuppliersStep
    <2>1. UNCHANGED tjob
      BY <1>3 DEF SuppliersStep, treasuryVars
    <2>. QED  BY <1>1, <1>3, <2>1, FundsKeep, InvoicesKeep, ChasesKeep DEF SuppliersStep
  <1>4. CASE TreasuryStep
    <2>1. CASE TreasuryNext /\ UNCHANGED supplierVars
      <3>1. PayJobs(tjob', invoice)
        BY <1>1, <2>1, TreasuryPaysNothing DEF SupplierInv
      <3>. QED  BY <1>1, <2>1, <3>1 DEF SupplierInv, supplierVars, fundsVars, invoiceVars, chaseVars
    <2>2. CASE PayablesNext /\ UNCHANGED chaseVars
      BY <1>1, <2>2, PayablesAddUp
    <2>. QED  BY <1>4, <2>1, <2>2 DEF TreasuryStep
  <1>5. CASE UNCHANGED <<supplierVars, treasuryVars>>
    BY <1>1, <1>5 DEF SupplierInv, supplierVars, fundsVars, invoiceVars, chaseVars, treasuryVars
  <1>6. UNCHANGED <<supplierVars, treasuryVars>> \/ SuppliersStep \/ TreasuryStep
    BY DEF MCNext, otherVars, partyVars, PlansStep, ReceivablesStep, RulesStep, FxStep, TargetsStep, DeskStep
  <1>. QED  BY <1>3, <1>4, <1>5, <1>6

LEMMA AmountsInvariant == MCSpec => []AmountsInv
  <1>1. MCInit /\ ServicesInv => AmountsInv
    BY AmountsInit DEF AmountsInv
  <1>2. AmountsInv /\ ServicesInv' /\ [MCNext]_<<part, vars, otherVars>> => AmountsInv'
    BY AmountsNext DEF AmountsInv
  <1>. QED  BY <1>1, <1>2, ServicesInvariant, PTL DEF MCSpec

(* A supplier's money stands on its payment model's side of the account    *)
(* whatever desks post, edit, top up or pay at once (PostLedger, Update,   *)
(* PayInvoice), and its invoice and its links are in a legal status.       *)
THEOREM FundsStayOnTheirSide == MCSpec => [](SupplierTypeOK /\ FundsOnTheModelsSide)
  <1>1. AmountsInv => SupplierTypeOK /\ FundsOnTheModelsSide
    <2>. SUFFICES ASSUME AmountsInv PROVE SupplierTypeOK /\ FundsOnTheModelsSide
      OBVIOUS
    <2>. QED  BY DEF AmountsInv, SupplierInv, OnItsSide, SupplierRow, InvoiceRow, SupplierTypeOK, FundsOnTheModelsSide
  <1>. QED  BY <1>1, AmountsInvariant, PTL

(* Every account's balance is the sum of the movements posted to it, the   *)
(* feed's apart, and no cash account is overdrawn, whatever transfers,     *)
(* payments and corrections race (AccountPost, Transfer, PayInvoice).      *)
THEOREM BooksBalance ==
    MCSpec => [](\A a \in AccountIds : /\ a # FeedAccount \/ a \in CashAccounts => account[a].balance = posted[a]
                                       /\ a \in CashAccounts => account[a].balance >= 0)
  <1>1. AmountsInv => \A a \in AccountIds : /\ a # FeedAccount \/ a \in CashAccounts => account[a].balance = posted[a]
                                            /\ a \in CashAccounts => account[a].balance >= 0
    BY DEF AmountsInv, BooksInv, BookHolds
  <1>. QED  BY <1>1, AmountsInvariant, PTL

-----------------------------------------------------------------------------
(* Conversions.  A rate is positive however it came in, so its inverse can *)
(* be taken.                                                               *)
RatesPositive ==
    /\ \A r \in Directions, day \in FxDays : rates[r][day] # NoRow => rates[r][day].scaled \in Nat \ {0}
    /\ \A d \in Desks : fxjob[d].op = "sync" => fxjob[d].scaled \in Nat \ {0}
(* Once a snapshot is stored, a board stays cached only until the sync     *)
(* that stored it ends.                                                    *)
DroppedAtTheEnd == unseen /\ board # NoRow => fxjob[Api].op = "store"
AnswersInv == RatesPositive /\ DroppedAtTheEnd /\ StaleAsLastResort

LEMMA ApiIsADesk == Api \in Desks
  BY FxAssumption DEF Api

LEMMA AnswersInit == FxInit => AnswersInv
  BY ApiIsADesk DEF FxInit, AnswersInv, RatesPositive, DroppedAtTheEnd, StaleAsLastResort, Free

LEMMA SidesStand ==
    ASSUME StaleAsLastResort, SideNext \/ UNCHANGED side
    PROVE  StaleAsLastResort'
  <1>1. CASE UNCHANGED side
    BY <1>1 DEF StaleAsLastResort, AccountingRate
  <1>2. ASSUME NEW kind \in {"official", "market"}, NEW q \in [age : 0 .. 2] \cup {NoRow}, NEW usd \in [age : 0 .. 2] \cup {NoRow},
               NEW cross \in [age : 0 .. 2] \cup {NoRow}, ComposeSide(kind, q, usd, cross)
        PROVE  StaleAsLastResort'
    <2>. DEFINE out == IF kind = "official" THEN ResolveOfficial(q, usd, cross) ELSE ResolveMarket(q, usd, cross, 1)
    <2>1. /\ side'.op = kind /\ side'.q = q /\ side'.usd = usd /\ side'.cross = cross /\ side'.out = out
      BY <1>2 DEF ComposeSide
    <2>2. CASE kind = "market"
      <3>1. /\ q # NoRow => q.age \in 0 .. 2
            /\ usd # NoRow => usd.age \in 0 .. 2
        BY <1>2
      <3>2. out = IF q # NoRow /\ q.age <= 1 THEN [from |-> "direct", age |-> q.age, stale |-> FALSE]
                  ELSE IF usd # NoRow /\ cross # NoRow
                  THEN [from |-> "usd", age |-> Derive(usd, cross).age, stale |-> ~(usd.age <= 1)]
                  ELSE IF q # NoRow THEN [from |-> "direct", age |-> q.age, stale |-> TRUE]
                  ELSE NoRow
        BY <2>2 DEF ResolveMarket, Fresh1
      <3>. HIDE DEF out
      <3>3. out # NoRow =>
              /\ out.stale => (q # NoRow => q.age > 1) /\ (usd # NoRow /\ cross # NoRow => usd.age > 1)
              /\ ~out.stale => (IF out.from = "direct" THEN q.age ELSE usd.age) <= 1
        <4>1. CASE q # NoRow /\ q.age <= 1
          BY <3>2, <4>1
        <4>2. CASE ~(q # NoRow /\ q.age <= 1) /\ usd # NoRow /\ cross # NoRow
          <5>1. out.from = "usd" /\ out.stale = ~(usd.age <= 1)
            BY <3>2, <4>2
          <5>2. usd.age \in Int /\ (q # NoRow => q.age \in Int)
            BY <3>1, <4>2
          <5>3. CASE usd.age <= 1
            BY <5>1, <5>2, <5>3
          <5>4. CASE ~(usd.age <= 1)
            <6>1. out # NoRow => out.stale
              BY <5>1, <5>4
            <6>. QED  BY <4>2, <5>2, <5>4, <6>1
          <5>. QED  BY <5>3, <5>4
        <4>3. CASE ~(q # NoRow /\ q.age <= 1) /\ ~(usd # NoRow /\ cross # NoRow) /\ q # NoRow
          BY <3>1, <3>2, <4>3
        <4>. QED  BY <3>2, <4>1, <4>2, <4>3
      <3>. QED  BY <2>1, <3>3 DEF StaleAsLastResort, AccountingRate
    <2>3. CASE kind # "market"
      BY <2>1, <2>3 DEF StaleAsLastResort
    <2>. QED  BY <2>2, <2>3
  <1>. QED  BY <1>1, <1>2 DEF SideNext

LEMMA ParsedPositive ==
    ASSUME NEW w \in {0, 1, 3}, NEW f \in {0, 1}, ParseRate(w, f) > 0
    PROVE  ParseRate(w, f) \in Nat \ {0}
  <1>1. w * FxScale + f \in Nat
    BY FxAssumption
  <1>. QED  BY <1>1 DEF ParseRate

LEMMA InsertPositive ==
    ASSUME FxInv, RatesPositive, NEW dir \in Directions, NEW day \in FxDays, NEW scaled \in Nat \ {0}, NEW source,
           InsertRate(dir, day, scaled, source)
    PROVE  \A r \in Directions, x \in FxDays : rates'[r][x] # NoRow => rates'[r][x].scaled \in Nat \ {0}
  BY DEF FxInv, RatesHold, RatesPositive, InsertRate, rateVars

LEMMA RatesStayPositive ==
    ASSUME FxInv, RatesPositive, RateNext
    PROVE  RatesPositive'
  <1>. DEFINE Table == \A r \in Directions, x \in FxDays : rates'[r][x] # NoRow => rates'[r][x].scaled \in Nat \ {0}
              Syncs == \A d \in Desks : fxjob'[d].op = "sync" => fxjob'[d].scaled \in Nat \ {0}
  <1>0. /\ Table /\ Syncs => RatesPositive'
        /\ UNCHANGED rates => Table
        /\ DOMAIN fxjob = Desks
        /\ \A d \in Desks : fxjob[d].op = "sync" => fxjob[d].scaled \in Nat \ {0}
    BY DEF RatesPositive, FxInv, RatesHold
  <1>1. ASSUME NEW r \in Directions, NEW day \in FxDays, DeleteRate(r, day)
        PROVE  Table /\ Syncs
    BY <1>0, <1>1 DEF DeleteRate, RatesPositive, FxInv, RatesHold
  <1>2. ASSUME NEW r \in Directions, NEW day \in FxDays, NEW w \in {0, 1, 3}, CreateRate(r, day, w, IF w = 1 THEN 1 ELSE 0)
        PROVE  Table /\ Syncs
    <2>1. ParseRate(w, IF w = 1 THEN 1 ELSE 0) \in Nat \ {0}
      BY <1>2, ParsedPositive DEF CreateRate
    <2>. QED  BY <1>0, <1>2, <2>1, InsertPositive DEF CreateRate
  <1>3. ASSUME NEW r \in Directions, NEW day \in FxDays, NEW d \in Desks, GetRate(d, r, day)
        PROVE  Table /\ Syncs
    BY <1>0, <1>3 DEF GetRate, rateVars
  <1>4. ASSUME NEW day \in FxDays, NEW v \in FxValues, Adopt(day, v)
        PROVE  Table /\ Syncs
    <2>1. v \in Nat \ {0} /\ "direct" \in Directions
      BY FxAssumption DEF Directions
    <2>. QED  BY <1>0, <1>4, <2>1, InsertPositive DEF Adopt
  <1>5. ASSUME NEW d \in Desks, SyncProvider(d)
        PROVE  Table /\ Syncs
    <2>1. fxjob[d].scaled \in Nat \ {0} /\ "direct" \in Directions /\ FxToday \in FxDays
      BY <1>0, <1>5, FxAssumption DEF SyncProvider, Directions, FxToday
    <2>. QED  BY <1>0, <1>5, <2>1, InsertPositive DEF SyncProvider, Free
  <1>6. ASSUME NEW d \in Desks, NEW v \in FxValues, UpdateRate(d, v)
        PROVE  Table /\ Syncs
    <2>. DEFINE j == fxjob[d]
                here == rates[j.dir][j.day]
    <2>1. /\ v \in Nat \ {0} /\ j.op = "update" /\ RateJob(j) /\ fxjob' = [fxjob EXCEPT ![d] = Free]
          /\ \/ rates' = rates
             \/ here # NoRow /\ rates' = [rates EXCEPT ![j.dir][j.day] = [here EXCEPT !.scaled = v, !.source = j.row.source]]
      BY <1>6, FxAssumption DEF UpdateRate, FxInv, RatesHold
    <2>2. j.dir \in Directions /\ j.day \in FxDays
      BY <2>1 DEF RateJob
    <2>3. Syncs
      BY <1>0, <2>1 DEF Free
    <2>4. CASE here # NoRow /\ rates' = [rates EXCEPT ![j.dir][j.day] = [here EXCEPT !.scaled = v, !.source = j.row.source]]
      <3>. DEFINE new == [here EXCEPT !.scaled = v, !.source = j.row.source]
      <3>1. DOMAIN here = {"scaled", "source", "id"}
        BY <2>2, <2>4 DEF FxInv, RatesHold, RateShape
      <3>2. new.scaled = v
        BY <3>1
      <3>3. rates' = [rates EXCEPT ![j.dir][j.day] = new]
        BY <2>4
      <3>. HIDE DEF new, j, here
      <3>4. Table
        BY <2>1, <2>2, <3>2, <3>3 DEF FxInv, RatesHold, RatesPositive
      <3>. QED  BY <2>3, <3>4
    <2>. QED  BY <1>0, <2>1, <2>3, <2>4
  <1>7. ASSUME NEW d \in Desks, NEW v \in FxValues, ProviderFetch(d, v)
        PROVE  Table /\ Syncs
    BY <1>0, <1>7, FxAssumption DEF ProviderFetch, rateVars
  <1>. HIDE DEF Table, Syncs
  <1>. QED  BY <1>0, <1>1, <1>2, <1>3, <1>4, <1>5, <1>6, <1>7 DEF RateNext

LEMMA LiveAnswers ==
    ASSUME FxInv, RatesPositive, DroppedAtTheEnd, LiveNext
    PROVE  RatesPositive' /\ DroppedAtTheEnd'
  <1>1. /\ rates' = rates /\ DOMAIN fxjob = Desks /\ \A d \in Desks : StoreJob(fxjob[d])
        /\ \A d \in Desks : fxjob[d].op = "sync" => fxjob[d].scaled \in Nat \ {0}
    BY DEF LiveNext, rateVars, FxInv, RatesHold, SnapshotsHold, RatesPositive
  <1>2. ASSUME \A d \in Desks : fxjob'[d] = fxjob[d] \/ fxjob'[d].op # "sync"
        PROVE  RatesPositive'
    BY <1>1, <1>2 DEF RatesPositive
  <1>3. CASE Tick \/ ServeBoard
    <2>1. CASE Tick
      BY <1>1, <1>2, <2>1, ApiIsADesk DEF Tick, DroppedAtTheEnd
    <2>2. CASE ServeBoard
      <3>1. fxjob' = fxjob /\ unseen' = (unseen /\ fxjob[Api].op = "store")
        BY <2>2 DEF ServeBoard
      <3>2. unseen' => fxjob'[Api].op = "store"
        BY <3>1, Zenon
      <3>. QED  BY <1>2, <3>1, <3>2 DEF DroppedAtTheEnd
    <2>. QED  BY <1>3, <2>1, <2>2
  <1>4. ASSUME NEW d \in Desks, NEW force \in BOOLEAN, SyncStart(d, force)
        PROVE  RatesPositive' /\ DroppedAtTheEnd'
    <2>1. PICK good : fxjob' = [fxjob EXCEPT ![d] = [op |-> "store", now |-> tick, good |-> good, todo |-> DueKinds(force)]]
      BY <1>4 DEF SyncStart
    <2>2. unseen' = unseen /\ board' = board
      BY <1>4 DEF SyncStart, liveVars
    <2>3. fxjob'[d].op = "store" /\ \A e \in Desks : e # d => fxjob'[e] = fxjob[e]
      BY <1>1, <2>1
    <2>. QED  BY <1>2, <2>2, <2>3, ApiIsADesk DEF DroppedAtTheEnd
  <1>5. ASSUME NEW d \in Desks, StoreSnapshot(d)
        PROVE  RatesPositive' /\ DroppedAtTheEnd'
    <2>1. /\ fxjob[d].op = "store" /\ fxjob' = [fxjob EXCEPT ![d].todo = Tail(@)]
          /\ unseen' = (unseen \/ d = Api) /\ board' = board
      BY <1>5 DEF StoreSnapshot
    <2>2. "op" \in DOMAIN fxjob[d]
      BY <1>1, <2>1 DEF StoreJob
    <2>3. fxjob'[d] = [fxjob[d] EXCEPT !.todo = Tail(fxjob[d].todo)] /\ \A e \in Desks : e # d => fxjob'[e] = fxjob[e]
      BY <1>1, <2>1
    <2>4. fxjob'[d].op = "store"
      BY <2>1, <2>2, <2>3
    <2>. QED  BY <1>2, <2>1, <2>3, <2>4, ApiIsADesk DEF DroppedAtTheEnd
  <1>6. ASSUME NEW d \in Desks, SyncEnd(d) \/ Restart(d)
        PROVE  RatesPositive' /\ DroppedAtTheEnd'
    <2>1. /\ fxjob' = [fxjob EXCEPT ![d] = Free] /\ unseen' = unseen
          /\ board' = IF d = Api THEN NoRow ELSE board
      BY <1>6 DEF SyncEnd, Restart
    <2>2. fxjob'[d].op # "sync" /\ \A e \in Desks : e # d => fxjob'[e] = fxjob[e]
      BY <1>1, <2>1 DEF Free
    <2>. QED  BY <1>2, <2>1, <2>2, ApiIsADesk DEF DroppedAtTheEnd
  <1>. QED  BY <1>3, <1>4, <1>5, <1>6 DEF LiveNext

LEMMA AnswersNext ==
    ASSUME FxInv, AnswersInv, RateNext \/ LiveNext \/ SideNext \/ UNCHANGED fxVars
    PROVE  AnswersInv'
  <1>1. StaleAsLastResort'
    BY SidesStand DEF AnswersInv, RateNext, LiveNext, sideVars, fxVars
  <1>2. CASE RateNext
    <2>1. \A d \in Desks : fxjob[d].op = "store" => fxjob'[d] = fxjob[d]
      <3>1. DOMAIN fxjob = Desks /\ Free.op # "store"
        BY DEF FxInv, RatesHold, Free
      <3>. QED  BY <1>2, <3>1 DEF RateNext, DeleteRate, CreateRate, GetRate, Adopt, SyncProvider, UpdateRate, ProviderFetch
    <2>2. DroppedAtTheEnd'
      BY <1>2, <2>1, ApiIsADesk DEF AnswersInv, DroppedAtTheEnd, RateNext, liveVars
    <2>. QED  BY <1>1, <1>2, <2>2, RatesStayPositive DEF AnswersInv
  <1>3. CASE LiveNext
    BY <1>1, <1>3, LiveAnswers DEF AnswersInv
  <1>4. CASE SideNext \/ UNCHANGED fxVars
    <2>1. UNCHANGED <<rates, fxjob, unseen, board>>
      BY <1>4 DEF SideNext, fxVars, rateVars, liveVars
    <2>. QED  BY <1>1, <2>1 DEF AnswersInv, RatesPositive, DroppedAtTheEnd
  <1>. QED  BY <1>2, <1>3, <1>4

LEMMA AnswersInvariant == MCSpec => []AnswersInv
  <1>1. MCInit => AnswersInv
    BY AnswersInit DEF MCInit
  <1>2. ServicesInv /\ AnswersInv /\ [MCNext]_<<part, vars, otherVars>> => AnswersInv'
    BY EachStep, AnswersNext DEF StepOfEach, ServicesInv
  <1>. QED  BY <1>1, <1>2, ServicesInvariant, PTL DEF MCSpec

-----------------------------------------------------------------------------
(* The newest of some days is one of them.                                 *)
LEMMA NewestDay ==
    ASSUME NEW S, NEW n \in Nat, S \subseteq 0 .. n, S # {}
    PROVE  \E x \in S : \A y \in S : y <= x
  <1>. DEFINE F == {{y \in 0 .. n : x <= y} : x \in S}
  <1>1. IsFiniteSet(0 .. n) /\ F \in SUBSET (SUBSET (0 .. n)) /\ F # {}
    <2>1. F # {}
      <3>1. PICK x : x \in S
        OBVIOUS
      <3>. QED  BY <3>1
    <2>2. F \in SUBSET (SUBSET (0 .. n))
      OBVIOUS
    <2>3. IsFiniteSet(0 .. n)
      BY FS_Interval
    <2>. HIDE DEF F
    <2>. QED  BY <2>1, <2>2, <2>3
  <1>2. IsWellFoundedOn(StrictSubsetOrdering(0 .. n), FiniteSubsetsOf(0 .. n))
    BY <1>1, FS_StrictSubsetOrderingWellFounded
  <1>3. F \subseteq FiniteSubsetsOf(0 .. n)
    BY <1>1, FS_Subset DEF FiniteSubsetsOf
  <1>. HIDE DEF F
  <1>4. PICK T \in F : \A U \in F : ~(<<U, T>> \in StrictSubsetOrdering(0 .. n))
    BY <1>1, <1>2, <1>3, WFMin
  <1>5. PICK x \in S : T = {y \in 0 .. n : x <= y}
    BY <1>4 DEF F
  <1>6. ASSUME NEW y \in S, ~(y <= x)
        PROVE  FALSE
    <2>. DEFINE U == {z \in 0 .. n : y <= z}
    <2>1. U \in F /\ U \subseteq T /\ x \in T /\ x \notin U
      BY <1>5, <1>6 DEF F
    <2>2. T \subseteq 0 .. n
      BY <1>5
    <2>. HIDE DEF U
    <2>. QED  BY <1>4, <2>1, <2>2 DEF StrictSubsetOrdering
  <1>. QED  BY <1>5, <1>6

LEMMA LatestIs ==
    ASSUME NEW dir \in Directions, NEW day \in FxDays, Effective(dir, day) # {}, RatesPositive
    PROVE  /\ Latest(dir, day) = [day |-> Latest(dir, day).day, scaled |-> rates[dir][Latest(dir, day).day].scaled]
           /\ Latest(dir, day).day \in Effective(dir, day)
           /\ \A e \in Effective(dir, day) : e <= Latest(dir, day).day
           /\ Latest(dir, day) # NoRow
           /\ Latest(dir, day).scaled \in Nat \ {0}
  <1>. DEFINE e == CHOOSE x \in Effective(dir, day) : \A y \in Effective(dir, day) : y <= x
  <1>1. day \in Nat /\ Effective(dir, day) \subseteq 0 .. day
    <2>1. FxDays \subseteq Nat
      BY FxAssumption
    <2>2. ASSUME NEW x \in Effective(dir, day)
          PROVE  x \in Nat /\ x <= day
      BY <2>1 DEF Effective
    <2>3. day \in Nat
      BY <2>1
    <2>. QED  BY <2>2, <2>3
  <1>2. e \in Effective(dir, day) /\ \A y \in Effective(dir, day) : y <= e
    BY <1>1, NewestDay
  <1>3. Latest(dir, day) = [day |-> e, scaled |-> rates[dir][e].scaled]
    BY DEF Latest
  <1>. HIDE DEF e
  <1>4. e \in Int /\ rates[dir][e].scaled \in Nat \ {0}
    BY <1>1, <1>2 DEF Effective, RatesPositive
  <1>5. [day |-> e, scaled |-> rates[dir][e].scaled] # NoRow
    BY <1>4, FxAssumption
  <1>. QED  BY <1>2, <1>3, <1>4, <1>5

LEMMA RoundsToHalf ==
    ASSUME NEW n \in Nat, NEW s \in Nat \ {0}
    PROVE  /\ DivRound(n, s) \in Nat
           /\ 2 * (DivRound(n, s) * s - n) <= s /\ 2 * (DivRound(n, s) * s - n) >= -s
  <1>. DEFINE q == n \div s
              r == n % s
  <1>1. q \in Nat /\ r \in 0 .. s - 1 /\ n = q * s + r
    OBVIOUS
  <1>2. DivRound(n, s) = IF 2 * r >= s THEN q + 1 ELSE q
    BY DEF DivRound
  <1>. HIDE DEF q, r
  <1>3. CASE 2 * r >= s
    <2>1. DivRound(n, s) * s - n = s - r
      BY <1>1, <1>2, <1>3
    <2>. QED  BY <1>1, <1>2, <1>3, <2>1
  <1>4. CASE ~(2 * r >= s)
    <2>1. DivRound(n, s) * s - n = -r
      BY <1>1, <1>2, <1>4
    <2>. QED  BY <1>1, <1>2, <1>4, <2>1
  <1>. QED  BY <1>3, <1>4

LEMMA InverseClose ==
    ASSUME NEW s \in Nat \ {0}, Invert(s) # 0
    PROVE  2 * (Invert(s) * s - FxScale * FxScale) <= s /\ 2 * (Invert(s) * s - FxScale * FxScale) >= -s
  <1>1. FxScale * FxScale \in Nat
    BY FxAssumption
  <1>2. Invert(s) = DivRound(FxScale * FxScale, s)
    BY DEF Invert, Fits
  <1>. QED  BY <1>1, <1>2, RoundsToHalf

LEMMA NewestIsUsed == RatesPositive => NewestRateUsed
  <1>. SUFFICES ASSUME RatesPositive, NEW day \in FxDays
                PROVE  LET known == Effective("direct", day) \cup Effective("inverse", day)
                       IN  IF known = {} THEN Converted(day) = NoRow
                           ELSE Converted(day) # NoRow =>
                                  /\ \A e \in known : e <= Converted(day).day
                                  /\ Converted(day).inverted <=> rates["direct"][Converted(day).day] = NoRow
                                  /\ Converted(day).inverted =>
                                       LET s == rates["inverse"][Converted(day).day].scaled
                                           off == Converted(day).scaled * s - FxScale * FxScale
                                       IN  2 * off <= s /\ 2 * off >= -s
    BY DEF NewestRateUsed
  <1>. DEFINE D == Effective("direct", day)
              I == Effective("inverse", day)
              ld == Latest("direct", day)
              li == Latest("inverse", day)
              c == Converted(day)
  <1>1. /\ D # {} => /\ ld # NoRow /\ ld.day \in D /\ \A e \in D : e <= ld.day
                     /\ ld.scaled = rates["direct"][ld.day].scaled
        /\ D = {} => ld = NoRow
        /\ I # {} => /\ li # NoRow /\ li.day \in I /\ \A e \in I : e <= li.day
                     /\ li.scaled = rates["inverse"][li.day].scaled /\ li.scaled \in Nat \ {0}
        /\ I = {} => li = NoRow
    <2>1. "direct" \in Directions /\ "inverse" \in Directions
      BY DEF Directions
    <2>2. D # {} => /\ ld # NoRow /\ ld.day \in D /\ \A e \in D : e <= ld.day
                    /\ ld.scaled = rates["direct"][ld.day].scaled
      BY <2>1, LatestIs
    <2>3. I # {} => /\ li # NoRow /\ li.day \in I /\ \A e \in I : e <= li.day
                    /\ li.scaled = rates["inverse"][li.day].scaled /\ li.scaled \in Nat \ {0}
      BY <2>1, LatestIs
    <2>. QED  BY <2>2, <2>3 DEF Latest
  <1>2. /\ day \in Nat
        /\ \A e \in D : e \in Nat /\ e <= day /\ rates["direct"][e] # NoRow
        /\ \A e \in I : e \in Nat /\ e <= day /\ rates["inverse"][e] # NoRow
        /\ \A e \in FxDays : e <= day /\ rates["direct"][e] # NoRow => e \in D
        /\ I \subseteq FxDays
    BY FxAssumption DEF Effective
  <1>3. c = IF ld = NoRow /\ li = NoRow THEN NoRow
            ELSE IF li = NoRow \/ (ld # NoRow /\ li.day <= ld.day)
            THEN [day |-> ld.day, scaled |-> ld.scaled, inverted |-> FALSE]
            ELSE IF Invert(li.scaled) = 0 THEN NoRow
            ELSE [day |-> li.day, scaled |-> Invert(li.scaled), inverted |-> TRUE]
    BY DEF Converted, Pick
  <1>. HIDE DEF D, I, ld, li, c
  <1>4. CASE D = {} /\ I = {}
    BY <1>1, <1>3, <1>4 DEF D, I, c
  <1>5. CASE D # {} /\ (I = {} \/ li.day <= ld.day)
    <2>1. c.day = ld.day /\ ~c.inverted
      BY <1>1, <1>3, <1>5
    <2>2. \A e \in D \cup I : e <= c.day
      <3>1. ld.day \in Int /\ (I # {} => li.day \in Int)
        <4>1. ld.day \in D /\ (I # {} => li.day \in I)
          BY <1>1, <1>5
        <4>2. (\A e \in D : e \in Nat) /\ (\A e \in I : e \in Nat)
          BY <1>2
        <4>. QED  BY <4>1, <4>2
      <3>2. ASSUME NEW e \in D PROVE e <= ld.day
        BY <1>1, <1>5
      <3>3. ASSUME NEW e \in I PROVE e <= ld.day
        <4>1. e \in Int /\ e <= li.day /\ li.day <= ld.day
          BY <1>1, <1>2, <1>5
        <4>. QED  BY <3>1, <4>1
      <3>. QED  BY <2>1, <3>2, <3>3
    <2>3. rates["direct"][c.day] # NoRow
      BY <1>1, <1>2, <1>5, <2>1
    <2>. QED  BY <1>5, <2>1, <2>2, <2>3 DEF D, I, c
  <1>6. CASE I # {} /\ (D = {} \/ ~(li.day <= ld.day)) /\ c # NoRow
    <2>1. c.day = li.day /\ c.inverted /\ c.scaled = Invert(li.scaled) /\ Invert(li.scaled) # 0
      BY <1>1, <1>3, <1>6
    <2>2. \A e \in D \cup I : e <= c.day
      <3>1. li.day \in Int /\ (D # {} => ld.day \in Int)
        <4>1. li.day \in I /\ (D # {} => ld.day \in D)
          BY <1>1, <1>6
        <4>2. (\A e \in D : e \in Nat) /\ (\A e \in I : e \in Nat)
          BY <1>2
        <4>. QED  BY <4>1, <4>2
      <3>2. ASSUME NEW e \in I PROVE e <= li.day
        BY <1>1, <1>6
      <3>3. ASSUME NEW e \in D PROVE e <= li.day
        <4>1. e \in Int /\ e <= ld.day /\ ~(li.day <= ld.day)
          BY <1>1, <1>2, <1>6
        <4>. QED  BY <3>1, <4>1
      <3>. QED  BY <2>1, <3>2, <3>3
    <2>3. rates["direct"][c.day] = NoRow
      BY <1>1, <1>2, <1>6, <2>1
    <2>4. /\ 2 * (c.scaled * li.scaled - FxScale * FxScale) <= li.scaled
          /\ 2 * (c.scaled * li.scaled - FxScale * FxScale) >= -li.scaled
      BY <1>1, <1>6, <2>1, InverseClose
    <2>5. rates["inverse"][c.day].scaled = li.scaled
      BY <1>1, <1>6, <2>1
    <2>. QED  BY <1>6, <2>1, <2>2, <2>3, <2>4, <2>5 DEF D, I, c
  <1>7. CASE I # {} /\ c = NoRow
    BY <1>7 DEF D, I, c
  <1>. QED  BY <1>1, <1>4, <1>5, <1>6, <1>7

(* Whatever desks enter, sync and edit rates, a conversion uses the newest *)
(* one (Latest, Pick); the board served after a process's own sync shows   *)
(* what the sync stored (SyncLive, Board); and a side is stale only as a   *)
(* last resort (ResolveMarket).                                            *)
THEOREM RatesAnswer == MCSpec => [](NewestRateUsed /\ OwnSyncSeen /\ StaleAsLastResort)
  <1>1. AnswersInv => NewestRateUsed /\ OwnSyncSeen /\ StaleAsLastResort
    BY NewestIsUsed DEF AnswersInv, DroppedAtTheEnd, OwnSyncSeen, Free
  <1>. QED  BY <1>1, AnswersInvariant, PTL

=============================================================================
