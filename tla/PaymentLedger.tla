--------------------------- MODULE PaymentLedger ---------------------------
(***************************************************************************)
(* The payment ledger of one booking and the collected_amt kept with it.   *)
(* Modelled code: src/internal/app/payment/service.go,                     *)
(* src/internal/domain/payment, src/internal/adapter/postgres/payment and  *)
(* the trigger payments_ledger_guard (migration 00027).                    *)
(*                                                                         *)
(* Transactions run READ COMMITTED.  A unit of work reads and checks       *)
(* (Start), writes one payments row (Insert or UpdateStatus), sums the     *)
(* ledger (SumUp) and writes the sum into the bookings row as it commits   *)
(* (Commit).  Until then nobody else sees its row version, which it keeps  *)
(* in tx.new; the unique index on idempotency_key and the row lock make    *)
(* others wait for it.                                                     *)
(* The booking row it read matters only through its status: collected_amt  *)
(* is overwritten by the sum.  Currency, method, note and the FX snapshot  *)
(* are left out; so is bookkeeping of the audit trail.                     *)
(***************************************************************************)
EXTENDS Integers, FiniteSets

CONSTANTS
    Txs,         \* concurrent units of work
    Users,       \* callers
    Keys,        \* idempotency keys
    Amounts,     \* positive amounts
    MaxEntries,  \* bound on the rows of the ledger
    Absent       \* no row; nobody

ASSUME LedgerAssumption ==
    /\ Amounts \subseteq Nat \ {0}
    /\ MaxEntries \in Nat \ {0}
    /\ Absent \notin Users

VARIABLES
    ledger,      \* entry id -> committed payments row, or Absent
    collected,   \* bookings.collected_amt
    cancelled,   \* the booking is cancelled
    tx,          \* unit of work -> its progress
    raced        \* history: collected_amt was written from a sum or a copy
                 \* that another commit had overtaken

vars == <<ledger, collected, cancelled, tx, raced>>

Ids == 1 .. MaxEntries

EventTypes == {"charge", "reverse", "adjust", "refund"}
PaymentStatuses == {"unverified", "verified", "pending_approval", "approved", "rejected"}

Entry == [key: Keys, type: EventTypes, amount: Int, status: PaymentStatuses,
          by: Users, approver: Users \cup {Absent}]

ASSUME AbsentAssumption == Absent \notin Entry

(* Progress: new is the row to insert or the row version to write, stale   *)
(* is set when a change of the sum commits after this unit summed.         *)
Phases == {"idle", "insert", "update", "written", "summed", "edit"}
Idle == [phase |-> "idle", id |-> 0, new |-> Absent, sum |-> 0, stale |-> FALSE]

Progress == [phase: Phases, id: Nat, new: Entry \cup {Absent}, sum: Int, stale: BOOLEAN]

(* Type correctness of the whole state.                                    *)
TypeOK ==
    /\ ledger \in [Ids -> Entry \cup {Absent}]
    /\ collected \in Int
    /\ cancelled \in BOOLEAN
    /\ tx \in [Txs -> Progress]
    /\ \A t \in Txs :
         /\ tx[t].phase \in {"insert", "update", "written", "summed"} => tx[t].new \in Entry
         /\ tx[t].phase \in {"update", "written", "summed"} => tx[t].id \in Ids
    /\ raced \in BOOLEAN

-----------------------------------------------------------------------------
(* The rules of src/internal/domain/payment.                               *)

CanTransition(type, from, to) ==
    \/ type = "charge" /\ from = "unverified" /\ to = "verified"
    \/ type = "refund" /\ from = "pending_approval" /\ to \in {"approved", "rejected"}

CountsTowardCollected(e) == e.status \in {"verified", "approved"}

(* SumCollectedByBooking, SUM(amount) over the rows that count, taken unit *)
(* by unit: a row of amount n has n units of sign 1, one of amount -n has  *)
(* n units of sign -1.                                                     *)
CountedRows(view) == {i \in Ids : view[i] # Absent /\ CountsTowardCollected(view[i])}
Units(view, sign) == UNION {{i} \X (1 .. sign * view[i].amount) : i \in CountedRows(view)}
SumCollected(view) == Cardinality(Units(view, 1)) - Cardinality(Units(view, -1))

(* An approver check that only looks at the status.                        *)
CheckRefundApproverMissing(e, user) == e.status = "pending_approval"

CheckRefundApprover(e, user) == e.by # user

-----------------------------------------------------------------------------
(* Reading the ledger.                                                     *)

Init ==
    /\ ledger = [i \in Ids |-> Absent]
    /\ collected = 0
    /\ cancelled = FALSE
    /\ tx = [t \in Txs |-> Idle]
    /\ raced = FALSE

Rows == {i \in Ids : ledger[i] # Absent}

KeyTaken(k) == \E i \in Rows : ledger[i].key = k

(* Start a unit of work that will insert e; a known key answers with the   *)
(* stored entry and changes nothing.                                       *)
StartInsert(t, e) ==
    /\ tx[t] = Idle
    /\ ~KeyTaken(e.key)
    /\ tx' = [tx EXCEPT ![t] = [Idle EXCEPT !.phase = "insert", !.new = e]]
    /\ UNCHANGED <<ledger, collected, cancelled, raced>>

(* An entry whose status no rule knows.                                    *)
NewEntryUnknownStatus(k, type, amount, status, user) ==
    [key |-> k, type |-> type, amount |-> amount, status |-> "none",
     by |-> user, approver |-> Absent]

NewEntry(k, type, amount, status, user) ==
    [key |-> k, type |-> type, amount |-> amount, status |-> status,
     by |-> user, approver |-> Absent]

(* Record: not on a cancelled booking; auto_verify needs payments.approve, *)
(* which any user may or may not hold.                                     *)
Record(t) ==
    /\ ~cancelled
    /\ \E k \in Keys, amount \in Amounts, status \in {"unverified", "verified"}, user \in Users :
         StartInsert(t, NewEntry(k, "charge", amount, status, user))

(* Reverse: a positive charge or adjustment, whatever its status.          *)
ReverseEntry(t) ==
    \E k \in Keys, orig \in Rows, user \in Users :
      /\ ledger[orig].type \in {"charge", "adjust"}
      /\ ledger[orig].amount > 0
      /\ StartInsert(t, NewEntry(k, "reverse", -ledger[orig].amount, "verified", user))

Adjust(t) ==
    \E k \in Keys, amount \in Amounts, sign \in {-1, 1}, user \in Users :
      StartInsert(t, NewEntry(k, "adjust", sign * amount, "verified", user))

RequestRefund(t) ==
    \E k \in Keys, amount \in Amounts, user \in Users :
      StartInsert(t, NewEntry(k, "refund", -amount, "pending_approval", user))

(* Start a change of status of row i, checked on the row as read.          *)
StartUpdate(t, i, to, approver) ==
    /\ tx[t] = Idle
    /\ CanTransition(ledger[i].type, ledger[i].status, to)
    /\ tx' = [tx EXCEPT ![t] =
               [Idle EXCEPT !.phase = "update", !.id = i,
                            !.new = [ledger[i] EXCEPT !.status = to, !.approver = approver]]]
    /\ UNCHANGED <<ledger, collected, cancelled, raced>>

Verify(t) == \E i \in Rows : StartUpdate(t, i, "verified", Absent)

(* ApproveRefund: the requester may reject but not approve.                *)
ApproveRefund(t) ==
    \E i \in Rows, user \in Users, to \in {"approved", "rejected"} :
      /\ ledger[i].type = "refund" /\ ledger[i].status = "pending_approval"
      /\ to = "approved" => CheckRefundApprover(ledger[i], user)
      /\ StartUpdate(t, i, to, user)

-----------------------------------------------------------------------------
(* Writing it.                                                             *)

Writers == {t \in Txs : tx[t].phase \in {"written", "summed"}}

(* The row a new entry goes to; ids stand for the uuids of the code.       *)
FreshId(i) ==
    LET used == Rows \cup {tx[u].id : u \in Writers}
    IN i \notin used /\ \A j \in Ids : j < i => j \in used

(* An insert without the unique index on idempotency_key.                  *)
InsertWithoutIndex(t) ==
    /\ tx[t].phase = "insert"
    /\ \E i \in Ids :
         /\ FreshId(i)
         /\ tx' = [tx EXCEPT ![t] = [@ EXCEPT !.phase = "written", !.id = i]]
    /\ UNCHANGED <<ledger, collected, cancelled, raced>>

(* The unique index makes an INSERT wait for an uncommitted row with its   *)
(* key, and fail (Rollback) when the key is committed.                     *)
Insert(t) ==
    /\ tx[t].phase = "insert"
    /\ ~KeyTaken(tx[t].new.key)
    /\ \A u \in Writers : tx[u].new.key # tx[t].new.key
    /\ \E i \in Ids :
         /\ FreshId(i)
         /\ tx' = [tx EXCEPT ![t] = [@ EXCEPT !.phase = "written", !.id = i]]
    /\ UNCHANGED <<ledger, collected, cancelled, raced>>

(* UpdateStatus without the trigger.                                       *)
UpdateStatusUnguarded(t) ==
    /\ tx[t].phase = "update"
    /\ \A u \in Writers : tx[u].id # tx[t].id
    /\ tx' = [tx EXCEPT ![t] = [@ EXCEPT !.phase = "written"]]
    /\ UNCHANGED <<ledger, collected, cancelled, raced>>

(* UpdateStatus waits for the row; payments_ledger_guard then compares     *)
(* with the row as it is now: a status change must be on the list, and an  *)
(* approver (with its timestamp, never the same twice) is set only once.   *)
(* A violation fails the unit of work (Rollback).                          *)
UpdateStatus(t) ==
    LET old == ledger[tx[t].id]
        new == tx[t].new
    IN /\ tx[t].phase = "update"
       /\ \A u \in Writers : tx[u].id # tx[t].id
       /\ old.status # new.status => CanTransition(old.type, old.status, new.status)
       /\ old.approver = Absent
       /\ tx' = [tx EXCEPT ![t] = [@ EXCEPT !.phase = "written"]]
       /\ UNCHANGED <<ledger, collected, cancelled, raced>>

(* A commit that changes the sum overtakes every unit that has summed, or  *)
(* has read the booking to write it back.                                  *)
Overtake(t, changed) ==
    [u \in Txs |-> IF u = t THEN Idle
                   ELSE IF changed /\ tx[u].phase \in {"summed", "edit"}
                        THEN [tx[u] EXCEPT !.stale = TRUE] ELSE tx[u]]

View(t) == [ledger EXCEPT ![tx[t].id] = tx[t].new]

(* recomputeBooking only after charges.                                    *)
RecomputesChargesOnly(e) == e.type = "charge"

(* Which writes recompute the booking: all but a refund request and a      *)
(* rejection.                                                              *)
Recomputes(e) == ~(e.type = "refund" /\ e.status \in {"pending_approval", "rejected"})

(* recomputeBooking sums what is committed now and its own row.            *)
SumUp(t) ==
    /\ tx[t].phase = "written"
    /\ Recomputes(tx[t].new)
    /\ tx' = [tx EXCEPT ![t] = [@ EXCEPT !.phase = "summed", !.sum = SumCollected(View(t))]]
    /\ UNCHANGED <<ledger, collected, cancelled, raced>>

(* bookings.Update and commit.                                             *)
Commit(t) ==
    /\ tx[t].phase = "summed"
    /\ ledger' = View(t)
    /\ collected' = tx[t].sum
    /\ raced' = tx[t].stale
    /\ tx' = Overtake(t, TRUE)
    /\ UNCHANGED cancelled

CommitOnly(t) ==
    /\ tx[t].phase = "written"
    /\ ~Recomputes(tx[t].new)
    /\ ledger' = View(t)
    /\ tx' = Overtake(t, FALSE)
    /\ UNCHANGED <<collected, cancelled, raced>>

(* An error, a lost connection or a crash.                                 *)
Rollback(t) ==
    /\ tx[t] # Idle
    /\ tx' = [tx EXCEPT ![t] = Idle]
    /\ UNCHANGED <<ledger, collected, cancelled, raced>>

-----------------------------------------------------------------------------
(* The booking side: Service.Update writes back the collected_amt it read; *)
(* a cancellation is under the row lock and writes no money.               *)

EditRead(t) ==
    /\ tx[t] = Idle
    /\ ~cancelled
    /\ tx' = [tx EXCEPT ![t] = [Idle EXCEPT !.phase = "edit", !.sum = collected]]
    /\ UNCHANGED <<ledger, collected, cancelled, raced>>

EditCommit(t) ==
    /\ tx[t].phase = "edit"
    /\ collected' = tx[t].sum
    /\ raced' = (raced \/ tx[t].stale)
    /\ tx' = Overtake(t, FALSE)
    /\ UNCHANGED <<ledger, cancelled>>

Cancel ==
    /\ ~cancelled
    /\ cancelled' = TRUE
    /\ UNCHANGED <<ledger, collected, tx, raced>>

-----------------------------------------------------------------------------
TxStep(t) ==
    \/ Record(t) \/ ReverseEntry(t) \/ Adjust(t) \/ RequestRefund(t) \/ Verify(t) \/ ApproveRefund(t)
    \/ Insert(t) \/ UpdateStatus(t) \/ SumUp(t) \/ Commit(t) \/ CommitOnly(t) \/ Rollback(t)
    \/ EditRead(t) \/ EditCommit(t)

Next == Cancel \/ \E t \in Txs : TxStep(t)

Spec == Init /\ [][Next]_vars

-----------------------------------------------------------------------------
(* A request that is retried, also while its first attempt is in flight,   *)
(* adds one entry: the check of the key is made before the insert, the     *)
(* unique index decides.                                                   *)
OneEntryPerKey ==
    \A i, j \in Rows : ledger[i].key = ledger[j].key => i = j

(* Segregation of duties: no refund is approved by the user who requested  *)
(* it, and no approval is without an approver.                             *)
RefundsApprovedByAnother ==
    \A i \in Rows : ledger[i].status = "approved" =>
        ledger[i].approver # Absent /\ ledger[i].approver # ledger[i].by

(* collected_amt equals the ledger in every state, unless the last write   *)
(* of it was overtaken by another commit; the next payment operation that  *)
(* is not overtaken repairs it.                                            *)
BalanceFollowsLedger == ~raced => collected = SumCollected(ledger)

(* The ledger is append-only, and a decision sticks: an entry never        *)
(* disappears, keeps its money, type, key and author, changes status only  *)
(* along the list, and keeps its approver; also when an approval, a        *)
(* rejection and a verification race on one row.                           *)
LedgerAppendOnly ==
    [][\A i \in Rows :
         LET old == ledger[i]
             new == ledger'[i]
         IN /\ new # Absent
            /\ new = [old EXCEPT !.status = new.status, !.approver = new.approver]
            /\ new.status # old.status => CanTransition(old.type, old.status, new.status)
            /\ old.approver # Absent => new.approver = old.approver]_vars

(* "application services wrap multi-table writes in                        *)
(* tx.Manager.WithinTransaction (payment ledger + booking balance ...)"    *)
(* (README, ACID): the balance then always follows the ledger.  The sum is *)
(* taken without locking the booking, so this does not hold.               *)
BalanceAlwaysFollowsLedger == collected = SumCollected(ledger)

=============================================================================
