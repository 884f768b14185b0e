----------------------------- MODULE Suppliers ------------------------------
(***************************************************************************)
(* One supplier: its account (deposit or credit line), its invoice, and    *)
(* the chase for the confirmation of a service bought from it.             *)
(* Modelled code: src/internal/app/supplier, src/internal/domain/supplier, *)
(* src/internal/adapter/postgres/supplier.                                 *)
(*                                                                         *)
(* The supplier row is locked for every change, so those are one step; the *)
(* invoice and the link are read, changed and written back whole.  Amounts *)
(* are in units of one currency; the rule Update has for a change of the   *)
(* currency is the one shown for the payment model.                        *)
(***************************************************************************)
EXTENDS Rows, TLC

CONSTANTS
    CreditLimits,      \* limits a profile may carry; 0 is no limit
    LowThreshold,      \* low_balance_threshold
    EntryAmounts,      \* sizes of ledger entries; an adjustment has either sign
    MaxFunds           \* bound: deposit and credit used

ASSUME SupplierAssumption ==
    CreditLimits \subseteq Nat /\ 0 \in CreditLimits /\ LowThreshold \in Nat /\ EntryAmounts \subseteq Nat \ {0} /\ MaxFunds \in Nat

VARIABLES
    sup,               \* the suppliers row, with the last ledger entry's balance_after
    dispute,           \* status of its dispute
    fundsTold,         \* run ledger: the levels alerted today
    invoice,           \* the supplier_invoices row, with what its lines add up to
    slink,             \* confirmation_status of the link
    chase,             \* the task that chases the confirmation
    sjob               \* desk -> what it holds between two steps

fundsVars == <<sup, fundsTold>>
invoiceVars == <<invoice>>
chaseVars == <<slink, chase, dispute>>
supplierVars == <<fundsVars, invoiceVars, chaseVars, sjob>>

PaymentModels == {"prepaid", "postpaid", "card"}
HealthStatuses == {"unknown", "active", "degraded", "down"}
InvoiceStatuses == {"draft", "submitted", "approved", "paid", "void"}
LinkStatuses == {"pending", "confirmed"}                 \* nothing calls Link.Cancel
DisputeStatuses == {"open", "resolved", "rejected"}

(* Type correctness.                                                       *)
SupplierTypeOK ==
    /\ sup \in [model : PaymentModels, active : BOOLEAN, health : HealthStatuses, limit : CreditLimits,
                deposit : 0 .. MaxFunds, used : 0 .. MaxFunds, last : 0 .. MaxFunds]
    /\ dispute \in DisputeStatuses \cup {NoRow}
    /\ invoice \in [status : InvoiceStatuses, total : 0 .. 2, lines : 0 .. 2] \cup {NoRow}
    /\ slink \in LinkStatuses \cup {NoRow}
    /\ chase \in {"none", "open", "done"}

ASSUME InvoiceAssumption == NoRow \notin [status : InvoiceStatuses, total : 0 .. 2, lines : 0 .. 2]

-----------------------------------------------------------------------------
(* domain/supplier/funds.go.                                               *)
Limited(f) == f.model = "prepaid" \/ (f.model = "postpaid" /\ f.limit > 0)
Available(f) == IF f.model = "prepaid" THEN f.deposit ELSE IF Limited(f) THEN f.limit - f.used ELSE 0
LowBalance(f) == Limited(f) /\ LowThreshold > 0 /\ Available(f) < LowThreshold
Exhausted(f) == Limited(f) /\ Available(f) <= 0
Balance(f) == IF f.model = "prepaid" THEN f.deposit ELSE IF f.model = "postpaid" THEN f.used ELSE 0

(* What an entry of each kind does to the balance; a kind a payment model  *)
(* does not know is refused.                                               *)
EntrySign ==
    [prepaid  |-> [topup |-> 1, charge |-> -1, refund |-> 1, adjustment |-> 1],
     postpaid |-> [charge |-> 1, refund |-> -1, payment |-> -1, adjustment |-> 1],
     card     |-> [charge |-> 0, refund |-> 0]]

EntryKinds == {"topup", "charge", "refund", "payment", "adjustment"}

Moved(f, n) ==
    IF f.model = "prepaid" THEN [f EXCEPT !.deposit = @ + n]
    ELSE IF f.model = "postpaid" THEN [f EXCEPT !.used = @ + n] ELSE f

(* Finance.Apply: the account after the entry; empty when it is refused.   *)
Apply(f, kind, n) ==
    {g \in {Moved(f, EntrySign[f.model][kind] * n) : k \in {kind} \cap DOMAIN EntrySign[f.model]} :
        /\ n # 0 /\ (kind # "adjustment" => n > 0)
        /\ Balance(g) >= 0
        /\ kind = "charge" /\ f.model = "postpaid" /\ f.limit > 0 => g.used <= f.limit}

FundsLevel(f) == IF Exhausted(f) THEN 2 ELSE IF LowBalance(f) THEN 1 ELSE 0

-----------------------------------------------------------------------------
(* Update locks the row; an open balance pins the payment model.           *)
UpdateSupplier(model, limit) ==
    /\ sup.deposit # 0 \/ sup.used # 0 => model = sup.model
    /\ sup' = [sup EXCEPT !.model = model, !.limit = limit]
    /\ UNCHANGED <<fundsTold, sjob>>

SetActive(b) ==
    /\ sup' = [sup EXCEPT !.active = b]
    /\ UNCHANGED <<fundsTold, sjob>>

SetHealth(h) ==
    /\ sup' = [sup EXCEPT !.health = h]
    /\ UNCHANGED <<fundsTold, sjob>>

(* HealthCheck probes outside the transaction, then locks and writes what  *)
(* the probe said.                                                         *)
ClassifyProbe(slow, failed) == IF failed THEN "down" ELSE IF slow THEN "degraded" ELSE "active"

Probe(d) ==
    /\ sjob[d] = Free
    /\ \E slow, failed \in BOOLEAN :
         sjob' = [sjob EXCEPT ![d] = [op |-> "probe", health |-> ClassifyProbe(slow, failed)]]
    /\ UNCHANGED fundsVars

HealthCheck(d) ==
    /\ sjob[d].op = "probe"
    /\ sup' = [sup EXCEPT !.health = sjob[d].health]
    /\ sjob' = [sjob EXCEPT ![d] = Free]
    /\ UNCHANGED fundsTold

(* The locked part of PostLedger: the account and its ledger entry.        *)
Posted(kind, n) == {[g EXCEPT !.last = Balance(g)] : g \in Apply(sup, kind, n)}

(* PostLedger; the alert follows the commit when the level rose.           *)
PostLedger(d, kind, n) ==
    /\ sjob[d] = Free
    /\ \E g \in Posted(kind, n) :
         /\ Balance(g) <= MaxFunds
         /\ sup' = g
         /\ sjob' = IF FundsLevel(g) > FundsLevel(sup)
                    THEN [sjob EXCEPT ![d] = [op |-> "low", exhausted |-> Exhausted(g)]] ELSE sjob
    /\ UNCHANGED fundsTold

(* Alerts.SupplierLowBalance, once a day for each level.                   *)
SupplierLowBalance(d) ==
    /\ sjob[d].op = "low"
    /\ fundsTold' = fundsTold \cup {IF sjob[d].exhausted THEN "exhausted" ELSE "low"}
    /\ sjob' = [sjob EXCEPT ![d] = Free]
    /\ UNCHANGED sup

OpenDispute ==
    /\ dispute = NoRow
    /\ dispute' = "open"
    /\ UNCHANGED <<slink, chase, sjob>>

(* CloseDispute locks the dispute.                                         *)
CloseDispute(s) ==
    /\ dispute = "open"
    /\ dispute' = s
    /\ UNCHANGED <<slink, chase, sjob>>

-----------------------------------------------------------------------------
(* domain/supplier/invoice.go.                                             *)
InvoiceMoves(from, to) ==
    \/ from = to
    \/ from = "draft" /\ to \in {"submitted", "void"}
    \/ from = "submitted" /\ to \in {"approved", "draft", "void"}
    \/ from = "approved" /\ to \in {"paid", "void"}

CreateInvoice ==
    /\ invoice = NoRow
    /\ invoice' = [status |-> "draft", total |-> 0, lines |-> 0]
    /\ UNCHANGED sjob

(* UpdateInvoiceStatus and SetInvoiceLines read the invoice...             *)
ReadInvoice(d, job) ==
    /\ sjob[d] = Free
    /\ invoice # NoRow
    /\ \/ job.op = "status" /\ InvoiceMoves(invoice.status, job.to)
       \/ job.op = "lines" /\ invoice.status \in {"draft", "submitted"}
    /\ sjob' = [sjob EXCEPT ![d] = [op |-> job.op, in |-> job, row |-> invoice]]
    /\ UNCHANGED invoice

(* ...and write every column of the copy; the lines are their own table.   *)
UpdateInvoiceStatus(d) ==
    /\ sjob[d].op = "status"
    /\ invoice' = [sjob[d].row EXCEPT !.status = sjob[d].in.to, !.lines = invoice.lines]
    /\ sjob' = [sjob EXCEPT ![d] = Free]

SetInvoiceLines(d) ==
    /\ sjob[d].op = "lines"
    /\ invoice' = [sjob[d].row EXCEPT !.total = sjob[d].in.sum, !.lines = sjob[d].in.sum]
    /\ sjob' = [sjob EXCEPT ![d] = Free]

-----------------------------------------------------------------------------
CreateLink ==
    /\ slink = NoRow
    /\ slink' = "pending"
    /\ UNCHANGED <<chase, dispute, sjob>>

DeleteLink ==
    /\ slink # NoRow
    /\ slink' = NoRow
    /\ UNCHANGED <<chase, dispute, sjob>>

(* Confirm writes the link and then, in another transaction, completes the *)
(* tasks of its rule.                                                      *)
ConfirmLink(d) ==
    /\ sjob[d] = Free
    /\ slink # NoRow
    /\ slink' = "confirmed"
    /\ sjob' = [sjob EXCEPT ![d] = [op |-> "confirmed"]]
    /\ UNCHANGED <<chase, dispute>>

SupplierConfirmed(d) ==
    /\ sjob[d].op = "confirmed"
    /\ chase' = IF chase = "open" THEN "done" ELSE chase
    /\ sjob' = [sjob EXCEPT ![d] = Free]
    /\ UNCHANGED <<slink, dispute>>

(* ProcessUnconfirmedReminders lists the pending links and ensures a task  *)
(* for each; the task's key is the link's.                                 *)
ListUnconfirmed(d) ==
    /\ sjob[d] = Free
    /\ slink = "pending"
    /\ sjob' = [sjob EXCEPT ![d] = [op |-> "chase"]]
    /\ UNCHANGED chaseVars

SupplierUnconfirmed(d) ==
    /\ sjob[d].op = "chase"
    /\ chase' = IF chase = "none" THEN "open" ELSE chase
    /\ sjob' = [sjob EXCEPT ![d] = Free]
    /\ UNCHANGED <<slink, dispute>>

-----------------------------------------------------------------------------
(* A request whose process dies between two transactions.                  *)
SupplierCrash(d) ==
    /\ sjob[d] # Free
    /\ sjob' = [sjob EXCEPT ![d] = Free]

(* Create, with the defaults: active, unprobed, postpaid, without money.   *)
SupplierInit ==
    /\ sup = [model |-> "postpaid", active |-> TRUE, health |-> "unknown", limit |-> 0,
              deposit |-> 0, used |-> 0, last |-> 0]
    /\ dispute = NoRow /\ fundsTold = {}
    /\ invoice = NoRow
    /\ slink = NoRow /\ chase = "none"
    /\ sjob = [d \in Desks |-> Free]

FundsNext ==
    \/ \E m \in PaymentModels, l \in CreditLimits : UpdateSupplier(m, l)
    \/ \E b \in BOOLEAN : SetActive(b)
    \/ \E h \in HealthStatuses : SetHealth(h)
    \/ \E d \in Desks :
         \/ Probe(d) \/ HealthCheck(d) \/ SupplierLowBalance(d)
         \/ \E k \in EntryKinds, n \in EntryAmounts : PostLedger(d, k, n) \/ PostLedger(d, k, -n)
         \/ SupplierCrash(d) /\ UNCHANGED fundsVars

InvoiceNext ==
    \/ CreateInvoice
    \/ \E d \in Desks :
         \/ \E to \in InvoiceStatuses : ReadInvoice(d, [op |-> "status", to |-> to])
         \/ \E n \in 1 .. 2 : ReadInvoice(d, [op |-> "lines", sum |-> n])
         \/ UpdateInvoiceStatus(d) \/ SetInvoiceLines(d)

ChaseNext ==
    \/ CreateLink \/ DeleteLink
    \/ OpenDispute \/ \E s \in DisputeStatuses \ {"open"} : CloseDispute(s)
    \/ \E d \in Desks :
         \/ ConfirmLink(d) \/ SupplierConfirmed(d) \/ ListUnconfirmed(d) \/ SupplierUnconfirmed(d)
         \/ SupplierCrash(d) /\ UNCHANGED chaseVars

-----------------------------------------------------------------------------
(* The account's money is on the side of its payment model and is what the *)
(* last ledger entry said, whatever entries, profile changes and model     *)
(* changes follow each other (Finance.Apply, Service.Update, PostLedger).  *)
FundsOnTheModelsSide ==
    /\ sup.model # "prepaid" => sup.deposit = 0
    /\ sup.model # "postpaid" => sup.used = 0
    /\ sup.last = Balance(sup)
=============================================================================
