------------------------------ MODULE Treasury ------------------------------
(***************************************************************************)
(* The treasury of a branch: its accounts, their movements, the bank feed  *)
(* with its matching to bookings, and the payments to suppliers.           *)
(* Modelled code: src/internal/app/finance (treasury.go, payables.go),     *)
(* src/internal/domain/finance (treasury.go, matcher.go),                  *)
(* src/internal/adapter/postgres/finance/treasury.go.                      *)
(*                                                                         *)
(* A movement is posted with its account locked; a transfer locks two.     *)
(* The accounts share currency and branch.  The booking a credit is for,   *)
(* and its payments, are kept as the count of payments recorded for the    *)
(* credit: Record is idempotent in the key made of the movement's id.      *)
(***************************************************************************)
EXTENDS Suppliers, Sequences

Sq == INSTANCE SequencesExt

CONSTANTS
    AccountIds,        \* accounts, numbers: the order in which locks are taken
    CashAccounts,      \* those that may not go below zero (cash, wallet)
    FeedAccount,       \* the account whose bank feed is followed
    ExternalIds,       \* external ids of its rows; another account has its own
    MaxBalance,        \* bound on a balance, either sign (MaxMoney)
    MaxFeedRows        \* rows of one feed file

MatchStatuses == {"unmatched", "matched", "ignored"}

ASSUME TreasuryAssumption ==
    /\ AccountIds \subseteq Nat /\ CashAccounts \subseteq AccountIds /\ FeedAccount \in AccountIds
    /\ MaxBalance \in Nat /\ MaxFeedRows \in Nat
    /\ NoRow \notin Desks \cup MatchStatuses

VARIABLES
    account,           \* id -> [balance, active]
    heldBy,            \* id -> desk whose transaction holds the row lock
    credit,            \* external id -> match_status of its movement
    tjob,              \* desk -> what it holds between two steps
    posted,            \* history: id -> sum of the nets of its movements
    paidFor            \* history: external id -> payments recorded for it

accountVars == <<account, heldBy, posted>>
feedVars == <<credit, paidFor>>
treasuryVars == <<accountVars, feedVars, tjob>>

(* Type correctness.                                                       *)
TreasuryTypeOK ==
    /\ account \in [AccountIds -> [balance : -MaxBalance .. MaxBalance, active : BOOLEAN]]
    /\ heldBy \in [AccountIds -> Desks \cup {NoRow}]
    /\ credit \in [ExternalIds -> MatchStatuses \cup {NoRow}]
    /\ paidFor \in [ExternalIds -> 0 .. 2]

-----------------------------------------------------------------------------
(* Movement.Net, with the commission or fee taken off what comes in and    *)
(* added to what goes out.                                                 *)
Net(direction, amount, fee) == IF direction = "in" THEN amount - fee ELSE -(amount + fee)

(* Movement.Validate: a fee is at most the amount, a collection comes in,  *)
(* what is paid, spent or refunded goes out.                               *)
MoveKinds == {"collection", "supplier_payment", "transfer", "expense", "refund", "adjustment"}
ValidMovement(m) ==
    /\ m.direction \in {"in", "out"}
    /\ m.kind \in MoveKinds
    /\ m.amount > 0
    /\ m.fee \in 0 .. m.amount
    /\ m.kind = "collection" => m.direction = "in"
    /\ m.kind \in {"supplier_payment", "expense", "refund"} => m.direction = "out"

(* Account.Post: the account after the movement; empty when it is refused. *)
AccountPost(a, n) ==
    {[account[a] EXCEPT !.balance = @ + n] : x \in {a} \cap
        {b \in AccountIds : /\ account[b].active
                            /\ b \in CashAccounts => account[b].balance + n >= 0
                            /\ account[b].balance + n \in -MaxBalance .. MaxBalance}}

(* TreasuryService.post under the account's lock: the movement is inserted *)
(* and the balance set.                                                    *)
PostOn(a, n) ==
    /\ heldBy[a] = NoRow
    /\ \E row \in AccountPost(a, n) : account' = [account EXCEPT ![a] = row]
    /\ posted' = [posted EXCEPT ![a] = @ + n]
    /\ UNCHANGED heldBy

PostMovement(a, kind, direction, fee) ==
    /\ ValidMovement([kind |-> kind, direction |-> direction, amount |-> 1, fee |-> fee])
    /\ PostOn(a, Net(direction, 1, fee))
    /\ UNCHANGED <<feedVars, tjob>>

(* UpdateAccount writes the account's settings, not its balance.           *)
UpdateAccount(a, b) ==
    /\ heldBy[a] = NoRow
    /\ account' = [account EXCEPT ![a].active = b]
    /\ UNCHANGED <<heldBy, posted, feedVars, tjob>>

-----------------------------------------------------------------------------
(* Transfer: the lock of the lower id first, then the other, then both     *)
(* movements in the same transaction.                                      *)
LockOrder(from, to) == IF from < to THEN <<from, to>> ELSE <<to, from>>

TransferLock(d, from, to) ==
    /\ tjob[d] = Free
    /\ from # to
    /\ LET first == LockOrder(from, to)[1] IN
         /\ heldBy[first] = NoRow
         /\ heldBy' = [heldBy EXCEPT ![first] = d]
    /\ tjob' = [tjob EXCEPT ![d] = [op |-> "transfer", from |-> from, to |-> to]]
    /\ UNCHANGED <<account, posted, feedVars>>

(* The account a transfer still waits for.                                 *)
Awaited(d) == LockOrder(tjob[d].from, tjob[d].to)[2]

Transfer(d) ==
    /\ tjob[d].op = "transfer"
    /\ heldBy[Awaited(d)] = NoRow
    /\ LET from == tjob[d].from
           to == tjob[d].to
           out == AccountPost(from, Net("out", 1, 0))
           in == AccountPost(to, Net("in", 1, 0)) IN
         IF out = {} \/ in = {} THEN UNCHANGED <<account, posted>>
         ELSE /\ \E o \in out, i \in in : account' = [account EXCEPT ![from] = o, ![to] = i]
              /\ posted' = [posted EXCEPT ![from] = @ - 1, ![to] = @ + 1]
    /\ heldBy' = [a \in AccountIds |-> IF heldBy[a] = d THEN NoRow ELSE heldBy[a]]
    /\ tjob' = [tjob EXCEPT ![d] = Free]
    /\ UNCHANGED feedVars

-----------------------------------------------------------------------------
(* A row of a feed: Post raises the balance in memory; a row whose         *)
(* external id is known is not inserted and is taken back.                 *)
FeedRow(f, e) ==
    LET next == f.mem + 1 IN
      IF next > MaxBalance THEN [f EXCEPT !.ok = FALSE]
      ELSE IF credit[e] # NoRow \/ e \in f.new THEN [f EXCEPT !.mem = next - 1]
      ELSE [f EXCEPT !.mem = next, !.saved = next, !.new = @ \cup {e}]

(* ImportFeed: the rows of one file under the account's lock.  The insert  *)
(* does nothing to a row that is there (ON CONFLICT DO NOTHING).           *)
ImportFeed(d, a, rows) ==
    /\ tjob[d] = Free
    /\ heldBy[a] = NoRow /\ account[a].active /\ a \notin CashAccounts
    /\ LET bal == account[a].balance
           f == Sq!FoldLeft(FeedRow, [mem |-> bal, saved |-> bal, new |-> {}, ok |-> TRUE], rows) IN
         /\ f.ok
         /\ account' = [account EXCEPT ![a].balance = f.saved]
         /\ posted' = [posted EXCEPT ![a] = @ + Cardinality(f.new)]
         /\ credit' = [e \in ExternalIds |-> IF e \in f.new /\ credit[e] = NoRow THEN "unmatched" ELSE credit[e]]
         /\ tjob' = [tjob EXCEPT ![d] = IF f.new = {} THEN Free ELSE [op |-> "auto", credits |-> f.new]]
    /\ UNCHANGED <<heldBy, paidFor>>

(* autoMatch after the import committed: a credit whose text names exactly *)
(* one open booking is settled; any other, and one that fails, waits.      *)
MatchCredit(hits) == Cardinality(hits) = 1

(* A match that only an ignored movement refuses.                          *)
UnresolvedUnlessIgnored(e) == credit[e] # "ignored"

(* ResolveMatch: only a waiting movement, else the transaction rolls back. *)
Unresolved(e) == credit[e] = "unmatched"

(* settle: the payment and the match in one transaction.                   *)
Settle(e) ==
    IF Unresolved(e)
    THEN credit' = [credit EXCEPT ![e] = "matched"] /\ paidFor' = [paidFor EXCEPT ![e] = @ + 1]
    ELSE UNCHANGED feedVars

AutoMatch(d, hits) ==
    /\ tjob[d].op = "auto"
    /\ \E e \in tjob[d].credits :
         /\ IF MatchCredit(hits) THEN Settle(e) ELSE UNCHANGED feedVars
         /\ LET rest == tjob[d].credits \ {e} IN
              tjob' = [tjob EXCEPT ![d] = IF rest = {} THEN Free ELSE [tjob[d] EXCEPT !.credits = rest]]
    /\ UNCHANGED accountVars

(* Match and Ignore read the movement, then settle or ignore it.           *)
ReadMovement(d, op, e) ==
    /\ tjob[d] = Free
    /\ Unresolved(e)
    /\ tjob' = [tjob EXCEPT ![d] = [op |-> op, id |-> e]]
    /\ UNCHANGED <<accountVars, feedVars>>

Match(d) ==
    /\ tjob[d].op = "match"
    /\ Settle(tjob[d].id)
    /\ tjob' = [tjob EXCEPT ![d] = Free]
    /\ UNCHANGED accountVars

Ignore(d) ==
    /\ tjob[d].op = "ignore"
    /\ credit' = IF Unresolved(tjob[d].id) THEN [credit EXCEPT ![tjob[d].id] = "ignored"] ELSE credit
    /\ tjob' = [tjob EXCEPT ![d] = Free]
    /\ UNCHANGED <<accountVars, paidFor>>

-----------------------------------------------------------------------------
(* PayInvoice: the invoice and the supplier are read before the account is *)
(* locked; the movement, the invoice's status and the settlement of the    *)
(* credit line commit together.                                            *)
ReadPayable(d) ==
    /\ tjob[d] = Free
    /\ invoice # NoRow /\ invoice.status = "approved" /\ invoice.total > 0
    /\ tjob' = [tjob EXCEPT ![d] = [op |-> "pay", inv |-> invoice, f |-> sup]]
    /\ UNCHANGED <<accountVars, feedVars, fundsVars, invoice>>

(* What the settlement takes off the credit line, by the supplier as read. *)
Settlement(inv, f) ==
    IF f.model = "postpaid" /\ f.used > 0 THEN IF inv.total < f.used THEN inv.total ELSE f.used ELSE 0

PayInvoice(d, a) ==
    /\ tjob[d].op = "pay"
    /\ tjob' = [tjob EXCEPT ![d] = Free]
    /\ LET inv == tjob[d].inv
           due == Settlement(inv, tjob[d].f)
           line == IF due = 0 THEN {sup} ELSE Posted("payment", due) IN
         \/ /\ InvoiceMoves(invoice.status, "paid") /\ line # {}
            /\ PostOn(a, Net("out", inv.total, 0))
            /\ invoice' = [invoice EXCEPT !.status = "paid"]
            /\ \E g \in line : sup' = g
            /\ UNCHANGED <<feedVars, fundsTold>>
         \/ /\ ~InvoiceMoves(invoice.status, "paid") \/ line = {} \/ AccountPost(a, Net("out", inv.total, 0)) = {}
            /\ UNCHANGED <<accountVars, feedVars, fundsVars, invoice>>

(* TopUpDeposit: the movement and the supplier's ledger entry.             *)
TopUpDeposit(a) ==
    /\ sup.model = "prepaid" /\ sup.deposit < MaxFunds
    /\ PostOn(a, Net("out", 1, 0))
    /\ \E g \in Posted("topup", 1) : sup' = g
    /\ UNCHANGED <<feedVars, fundsTold, tjob, invoice>>

(* What others do to the invoice and the supplier's account meanwhile      *)
(* (InvoiceNext and FundsNext have the steps of it).                       *)
InvoiceTurns ==
    \/ invoice = NoRow /\ invoice' = [status |-> "draft", total |-> 1, lines |-> 1]
    \/ \E to \in InvoiceStatuses :
         invoice # NoRow /\ InvoiceMoves(invoice.status, to) /\ invoice' = [invoice EXCEPT !.status = to]

LedgerTurns ==
    \/ \E k \in EntryKinds : \E g \in Posted(k, 1) : Balance(g) <= MaxFunds /\ sup' = g
    \/ \E m \in PaymentModels : sup.deposit = 0 /\ sup.used = 0 /\ sup' = [sup EXCEPT !.model = m]

-----------------------------------------------------------------------------
(* A process dies: its transaction rolls back and its locks are released.  *)
TreasuryCrash(d) ==
    /\ tjob[d] # Free
    /\ tjob' = [tjob EXCEPT ![d] = Free]
    /\ heldBy' = [a \in AccountIds |-> IF heldBy[a] = d THEN NoRow ELSE heldBy[a]]
    /\ UNCHANGED <<account, posted, feedVars>>

(* CreateAccount without an opening balance.                               *)
TreasuryInit ==
    /\ account = [a \in AccountIds |-> [balance |-> 0, active |-> TRUE]]
    /\ heldBy = [a \in AccountIds |-> NoRow]
    /\ posted = [a \in AccountIds |-> 0]
    /\ credit = [e \in ExternalIds |-> NoRow]
    /\ paidFor = [e \in ExternalIds |-> 0]
    /\ tjob = [d \in Desks |-> Free]

(* Accounts and the feed.                                                  *)
TreasuryNext ==
    \/ \E a \in AccountIds, kind \in MoveKinds, dir \in {"in", "out"}, fee \in 0 .. 1 : PostMovement(a, kind, dir, fee)
    \/ \E a \in AccountIds, b \in BOOLEAN : UpdateAccount(a, b)
    \/ \E d \in Desks :
         \/ \E from, to \in AccountIds : TransferLock(d, from, to)
         \/ Transfer(d)
         \/ \E rows \in UNION {[1 .. n -> ExternalIds] : n \in 1 .. MaxFeedRows} : ImportFeed(d, FeedAccount, rows)
         \/ \E hits \in SUBSET {1, 2} : AutoMatch(d, hits)
         \/ \E e \in ExternalIds : ReadMovement(d, "match", e) \/ ReadMovement(d, "ignore", e)
         \/ Match(d) \/ Ignore(d)
         \/ TreasuryCrash(d)

(* Payments to the supplier, while its invoice and account are worked on.  *)
PayablesNext ==
    \/ /\ \/ \E d \in Desks : ReadPayable(d) \/ \E a \in AccountIds : PayInvoice(d, a)
          \/ \E a \in AccountIds : TopUpDeposit(a)
       /\ UNCHANGED sjob
    \/ InvoiceTurns /\ UNCHANGED <<fundsVars, sjob, treasuryVars>>
    \/ LedgerTurns /\ UNCHANGED <<fundsTold, sjob, invoice, treasuryVars>>

-----------------------------------------------------------------------------
(* Every balance is the sum of its movements, whatever transfers, feeds    *)
(* with duplicates, rejected movements and rollbacks happen (post,         *)
(* ImportFeed), and cash never goes below zero.                            *)
BalancesAreMovements ==
    \A a \in AccountIds :
        /\ account[a].balance = posted[a]
        /\ a \in CashAccounts => account[a].balance >= 0

(* A bank credit is recorded as a payment at most once, and exactly when   *)
(* it is matched, also when people match or ignore it while the import     *)
(* does, or a file is imported again (settle, ResolveMatch).               *)
CreditPaidOnce == \A e \in ExternalIds : paidFor[e] = (IF credit[e] = "matched" THEN 1 ELSE 0)

(* Two transfers never wait for each other (Transfer locks by account id). *)
NoLockCycle ==
    ~\E d, e \in Desks :
        /\ d # e /\ tjob[d].op = "transfer" /\ tjob[e].op = "transfer"
        /\ heldBy[Awaited(d)] = e /\ heldBy[Awaited(e)] = d
=============================================================================
