---------------------------- MODULE FinanceRules ----------------------------
(***************************************************************************)
(* What finance computes: profit and commission, refunds, the airline      *)
(* statement, ageing, the overview, and which supplier a sale is routed    *)
(* to.                                                                     *)
(* Modelled code: src/internal/domain/finance, src/internal/app/finance    *)
(* (overview.go, profit.go, recon.go), their queries in                    *)
(* src/internal/adapter/postgres/finance, and the routing of               *)
(* src/internal/domain/supplier.                                           *)
(*                                                                         *)
(* A request comes with an input, the answer is computed from it, and the  *)
(* state keeps both: the invariants say what the answer owes to the input. *)
(* Lists are sequences, sums run over their indexes.                       *)
(***************************************************************************)
EXTENDS Treasury, Receivables, FiniteSetsExt, SequencesExt

CONSTANTS
    Commissions,       \* commission rates in basis points
    FigureBound        \* bound: the amounts of an input

ASSUME RulesAssumption == Commissions \subseteq 0 .. 5000 /\ FigureBound \in Nat

VARIABLE fin           \* the request last answered: its input and its answer

AbsVal(v) == IF v < 0 THEN -v ELSE v
AtLeast0(v) == Max({v, 0})
Figures == 0 .. FigureBound

-----------------------------------------------------------------------------
(* money.go: shares of an amount, rounded half away from zero.             *)
BPS == 10000
ApplyBPS(amount, bps) ==
    LET p == amount * bps IN IF p >= 0 THEN (p + BPS \div 2) \div BPS ELSE -((-p + BPS \div 2) \div BPS)
RatioBPS(part, whole) ==
    LET q == (AbsVal(part * BPS) + AbsVal(whole) \div 2) \div AbsVal(whole)
    IN  IF whole = 0 THEN 0 ELSE IF (part < 0) # (whole < 0) THEN -q ELSE q

(* profit.go: a booking without a cost has no margin yet.                  *)
Revenue(p) == p.gross - p.tax
Margin(p) == IF p.costed THEN p.gross - p.tax - p.fee - p.net ELSE 0
Add(rows) == [f \in {"gross", "net", "tax", "fee"} |-> SumFunction([i \in DOMAIN rows |-> rows[i][f]])]
PnL(f, costed) == [gross |-> f["gross"], net |-> f["net"], tax |-> f["tax"], fee |-> f["fee"], costed |-> costed]
Commission(margin, bps) == IF margin <= 0 \/ bps <= 0 THEN 0 ELSE ApplyBPS(margin, bps)
SettleReps(margins, bps) == SumFunction([i \in DOMAIN margins |-> Commission(margins[i], bps)])
VarianceOf(budget, actual) ==
    [revenue |-> Revenue(actual) - budget.revenue, cost |-> actual.net - budget.cost,
     margin |-> Margin(actual) - (budget.revenue - budget.cost), overrun |-> budget.cost > 0 /\ actual.net > budget.cost]
BudgetOk(b) == b.revenue >= 0 /\ b.cost >= 0

(* The three queries over the revenue bookings of a window.  A departure   *)
(* adds all of its bookings and counts as costed once one of them is; a    *)
(* representative's figures take the costed bookings only.                 *)
BookingPnL(b) == PnL(b, b["net"] > 0)
DeparturePnL(rows) == PnL(Add(rows), \E i \in DOMAIN rows : rows[i]["net"] > 0)
Costed(rows) == SelectSeq(rows, LAMBDA b : b["net"] > 0)
RepPnL(rows) == [pnl |-> PnL(Add(Costed(rows)), Costed(rows) # <<>>),
                 margins |-> [i \in DOMAIN Costed(rows) |-> Margin(BookingPnL(Costed(rows)[i]))]]
MonthlyPnL(rows) == RepPnL(rows).pnl

(* Profitability, with the budget of the departure (SetBudget) and the     *)
(* rate of the branch (SetRates).                                          *)
Profitability(rows, bps, budget) ==
    /\ fin = Free
    /\ BudgetOk(budget)
    /\ fin' = [op |-> "profit", rows |-> rows, bps |-> bps, budget |-> budget,
               departure |-> DeparturePnL(rows), rep |-> RepPnL(rows), commission |-> SettleReps(RepPnL(rows).margins, bps),
               variance |-> VarianceOf(budget, DeparturePnL(rows))]

-----------------------------------------------------------------------------
(* refund.go.                                                              *)
RefundOk(in) ==
    /\ in.paid >= 0 /\ in.cost >= 0 /\ in.penalty >= 0 /\ in.fee >= 0
    /\ in.cost > 0 => in.penalty <= in.cost
SettleRefund(in) ==
    LET owed == in.penalty + in.fee
        customer == AtLeast0(in.paid - owed)
        supplier == AtLeast0(in.cost - in.penalty)
    IN  [customer |-> customer, supplier |-> supplier, retained |-> in.paid - customer,
         shortfall |-> AtLeast0(owed - in.paid), result |-> in.paid + supplier - in.cost - customer]

QuoteRefund(in) ==
    /\ fin = Free
    /\ RefundOk(in)
    /\ fin' = [op |-> "refund", in |-> in, out |-> SettleRefund(in)]

-----------------------------------------------------------------------------
(* bsp.go: the airline's statement against the tickets of the system, by   *)
(* record locator; the empty locator matches nothing.                      *)
SignedAmount(l) == IF l.type \in {"refund", "acm"} THEN -l.amount ELSE l.amount
Tickets(tickets, p) == {i \in DOMAIN tickets : tickets[i].pnr = p /\ tickets[i].pnr # ""}
TicketSum(tickets, p) == SumFunctionOnSet([i \in DOMAIN tickets |-> tickets[i].amount], Tickets(tickets, p))
LineSum(lines, p) == SumFunction([i \in DOMAIN lines |-> IF lines[i].pnr = p THEN SignedAmount(lines[i]) ELSE 0])
LineStatus(lines, tickets, i) ==
    LET p == lines[i].pnr
    IN  IF Tickets(tickets, p) = {} THEN "missing_in_system"
        ELSE IF LineSum(lines, p) = TicketSum(tickets, p) THEN "matched" ELSE "amount_mismatch"
Unbilled(lines, tickets) ==
    {t.pnr : t \in {x \in ToSet(tickets) : x.pnr # "" /\ \A i \in DOMAIN lines : lines[i].pnr # x.pnr}}
LineCount(lines, tickets, s) == Cardinality({i \in DOMAIN lines : LineStatus(lines, tickets, i) = s})
Reconcile(lines, tickets) ==
    [total |-> SumFunction([i \in DOMAIN lines |-> SignedAmount(lines[i])]),
     system |-> SumFunction([i \in DOMAIN tickets |-> IF tickets[i].pnr = "" THEN 0 ELSE tickets[i].amount]),
     matched |-> LineCount(lines, tickets, "matched"), mismatched |-> LineCount(lines, tickets, "amount_mismatch"),
     missingSystem |-> LineCount(lines, tickets, "missing_in_system"), missingBSP |-> Cardinality(Unbilled(lines, tickets)),
     count |-> Len(lines) + Cardinality(Unbilled(lines, tickets))]
Discrepancy(st) == st.total - st.system
NormalizeLines(lines) == lines # <<>> /\ \A i \in DOMAIN lines : lines[i].amount >= 0

ImportStatement(lines, tickets) ==
    /\ fin = Free
    /\ NormalizeLines(lines)
    /\ fin' = [op |-> "bsp", lines |-> lines, tickets |-> tickets, out |-> Reconcile(lines, tickets)]
-----------------------------------------------------------------------------
(* Shares: basis points of a converted total by largest remainder.  What   *)
(* was not converted, or is not positive, has no share.                    *)
Counted(in) == {i \in DOMAIN in : ~in[i].unconverted /\ in[i].converted > 0}
ShareTotal(in) == SumFunctionOnSet([i \in DOMAIN in |-> in[i].converted], Counted(in))
Remainder(in, i) == (in[i].converted * BPS) % ShareTotal(in)
Floor(in, i) == (in[i].converted * BPS) \div ShareTotal(in)
ShareRank(in, i) ==          \* how many come before i in the stable sort by remainder
    Cardinality({j \in Counted(in) : Remainder(in, j) > Remainder(in, i) \/ (Remainder(in, j) = Remainder(in, i) /\ j < i)})
Shares(in) ==
    [i \in DOMAIN in |->
       IF i \notin Counted(in) THEN 0
       ELSE Floor(in, i) + (IF ShareRank(in, i) < BPS - SumFunctionOnSet([j \in DOMAIN in |-> Floor(in, j)], Counted(in)) THEN 1 ELSE 0)]

(* overview.go: amounts by currency in the reporting currency; a rate of 0 *)
(* is none found.  An amount of zero needs no rate.                        *)
Convert(m) == IF m.rate = 0 /\ m.amount # 0 THEN NoRow ELSE m.amount * m.rate
ConvertAll(items) ==
    [total |-> SumFunction([i \in DOMAIN items |-> IF Convert(items[i]) = NoRow THEN 0 ELSE Convert(items[i])]),
     partial |-> \E i \in DOMAIN items : Convert(items[i]) = NoRow]
ExposureShares(cash) ==
    Shares([i \in DOMAIN cash |-> [unconverted |-> Convert(cash[i]) = NoRow,
                                   converted |-> IF Convert(cash[i]) = NoRow THEN 0 ELSE Convert(cash[i])]])

(* What a supplier is owed: the credit line used, or the open invoices of  *)
(* one without a credit line; its deposit is money held there.             *)
PayableOf(s, invoices) == IF s.model = "postpaid" THEN s.used ELSE invoices
DepositOf(s) == IF s.model = "prepaid" THEN s.deposit ELSE 0

(* Overview: the cash by currency, what customers owe, and one supplier    *)
(* with its submitted or approved invoices.                                *)
Overview(cash, due, s, invoices) ==
    /\ fin = Free
    /\ fin' = [op |-> "overview", cash |-> cash, shares |-> ExposureShares(cash), cashTotal |-> ConvertAll(cash),
               s |-> s, invoices |-> invoices, due |-> due,
               net |-> due - PayableOf(s, invoices), deposits |-> DepositOf(s)]

-----------------------------------------------------------------------------
(* dueCTE: the instalments of a booking, latest first, take what is still  *)
(* owed; the rest is due on the agency's terms, or unscheduled.            *)
Cum(sched, i) == SumFunctionOnSet([j \in DOMAIN sched |-> sched[j].amount], 1 .. i)
Alloc(balance, sched) ==
    [i \in DOMAIN sched |-> Min({sched[i].amount, AtLeast0(balance - (Cum(sched, i) - sched[i].amount))})]
BucketOf(due, today) ==
    LET late == today - due
    IN  CASE late <= 0 -> "current" [] late \in 1 .. 15 -> "d0_15" [] late \in 16 .. 30 -> "d16_30" [] OTHER -> "d31_plus"
AgeBuckets == {"current", "d0_15", "d16_30", "d31_plus", "unscheduled"}

(* Dues of one booking: the instalments still owed, then the rest.         *)
Dues(b) ==
    LET a == Alloc(b.balance, b.sched)
        rest == b.balance - SumFunction(a)
    IN  {[bucket |-> BucketOf(b.sched[i].due, b.today), amount |-> a[i], n |-> i] : i \in {j \in DOMAIN a : a[j] > 0}}
        \cup (IF rest > 0 THEN {[bucket |-> IF b.terms = NoRow THEN "unscheduled" ELSE BucketOf(b.terms, b.today),
                                 amount |-> rest, n |-> 0]} ELSE {})
Ageing(b) == [k \in AgeBuckets |-> MapThenSumSet(LAMBDA d : d.amount, {d \in Dues(b) : d.bucket = k})]

(* ListAgencies: the risk of an agency with this exposure.                 *)
UsedPct(limit, out) == IF limit > 0 THEN Min({AtLeast0((out * 100) \div limit), 999}) ELSE 0
RiskOf(a, e) ==
    LET used == UsedPct(a.limit, e.outstanding)
    IN  IF a.status # "active" THEN "blocked"
        ELSE IF used >= 90 \/ e.late THEN "critical"
        ELSE IF used >= 70 \/ e.overdue THEN "watch" ELSE "ok"

AgeingReport(b) ==
    /\ fin = Free
    /\ fin' = [op |-> "ageing", in |-> b, alloc |-> Alloc(b.balance, b.sched), out |-> Ageing(b)]

AgencyRisk(a, e) ==
    /\ fin = Free
    /\ e.late => e.overdue
    /\ e.overdue => e.outstanding > 0
    /\ fin' = [op |-> "risk", agency |-> a, e |-> e, level |-> RiskOf(a, e)]

-----------------------------------------------------------------------------
(* routing.go and funds.go: which suppliers can take a sale, best first.   *)
CategoriesFor == [flight |-> {"gds"}, hotel |-> {"wholesaler", "dmc"}, transfer |-> {"transfer", "dmc"},
                  visa |-> {"visa", "dmc"}, insurance |-> {"insurance"}, package |-> {"dmc", "wholesaler"}]
ContractWarnDays == 30
ContractOver(s) == s.days # NoRow /\ s.days < 0
BlockReason(s) ==
    IF ~s.active THEN "inactive" ELSE IF ContractOver(s) THEN "contract_expired" ELSE IF s.health = "down" THEN "down"
    ELSE IF ~Exhausted(s) THEN "" ELSE IF s.model = "prepaid" THEN "deposit_exhausted" ELSE "credit_exhausted"
Bookable(s) == BlockReason(s) = ""
FundsScore(s) ==
    IF ~Limited(s) THEN 30
    ELSE IF Available(s) <= 0 THEN 0
    ELSE IF LowThreshold > 0 THEN Min({30, (30 * Available(s)) \div (4 * LowThreshold)}) ELSE 20
HealthScore == [active |-> 40, unknown |-> 20, degraded |-> 10, down |-> 0]
LatencyScore(s) ==
    CASE s.latency = 0 -> IF s.api THEN 0 ELSE 10 [] s.latency \in 1 .. 400 -> 20
      [] s.latency \in 401 .. 1000 -> 12 [] s.latency \in 1001 .. 1500 -> 6 [] OTHER -> 0
ContractScore(s) == IF s.days = NoRow THEN 10 ELSE IF s.days > ContractWarnDays THEN 10 ELSE IF s.days >= 0 THEN 4 ELSE 0
RouteScore(s) == Min({HealthScore[s.health] + FundsScore(s) + LatencyScore(s) + ContractScore(s), 100})

(* Rank: the fitting suppliers, bookable before the others, then by score, *)
(* then by code.                                                           *)
RoutedBefore(a, b) ==
    IF Bookable(a) # Bookable(b) THEN Bookable(a)
    ELSE IF RouteScore(a) # RouteScore(b) THEN RouteScore(a) > RouteScore(b) ELSE a.code < b.code
Rank(suppliers, product) ==
    SetToSortSeq({s \in suppliers : s.category \in CategoriesFor[product]}, RoutedBefore)

Routing(suppliers, product) ==
    /\ fin = Free
    /\ fin' = [op |-> "routing", suppliers |-> suppliers, product |-> product, out |-> Rank(suppliers, product)]

(* AlertCounts: the query that counts suppliers low on funds.              *)
LowDeposits(s) ==
    /\ s.active /\ LowThreshold > 0
    /\ \/ s.model = "prepaid" /\ s.deposit < LowThreshold
       \/ s.model = "postpaid" /\ s.limit > 0 /\ s.limit - s.used < LowThreshold
-----------------------------------------------------------------------------
(* What may be asked: lists of up to two rows with small figures.          *)
RevenueRows == [{"gross"} -> Figures] \X [{"net", "tax", "fee"} -> 0 .. 1]
PnLRow(r) == [f \in {"gross", "net", "tax", "fee"} |-> IF f = "gross" THEN r[1][f] ELSE r[2][f]]
UpTo2(S) == {<<x>> : x \in S} \cup (S \X S)
BSPLines == [pnr : {"", "P", "Q"}, type : {"sale", "refund"}, amount : 1 .. FigureBound]
SystemTickets == [pnr : {"", "P", "Q"}, amount : 1 .. FigureBound]
Monies == [amount : -1 .. FigureBound, rate : 0 .. 3]
RoutedFunds == {[model |-> "prepaid", deposit |-> d, limit |-> 0, used |-> 0] : d \in {0, 1, 8}}
               \cup {[model |-> "postpaid", deposit |-> 0, limit |-> l, used |-> 2] : l \in {0, 2, 9}}
RoutedSupplier(code, f, active, health, days, latency) ==
    [code |-> code, category |-> "dmc", api |-> TRUE, active |-> active, health |-> health, days |-> days, latency |-> latency,
     model |-> f.model, deposit |-> f.deposit, limit |-> f.limit, used |-> f.used]

RulesInit == fin = Free

RulesNext ==
    /\ fin = Free
    /\ \/ \E r \in UpTo2({PnLRow(x) : x \in RevenueRows}), bps \in Commissions, b \in [revenue : {1}, cost : 0 .. 1] :
             Profitability(r, bps, b)
       \/ \E in \in [paid : Figures, cost : Figures, penalty : Figures, fee : 0 .. 1] : QuoteRefund(in)
       \/ \E l \in UpTo2(BSPLines), t \in UpTo2(SystemTickets) : ImportStatement(l, t)
       \/ \E c \in UpTo2(Monies), s \in RoutedFunds, i \in 0 .. 1 : Overview(c, 1, s, i)
       \/ \E balance \in Figures, s \in UpTo2([due : {0, 15, 30}, amount : 1 .. FigureBound]), terms \in {NoRow, 20}, today \in {0, 16, 31, 46} :
             AgeingReport([balance |-> balance, sched |-> s, terms |-> terms, today |-> today])
       \/ \E limit \in AgencyLimits, st \in AgencyStatuses, auto \in BOOLEAN, o \in 0 .. 2, late, overdue \in BOOLEAN :
             AgencyRisk([status |-> st, limit |-> limit, auto |-> auto], [outstanding |-> o, late |-> late, overdue |-> overdue])
       \/ \E f, g \in RoutedFunds, active \in BOOLEAN, h \in HealthStatuses, days \in {NoRow, -1, 30, 31}, latency \in {0, 900},
             product \in {"flight", "hotel"} :
             Routing({RoutedSupplier(1, f, active, h, days, latency), RoutedSupplier(2, g, TRUE, "degraded", 31, 400)}, product)

-----------------------------------------------------------------------------
(* Type correctness.                                                       *)
RulesTypeOK == fin.op \in {"free", "profit", "refund", "bsp", "overview", "ageing", "risk", "routing"}

(* Profit adds up: what a representative is credited with is what the      *)
(* costed bookings earn one by one, a departure whose bookings are all     *)
(* costed earns the same, and the commission is off by at most half a unit *)
(* a booking, losses taking nothing from it.                               *)
ProfitAddsUp ==
    fin.op = "profit" =>
      LET margins == [i \in DOMAIN fin.rows |-> Margin(BookingPnL(fin.rows[i]))]
          earned == SumFunction([i \in DOMAIN margins |-> AtLeast0(margins[i])])
      IN  /\ Margin(fin.rep.pnl) = SumFunction(margins)
          /\ Costed(fin.rows) = fin.rows => Margin(fin.departure) = SumFunction(margins)
          /\ AbsVal(fin.commission * BPS - fin.bps * earned) * 2 <= BPS * Len(margins)
          /\ fin.departure.costed =>
               fin.variance.margin = fin.variance.revenue - fin.variance.cost - fin.departure.fee

(* A refund loses no money: what the customer gets back and what is kept   *)
(* is what was paid, and the agency is left with its fee less what the     *)
(* payment did not cover (the penalty stays when no cost was entered).     *)
RefundSettles ==
    fin.op = "refund" =>
      /\ fin.out.customer + fin.out.retained = fin.in.paid /\ fin.out.customer \in 0 .. fin.in.paid
      /\ fin.out.result = fin.in.fee - fin.out.shortfall + (IF fin.in.cost = 0 THEN fin.in.penalty ELSE 0)
      /\ fin.out.shortfall > 0 => fin.out.customer = 0

(* The statement explains its discrepancy: every line has one verdict, and *)
(* the difference of the totals is what the lines without a ticket, the    *)
(* mismatched locators and the unbilled tickets add up to.                 *)
StatementExplained ==
    fin.op = "bsp" =>
      LET missing == [i \in DOMAIN fin.lines |->
                        IF LineStatus(fin.lines, fin.tickets, i) = "missing_in_system" THEN SignedAmount(fin.lines[i]) ELSE 0]
          mismatched == {fin.lines[i].pnr : i \in {j \in DOMAIN fin.lines : LineStatus(fin.lines, fin.tickets, j) = "amount_mismatch"}}
      IN  /\ fin.out.matched + fin.out.mismatched + fin.out.missingSystem = Len(fin.lines)
          /\ Discrepancy(fin.out) = SumFunction(missing)
               + SumFunction([p \in mismatched |-> LineSum(fin.lines, p) - TicketSum(fin.tickets, p)])
               - SumFunction([p \in Unbilled(fin.lines, fin.tickets) |-> TicketSum(fin.tickets, p)])

(* The shares of the exposure always make a whole, each within a basis     *)
(* point of the exact one.                                                 *)
SharesMakeAWhole ==
    fin.op = "overview" =>
      LET total == SumFunction([i \in DOMAIN fin.cash |-> AtLeast0(fin.cash[i].amount * fin.cash[i].rate)])
      IN  /\ total > 0 => SumFunction(fin.shares) = BPS
          /\ \A i \in DOMAIN fin.shares :
               AbsVal(fin.shares[i] * total - AtLeast0(fin.cash[i].amount * fin.cash[i].rate) * BPS) <= total
          /\ ~fin.cashTotal.partial =>
               fin.cashTotal.total = SumFunction([i \in DOMAIN fin.cash |-> fin.cash[i].amount * fin.cash[i].rate])
          /\ fin.net + fin.s.used + fin.invoices >= fin.due              \* no debt is counted twice

(* The ageing report shows every unit owed once, the earlier instalments   *)
(* paid before the later ones; an agency shown as ok or watched is not one *)
(* the sweep is about to suspend, nor over its limit.                      *)
AgeingComplete ==
    /\ fin.op = "ageing" =>
         /\ SumFunction(fin.out) = fin.in.balance
         /\ \A i, j \in DOMAIN fin.alloc : i < j /\ fin.alloc[j] > 0 => fin.alloc[i] = fin.in.sched[i].amount
    /\ fin.op = "risk" /\ fin.level \in {"ok", "watch"} =>
         /\ ~ShouldSuspend(fin.agency, fin.e)
         /\ fin.agency.limit > 0 => fin.e.outstanding < fin.agency.limit

(* A sale is never routed first to a supplier that cannot take it while    *)
(* another can, a supplier offered has funds, and the alert counts the     *)
(* suppliers the profile shows as low.                                     *)
RoutedToBookable ==
    fin.op = "routing" =>
      /\ \A i, j \in DOMAIN fin.out : i < j /\ Bookable(fin.out[j]) => Bookable(fin.out[i])
      /\ \A i \in DOMAIN fin.out : RouteScore(fin.out[i]) \in 0 .. 100 /\ (Bookable(fin.out[i]) => ~Exhausted(fin.out[i]))
      /\ \A s \in fin.suppliers : LowDeposits(s) <=> s.active /\ LowBalance(s)

(* What finance computes adds up.                                          *)
FinanceAddsUp ==
    ProfitAddsUp /\ RefundSettles /\ StatementExplained /\ SharesMakeAWhole /\ AgeingComplete /\ RoutedToBookable
=============================================================================
