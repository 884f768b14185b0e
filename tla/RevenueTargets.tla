--------------------------- MODULE RevenueTargets ---------------------------
(***************************************************************************)
(* Revenue targets: a goal of money (and, optionally, of customers) over a *)
(* period, what was expected by today, and the status told to the outbox   *)
(* whenever it changes.                                                    *)
(* Modelled code: src/internal/domain/revenuetarget,                       *)
(* src/internal/app/revenuetarget and                                      *)
(* src/internal/adapter/postgres/revenuetarget.                            *)
(*                                                                         *)
(* One target of one branch.  Its settings are edited while payments come  *)
(* in and while events, timers and requests recompute it.  A second part   *)
(* asks the pace engine about every period, day and amount.  Days are      *)
(* numbered from one, months are MonthDays long.                           *)
(***************************************************************************)
EXTENDS Rows, Sequences, FiniteSetsExt

CONSTANTS
    LastTargetDay,     \* bound: the days are 1 .. LastTargetDay
    MonthDays,         \* days in a month
    Goals,             \* amounts a target may ask for
    MaxSales,          \* bound: payments received
    MaxRevisions       \* bound: changes of the target

ASSUME TargetAssumption == LastTargetDay \in Nat \ {0} /\ MonthDays \in Nat \ {0} /\ MaxSales \in Nat /\ MaxRevisions \in Nat

VARIABLES
    target,            \* the row of revenue_targets
    weights,           \* revenue_target_weights: bucket -> basis points
    sales,             \* payments, in the order they were recorded
    targetSnaps,             \* revenue_target_snapshots, one per day
    told,              \* the last TargetStatusChanged recorded in the outbox
    revisions,         \* how many rows revenue_target_revisions keeps
    today,
    tdesk,             \* what each request or job is doing
    checked,           \* history: the weights were validated for a seasonal curve
    overlapped,        \* history: a recompute saved over another one's save
    pace               \* the last question to the engine and its answer

targetRows == <<target, weights, revisions, checked>>
snapRows == <<targetSnaps, told, overlapped>>
targetVars == <<target, weights, sales, targetSnaps, told, revisions, today, tdesk, checked, overlapped, pace>>

TargetDays == 1 .. LastTargetDay
Buckets == 0 .. (LastTargetDay - 1) \div MonthDays
FULL == 10000
Curves == {"linear", "seasonal"}
WeightSets == UNION {[B -> {FULL \div 2, FULL}] : B \in SUBSET Buckets}
NoWeights == [b \in {} |-> 0]

MinT(a, b) == IF a < b THEN a ELSE b
MaxT(a, b) == IF a > b THEN a ELSE b

-----------------------------------------------------------------------------
(* period.go: the calendar kinds snap to the period around the start.      *)
DaysInclusive(a, b) == IF b < a THEN 0 ELSE b - a + 1
MonthStart(d) == ((d - 1) \div MonthDays) * MonthDays + 1
ResolvePeriod(kind, start, end) ==
    IF kind = "monthly" THEN {<<MonthStart(start), MonthStart(start) + MonthDays - 1>>}
    ELSE {p \in {<<start, end>>} : p[1] <= p[2]}
Covers(t, day) == t.start <= day /\ day <= t.end

(* ValidateWeights: only a seasonal curve has its weights looked at.       *)
ValidateWeights(curve, w) ==
    curve = "seasonal" => DOMAIN w # {} /\ MapThenSumSet(LAMBDA b : w[b], DOMAIN w) = FULL

(* monthBuckets: the i-th bucket is the i-th month from the start's own.   *)
MonthBuckets(start, end) ==
    [i \in 0 .. (MonthStart(end) - MonthStart(start)) \div MonthDays |->
        [start |-> MaxT(MonthStart(start) + i * MonthDays, start),
         end   |-> MinT(MonthStart(start) + (i + 1) * MonthDays - 1, end)]]

(* expectedToDate.  A month without a weight expects nothing.              *)
ExpectedToDate(goal, start, end, asOf, curve, w) ==
    LET months == MonthBuckets(start, end)
        bps(i) == IF i \in DOMAIN w THEN w[i] ELSE 0
        upTo(i) == DaysInclusive(months[i].start, MinT(asOf, months[i].end))
        due(i) == (((goal * bps(i)) \div FULL) * upTo(i)) \div DaysInclusive(months[i].start, months[i].end)
    IN  IF curve # "seasonal" \/ DOMAIN w = {}
        THEN (goal * DaysInclusive(start, MinT(asOf, end))) \div DaysInclusive(start, end)
        ELSE MapThenSumSet(due, DOMAIN months)

(* StatusFromPace: 105 and 90 per cent of what was expected.               *)
StatusFromPace(expected, actual) ==
    IF expected <= 0 THEN IF actual > 0 THEN "ahead" ELSE "on_track"
    ELSE IF 100 * actual >= 105 * expected THEN "ahead"
    ELSE IF 100 * actual >= 90 * expected THEN "on_track" ELSE "behind"

(* Calculate.                                                              *)
Calculate(goal, actual, start, end, day, curve, w) ==
    LET asOf == MaxT(day, start)
        expected == ExpectedToDate(goal, start, end, asOf, curve, w)
        remainingDays == IF asOf >= end THEN 0 ELSE DaysInclusive(asOf + 1, end)
        remaining == goal - actual
    IN  [expected |-> expected, variance |-> actual - expected,
         progress |-> (actual * FULL) \div goal,
         forecast |-> (actual * DaysInclusive(start, end)) \div DaysInclusive(start, MinT(asOf, end)),
         daily    |-> IF remainingDays > 0 /\ remaining > 0
                      THEN (remaining + remainingDays - 1) \div remainingDays ELSE 0,
         left     |-> remainingDays,
         status   |-> StatusFromPace(expected, actual)]

(* CombineStatus: the worse of the two.                                    *)
CombineStatus(money, customers) ==
    LET rank == [behind |-> 3, on_track |-> 2, ahead |-> 1] IN
    IF rank[customers] > rank[money] THEN customers ELSE money

(* CumulativeSeries spreads what was earned evenly over the days so far.   *)
CumulativeSeries(goal, actual, start, end, asOf, curve, w) ==
    LET last == MinT(asOf, end) IN
    [d \in start .. last |->
        [actual   |-> (actual * DaysInclusive(start, d)) \div DaysInclusive(start, last),
         expected |-> ExpectedToDate(goal, start, end, d, curve, w)]]

(* VariancePct of a status change.                                         *)
VariancePct(expected, actual) ==
    IF expected <= 0 \/ actual >= expected THEN 0 ELSE ((expected - actual) * 100) \div expected

-----------------------------------------------------------------------------
(* The queries over the payments.  SumActual takes the day the money was   *)
(* received, by currency; the two lists take the day it was entered and    *)
(* add amounts of every currency.                                          *)
OfOwner(t, s) == t.owner # NoRow => s.owner = t.owner
SumActual(paid, t, to) ==
    [c \in {"own", "foreign"} |->
        Cardinality({i \in DOMAIN paid : /\ OfOwner(t, paid[i]) /\ paid[i].cur = c
                                         /\ t.start <= paid[i].received /\ paid[i].received <= to})]
ListSources(paid, t, to) == {i \in DOMAIN paid : /\ OfOwner(t, paid[i])
                                                 /\ t.start <= paid[i].created /\ paid[i].created <= to}
SumActualByOwner(paid, t, to) ==
    LET listed == ListSources(paid, t, to) IN
    [o \in {paid[i].owner : i \in listed} |-> Cardinality({i \in listed : paid[i].owner = o})]

(* actual: foreign money counts when there is a rate, else it is listed as *)
(* unconverted.                                                            *)
ActualOf(paid, t, day, rate) ==
    LET by == SumActual(paid, t, MinT(day, t.end))
    IN  [total |-> by["own"] + (IF rate THEN by["foreign"] ELSE 0), missing |-> ~rate /\ by["foreign"] > 0]

(* Contributions: each share of the target beside what its owner brought.  *)
ValidateShares(shares) ==
    DOMAIN shares # {} => MapThenSumSet(LAMBDA o : shares[o], DOMAIN shares) = FULL
Contributions(paid, t, shares, day) ==
    LET by == SumActualByOwner(paid, t, MinT(day, t.end)) IN
    IF DOMAIN shares = {} THEN [o \in DOMAIN by |-> [share |-> 0, actual |-> by[o]]]
    ELSE [o \in DOMAIN shares |-> [share  |-> (t.goal * shares[o]) \div FULL,
                                   actual |-> IF o \in DOMAIN by THEN by[o] ELSE 0]]

-----------------------------------------------------------------------------
TargetInit ==
    /\ target = NoRow /\ weights = NoWeights /\ sales = <<>> /\ revisions = 0
    /\ targetSnaps = [d \in TargetDays |-> NoRow] /\ told = NoRow /\ today = 1
    /\ tdesk = [d \in Desks |-> Free] /\ checked = FALSE /\ overlapped = FALSE
    /\ pace = Free

(* Create: a seasonal target starts without weights.                       *)
CreateTarget(goal, curve, kind, start, end) ==
    /\ target = NoRow /\ revisions = 0
    /\ \E p \in ResolvePeriod(kind, start, end) :
        target' = [goal |-> goal, curve |-> curve, start |-> p[1], end |-> p[2], owner |-> NoRow]
    /\ UNCHANGED <<weights, sales, revisions, checked, today, tdesk>> /\ UNCHANGED snapRows

(* Update, SetWeights and SetShares read the row without a lock...         *)
GetTarget(d, op) ==
    /\ tdesk[d] = Free /\ target # NoRow /\ revisions < MaxRevisions
    /\ tdesk' = [tdesk EXCEPT ![d] = [op |-> op, row |-> target]]
    /\ UNCHANGED <<sales, today>> /\ UNCHANGED <<targetRows, snapRows>>

(* ...the repository replaces every column, or every weight...             *)
WriteTarget(row) == target' = row
ReplaceWeights(w) == weights' = w

(* ...Update patches the copy and writes every column with a revision...   *)
UpdateTarget(d, goal, curve) ==
    /\ tdesk[d].op = "update"
    /\ IF target = NoRow THEN UNCHANGED targetRows
       ELSE /\ WriteTarget([tdesk[d].row EXCEPT !.goal = goal, !.curve = curve])
            /\ revisions' = revisions + 1
            /\ UNCHANGED <<weights, checked>>
    /\ tdesk' = [tdesk EXCEPT ![d] = Free]
    /\ UNCHANGED <<sales, today>> /\ UNCHANGED snapRows

(* ...and SetWeights validates against the curve it read: the row may be   *)
(* seasonal by now.                                                        *)
SetWeights(d, w) ==
    /\ tdesk[d].op = "weights"
    /\ IF target = NoRow \/ ~ValidateWeights(tdesk[d].row.curve, w) THEN UNCHANGED targetRows
       ELSE /\ ReplaceWeights(w)
            /\ checked' = (tdesk[d].row.curve = "seasonal")
            /\ revisions' = revisions + 1
            /\ UNCHANGED target
    /\ tdesk' = [tdesk EXCEPT ![d] = Free]
    /\ UNCHANGED <<sales, today>> /\ UNCHANGED snapRows

(* Delete cascades to the weights and the snapshots.                       *)
DeleteTarget ==
    /\ target # NoRow
    /\ target' = NoRow /\ weights' = NoWeights /\ checked' = FALSE
    /\ revisions' = revisions + 1
    /\ targetSnaps' = [x \in TargetDays |-> NoRow]
    /\ UNCHANGED <<sales, told, overlapped, today, tdesk>>

(* A payment is verified: perhaps received days before it was entered.     *)
RecordSale(owner, cur, received) ==
    /\ Len(sales) < MaxSales /\ received <= today
    /\ sales' = Append(sales, [owner |-> owner, cur |-> cur, received |-> received, created |-> today])
    /\ UNCHANGED <<today, tdesk>> /\ UNCHANGED <<targetRows, snapRows>>

(* progress reads the target, the weights and the sums...                  *)
RecomputeRead(d, rate) ==
    /\ tdesk[d] = Free /\ target # NoRow
    /\ LET a == ActualOf(sales, target, today, rate)
           c == Calculate(target.goal, a.total, target.start, target.end, today, target.curve, weights)
       IN  tdesk' = [tdesk EXCEPT ![d] = [op |-> "progress", day |-> today,
                       snap |-> [expected |-> c.expected, actual |-> a.total, status |-> c.status]]]
    /\ UNCHANGED <<sales, today>> /\ UNCHANGED <<targetRows, snapRows>>

(* ...saveSnapshot reads the latest snapshot...                            *)
LatestSnapshot ==
    LET days == {x \in TargetDays : targetSnaps[x] # NoRow}
    IN  IF days = {} THEN NoRow ELSE targetSnaps[CHOOSE x \in days : \A y \in days : y <= x]
SaveStarts(d) ==
    /\ tdesk[d].op = "progress"
    /\ target # NoRow
    /\ tdesk' = [tdesk EXCEPT ![d] = [op |-> "save", day |-> tdesk[d].day, snap |-> tdesk[d].snap,
                                      from |-> IF LatestSnapshot = NoRow THEN "none" ELSE LatestSnapshot.status]]
    /\ UNCHANGED <<sales, today>> /\ UNCHANGED <<targetRows, snapRows>>

(* ...and upserts its own, recording a change of status; a target deleted  *)
(* meanwhile has no row to hang it on.                                     *)
UpsertSnapshot(day, snap) == targetSnaps' = [targetSnaps EXCEPT ![day] = snap]
SaveSnapshot(d) ==
    /\ tdesk[d].op = "save"
    /\ LET j == tdesk[d]
           now == IF LatestSnapshot = NoRow THEN "none" ELSE LatestSnapshot.status
           silent == j.from = j.snap.status \/ (j.from = "none" /\ j.snap.status # "behind")
       IN  IF target = NoRow THEN UNCHANGED snapRows
           ELSE /\ UpsertSnapshot(j.day, j.snap)
                /\ told' = IF silent THEN told
                           ELSE [from |-> j.from, to |-> j.snap.status,
                                 pct |-> VariancePct(j.snap.expected, j.snap.actual)]
                /\ overlapped' = (overlapped \/ now # j.from \/ \E x \in TargetDays : x > j.day /\ targetSnaps[x] # NoRow)
    /\ tdesk' = [tdesk EXCEPT ![d] = Free]
    /\ UNCHANGED <<sales, today>> /\ UNCHANGED targetRows

(* The process dies before it saves.                                       *)
TargetCrash(d) ==
    /\ tdesk[d] # Free
    /\ tdesk' = [tdesk EXCEPT ![d] = Free]
    /\ UNCHANGED <<sales, today>> /\ UNCHANGED <<targetRows, snapRows>>

NextTargetDay ==
    /\ today < LastTargetDay
    /\ today' = today + 1
    /\ UNCHANGED <<sales, tdesk>> /\ UNCHANGED <<targetRows, snapRows>>

(* The settings are edited; the target is recomputed while money comes in. *)
SomeTarget == \E g \in Goals, c \in Curves, k \in {"monthly", "custom"}, s, e \in TargetDays : CreateTarget(g, c, k, s, e)
TargetNext ==
    /\ \/ SomeTarget \/ DeleteTarget \/ NextTargetDay
       \/ \E d \in Desks : \/ \E op \in {"update", "weights"} : GetTarget(d, op)
                           \/ \E g \in Goals, c \in Curves : UpdateTarget(d, g, c)
                           \/ \E w \in WeightSets : SetWeights(d, w)
                           \/ TargetCrash(d)
    /\ UNCHANGED pace

RecomputeNext ==
    /\ \/ \E g \in Goals : CreateTarget(g, "linear", "custom", 1, LastTargetDay) \/ DeleteTarget \/ NextTargetDay
       \/ \E d \in Desks : \/ \E rate \in BOOLEAN : RecomputeRead(d, rate)
                           \/ SaveStarts(d) \/ SaveSnapshot(d) \/ TargetCrash(d)
       \/ \E o \in {"me"}, c \in {"own", "foreign"}, r \in TargetDays : RecordSale(o, c, r)
    /\ UNCHANGED pace

(* A question to the engine, for a target with its weights in order.       *)
AskPace(goal, actual, start, end, day, curve, w, seats) ==
    /\ start <= end
    /\ pace = Free
    /\ ValidateWeights(curve, w)
    /\ pace' = [op |-> "pace", goal |-> goal, actual |-> actual, start |-> start, end |-> end, day |-> day, curve |-> curve, w |-> w,
                now  |-> Calculate(goal, actual, start, end, day, curve, w),
                customers |-> Calculate(1, seats, start, end, day, curve, w).status,
                status |-> CombineStatus(Calculate(goal, actual, start, end, day, curve, w).status,
                                         Calculate(1, seats, start, end, day, curve, w).status),
                next |-> Calculate(goal, actual, start, end, day + 1, curve, w),
                series |-> CumulativeSeries(goal, actual, start, end, day, curve, w)]

(* And one to Contributions, over the payments of two representatives.     *)
Paid(days) == [owner : {"me", "you"}, cur : {"own", "foreign"}, received : days, created : days]
AskShares(paid, t, shares, day) ==
    /\ pace = Free
    /\ ValidateShares(shares)
    /\ \A i \in DOMAIN paid : paid[i].received <= paid[i].created /\ paid[i].created <= day
    /\ pace' = [op |-> "shares", paid |-> paid, t |-> t, shares |-> shares, day |-> day,
                total |-> ActualOf(paid, t, day, TRUE).total, answer |-> Contributions(paid, t, shares, day)]

PaceNext ==
    /\ pace = Free
    /\ \/ \E g \in Goals, a \in 0 .. 4, s, e, day \in TargetDays, c \in Curves, w \in WeightSets, seats \in {0, 1} :
            AskPace(g, a, s, e, day, c, w, seats)
       \/ \E one, two \in Paid({1, 2}), g \in Goals, end \in {1, 2}, owner \in {NoRow, "me"},
             shares \in UNION {[O -> {FULL \div 2, FULL}] : O \in SUBSET {"me", "you"}} :
            AskShares(<<one, two>>, [goal |-> g, start |-> 1, end |-> end, owner |-> owner], shares, 2)
    /\ UNCHANGED <<target, weights, sales, targetSnaps, told, revisions, today, tdesk, checked, overlapped>>
-----------------------------------------------------------------------------
TargetTypeOK ==
    /\ target # NoRow => target.goal \in Goals /\ target.curve \in Curves /\ target.start <= target.end
    /\ weights \in WeightSets /\ today \in TargetDays /\ Len(sales) <= MaxSales
    /\ revisions <= MaxRevisions + Cardinality(Desks) + 1
    /\ \A x \in TargetDays : targetSnaps[x] # NoRow => targetSnaps[x].status \in {"ahead", "on_track", "behind"}

(* The status last told is the status of the latest snapshot, and nothing *)
(* was told only while the target never fell behind, as long as no         *)
(* recompute saved over another's (saveSnapshot).                          *)
ToldIsLatest ==
    (~overlapped /\ target # NoRow /\ LatestSnapshot # NoRow) =>
        IF told = NoRow THEN LatestSnapshot.status # "behind" ELSE told.to = LatestSnapshot.status

(* With weights that were validated for the seasonal curve, no snapshot    *)
(* ever expects more than the largest goal (SetWeights, Update).           *)
ExpectedWithinGoal ==
    (target # NoRow /\ (target.curve = "seasonal" => checked \/ weights = NoWeights)) =>
        Calculate(target.goal, 0, target.start, target.end, today, target.curve, weights).expected <= target.goal

(* What the pace engine answers: the expectation grows with the day and    *)
(* never passes the goal; a linear one reaches it on the last day; a       *)
(* target that has its expectation is never behind; the daily pace, kept   *)
(* up to the end, is enough and one less is not; the series ends in the    *)
(* figures of the day (Calculate, CumulativeSeries).                       *)
PaceHonest ==
    pace.op = "pace" =>
        LET p == pace
            r == p.now
        IN  /\ 0 <= r.expected /\ r.expected <= p.goal /\ r.expected <= p.next.expected
            /\ (p.day >= p.end /\ p.curve = "linear") => r.expected = p.goal
            /\ p.actual >= r.expected => r.status # "behind"
            /\ p.status = "behind" <=> "behind" \in {r.status, p.customers}
            /\ r.left > 0 => p.actual + r.daily * r.left >= p.goal
            /\ r.daily > 0 => p.actual + (r.daily - 1) * r.left < p.goal
            /\ p.day >= p.end => r.forecast = p.actual
            /\ (p.start <= p.day /\ p.day <= p.end) =>
                    p.series[p.day].actual = p.actual /\ p.series[p.day].expected = r.expected

(* The shares never promise more than the goal; without shares, and when   *)
(* every payment was entered on the day it was received, the contributions *)
(* add up to the money the target counts (Contributions, SumActualByOwner, *)
(* SumActual).                                                             *)
ContributionsAddUp ==
    pace.op = "shares" =>
        LET sum(f(_)) == MapThenSumSet(f, DOMAIN pace.answer)
        IN  /\ sum(LAMBDA o : pace.answer[o].share) <= pace.t.goal
            /\ (DOMAIN pace.shares = {} /\ \A i \in DOMAIN pace.paid : pace.paid[i].received = pace.paid[i].created) =>
                    sum(LAMBDA o : pace.answer[o].actual) = pace.total
=============================================================================
