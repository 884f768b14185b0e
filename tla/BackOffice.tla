----------------------------- MODULE BackOffice -----------------------------
(***************************************************************************)
(* The back office: reports and their schedules, help requests, the audit  *)
(* trail and retention.  Modelled code: src/internal/app/report,           *)
(* src/internal/app/support, src/internal/app/audit,                       *)
(* src/internal/app/retention, their domain packages and their stores      *)
(* under src/internal/adapter/postgres/.                                   *)
(*                                                                         *)
(* The sweep of due reports reads its schedules first and looks at them    *)
(* one by one afterwards; two sweeps may overlap, and a schedule may be    *)
(* edited or deleted meanwhile.                                            *)
(***************************************************************************)
EXTENDS Rows, Integers, Sequences, SequencesExt, FiniteSetsExt, Functions

CONSTANTS SchedIds,      \* ids of report schedules
          ReportUsers,   \* users a report can be sent to
          LastReportDay, \* days explored; a week has two of them here, a month four
          MaxReportEdits,\* schedule edits and departures of users explored
          SubmitPerHour, \* help requests of one user in a window
          MaxSupport     \* help requests, and edits of them, explored

VARIABLES
    scheds,              \* report_schedules: id -> row
    runs,                \* report_runs: [sched, period, kind]
    ready,               \* notifications of a run: <<sched, period, user>> -> how many
    eligible,            \* active users of the branch who may read reports
    reportDay, reportEdits,
    schedsMade,          \* ids given to schedules so far
    reportDesk,          \* desk -> the sweep or the edit it is in
    requests,            \* support_requests, in the order of their numbers
    supportHits,         \* submissions counted in this window
    supportBlind,        \* submissions of this window the limiter could not count
    supportMade,         \* history: requests created in this window
    supportWork,
    supportDesk,         \* desk -> the copy of a request it is about to write
    officeAnswer         \* one question to the back office and its answer

scheduleVars == <<scheds, runs, ready, eligible, reportDay, reportEdits, schedsMade, reportDesk>>
supportVars == <<requests, supportHits, supportBlind, supportMade, supportWork, supportDesk>>
officeVars == <<scheduleVars, supportVars, officeAnswer>>

-----------------------------------------------------------------------------
(* Reports: kinds, frequencies and the period each day falls due for.      *)
ReportKinds == {"sales", "targets", "readiness", "sla", "finance", "integrations"}
ValidKind(k) == k \in ReportKinds
IsSensitive(k) == k \in {"finance", "integrations", "sales"}
Frequencies == {"daily", "weekly", "monthly"}
FrequencyDays(f) == CASE f = "weekly" -> 2 [] f = "monthly" -> 4 [] OTHER -> 1
(* The last whole day, week or month before the day.                       *)
ReportPeriod(f, day) ==
    LET to == (day \div FrequencyDays(f)) * FrequencyDays(f)
    IN  [freq |-> f, from |-> to - FrequencyDays(f), to |-> to]

MaxRecipients == 2
(* A schedule in order: its recipients distinct, and not too many.         *)
NormalizeSchedule(row) ==
    {r \in {row} : ValidKind(r.kind) /\ r.kind # "integrations" /\ r.freq \in Frequencies
                   /\ r.to # {} /\ Cardinality(r.to) <= MaxRecipients}
ValidateSchedule(row) == {r \in NormalizeSchedule(row) : r.to \subseteq eligible}

InsertSchedule(id, row) == scheds' = [scheds EXCEPT ![id] = row]
GetSchedule(id) == {row \in {scheds[id]} : row # NoRow}
(* An edit that finds no row writes nothing.                               *)
UpdateSchedule(id, row) == scheds' = [scheds EXCEPT ![id] = IF @ = NoRow THEN @ ELSE row]
DeleteSchedule(id) ==
    /\ scheds' = [scheds EXCEPT ![id] = NoRow]
    /\ runs' = {r \in runs : r.sched # id}
ListEnabledSchedules == {id \in Present(scheds) : scheds[id].enabled}
RunExists(id, period) == \E r \in runs : r.sched = id /\ r.period = period

ReportEdit == reportEdits < MaxReportEdits /\ reportEdits' = reportEdits + 1
CreateSchedule ==
    /\ ReportEdit
    /\ \E id \in SchedIds \cap {schedsMade + 1}, kind \in {"sales", "integrations"}, f \in {"daily", "weekly"}, to \in SUBSET ReportUsers :
        \E row \in ValidateSchedule([kind |-> kind, freq |-> f, to |-> to, enabled |-> TRUE]) : InsertSchedule(id, row)
    /\ schedsMade' = schedsMade + 1
    /\ UNCHANGED <<runs, ready, eligible, reportDay, reportDesk>>
(* An edit reads the row, changes what it was given and validates it.      *)
UpdateScheduleRead(d) ==
    /\ reportDesk[d] = Free /\ ReportEdit
    /\ \E id \in SchedIds : \E row \in GetSchedule(id), enabled \in BOOLEAN, f \in {"daily", "weekly"} :
        \E new \in ValidateSchedule([row EXCEPT !.enabled = enabled, !.freq = f]) :
            reportDesk' = [reportDesk EXCEPT ![d] = [op |-> "edit", id |-> id, row |-> new]]
    /\ UNCHANGED <<scheds, runs, ready, eligible, reportDay, schedsMade>>
UpdateScheduleWrite(d) ==
    /\ reportDesk[d].op = "edit"
    /\ UpdateSchedule(reportDesk[d].id, reportDesk[d].row)
    /\ reportDesk' = [reportDesk EXCEPT ![d] = Free]
    /\ UNCHANGED <<runs, ready, eligible, reportDay, reportEdits, schedsMade>>
RemoveSchedule ==
    /\ ReportEdit
    /\ \E id \in Present(scheds) : DeleteSchedule(id)
    /\ UNCHANGED <<ready, eligible, reportDay, reportDesk, schedsMade>>
(* A user leaves the branch or loses the permission.                       *)
UserLeaves ==
    /\ ReportEdit
    /\ \E u \in eligible : eligible' = eligible \ {u}
    /\ UNCHANGED <<scheds, runs, ready, reportDay, reportDesk, schedsMade>>
ReportClock ==
    /\ reportDay < LastReportDay /\ reportDay' = reportDay + 1
    /\ UNCHANGED <<scheds, runs, ready, eligible, reportEdits, reportDesk, schedsMade>>

(* The sweep: the schedules with their rows, as read.                      *)
RunDue(d) ==
    /\ reportDesk[d] = Free /\ ListEnabledSchedules # {}
    /\ reportDesk' = [reportDesk EXCEPT ![d] = [op |-> "sweep", left |-> [id \in ListEnabledSchedules |-> scheds[id]]]]
    /\ UNCHANGED <<scheds, runs, ready, eligible, reportDay, reportEdits, schedsMade>>
(* One of them: done already, or generated and its recipients looked up.   *)
ActiveRecipients(row) == row.to \cap eligible
RunOne(d) ==
    /\ reportDesk[d].op = "sweep"
    /\ LET left == reportDesk[d].left IN
        IF DOMAIN left = {} THEN reportDesk' = [reportDesk EXCEPT ![d] = Free]
        ELSE LET id == Min(DOMAIN left)
                 rest == Restrict(left, DOMAIN left \ {id})
                 period == ReportPeriod(left[id].freq, reportDay)
             IN  reportDesk' = [reportDesk EXCEPT ![d] =
                    IF RunExists(id, period) THEN [op |-> "sweep", left |-> rest]
                    ELSE [op |-> "run", id |-> id, period |-> period, kind |-> left[id].kind, to |-> ActiveRecipients(left[id]), left |-> rest]]
    /\ UNCHANGED <<scheds, runs, ready, eligible, reportDay, reportEdits, schedsMade>>
(* Its transaction: the run, unless another sweep has inserted it, and the *)
(* notifications.  Without the schedule's row the insert fails, and with   *)
(* it the rest of the sweep.                                               *)
InsertReportRun(run) == IF RunExists(run.sched, run.period) THEN runs' = runs ELSE runs' = runs \cup {run}
ReportReady(id, period, to) == ready' = [k \in DOMAIN ready \cup {<<id, period, u>> : u \in to} |->
    (IF k \in DOMAIN ready THEN ready[k] ELSE 0) + (IF k[1] = id /\ k[2] = period /\ k[3] \in to THEN 1 ELSE 0)]
RunCommit(d) ==
    /\ reportDesk[d].op = "run"
    /\ LET t == reportDesk[d] IN
        IF scheds[t.id] = NoRow
        THEN /\ reportDesk' = [reportDesk EXCEPT ![d] = Free]
             /\ UNCHANGED <<runs, ready>>
        ELSE /\ InsertReportRun([sched |-> t.id, period |-> t.period, kind |-> t.kind])
             /\ IF RunExists(t.id, t.period) THEN UNCHANGED ready ELSE ReportReady(t.id, t.period, t.to)
             /\ reportDesk' = [reportDesk EXCEPT ![d] = [op |-> "sweep", left |-> t.left]]
    /\ UNCHANGED <<scheds, eligible, reportDay, reportEdits, schedsMade>>

-----------------------------------------------------------------------------
(* Help requests.                                                          *)
SupportStatuses == {"open", "in_progress", "resolved"}
SupportStatusKnown(s) == s \in SupportStatuses
NewRequest == [status |-> "open", resolvedBy |-> NoRow]
TransitionRequest(row, to, actor) ==
    [status |-> to, resolvedBy |-> IF to # "resolved" THEN NoRow ELSE IF row.status # "resolved" THEN actor ELSE row.resolvedBy]
SupportWork == supportWork < MaxSupport /\ supportWork' = supportWork + 1
(* Counted first, created after; a limiter out of reach lets it through.   *)
CheckRate(hits) == hits <= SubmitPerHour
Submit ==
    /\ SupportWork
    /\ \E seen \in BOOLEAN :
        /\ supportHits' = supportHits + (IF seen THEN 1 ELSE 0)
        /\ supportBlind' = supportBlind + (IF seen THEN 0 ELSE 1)
        /\ IF seen => CheckRate(supportHits')
           THEN requests' = Append(requests, NewRequest) /\ supportMade' = supportMade + 1
           ELSE UNCHANGED <<requests, supportMade>>
    /\ UNCHANGED supportDesk
SupportWindow ==
    /\ supportHits + supportBlind > 0
    /\ supportHits' = 0 /\ supportBlind' = 0 /\ supportMade' = 0
    /\ UNCHANGED <<requests, supportWork, supportDesk>>
UpdateRequestRead(d) ==
    /\ supportDesk[d] = Free /\ SupportWork
    /\ \E i \in DOMAIN requests, to \in SupportStatuses \cup {"closed"} :
        /\ SupportStatusKnown(to)
        /\ supportDesk' = [supportDesk EXCEPT ![d] = [op |-> "write", at |-> i, row |-> TransitionRequest(requests[i], to, d)]]
    /\ UNCHANGED <<requests, supportHits, supportBlind, supportMade>>
UpdateRequestWrite(d) ==
    /\ supportDesk[d].op = "write"
    /\ requests' = [requests EXCEPT ![supportDesk[d].at] = supportDesk[d].row]
    /\ supportDesk' = [supportDesk EXCEPT ![d] = Free]
    /\ UNCHANGED <<supportHits, supportBlind, supportMade, supportWork>>
(* The inbox: unresolved first, counted by status.                         *)
InboxRank(status) == CASE status = "open" -> 0 [] status = "in_progress" -> 1 [] OTHER -> 2
ListInbound(status, limit) ==
    LET found == SelectSeq([i \in DOMAIN requests |-> [at |-> i, status |-> requests[i].status]], LAMBDA r : status = "" \/ r.status = status)
        sorted == SetToSortSeq(ToSet(found), LAMBDA a, b : InboxRank(a.status) < InboxRank(b.status)
                                                        \/ (a.status = b.status /\ a.at > b.at))
    IN  [items |-> SubSeq(sorted, 1, Min({limit, Len(sorted)})), total |-> Len(found)]
CountByStatus == [s \in SupportStatuses |-> Cardinality({i \in DOMAIN requests : requests[i].status = s})]
SupportInbox ==
    /\ officeAnswer = Free
    /\ \E status \in SupportStatuses \cup {""}, limit \in 1..2 :
        officeAnswer' = [op |-> "inbox", status |-> status, limit |-> limit, list |-> ListInbound(status, limit), counts |-> CountByStatus]
    /\ UNCHANGED supportVars
SupportLooked == officeAnswer.op = "inbox" /\ officeAnswer' = Free /\ UNCHANGED supportVars

OfficeInit ==
    /\ scheds = [id \in SchedIds |-> NoRow] /\ runs = {} /\ ready = << >>
    /\ eligible = ReportUsers /\ reportDay = 4 /\ reportEdits = 0 /\ schedsMade = 0
    /\ reportDesk = [d \in Desks |-> Free]
    /\ requests = <<>> /\ supportHits = 0 /\ supportBlind = 0 /\ supportMade = 0 /\ supportWork = 0
    /\ supportDesk = [d \in Desks |-> Free]
    /\ officeAnswer = Free
ReportNext ==
    /\ \/ CreateSchedule \/ RemoveSchedule \/ UserLeaves \/ ReportClock
       \/ \E d \in Desks : UpdateScheduleRead(d) \/ UpdateScheduleWrite(d) \/ RunDue(d) \/ RunOne(d) \/ RunCommit(d)
    /\ UNCHANGED <<supportVars, officeAnswer>>
SupportNext ==
    /\ \/ /\ Submit \/ SupportWindow \/ \E d \in Desks : UpdateRequestRead(d) \/ UpdateRequestWrite(d)
          /\ officeAnswer = Free /\ UNCHANGED officeAnswer
       \/ SupportInbox \/ SupportLooked
    /\ UNCHANGED scheduleVars
-----------------------------------------------------------------------------
(* Filters of a report: what is missing is filled in, and a window is not  *)
(* empty, nor longer than a year; here a year has six days.                *)
MaxWindow == 6
NormalizeFilter(f, now) ==
    LET to == IF f.to = 0 THEN now ELSE f.to
        from == IF f.from = 0 THEN to - 3 ELSE f.from
        limit == IF f.limit <= 0 THEN 2 ELSE Min({f.limit, 3})
    IN  {g \in {[from |-> from, to |-> to, limit |-> limit]} : g.to > g.from /\ g.to - g.from <= MaxWindow}
ReportInWindow(f, at) == f.from <= at /\ at < f.to
Bps(part, whole) == IF whole > 0 THEN (part * 10000) \div whole ELSE 0

(* Rows of each report, and the summary over them.                         *)
(* Leads are handled by when they came, and won by when they last changed. *)
SalesRow(leads, f, overdue) ==
    LET handled == {l \in leads : ReportInWindow(f, l.created)}
        won == {l \in leads : l.won /\ ReportInWindow(f, l.updated)}
    IN  [handled |-> Cardinality(handled), won |-> Cardinality(won), bps |-> Bps(Cardinality(won), Cardinality(handled)),
         severity |-> IF overdue > 0 THEN "warning" ELSE "info"]
TargetRow(snapshots, target) ==
    LET last == {s \in snapshots : \A o \in snapshots : o.day <= s.day}
        s == IF last = {} THEN [actual |-> 0, expected |-> 0, status |-> "unknown"] ELSE CHOOSE x \in last : TRUE
    IN  [variance |-> s.actual - s.expected, status |-> s.status,
         severity |-> CASE s.status = "behind" -> "critical" [] s.status = "on_track" -> "warning" [] OTHER -> "info"]
ReadinessRow(missing, balance, override) ==
    LET can == override \/ (missing = 0 /\ balance <= 0) IN
    [can |-> can, risk |-> (IF missing > 0 THEN 1 ELSE 0) + (IF balance > 0 THEN 1 ELSE 0),
     severity |-> IF ~can THEN "critical" ELSE IF missing > 0 \/ balance > 0 THEN "warning" ELSE "info"]
SLARow(conversations, breached) ==
    LET bps == Bps(breached, conversations) IN
    [bps |-> bps, severity |-> IF bps >= 2000 THEN "critical" ELSE IF bps >= 500 THEN "warning" ELSE "info"]
(* Finance: one line per currency, then the bookings that owe the most.    *)
OwingStatuses == {"confirmed", "partially_paid", "ready", "travelled"}
Owes(b) == b.balance > 0 /\ b.status \in OwingStatuses
Total(bookings, amount(_)) == FoldFunctionOnSet(+, 0, [i \in DOMAIN bookings |-> amount(bookings[i])], DOMAIN bookings)
OfCurrency(bookings, c) == SelectSeq(bookings, LAMBDA b : b.currency = c)
FinanceLine(bookings, c) ==
    LET own == OfCurrency(bookings, c) IN
    [currency |-> c, booked |-> Total(own, LAMBDA b : b.total), collected |-> Total(own, LAMBDA b : b.total - b.balance),
     balance |-> Total(own, LAMBDA b : b.balance), overdue |-> Len(SelectSeq(own, Owes))]
FinanceRows(bookings, limit) ==
    LET currencies == {bookings[i].currency : i \in DOMAIN bookings}
        lines == SetToSeq({FinanceLine(bookings, c) : c \in currencies})
        owing == SelectSeq(bookings, Owes)
    IN  [lines |-> lines, owing |-> owing, shown |-> Min({limit, Len(lines) + Len(owing)}),
         balance |-> Total(lines, LAMBDA l : l.balance), overdue |-> Total(lines, LAMBDA l : l.overdue)]
(* Integration logs; without any, the health of the accounts stands in.    *)
HealthStatus(s) == CASE s \in {"down", "disconnected"} -> "error" [] s = "degraded" -> "degraded" [] OTHER -> "ok"
ListIntegrationLogs(logs, accounts) == IF logs # <<>> THEN logs ELSE [i \in DOMAIN accounts |-> HealthStatus(accounts[i])]
LogSeverity(status) == CASE status = "error" -> "critical" [] status \in {"degraded", "retry"} -> "warning" [] OTHER -> "info"
IntegrationRows(logs, accounts) ==
    LET list == ListIntegrationLogs(logs, accounts) IN
    [rows |-> [i \in DOMAIN list |-> LogSeverity(list[i])], errors |-> Len(SelectSeq(list, LAMBDA s : s \in {"error", "degraded"}))]
RecordIntegrationLog(status) == IF status = "" THEN "ok" ELSE status

-----------------------------------------------------------------------------
(* The audit trail.  Who did it: the signed-in user of the request, else   *)
(* the one the caller names, else the kind of actor the request has.       *)
ActorTypes == {"user", "system", "webhook"}
ActorValid(t) == t \in ActorTypes
Authenticated(a) == a.type = "user" /\ a.user # NoRow
ResolveActor(known, a, named) ==
    LET other == known /\ ActorValid(a.type) /\ a.type # "user" IN
    CASE known /\ Authenticated(a) -> [type |-> "user", user |-> a.user]
      [] ~(known /\ Authenticated(a)) /\ named # NoRow -> [type |-> IF other THEN a.type ELSE "user", user |-> named]
      [] OTHER -> [type |-> IF other THEN a.type ELSE "system", user |-> NoRow]
(* A page of the trail, newest first, and the size of the whole.           *)
AuditMatches(events, f) == SelectSeq(events, LAMBDA e : (f.actor # NoRow => e.actor = f.actor) /\ (f.action # "" => e.action = f.action)
                                                       /\ f.from <= e.at /\ e.at <= f.to)
AuditLimit(limit) == IF limit <= 0 THEN 1 ELSE Min({limit, 2})
ListAudit(events, f, limit, offset) ==
    LET found == Reverse(AuditMatches(events, f))
        from == Max({0, offset})
    IN  [page |-> SubSeq(found, from + 1, Min({from + AuditLimit(limit), Len(found)})), total |-> Len(found)]
(* An export is written to the trail before the first line leaves.         *)
ExportAudit(events, f, max) ==
    LET after == Append(events, [actor |-> "u1", action |-> "exported", at |-> 3])
        found == Reverse(AuditMatches(after, f))
    IN  [events |-> after, sent |-> SubSeq(found, 1, Min({max, Len(found)}))]

(* Retention: sessions and tokens that ended long ago, challenges that     *)
(* expired, and webhook events received long ago.                          *)
PurgeSessions(rows, cutoff) == {r \in rows : ~(r.revoked < cutoff \/ r.expires < cutoff)}
PurgeChallenges(rows, now) == {r \in rows : ~(r.expires < now)}
PurgeWebhookEvents(rows, cutoff) == {r \in rows : ~(r.received < cutoff)}
KeepSessions == 1
KeepWebhooks == 2
RetentionRun(s, now) ==
    [sessions |-> PurgeSessions(s.sessions, now - KeepSessions), challenges |-> PurgeChallenges(s.challenges, now),
     webhooks |-> PurgeWebhookEvents(s.webhooks, now - KeepWebhooks)]

(* One question at a time.                                                 *)
OfficeSays(what, in, out) == officeAnswer' = [op |-> what, in |-> in, out |-> out]
Never == 9
AskPeriod == \E f \in Frequencies, day \in 4..9 : OfficeSays("period", [freq |-> f, day |-> day], ReportPeriod(f, day))
AskFilter == \E from \in 0..9, to \in 0..9, limit \in 0..4 :
    OfficeSays("filter", [from |-> from, to |-> to, limit |-> limit], NormalizeFilter([from |-> from, to |-> to, limit |-> limit], 5))
AskSales == \E leads \in SUBSET [created : 0..2, updated : 1..2, won : BOOLEAN], overdue \in 0..1 :
    /\ Cardinality(leads) <= 2 /\ \A l \in leads : l.created <= l.updated
    /\ OfficeSays("sales", leads, SalesRow(leads, [from |-> 1, to |-> 3], overdue))
AskTarget == \E snapshots \in SUBSET [day : 1..2, actual : {0, 2}, expected : {1}, status : {"behind", "ahead"}] :
    /\ \A a, b \in snapshots : a.day = b.day => a = b
    /\ OfficeSays("target", snapshots, TargetRow(snapshots, 2))
AskReadiness == \E missing \in 0..1, balance \in {0, 1}, override \in BOOLEAN :
    OfficeSays("readiness", [missing |-> missing, balance |-> balance, override |-> override], ReadinessRow(missing, balance, override))
AskSLA == \E n \in 0..5 : \E b \in 0..n : OfficeSays("sla", [n |-> n, breached |-> b], SLARow(n, b))
AskFinance == \E bookings \in SeqOf([currency : {"SAR", "USD"}, total : {2}, balance : {0, 1}, status : {"draft", "confirmed"}], 2), limit \in 1..3 :
    OfficeSays("finance", [bookings |-> bookings, limit |-> limit], FinanceRows(bookings, limit))
AskLogs == \E logs \in SeqOf({"ok", "error", "retry"}, 2), accounts \in SeqOf({"connected", "down", "degraded"}, 2) :
    OfficeSays("logs", [logs |-> [i \in DOMAIN logs |-> RecordIntegrationLog(logs[i])], accounts |-> accounts], IntegrationRows(logs, accounts))
AskActor == \E known \in BOOLEAN, type \in ActorTypes, user, named \in {NoRow, "u1", "u2"} :
    OfficeSays("actor", [known |-> known, type |-> type, user |-> user, named |-> named], ResolveActor(known, [type |-> type, user |-> user], named))
AskTrail == \E events \in SeqOf([actor : {"u1", "u2"}, action : {"seen"}, at : {2}], 2), actor \in {NoRow, "u1"}, limit \in 0..3, offset \in 0..1 :
    LET f == [actor |-> actor, action |-> "", from |-> 1, to |-> 3] IN
    OfficeSays("trail", [events |-> events, f |-> f], [list |-> ListAudit(events, f, limit, offset), export |-> ExportAudit(events, f, 2)])
AskRetention == \E now \in 2..4, revoked \in {1, 2, Never}, expires \in 1..5, received \in 0..4 :
    LET s == [sessions |-> {[revoked |-> revoked, expires |-> expires]}, challenges |-> {[expires |-> expires]}, webhooks |-> {[received |-> received]}]
    IN  OfficeSays("retention", [now |-> now, rows |-> s], RetentionRun(s, now))
AskOffice ==
    /\ officeAnswer = Free
    /\ \/ AskPeriod \/ AskFilter \/ AskSales \/ AskTarget \/ AskReadiness \/ AskSLA \/ AskFinance
       \/ AskLogs \/ AskActor \/ AskTrail \/ AskRetention
    /\ UNCHANGED <<scheduleVars, supportVars>>

-----------------------------------------------------------------------------
(* Ids of schedules are numbers, a user is let submit a number of requests,*)
(* and neither a row nor a user is taken for a missing one.                *)
ScheduleRow == [kind : ReportKinds, freq : Frequencies, to : SUBSET ReportUsers, enabled : BOOLEAN]
ASSUME OfficeAssumption ==
    /\ SchedIds \subseteq Nat /\ LastReportDay \in Nat /\ LastReportDay >= 4 /\ SubmitPerHour \in Nat
    /\ NoRow \notin Desks \cup ScheduleRow

(* Properties.                                                             *)
OfficeTypeOK ==
    /\ \A id \in SchedIds : scheds[id] # NoRow => NormalizeSchedule(scheds[id]) # {}
    /\ reportDay \in 4..LastReportDay /\ eligible \subseteq ReportUsers
    /\ \A i \in DOMAIN requests : requests[i].status \in SupportStatuses

(* However many sweeps overlap, a schedule produces a period's report once *)
(* and a recipient hears of it once; who hears of it finds it, until the   *)
(* schedule is deleted with its runs.                                      *)
ReportOncePerPeriod ==
    /\ \A a, b \in runs : (a.sched = b.sched /\ a.period = b.period) => a = b
    /\ \A k \in DOMAIN ready : ready[k] <= 1 /\ (scheds[k[1]] # NoRow => RunExists(k[1], k[2]))
    /\ \A r \in runs : scheds[r.sched] # NoRow /\ r.period.to <= reportDay
(* The periods of a frequency follow each other without a gap and without  *)
(* an overlap, and a report never covers a day that is not over.           *)
PeriodsTile ==
    officeAnswer.op = "period" =>
        LET in == officeAnswer.in
            this == officeAnswer.out
            next == ReportPeriod(in.freq, in.day + 1)
        IN  this.to <= in.day /\ this.from < this.to /\ (next = this \/ next.from = this.to)
(* A resolved request names who resolved it, and no other does, whatever   *)
(* copies the desks write back; the limiter bounds what one user submits,  *)
(* but for what it could not count; the inbox agrees with its counts.      *)
HelpDeskHolds ==
    /\ \A i \in DOMAIN requests : (requests[i].status = "resolved") <=> (requests[i].resolvedBy # NoRow)
    /\ supportMade <= SubmitPerHour + supportBlind
    /\ officeAnswer.op = "inbox" =>
        LET list == officeAnswer.list
            counts == officeAnswer.counts
        IN  /\ list.total = IF officeAnswer.status = "" THEN counts["open"] + counts["in_progress"] + counts["resolved"] ELSE counts[officeAnswer.status]
            /\ Len(list.items) = Min({officeAnswer.limit, list.total})
            /\ \A i \in 1..(Len(list.items) - 1) : InboxRank(list.items[i].status) <= InboxRank(list.items[i + 1].status)
(* Figures of the reports: rates are rates, the lines of the currencies    *)
(* add up to the summary, whatever owes is a line of its own, the latest   *)
(* snapshot is shown, and what is not well is not shown as well.           *)
ReportsHonest ==
    /\ officeAnswer.op = "filter" => \A g \in officeAnswer.out : g.from < g.to /\ g.to - g.from <= MaxWindow /\ g.limit \in 1..3
    /\ officeAnswer.op = "sales" => (officeAnswer.out.bps > 10000 => \E l \in officeAnswer.in : l.won /\ l.created = 0)
    /\ officeAnswer.op = "target" => \A s \in officeAnswer.in : s.day = 2 => officeAnswer.out.variance = s.actual - s.expected
    /\ officeAnswer.op = "readiness" =>
        (officeAnswer.out.severity = "info") <=> (officeAnswer.in.missing = 0 /\ officeAnswer.in.balance <= 0)
    /\ officeAnswer.op = "sla" => (officeAnswer.out.severity = "critical" <=> (officeAnswer.in.n > 0 /\ officeAnswer.in.breached * 5 >= officeAnswer.in.n))
    /\ officeAnswer.op = "finance" =>
        LET out == officeAnswer.out IN
        /\ out.balance = Total(officeAnswer.in.bookings, LAMBDA b : b.balance)
        /\ out.overdue = Len(out.owing)
        /\ \A i \in DOMAIN out.lines : out.lines[i].booked = out.lines[i].collected + out.lines[i].balance
    /\ officeAnswer.op = "logs" => (officeAnswer.out.errors = 0 => \A i \in DOMAIN officeAnswer.out.rows : officeAnswer.out.rows[i] # "critical")
(* The trail names the signed-in user whatever the caller says, never      *)
(* calls a nobody a user, and holds an export before it leaves.            *)
TrailHonest ==
    /\ officeAnswer.op = "actor" =>
        LET in == officeAnswer.in
            out == officeAnswer.out
        IN  /\ (out.type = "user") => out.user # NoRow
            /\ (in.known /\ in.type = "user" /\ in.user # NoRow) => out.user = in.user
    /\ officeAnswer.op = "trail" =>
        LET out == officeAnswer.out IN
        /\ Len(out.list.page) <= out.list.total
        /\ out.export.sent # <<>> /\ out.export.sent[1].action = "exported"
(* Retention removes what ended longer ago than it must be kept, and       *)
(* nothing that still lives.                                               *)
RetentionHolds ==
    officeAnswer.op = "retention" =>
        LET now == officeAnswer.in.now
            old == officeAnswer.in.rows
            kept == officeAnswer.out
        IN  /\ \A r \in old.sessions : (r.revoked = Never /\ r.expires >= now) => r \in kept.sessions
            /\ \A r \in old.challenges : r.expires >= now => r \in kept.challenges
            /\ \A r \in kept.sessions : r.revoked >= now - KeepSessions
            /\ \A r \in kept.webhooks : now - r.received <= KeepWebhooks
=============================================================================
