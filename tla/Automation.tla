----------------------------- MODULE Automation -----------------------------
(***************************************************************************)
(* What runs by itself: the cron table, the sweeps that tell people things *)
(* once per period, the reactors behind the event bus, the tasks a rule    *)
(* opens and closes, and visa applications, whose follow-up is such a task.*)
(* Modelled code: src/internal/app/automation, app/visa, domain/visa,      *)
(* adapter/postgres/{automation,schedule,visa}, worker and                 *)
(* app/worker_schedule.go.                                                 *)
(*                                                                         *)
(* Four parts, each with a next-state relation of its own.                 *)
(***************************************************************************)
EXTENDS Rows, Sequences, FiniteSets, FiniteSetsExt

CONSTANTS LastRunTick,   \* last tick of the clock
          MaxVisaEvents, \* events in the history of an application
          FollowUpDays   \* days a decision may take (visa_follow_up_days)

VARIABLES
    ledger,              \* scheduled_job_runs: claims <<job, period>>
    findingTold,         \* history: <<job, period>> people were told of, and whether of one twice
    runTick,             \* the clock: three hours a day
    runDesk,             \* desk -> what it has under way
    visa,                \* the application's row
    visaLog,             \* visa_events, in the order of their commits
    ruleTask,            \* the rule's task: "none", "open" or "done"
    checklist,           \* the booking's documents are complete
    standing,            \* how the booking stands to the list of the sweep
    docEvents,           \* its document events: one "due", one "dead"-lettered
    reacting,            \* dispatcher -> what its handler of such an event is at
    delivery,            \* an event in the hands of its handler
    schedule             \* the cron table: request and answer

visaVars == <<visa, visaLog>>
docsVars == <<checklist, standing, docEvents, reacting>>
autoVars == <<ledger, findingTold, runTick, runDesk, visaVars, ruleTask, docsVars, delivery, schedule>>

-----------------------------------------------------------------------------
(* Telling once.  A claim and what it guards are one transaction: the      *)
(* insert waits for another transaction's claim of the same key, and the   *)
(* claim is rolled back with a failure.                                    *)
Day == runTick \div 3
Hour == (<<6, 7, 8>>)[(runTick % 3) + 1]
Monday == Day % 7 = 0

(* Days to the expiry of a passport, day by day, and the slot they are in. *)
PassportReminderDays == {180, 90, 30}
DaysLeft(tick) == (<<91, 90, 31, 30, 0, -1>>)[(tick % 6) + 1]
passportSlot(left) == IF left < 0 THEN 0 ELSE Min({180} \cup {d \in PassportReminderDays : left <= d})

(* What each job finds now and the period it tells it in.  "" is for ever; *)
(* a target behind its pace is found by the sweep and by the event alike.  *)
Jobs == {"passport", "missing_docs", "payment_late", "target_sweep", "target_event", "ai_summary", "lost_leads", "task_note"}
LedgerName(job) == IF job \in {"target_sweep", "target_event"} THEN "target_behind" ELSE job
Period(job) ==
    CASE job = "passport" -> passportSlot(DaysLeft(runTick))
      [] job = "payment_late" -> 0
      [] job = "task_note" -> 0
      [] job = "lost_leads" -> 1 + Day \div 7
      [] OTHER -> 1 + Day
Finds(job) ==
    CASE job = "ai_summary" -> Hour >= 7
      [] job = "lost_leads" -> ~(Monday /\ Hour < 8)
      [] OTHER -> TRUE
LedgerKeys == {<<LedgerName(j), p>> : j \in Jobs, p \in {0, 30, 90, 180} \cup 1 .. LastRunTick + 1}
Claimed(key) == \E d \in Desks : runDesk[d].op = "claim" /\ runDesk[d].key = key
ClaimFree(key) == key \notin ledger /\ ~Claimed(key)

Once(d, job) ==
    /\ runDesk[d] = Free
    /\ Finds(job)
    /\ LET key == <<LedgerName(job), Period(job)>>
       IN  ClaimFree(key) /\ runDesk' = [runDesk EXCEPT ![d] = [op |-> "claim", key |-> key, left |-> DaysLeft(runTick)]]
    /\ UNCHANGED <<ledger, findingTold, runTick>>
Told(d) ==
    /\ runDesk[d].op = "claim"
    /\ ledger' = ledger \cup {runDesk[d].key}
    /\ findingTold' = [once |-> findingTold.once \cup {runDesk[d].key}, twice |-> findingTold.twice \/ runDesk[d].key \in findingTold.once]
    /\ runDesk' = [runDesk EXCEPT ![d] = Free]
    /\ UNCHANGED runTick
(* The summary or the alert fails: the job ends and is retried.            *)
TellFails(d) ==
    /\ runDesk[d].op = "claim"
    /\ runDesk' = [runDesk EXCEPT ![d] = Free]
    /\ UNCHANGED <<ledger, findingTold, runTick>>
RunTick ==
    /\ runTick < LastRunTick
    /\ runTick' = runTick + 1
    /\ UNCHANGED <<ledger, findingTold, runDesk>>
(* Findings of different names never meet: one name is followed at a time. *)
Followed(job) ==
    /\ \A k \in ledger : k[1] = LedgerName(job)
    /\ \A d \in Desks : runDesk[d] # Free => runDesk[d].key[1] = LedgerName(job)
OnceNext ==
    /\ \/ \E d \in Desks : \/ \E job \in Jobs : Followed(job) /\ Once(d, job)
                           \/ Told(d) \/ TellFails(d)
       \/ RunTick
    /\ UNCHANGED <<visaVars, ruleTask, docsVars, delivery, schedule>>

-----------------------------------------------------------------------------
(* Visa applications (domain/visa/model.go).                               *)
Transitions ==
    [draft |-> {"submitted", "cancelled"}, submitted |-> {"processing", "rejected", "cancelled"},
     processing |-> {"approved", "rejected", "issued", "cancelled"}, approved |-> {"issued", "cancelled"},
     rejected |-> {"draft", "cancelled"}, issued |-> {"cancelled"}, cancelled |-> {}]
VisaStatuses == DOMAIN Transitions
ValidTransition(from, to) == to \in Transitions[from]
TransitionTo(v, to) ==
    [v EXCEPT !.status = to,
              !.submitted = IF to = "submitted" THEN runTick ELSE @,
              !.decided = IF to \in {"approved", "rejected", "issued"} THEN runTick ELSE @]
Decided(v) == v.status \in {"approved", "rejected", "issued", "cancelled"}
AwaitingDecision(v) ==
    v.status \in {"submitted", "processing"} /\ v.submitted # NoRow /\ v.submitted + FollowUpDays <= runTick

(* The row is read without a lock; it is written back whole with its event *)
(* and, once decided, with the follow-up closed.  A task found open when   *)
(* the transaction closes it is written back whole too.                    *)
CreateVisa ==
    /\ visa = NoRow
    /\ visa' = [status |-> "draft", submitted |-> NoRow, decided |-> NoRow]
    /\ UNCHANGED <<visaLog, runDesk, ruleTask, runTick>>
TransitionRead(d) ==
    /\ visa # NoRow /\ runDesk[d] = Free
    /\ \E to \in Transitions[visa.status] :
        runDesk' = [runDesk EXCEPT ![d] = [op |-> "transition", from |-> visa.status, to |-> TransitionTo(visa, to)]]
    /\ UNCHANGED <<visaVars, ruleTask, runTick>>
CloseByRule(task) == IF task = "open" THEN "done" ELSE task
TransitionCommit(d) ==
    /\ runDesk[d].op = "transition"
    /\ Len(visaLog) < MaxVisaEvents
    /\ LET v == runDesk[d].to
       IN  /\ visa' = v
           /\ visaLog' = Append(visaLog, [from |-> runDesk[d].from, to |-> v.status])
           /\ ruleTask' = IF Decided(v) THEN CloseByRule(ruleTask) ELSE ruleTask
    /\ runDesk' = [runDesk EXCEPT ![d] = Free]
    /\ UNCHANGED runTick
(* ProcessFollowUps: the list, and later the task, once per application.   *)
FollowUpList(d) ==
    /\ visa # NoRow /\ runDesk[d] = Free
    /\ AwaitingDecision(visa)
    /\ runDesk' = [runDesk EXCEPT ![d] = [op |-> "follow", since |-> visa.submitted]]
    /\ UNCHANGED <<visaVars, ruleTask, runTick>>
EnsureTask(task) == IF task = "none" THEN "open" ELSE task
VisaAwaitingDecision(d) ==
    /\ runDesk[d].op = "follow"
    /\ ruleTask' = EnsureTask(ruleTask)
    /\ runDesk' = [runDesk EXCEPT ![d] = Free]
    /\ UNCHANGED <<visaVars, runTick>>
VisaTick == runTick <= FollowUpDays /\ runTick' = runTick + 1 /\ UNCHANGED <<visaVars, ruleTask, runDesk>>
VisaNext ==
    /\ \/ CreateVisa \/ VisaTick
       \/ \E d \in Desks : TransitionRead(d) \/ TransitionCommit(d) \/ FollowUpList(d) \/ VisaAwaitingDecision(d)
    /\ UNCHANGED <<ledger, findingTold, docsVars, delivery, schedule>>

-----------------------------------------------------------------------------
(* MissingDocs, every hour over the bookings that await documents, and the *)
(* event a changed document raises.  Both read the checklist first and     *)
(* open or close the rule's task afterwards.  The sweep lists a booking    *)
(* that is confirmed or partly paid, has not departed, has stood like that *)
(* for missing_doc_hours and has fewer than sweepBatch such bookings       *)
(* departing before it: "listed".  One that lacks only the hours or the    *)
(* place is "waiting"; one that departed, travelled or was cancelled is    *)
(* "gone".                                                                 *)
Standings == {"waiting", "listed", "ready", "gone"}

(* RecomputeBooking derives the status again: the booking becomes ready,   *)
(* or stops being so, and a status that changed starts the hours anew.     *)
Recomputed(s) == IF s = "gone" THEN {s} ELSE {s, "waiting", "ready"}

(* What moves the booking besides: the clock, bookings that come before it *)
(* or depart, a payment's recompute, an override, a cancellation.          *)
BookingMoves ==
    /\ standing # "gone"
    /\ standing' \in (Recomputed(standing) \ {standing}) \cup {"gone"} \cup (IF standing = "waiting" THEN {"listed"} ELSE {})
    /\ UNCHANGED <<runDesk, ruleTask, checklist, docEvents, reacting>>
(* A document of the booking changes with its event; one of a participant, *)
(* a new participant or another policy changes the checklist without one.  *)
DocsChange ==
    /\ \E event \in BOOLEAN : docEvents' = docEvents \cup (IF event THEN {"due"} ELSE {})
    /\ checklist' \in BOOLEAN
    /\ UNCHANGED <<runDesk, ruleTask, standing, reacting>>

MissingDocsList(d) ==
    /\ runDesk[d] = Free /\ standing = "listed"
    /\ runDesk' = [runDesk EXCEPT ![d] = [op |-> "list"]]
    /\ UNCHANGED <<docsVars, ruleTask>>
MissingDocsRead(d) ==
    /\ runDesk[d].op = "list"
    /\ runDesk' = [runDesk EXCEPT ![d] = [op |-> "docs", complete |-> checklist]]
    /\ UNCHANGED <<docsVars, ruleTask>>
(* A complete checklist is passed over: the sweep opens and never closes.  *)
MissingDocsOpensOnly(d) ==
    /\ runDesk[d].op = "docs"
    /\ ruleTask' = IF runDesk[d].complete THEN ruleTask ELSE EnsureTask(ruleTask)
    /\ runDesk' = [runDesk EXCEPT ![d] = Free]
    /\ UNCHANGED docsVars
MissingDocs(d) ==
    /\ runDesk[d].op = "docs"
    /\ ruleTask' = IF runDesk[d].complete THEN CloseByRule(ruleTask) ELSE EnsureTask(ruleTask)
    /\ runDesk' = [runDesk EXCEPT ![d] = Free]
    /\ UNCHANGED docsVars

(* The handler: recompute, read, close.  An attempt that fails has done no *)
(* more than the recompute; the last one that fails is the dead letter.    *)
onDocumentStatusChanged(d) ==
    /\ "due" \in docEvents /\ reacting[d] = "idle"
    /\ docEvents' = docEvents \ {"due"}
    /\ standing' \in Recomputed(standing)
    /\ reacting' = [reacting EXCEPT ![d] = "recomputed"]
    /\ UNCHANGED <<runDesk, ruleTask, checklist>>
DocsRead(d) ==
    /\ reacting[d] = "recomputed"
    /\ reacting' = [reacting EXCEPT ![d] = IF checklist THEN "complete" ELSE "idle"]
    /\ UNCHANGED <<runDesk, ruleTask, checklist, standing, docEvents>>
DocsComplete(d) ==
    /\ reacting[d] = "complete"
    /\ ruleTask' = CloseByRule(ruleTask)
    /\ reacting' = [reacting EXCEPT ![d] = "idle"]
    /\ UNCHANGED <<runDesk, checklist, standing, docEvents>>
DocsDead(d) ==
    /\ reacting[d] # "idle"
    /\ docEvents' = docEvents \cup {"dead"}
    /\ reacting' = [reacting EXCEPT ![d] = "idle"]
    /\ UNCHANGED <<runDesk, ruleTask, checklist, standing>>

DocsJob(d) == MissingDocsList(d) \/ MissingDocsRead(d) \/ MissingDocs(d)
DocsReaction(d) == onDocumentStatusChanged(d) \/ DocsRead(d) \/ DocsComplete(d)
DocsNext ==
    /\ \/ BookingMoves \/ DocsChange
       \/ \E d \in Desks : DocsJob(d) \/ DocsReaction(d) \/ DocsDead(d)
    /\ UNCHANGED <<ledger, findingTold, runTick, visaVars, delivery, schedule>>

-----------------------------------------------------------------------------
(* The reactors.  A handler's steps in order; a step is told at every      *)
(* delivery unless the ledger or a task's key keeps it to one.  The two    *)
(* recomputes are both attempted; every other handler stops at a failure.  *)
Step(what, kept) == [what |-> what, once |-> kept]
onPaymentReversed == <<Step("recompute_booking", FALSE), Step("recompute_targets", FALSE)>>
DocumentSteps == <<Step("recompute_booking", FALSE), Step("close_missing_document", FALSE), Step("close_booking_documents", FALSE)>>
onTargetStatusChanged == <<Step("tell_managers", TRUE), Step("ensure_recovery_task", TRUE)>>
onSLABreached == <<Step("ensure_unanswered_task", TRUE)>>
onTaskNoteAdded == <<Step("tell_recipient", TRUE)>>
onConversationResponded == <<Step("close_unanswered", FALSE)>>
onLeadStageChanged == <<Step("close_lead_follow_up", FALSE)>>
onTaskOverdue == <<Step("tell_assignee", FALSE)>>
ReactorHandlers == {onPaymentReversed, DocumentSteps, onTargetStatusChanged, onSLABreached, onTaskNoteAdded,
             onConversationResponded, onLeadStageChanged, onTaskOverdue}
Joins(h) == h = onPaymentReversed

DeliverToReactor ==
    /\ delivery = Free
    /\ \E h \in ReactorHandlers : delivery' = [op |-> "handle", h |-> h, at |-> 1, failed |-> FALSE, tries |-> 1,
                                        done |-> [i \in DOMAIN h |-> 0], effects |-> [i \in DOMAIN h |-> 0]]
StepDone ==
    /\ delivery.op = "handle" /\ delivery.at <= Len(delivery.h)
    /\ LET i == delivery.at
       IN  delivery' = [delivery EXCEPT !.at = @ + 1, !.done[i] = @ + 1,
                            !.effects[i] = IF delivery.h[i].once /\ @ > 0 THEN @ ELSE @ + 1]
StepFails ==
    /\ delivery.op = "handle" /\ delivery.at <= Len(delivery.h)
    /\ delivery' = [delivery EXCEPT !.failed = TRUE, !.at = IF Joins(delivery.h) THEN @ + 1 ELSE Len(delivery.h) + 1]
(* The outbox delivers again after a failure, or after a crash that came   *)
(* before the row was marked; at most three times here.                    *)
Redeliver ==
    /\ delivery.op = "handle" /\ delivery.tries < 3
    /\ delivery' = [delivery EXCEPT !.at = 1, !.failed = FALSE, !.tries = @ + 1]
Handled ==
    /\ delivery.op = "handle" /\ delivery.at > Len(delivery.h) /\ ~delivery.failed
    /\ delivery' = [delivery EXCEPT !.op = "handled"]
ReactNext ==
    /\ DeliverToReactor \/ StepDone \/ StepFails \/ Redeliver \/ Handled
    /\ UNCHANGED <<ledger, findingTold, runTick, runDesk, visaVars, ruleTask, docsVars, schedule>>

-----------------------------------------------------------------------------
(* The cron table: an entry per job, its spec overridden or switched off   *)
(* by the environment.  A job without a handler, and an override that      *)
(* names no job, stop the worker from starting.                            *)
Scheduled == {"sla_sweep", "payment_due"}
defaultSchedule(fxLive) == [j \in Scheduled \cup (IF fxLive THEN {"fx_live"} ELSE {}) |-> "default"]
Effective(defaults, overrides, job) == IF job \in DOMAIN overrides THEN overrides[job] ELSE defaults[job]
buildSchedule(fxLive, overrides, registered) ==
    LET defaults == defaultSchedule(fxLive)
        kept == {j \in DOMAIN defaults : Effective(defaults, overrides, j) # "off"}
    IN  IF kept \subseteq registered /\ DOMAIN overrides \subseteq DOMAIN defaults
        THEN [j \in kept |-> Effective(defaults, overrides, j)] ELSE NoRow
ScheduleNext ==
    /\ schedule = Free
    /\ \E fxLive \in BOOLEAN, registered \in SUBSET {"sla_sweep", "payment_due", "fx_live"},
          named \in SUBSET {"sla_sweep", "fx_live", "typo"} : \E overrides \in [named -> {"off", "hourly"}] :
        schedule' = [op |-> "build", fxLive |-> fxLive, overrides |-> overrides, registered |-> registered,
                     out |-> buildSchedule(fxLive, overrides, registered)]
    /\ UNCHANGED <<ledger, findingTold, runTick, runDesk, visaVars, ruleTask, docsVars, delivery>>

AutoInit ==
    /\ ledger = {} /\ findingTold = [once |-> {}, twice |-> FALSE] /\ runTick = 0
    /\ runDesk = [d \in Desks |-> Free]
    /\ visa = NoRow /\ visaLog = <<>> /\ ruleTask = "none"
    /\ checklist = FALSE /\ standing = "waiting" /\ docEvents = {} /\ reacting = [d \in Desks |-> "idle"]
    /\ delivery = Free /\ schedule = Free

-----------------------------------------------------------------------------
VisaRow == [status : VisaStatuses, submitted : {NoRow} \cup 0 .. LastRunTick, decided : {NoRow} \cup 0 .. LastRunTick]

ASSUME AutoAssumption ==
    /\ {LastRunTick, MaxVisaEvents, FollowUpDays} \subseteq Nat /\ FollowUpDays < LastRunTick
    /\ NoRow \notin VisaRow \cup Nat

AutoTypeOK ==
    /\ ledger \subseteq LedgerKeys /\ findingTold.once \subseteq LedgerKeys
    /\ runTick \in 0 .. LastRunTick
    /\ visa # NoRow => visa \in VisaRow
    /\ Len(visaLog) <= MaxVisaEvents
    /\ ruleTask \in {"none", "open", "done"}
    /\ checklist \in BOOLEAN /\ standing \in Standings /\ docEvents \subseteq {"due", "dead"}

(* People are told a finding at most once a period, and the ledger says so *)
(* exactly when they were: a claim is dropped with the alert that failed,  *)
(* and the sweep and the event share the claim of a target.                *)
ToldOncePerPeriod == findingTold.once = ledger /\ ~findingTold.twice

(* The slot a passport is told in is the nearest one not yet passed.       *)
SlotIsNearest ==
    \A d \in Desks : runDesk[d].op = "claim" /\ runDesk[d].key[1] = "passport" =>
        LET left == runDesk[d].left
            slot == runDesk[d].key[2]
        IN  IF left < 0 THEN slot = 0
            ELSE left <= slot /\ \A s \in PassportReminderDays : left <= s => slot <= s

(* The application stands where its last event put it, and its dates fit:  *)
(* whatever two desks interleave, one that is being decided was submitted, *)
(* and one that was decided says when.                                     *)
VisaFitsHistory ==
    visa # NoRow =>
        /\ visaLog # <<>> => visa.status = visaLog[Len(visaLog)].to
        /\ \A i \in DOMAIN visaLog : ValidTransition(visaLog[i].from, visaLog[i].to)
        /\ visa.status \in {"submitted", "processing", "approved", "rejected", "issued"} => visa.submitted # NoRow
        /\ visa.status \in {"approved", "rejected", "issued"} => visa.decided # NoRow

(* A handled event had every step of its handler succeed, and steps kept   *)
(* by the ledger or by a task's key took effect once however often it was  *)
(* delivered.                                                              *)
HandledMeansApplied ==
    delivery # Free =>
        \A i \in DOMAIN delivery.h :
            /\ delivery.op = "handled" => delivery.done[i] > 0
            /\ delivery.h[i].once => delivery.effects[i] <= 1

(* A worker that starts runs every job that was not switched off, each one *)
(* with a handler, and honours every override it was given.                *)
ScheduleHonest ==
    schedule # Free /\ schedule.out # NoRow =>
        /\ DOMAIN schedule.out \subseteq schedule.registered
        /\ \A j \in DOMAIN schedule.overrides :
            IF schedule.overrides[j] = "off" THEN j \notin DOMAIN schedule.out
            ELSE j \in DOMAIN schedule.out /\ schedule.out[j] = schedule.overrides[j]
        /\ \A j \in DOMAIN defaultSchedule(schedule.fxLive) \ DOMAIN schedule.overrides : j \in DOMAIN schedule.out

(* Documents that stay complete leave no task to collect them while        *)
(* something still looks: the sweep, as long as it lists the booking, or   *)
(* the event of a document, whatever became of the booking, until it is    *)
(* dead-lettered.  So a task opened from an old checklist is closed too;   *)
(* one left when neither looks any more is for its assignee to close.      *)
EventOwed == "due" \in docEvents \/ \E d \in Desks : reacting[d] # "idle"
TaskWatched == checklist /\ ruleTask = "open" /\ (standing = "listed" \/ EventOwed)
CompleteClosesTask == TaskWatched ~> (~TaskWatched \/ "dead" \in docEvents)

(* The sweep comes every hour and gets to the bookings it lists; an event  *)
(* is handled, and a handler that began ends.                              *)
SweepTurn == DocsNext /\ \E d \in Desks : DocsJob(d)
EventTurn == DocsNext /\ \E d \in Desks : DocsReaction(d)
=============================================================================
