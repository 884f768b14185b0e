---------------------------- MODULE PaymentPlans ----------------------------
(***************************************************************************)
(* What is still to be paid on one booking: a payment promise and an       *)
(* instalment of its schedule, with the sweeps that follow them up.        *)
(* Modelled code: src/internal/app/payment (promise.go, the schedules of   *)
(* service.go), src/internal/domain/payment/promise.go,                    *)
(* src/internal/adapter/postgres/payment, app/task/promise_tasks.go.       *)
(*                                                                         *)
(* A sweep works on the promises and instalments it listed; people record  *)
(* and reverse payments, cancel, and close tasks meanwhile.  Money of the  *)
(* booking's currency counts in units, time in days.                       *)
(***************************************************************************)
EXTENDS Rows

CONSTANTS
    PromisedAmount,    \* the amount promised
    LastPlanDay,       \* bound: the last day
    MaxCollected       \* bound: money collected

VARIABLES
    promise,           \* the payment_promises row
    followUp,          \* its follow-up task
    brokenTask,        \* tasks for the broken promise
    instalment,        \* the payment_schedules row
    dueClaimed,        \* run ledger: the alert of the due date was claimed
    planDay,           \* the day
    planCollected,         \* collected on the booking since the promise
    bookingOff,        \* the booking is cancelled
    pjob,              \* desk -> what it holds between two steps
    covered,           \* history: the promised amount was once collected
    brokenTold,        \* history: notifications of the broken promise
    dueTold            \* history: alerts of the instalment

promiseVars == <<promise, followUp, brokenTask, planCollected, bookingOff, covered, brokenTold>>
instalmentVars == <<instalment, dueClaimed, dueTold>>
planVars == <<promiseVars, instalmentVars, planDay, pjob>>

PlanDays == 0 .. LastPlanDay
PromiseStatuses == {"open", "kept", "broken", "cancelled"}
ScheduleStatuses == {"open", "overdue", "cancelled"}     \* nothing sets "paid"
PromiseRow == [status : PromiseStatuses, on : PlanDays]
InstalmentRow == [status : ScheduleStatuses, due : PlanDays, reminded : BOOLEAN]

ASSUME PlanAssumption ==
    /\ PromisedAmount \in Nat \ {0} /\ LastPlanDay \in Nat /\ MaxCollected \in Nat
    /\ NoRow \notin PromiseRow \cup InstalmentRow

(* Type correctness.                                                       *)
PlanTypeOK ==
    /\ promise \in PromiseRow \cup {NoRow}
    /\ followUp \in {"none", "open", "done", "cancelled"}
    /\ brokenTask \in 0 .. 1
    /\ instalment \in InstalmentRow \cup {NoRow}
    /\ planDay \in PlanDays
    /\ planCollected \in 0 .. MaxCollected

-----------------------------------------------------------------------------
(* domain/payment/promise.go.                                              *)
Outcome(p, money, day) ==
    IF p.status # "open" THEN p.status
    ELSE IF money >= PromisedAmount THEN "kept"
    ELSE IF day > p.on THEN "broken" ELSE "open"

(* Promises.Create: the task and the promise in one transaction.           *)
CreatePromise(on) ==
    /\ promise = NoRow
    /\ ~bookingOff
    /\ on >= planDay
    /\ promise' = [status |-> "open", on |-> on]
    /\ followUp' = "open"
    /\ planCollected' = 0
    /\ covered' = FALSE
    /\ UNCHANGED <<brokenTask, bookingOff, brokenTold, instalmentVars, planDay, pjob>>

(* ResolveDue and Cancel read the promise and what was collected; the      *)
(* sweep goes on with one that is no longer open in effect, Cancel with    *)
(* one that is...                                                          *)
ReadPromise(d, job) ==
    /\ pjob[d] = Free
    /\ pjob' = [pjob EXCEPT ![d] = job]
    /\ UNCHANGED <<promiseVars, instalmentVars, planDay>>

OpenPromise == promise # NoRow /\ promise.status = "open"
EffectiveOutcome == Outcome(promise, planCollected, planDay)

ResolveDue(d) == OpenPromise /\ EffectiveOutcome # "open" /\ ReadPromise(d, [op |-> "resolve", to |-> EffectiveOutcome])

CancelPromise(d) == OpenPromise /\ EffectiveOutcome = "open" /\ ReadPromise(d, [op |-> "cancel", to |-> "cancelled"])

CloseTask(s) == followUp' = IF followUp = "open" THEN s ELSE followUp

EnsurePromiseBroken == brokenTask' = 1

(* ...and settle it, if it is still open.  The owner of a broken promise   *)
(* is notified after the commit.                                           *)
ResolvePromise(d) ==
    /\ pjob[d].op \in {"resolve", "cancel"}
    /\ IF promise.status # "open"
       THEN /\ pjob' = [pjob EXCEPT ![d] = Free]
            /\ UNCHANGED <<promise, followUp, brokenTask>>
       ELSE LET to == pjob[d].to IN
            /\ promise' = [promise EXCEPT !.status = to]
            /\ IF to = "broken" THEN EnsurePromiseBroken /\ UNCHANGED followUp
               ELSE CloseTask(IF to = "kept" THEN "done" ELSE "cancelled") /\ UNCHANGED brokenTask
            /\ pjob' = [pjob EXCEPT ![d] = IF to = "broken" THEN [op |-> "tell"] ELSE Free]
    /\ UNCHANGED <<planCollected, bookingOff, covered, brokenTold, instalmentVars, planDay>>

NotifyPromiseBroken(d) ==
    /\ pjob[d].op = "tell"
    /\ brokenTold' = brokenTold + 1
    /\ pjob' = [pjob EXCEPT ![d] = Free]
    /\ UNCHANGED <<promise, followUp, brokenTask, planCollected, bookingOff, covered, instalmentVars, planDay>>

-----------------------------------------------------------------------------
(* UpsertSchedule always inserts: the id is new.                           *)
UpsertSchedule(due) ==
    /\ instalment = NoRow
    /\ instalment' = [status |-> "open", due |-> due, reminded |-> FALSE]
    /\ UNCHANGED <<promiseVars, dueClaimed, dueTold, planDay, pjob>>

CancelSchedule ==
    /\ instalment # NoRow
    /\ instalment' = [instalment EXCEPT !.status = "cancelled"]
    /\ UNCHANGED <<promiseVars, dueClaimed, dueTold, planDay, pjob>>

MarkSchedulesOverdue ==
    /\ instalment # NoRow
    /\ instalment.status = "open"
    /\ instalment.due < planDay
    /\ instalment' = [instalment EXCEPT !.status = "overdue"]
    /\ UNCHANGED <<promiseVars, dueClaimed, dueTold, planDay, pjob>>

(* ProcessPaymentDueReminders: an instalment due in the next days, or      *)
(* since yesterday, that was not reminded; its alert is claimed in the     *)
(* ledger and sent in one transaction, the mark follows in another.        *)
ListDueForReminder(d) ==
    /\ pjob[d] = Free
    /\ instalment # NoRow
    /\ instalment.status = "open"
    /\ ~instalment.reminded
    /\ instalment.due <= planDay + 3 /\ instalment.due >= planDay - 1
    /\ pjob' = [pjob EXCEPT ![d] = [op |-> "alert"]]
    /\ UNCHANGED <<promiseVars, instalmentVars, planDay>>

PaymentDueAlert(d) ==
    /\ pjob[d].op = "alert"
    /\ dueTold' = IF dueClaimed THEN dueTold ELSE dueTold + 1
    /\ dueClaimed' = TRUE
    /\ pjob' = [pjob EXCEPT ![d] = [op |-> "mark"]]
    /\ UNCHANGED <<promiseVars, instalment, planDay>>

MarkReminderSent(d) ==
    /\ pjob[d].op = "mark"
    /\ instalment' = [instalment EXCEPT !.reminded = TRUE]
    /\ pjob' = [pjob EXCEPT ![d] = Free]
    /\ UNCHANGED <<promiseVars, dueClaimed, dueTold, planDay>>

-----------------------------------------------------------------------------
(* Around the plans: money is verified and reversed, the booking is        *)
(* cancelled, the assignee closes the task, processes die, days pass.      *)
Money(n) ==
    /\ promise # NoRow
    /\ n \in {planCollected - 1, planCollected + 1} /\ n \in 0 .. MaxCollected
    /\ planCollected' = n
    /\ covered' = (covered \/ n >= PromisedAmount)
    /\ UNCHANGED <<promise, followUp, brokenTask, bookingOff, brokenTold, instalmentVars, planDay, pjob>>

PlanOutside ==
    \/ /\ bookingOff' = TRUE
       /\ UNCHANGED <<promise, followUp, brokenTask, planCollected, covered, brokenTold, instalmentVars, planDay, pjob>>
    \/ /\ \E s \in {"done", "cancelled"} : followUp = "open" /\ CloseTask(s)
       /\ UNCHANGED <<promise, brokenTask, planCollected, bookingOff, covered, brokenTold, instalmentVars, planDay, pjob>>
    \/ /\ planDay < LastPlanDay /\ planDay' = planDay + 1
       /\ UNCHANGED <<promiseVars, instalmentVars, pjob>>

PlanCrash(d) ==
    /\ pjob[d] # Free
    /\ pjob' = [pjob EXCEPT ![d] = Free]
    /\ UNCHANGED <<promiseVars, instalmentVars, planDay>>

-----------------------------------------------------------------------------
PlanInit ==
    /\ promise = NoRow /\ followUp = "none" /\ brokenTask = 0
    /\ instalment = NoRow /\ dueClaimed = FALSE
    /\ planDay = 0 /\ planCollected = 0 /\ bookingOff = FALSE
    /\ pjob = [d \in Desks |-> Free]
    /\ covered = FALSE /\ brokenTold = 0 /\ dueTold = 0

PlanNext ==
    \/ \E on \in PlanDays : CreatePromise(on) \/ UpsertSchedule(on)
    \/ CancelSchedule \/ MarkSchedulesOverdue
    \/ \E n \in 0 .. MaxCollected : Money(n)
    \/ PlanOutside
    \/ \E d \in Desks :
         \/ ResolveDue(d) \/ CancelPromise(d)
         \/ ResolvePromise(d) \/ NotifyPromiseBroken(d)
         \/ ListDueForReminder(d) \/ PaymentDueAlert(d) \/ MarkReminderSent(d)
         \/ PlanCrash(d)

-----------------------------------------------------------------------------
(* A promise is settled once and for a reason: kept only when the amount   *)
(* was collected since, broken only after its day, and its follow-up is    *)
(* closed with it unless it was broken, which has a task of its own and is *)
(* told at most once, however sweeps and people race (ResolvePromise).     *)
PromiseSettledForAReason ==
    /\ promise # NoRow =>
         /\ promise.status = "kept" => covered
         /\ promise.status = "broken" => planDay > promise.on
         /\ promise.status \in {"kept", "cancelled"} => followUp # "open"
         /\ promise.status = "broken" <=> brokenTask = 1
    /\ brokenTold <= brokenTask

(* An instalment is alerted once, also when the sweep dies before its mark *)
(* or two sweeps overlap (ProcessPaymentDueReminders, Alerts.PaymentDue).  *)
DueToldOnce == dueTold <= 1 /\ (instalment # NoRow /\ instalment.reminded => dueTold = 1)

(* Nothing reopens a settled promise or a cancelled instalment.            *)
SettledStaysSettled ==
    [][/\ promise # NoRow /\ promise.status # "open" => promise'.status = promise.status
       /\ instalment # NoRow /\ instalment.status = "cancelled" => instalment'.status = "cancelled"
      ]_<<promise, instalment>>
=============================================================================
