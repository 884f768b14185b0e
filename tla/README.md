# TLA+ verification of the WODI CRM backend

WODI CRM is a Go modular monolith for travel agencies: departures are sold as
bookings, bookings are paid through a ledger, documents and visas are
collected, and a worker process reacts to events and runs scheduled sweeps.
State lives in PostgreSQL; application services wrap their writes in READ
COMMITTED transactions (`platform/tx`), take row locks in some places and not
in others, publish events in process after the commit or durably through an
outbox, and run again from cron.  That mix (locked and unlocked units of work,
sweeps that list first and act later, events that may be lost or repeated) is
what these modules are about.

## 1. Inventory

| Component | State | Operations | Hard part | What makes it correct |
|---|---|---|---|---|
| Booking rules `domain/booking` | one row | edges per actor, guards, derive, transition | chains of transitions | holds and forced flags belong to their status |
| Booking service `app/booking` | row, participants, checklist, override | create, edit, participants, transition, extend hold, readiness, three sweeps | unlocked read and late write; readiness inputs the row lock does not cover; sweeps that list then act; lost events | a sale is not undone; status follows money and readiness again |
| Booking desk `app/booking` | lines, party, notes, change requests, trail | price, discount, add, request, resolve | unlocked totals, party size | totals are those of the lines; requests resolved once |
| Seats `app/booking/transition.go`, `app/tourpackage` | departures row, booking rows, locks | confirm, cancel, expire, edit departure, recount | check-then-act under concurrency | no oversell; counter equals seats |
| Tour packages `app/tourpackage` | packages, tiers, departures, programme | edit, clone, tiers, offers, normalise, price | whole rows written back; hidden costs | a programme survives another save; costs stay with it |
| Payments `app/payment` | append-only ledger, booking balance | record, verify, reverse, adjust, refund, approve | idempotency races, two deciders, lost update | one entry per key, segregation of duties, balance equals ledger |
| Promises, schedules `app/payment` | promises, instalments | promise, resolve, cancel, remind, overdue | sweep against payment | settled once and for a reason |
| Finance `app/finance` | accounts, movements, feed, agencies, letters | post, transfer, import, match, pay, assign, suspend, answer | two locks, duplicates, stale exposure | balances are their movements; a credit is paid once |
| Suppliers `app/supplier` | account, invoice, links | post, pay, confirm, chase, route | whole rows written back | funds on the side of the payment model |
| FX `app/fx` | rates, snapshots, board | sync, convert, refresh | several processes, rounding, overflow | the newest rate is used; the last good one is kept |
| Revenue targets `app/revenuetarget` | target, snapshots | edit, recompute, contributions | recomputes that overlap | the status told is the latest one |
| Events `platform/events`, `app/outbox` | outbox rows, claims | add, claim, deliver, mark, requeue, purge | crash between delivery and mark, lapsed leases | at-least-once, dead letters visible |
| Automation, worker `app/automation`, `app/visa`, `worker` | run ledger, tasks, visa applications, cron table | sweeps, reactors, transitions | duplicate and overlapping runs, redelivery | told once a period; a handled event is fully applied |
| Tasks `app/task` | tasks, notes | create by rule, close by rule, overdue, escalate | copies written back | one task per rule and subject |
| Sessions `app/auth` | sessions, tokens, caches | login, refresh, revoke, edits of the user | refresh races, cache staleness | a revoked session is refused |
| Sign-in factors `app/auth` | lockout, challenges, secrets, codes | verify, enrol, reset, disable | overlapping guesses, crashes | a code opens one session; guesses are bounded |
| Access, tenancy `platform/auth`, `app/company`, `app/setup`, `app/adminconfig` | companies, branches, plans, caches, settings | resolve, place, limit, edit | stale caches, counts without a lock | lists equal reads; nobody grants more than they have |
| Inbox, webhooks `app/inbox`, `app/webhook` | conversations, journal, accounts | receive, retry, reply, SLA | duplicates, reordering, crashes | each message once, each deadline told once |
| Leads `app/lead` | lead, stage history | move, edit, convert, delete | copies written back | history matches the stage |
| Customers, privacy `app/customer`, `app/privacy`, `app/dataprotection` | registry, sealed columns | edit, merge, erase, rotate, backfill | backfill against edits | a passport is kept or erased for good |
| Documents `app/document` | documents, checklist | upload, review, replace, expire | sweep against review | what is approved was reviewed |
| Notifications `app/notification` | alerts | emit, acknowledge, escalate | copies written back, sweeps that overlap or crash | escalated once per alert but for an overlap |
| Rooming, bus, flight `app/{rooming,bus,flight}` | beds, directory, fare cache | assign, add, search | limits checked without a lock | overruns no larger than the overlap |
| Hotels `app/hotel` | seasons, allotments, stops, prices | edit, adjust, quote | locked edits, unlocked quotes | contracts coherent, quotes add up |
| AI, assistant `app/{ai,assistant}` | settings, quota, cache, breaker | ask, configure | provider asked without a lock | within the allowance, key fits its provider |
| Imports, exports `app/importexport` | jobs, rows | upload, confirm, process | request and worker process at once | every row accounted for |
| Reports, support, audit, retention | schedules, runs, requests | sweep, submit, resolve, purge | overlapping sweeps | a report once a period |
| Dashboards, search, PDF, HTTP, storage, platform | none of their own | read, format, call out | none for a model checker | - |

Components interact through direct calls inside one transaction (booking ->
departure counter, payment -> booking balance, bank credit -> payment), through
in-process events after the commit (`PaymentRecorded` ->
`Lifecycle.onPayment`), through the outbox (`payment.reversed`,
`document.status_changed` -> `automation.Reactor`), and through shared rows
that several services write (`bookings`, `departures`, `tasks`, `users`).

The hazards this gives rise to are listed, each at its line, in `PROJECT.json`.

## 2. Modules

| Module | Models | Checked in |
|---|---|---|
| `BookingDomain` | pure lifecycle rules | through `BookingLifecycle` |
| `BookingLifecycle` | one booking, its clerks, payments, events and sweeps | `BookingLifecycle.cfg`, `BookingLifecycle_proof` |
| `SeatAllocation` | the seats of one departure, transaction by transaction | `MCSeatAllocation`, `SeatAllocation_proof` |
| `Operations`, `Documents`, `Notifications` | rooming, buses and fares; documents of a booking; alerts | `MCSeatAllocation`; all three in `SeatAllocation_proof` |
| `PaymentLedger` | the ledger of one booking and its balance | `MCPaymentLedger`, `MCPaymentLedger_proof` |
| `PaymentPlans` | a promise and an instalment with their sweeps | `MCPaymentLedger`, `MCPaymentLedger_proof` |
| `Suppliers`, `Treasury` | a supplier's funds, invoice and chase; accounts, feed, payables | `MCPaymentLedger`; both in `MCPaymentLedger_proof` |
| `Receivables`, `FinanceRules` | agencies and letters; what finance computes | `MCPaymentLedger`; agencies and letters in `MCPaymentLedger_proof` |
| `FxRates`, `RevenueTargets`, `BookingDesk` | exchange rates; targets; a booking's lines, party and trail | `MCPaymentLedger`; rates and change requests in `MCPaymentLedger_proof` |
| `EventDelivery` | abstract: at-least-once delivery | refined by `EventOutbox` |
| `EventOutbox` | the outbox table and its dispatchers | `MCEventOutbox`, `MCWorkspace`; in `MCEventOutbox_proof` |
| `AuthFactors`, `TourPackages` | sign-in of one account; the catalogue and its programmes | `MCEventOutbox`; sign-in and the catalogue in `MCEventOutbox_proof` |
| `Inbox`, `Automation` | webhooks and conversations; run ledger, reactors, visas, cron table | `MCWorkspace`, `MCWorkspace_proof` |
| `Leads`, `Customers`, `Assistant`, `Imports`, `BackOffice`, `Hotels` | the desks around a booking | `MCWorkspace`; lemmas in `Records_proof`, theorems in `MCWorkspace_proof` |
| `Tenancy`, `AccessRules` | the company of a request; who may see and do what | `MCWorkspace`, `MCWorkspace_proof` |
| `TaskEngine` | the tasks of one record, the rules that seed and close them, both sweeps | `TaskEngine.cfg`, `TaskEngine_proof` |
| `Sessions` | the sessions and refresh tokens of one user, and the edits that end them | `MCServices`, `Sessions_proof` |
| `SessionCache` | the session checks of several API instances, beside `Sessions` | `MCServices`, `Sessions_proof` |
| `Rows` | what the smaller services share: desks, and a row that is not there | through them |

**Concurrency.** Granularity follows the locks.  In `BookingLifecycle` a unit
of work that derives the status is three actions: it takes the row lock with
`FindForUpdate` and reads participants and checklist, then documents and
override, then derives, saves and commits (or rolls back, `Rollback`).
Whatever writes the row waits for the lock; document reviews and removals of
participants take none and commit in between.  A unit that locks the row and
derives nothing is one action; units that read with `FindByID` and write later
are a read action and a commit action, with `Abort` in between.  `SeatAllocation`
splits the transition itself (`FindForUpdate`, `LockDeparture`, count, save,
recount, commit), because there the locks are the subject.  `PaymentLedger`
splits a payment operation into read-and-check, write, sum and commit; a row
version is visible to others only after the commit, and the unique index and
the row lock make others wait.  `EventOutbox` splits claim, delivery and mark.
In the modules built on `Rows` a *desk* is one request or job: it begins by
reading, keeps its copies, and its last step writes them back, so that two
desks show every overlap of two units of work.  Where the code locks a row
before it reads (hotels, suppliers, agencies, accounts), the unit is one step.

**Limits without a lock.** Where the code counts first and writes later, no
limit holds exactly.  The invariants then state the true bound: one more for
each request that overlapped (`OverrunsBounded`, `PartyBounded`, `WithinPlan`,
`GuessesBounded`, `AllowanceHolds`, `DuplicatesBounded`).

**History variables** record that a stale copy was written or that requests
overlapped (`excused`, `raced`, `leadRaced`, `custSeen`, `late`, `overtaken`), so that the
invariants say exactly what the code guarantees without it.  A write of a stale
copy is always a step of the model; history only marks it.

**Requests that compute.** Where a service only computes (pricing, scoring,
routing, access checks), the state keeps a request and its answer, the request
is chosen from small sets, and the invariants compare the answer with what the
request says, by a definition of their own (reference sums, set comprehensions,
round trips), not by the code's algorithm.

**BookingLifecycle.** `row` is the `bookings` row (status, pax, total,
collected, balance, hold deadline, `ready_forced`); `party`, `checklist`, `docs`
and `override` are what `readinessFacts` reads; `unit` is the unit of work that
holds the row lock and what it has read so far; `desk` holds unlocked units of
work with the columns they remember; `listed` what each sweep has listed.
`RequestLocks` begins every locked request, `SweepLocks` the reconcile sweep's
unit, `AddParticipantInsert` that of a clerk whose own row is counted before it
is committed; `ReadDocuments` goes on; `Transition` (`Service.Transition` with
all its guards and the trailing `rederive`), `UpdateParticipant`,
`UpdateChecklistItem`, `OverrideReadiness`, `HandleEvent` (`onPayment`, the
reactor), `AddParticipantCommit` and `RunRecompute` are the commits.  Events are
not tracked: `Publish` loses them, the outbox repeats them, so a handler may run
at any time and need never run.  Seats are abstracted to any answer of
`departureFacts`.

**SeatAllocation.** Statuses are reduced to editable, seated and cancelled,
which is all `SeatChangeFor` distinguishes.  A seat is a pair of booking and
number, so that `SUM(pax_count)` is the cardinality of a set.  `excused`
records that an unlocked write (a stale `PATCH`, a payment writing back an old
`pax_count`, a departure edit that lowers the capacity) changed the premises.

**PaymentLedger.** `raced` is set while `collected_amt` comes from a sum or
copy that another commit had overtaken.  Replaying a known key returns the
stored entry and changes nothing, so it is no action.  `SumCollected` takes the
amounts unit by unit: a row of amount n is n units, so that the SQL sum is a
difference of two cardinalities, and what a commit does to it is a fact about
finite sets.

**EventOutbox.** Time appears only as "due" and "lapsed".  The lease may run
out while its holder still works, marks are updates by id whatever the row
says, and a mark may fail or its worker die.

**TaskEngine.** `tasks` holds the rows of one record; `job` what each request,
event handler or sweep holds between reading and writing.  Every change but the
overdue stamp reads rows without a lock and writes all columns back
(`Repository.Update`), so `Stage` and `Hold` take copies and `WriteBack` stores
them, whatever happened in between.  `EscalateList` and `EscalateWrite` are the
two halves of `EscalateOverdue`.  Its list is the branch's, ordered by escalated
first, then priority, and cut at `ListLimit` (500): `room` is how many rows of
this record still fit beside those of other records, which `OthersMove` changes
at will, and `Before` is the order (the due dates, which come last in it, are
any).  `Enabled` says whether the branch has the `task.overdue` rule; without it
nothing is escalated.  `AnnounceOne` is one transaction of `AnnounceOverdue`.  `EnsureTask`, `LookupInTx`, `InsertTask` and
`InsertRefused` are the seeder with the unique index on `idempotency_key`.
Assignee, texts and package link are abstracted.

**Sessions.** `user`, `sess` and `tok` are the rows of one user in `users`,
`auth_sessions` and `refresh_tokens`; `job` is what each request holds between
reading and writing.  `Refresh` reads and judges (`EvaluateRefresh`);
`RefreshCommit`, `RefreshRaced` and `RefreshTooLate` are the three ends of its
transaction, one step each because its first update holds the row until the
commit.  `Logout`, `RevokeSession` and `RevokeUserSessions` begin a revocation
and fix the snapshot its token update works on; `RevokeStatement` is the SQL
statement.  `AdminUpdate`, `UpdateProfile` and `ChangePassword` copy the user
and write every column back (`EditCommit`, `PasswordCommit`), and the triggers
of migration 00023 are part of that step.  A login is the password check and,
any time later, `completeLogin`, whatever factors lie in between.  A logout
that names two sessions is two revocations.  `pw`, `late`, `parent` and `asked`
are history.

**SessionCache.** `cache` holds each instance's entries, `told` is history: the
newest state the instance was told of by `Invalidate` or `InvalidateUser`.  A
load is three steps (note `gen`, read the store, store the entry); `fresh` says
that `gen` has not changed since.

**AuthFactors.** One user's security columns, its challenges, secret and
recovery codes.  A request reads the row, decides, and writes with statements
of its own; a crash may fall between any two.  A code is named by the step it
is valid for.  Stale profile edits that write `mfa_enabled` back are steps.

**TourPackages.** Packages with their tiers and departures under edits, clones
and tier lists that overlap, and, asked of small programmes, the rules of
`NormalizeSpec`, the visa costs an agent does not see, and the figures shown.

**BookingDesk.** `Update` and `AddParticipant` are a read and a commit; lines,
discounts, notes and change requests read `FOR UPDATE` and are one step.  The
list of bookings, its filters (`filterWhere`), its search in four readings and
the counts beside it are operators asked of small archives.

**PaymentPlans, Suppliers, Treasury, Receivables.** One promise and one
instalment with the two sweeps that follow them; one supplier's account (locked)
and its invoice and chase (copied and written back); accounts whose movements
are posted under a lock, transfers that take two, a feed that is imported,
matched and imported again (external ids are those of one account,
`FeedAccount`, whose unique index drops a row it has); one agency with its open bookings, the nightly
sweep that reads every exposure first, and a letter somebody may answer twice.

**FinanceRules, FxRates, RevenueTargets.** Profit, commission, refunds, ageing,
statements, overview and routing as operators; the rate table with its sync, the
live sources of two processes with their snapshots and cached board, and
conversions with integer rounding and overflow at `FxMax`; one target whose
recomputes overlap, and the pace engine asked of every period and day.

**Inbox.** The journal of webhook events with ingest, crash and retry; the
account of a channel with its sealed secrets; the conversations of one identity,
whose clock is named by the message that started it.

**Automation.** The run ledger with its claims; a visa application; the
reactors, each a list of steps that may fail; and the cron table with its
overrides.  The documents task of a booking: `MissingDocsList`,
`MissingDocsRead` and `MissingDocs` are the hourly sweep, which lists only a
booking that is confirmed or partly paid, not departed, long enough in its
status and within the batch (`standing` = "listed"), reads its checklist and
opens or closes the task from what it read; `onDocumentStatusChanged`,
`DocsRead` and `DocsComplete` are the reactor, which recomputes the booking (it
may become ready and leave the listing) before it reads.  `docEvents` holds
whether an event is due or went to the dead letters.  A checklist may also
change without an event (a participant's document, the policy, a new
participant: `DocsChange`).

**Leads, Customers, Documents, Notifications, Operations, Imports.** Rows read
without a lock, changed and written back whole, with the sweep, backfill or
worker that does the same meanwhile.  In `Notifications` a run of the alert
sweep is a desk like any other: it takes no lock and claims nothing, and the
queue keeps a second task out for 50 seconds of a five-minute cron, so any
number of runs hold lists at once.  `escalations` counts the times a row was
taken by a run that no other had overtaken (`overtaken`: rows of a run's list
that another run took since).  What the desk sees of the leads (search,
list, board, figures) is compared over small archives (`LeadListsAgree`).

**Hotels.** Changes of a contract lock the hotel's row; a quote reads without
it and is asked of contracts chosen freely.

**Assistant.** The user's questions in flight, the answer cache, the memo of the
settings and the circuit breaker; settings edited at the same time.

**BackOffice.** Report schedules under overlapping sweeps and edits, help
requests with their limiter, and questions about reports, trail and retention.

**Tenancy, AccessRules.** One company with its branches, plan, cache, tickets
and wizard; and requests answered by the scope rules, the SQL filters, the
middleware gate, the placement rules and the notes of a task.

## 3. Runs

Components that write disjoint tables are checked side by side in one run: a
variable `part`, chosen at the start, names the one a behaviour exercises, and
the others keep their initial state.  A property of the run then names the parts
it speaks of.  Nothing is lost: no step of one part is enabled or disabled by
another's state.

| Run | Parts | Shows |
|---|---|---|
| `booking_life` | the booking | safety of the row and liveness of the three sweeps |
| `late_edit` | the booking | counterexample: a `PATCH` that began on a draft writes after the booking left it |
| `seats` | seats, rooms, buses, fares, search, documents, notifications | no oversell, counter follows seats, no sale after closing; `GroupHolds` |
| `seat_counter` | seats | counterexample: recount overwrites a confirmation |
| `ledger` | ledger, plans, funds, invoices, chases, accounts, payables, agencies, letters, rules, rates, live, sides, targets, recompute, pace, amounts, collaboration, workspace | idempotency, segregation of duties, balance; `MoneyAddsUp`, `SettledOnce`, `NothingRewritten` |
| `ledger_balance` | ledger | counterexample: two payments, one balance |
| `outbox` | outbox, lockout, factors, catalogue, programme | refinement of `EventDelivery`, exclusivity of claims; `SignInHolds`, `CatalogueHolds` |
| `outbox_attempts` | outbox | counterexample: a crashing record is tried for ever |
| `workspace` | outbox (one event), webhooks, conversations, once, visa, docs, reactors, schedule, leads, registry, sealing, names, chat, aisettings, figures, imports, sheets, reports, support, office, sell, stock, quotes, tenants, plans, setup, access, reasons | `MessagesOnce`, `RecordsHold`, `AccessHolds`, `NothingUndone`, and the liveness of `NothingLeftWaiting` |
| `tasks` | the tasks of a record | one task per key, one announcement, sweeps reach every open task their lists have room for |
| `task_terminal` | the tasks of a record | counterexample: a stale copy reopens a closed task |
| `services` | sessions, cache | single-use tokens, no token after a session's end, old passwords signed out; caches not older than what they were told |

The properties that gather several parts:

- `FlagsFollowStatus` = `HoldSetExactlyOnOption`, `ForcedOnlyWhileReady`;
  `SweepsCatchUp` = liveness of the hold, travelled and reconcile sweeps;
  `SweepsReachTasks` = liveness of the overdue and escalation sweeps; a late
  task that stays open is escalated unless the rule is off or the list is full
  of tasks that sort before it (`CrowdedOut`): escalated tasks head the list
  and leave it only when they are closed, so 500 of them hold back every later
  one.
- `ReadyIsEarned`: who becomes ready is forced, or paid, and complete at the
  commit; the two inputs the row lock does not cover may have changed since the
  unit read them (`ReviewedSinceRead`, `RemovedSinceRead`).  A booking so
  excused has drifted, and `DriftIsListed` and `SweepsCatchUp` are about it.
- `GroupHolds`: overruns bounded by the overlap, group list and search answer
  from the rows, fare cache within size and age; a document reminded once per
  slot and approved only after review; an alert escalated as critical, and once
  but by runs that listed it before another took it.
- `MoneyAddsUp`: funds on their model's side, balances are their movements,
  finance reports add up, the newest rate is used and a stale one only as a last
  resort, the status told is the latest, expectations stay within the goal,
  contributions add up, totals follow lines, no discount nobody granted, the
  party bounded, the trail complete, the workspace's figures agree.
- `SettledOnce`: a promise settled for a reason, an instalment told once, a bank
  credit paid once, no lock cycle of two transfers, a letter answered once.
- `NothingRewritten` (a step property): ledger append-only, settled promises,
  closed agencies and resolved requests stay so, sales within the limit in
  force, entered rates and last good quotes kept.
- `SignInHolds`: a factor is spent once, guesses bounded, second factor asked.
- `CatalogueHolds`: catalogue coherent, programmes stable, costs kept, figures
  honest.
- `MessagesOnce`: an event stored once, secrets open under their own row, one
  open conversation, the waiting message timed, a stage told once; a finding
  told once a period, a visa application fits its history, a handled event was
  fully applied, the schedule honours its overrides.
- `RecordsHold`: leads (row, history, tasks, details, lists), customers (passport kept,
  merged hidden, erased for good, companions mutual), assistant (key, allowance,
  answers, figures), imports (rows accounted for, cells and exports read back),
  back office (reports once a period, trail, retention), hotels (contracts,
  quotes, cancellation table).
- `AccessHolds`: one main centre, plan limits, a fresh workspace; lists match
  reads, writes stay inside, no escalation, the gate, settings, notes between
  two, lost reasons distinct.
- `NothingUndone` (a step property): a finished setup, a merge, an erasure; a
  shielded provider is not asked; hotel stock leaves only while open.
- `NothingLeftWaiting`: every recorded event is handled or dead-lettered;
  documents that stay complete leave no task to collect them while something
  looks: the sweep lists the booking, or the event of a document is owed and
  not dead-lettered.  Once the booking left the listing (it became ready,
  departed or was cancelled) and its events are handled, a task inserted from an
  older checklist stays open for its assignee.
- `SessionsSound`: single use of a refresh token, sessions within their limits,
  old passwords signed out.

Why the bounds are enough to be interesting: in `booking_life` the amounts
reach every branch of `DeriveStatus` (unpaid; paid but not complete, which is
partially_paid; paid and complete), a party can be
short, documents and participants change between reading and commit, and a hold can lapse, be extended or be confirmed between listing and
run; one unlocked unit is enough for staleness, because every locked action
interleaves with it.  A total of 1 leaves no booking that is part paid and still
owes; that case is the prover's, whose theorems about the safety properties hold
for all amounts.  In `seats` the two parties may need 2 to 4 seats of 2 or
3, so both the fitting and the overselling case occur; four travellers compete
for rooms of two, so that two overlapping requests may overfill one, three bus
companies for a limit of one; two desks are two runs of the alert sweep, or a
run and a request.  In `tasks` the list has room for one row (`ListLimit` = 1):
a rule's task and a manual one compete for it and other tasks may fill it.  In `ledger` there
are as many rows as keys, so a retried key, a race on one refund and a race of
two entries on the balance all occur; two feed rows may be the same credit
twice, two bookings pass an agency's limit of one, the clock passes the life of
a letter, `FxMax` = 7 is reached by products of the amounts, and two months of
two days make a seasonal curve.  In `outbox` a batch of two lets a record's
lease lapse while its worker is busy with the other; two failures lock an
account, and the clock passes the window, the first lock and a challenge.  In
`workspace` two deliveries of one event and a retry overlap, two inbound
messages meet two edits, the cron clock passes a period twice, a sheet names one
phone twice, three branches meet plans for one, two and any number, and caches
expire within the clock.  Everywhere two desks are enough for a stale write:
one reads, the other changes, the first writes.  In `services` the clock
passes the grace window (1), the idle limit (2) and, after a refresh, the
absolute limit (3) caps the sliding one; three tokens are a token, its
successor and a sibling; two sessions let a password change end one and open
another; `InOrder` lets rows take ids in order, since ids are interchangeable.
Symmetry is declared over bookings, transactions, users, keys, events, handlers,
dispatchers, requests and passwords, only in runs without liveness.  Deadlock
checking is off where the system may stop: a terminal booking at the end of the
clock, a bounded ledger that is full, an outbox whose records are purged,
sessions and desks at the end of their clock or work.

**Fairness.** `BookingLifecycle` assumes that each sweep is scheduled again and
again (the cron table of `app/worker_schedule.go`: holds every five minutes,
reconcile hourly, travelled daily), that no unit of work holds the row lock for
ever (it commits or rolls back) and that no booking fails every run of its
sweep (`sweep` logs a failed booking and goes on; strong fairness of the steps
of its unit, since others take the lock in between).  Nothing is assumed of users,
payments, event delivery or the clock.  `EventOutbox` assumes that backoffs and
leases end, that a due record is claimed in the end (`Run` polls every second,
oldest first), and that crashes and lost marks do not hit every attempt on one
record; `outbox_attempts` shows what happens when they do.  `TaskEngine`
assumes that the scheduler starts each of the two task sweeps again and again
when a process is free (strong fairness: users keep the processes busy in
between) and that a unit of work that began goes on.  `MCWorkspace` adds to the
outbox's fairness that the sweep of missing documents, which cron starts every
hour, gets to a booking it lists (`SweepTurn`), and that an event of a document
is handled (`EventTurn`), both weak: a run or a handler that began ends, an
attempt that fails is one that is retried, and the last failure is the dead
letter, which the property names.

## 4. Where code and documents disagree

- `late_edit`: "Editable reports whether pax, money and line items may still
  change" (`domain/booking/lifecycle.go:68`); `Update` checks an unlocked copy.
  The shortest trace puts the booking on option hold before the late write; a
  confirmation does the same.
- `seat_counter`: `capacity_sold` is said to be recomputed "under a `FOR
  UPDATE` lock on the departure" (`README.md:783`); `RecomputeCapacity` counts
  without it.
- `ledger_balance`: ledger and balance are said to be ACID (`README.md:417`);
  the sum is taken without locking the booking.
- `outbox_attempts`: "MaxAttempts is how many deliveries are tried before a
  record is dead-lettered" (`domain/outbox/outbox.go:24`); claims do not look
  at it.
- `task_terminal`: "done is terminal" (`domain/task/model_test.go:27`); the
  escalation sweep, an assignment or a reactor holding an older copy writes the
  old status back.

Also seen while modelling, without a run of their own.  Where the state
concerned is modelled, the step is part of the model and the invariants are
worded so that they hold in spite of it.

- *Bookings and packages.* `README.md:802` derives `confirmed` for
  `collected = 0`, while `DeriveStatus` yields `ready` first for a ready booking
  that owes nothing; `README.md:841` lists the hold extension endpoint as
  deferred, although `ExtendHold` exists.  A booking becomes ready on documents
  rejected, or a participant removed, while it was being derived.  `Update` may leave `pax_count` below
  the party.  A stale `UpdateDeparture` or `CloseSales` opens sales again.
  `ClonePackage` of a package with tiers always fails
  (`postgres/tourpackage/repository.go:340-364`).  Two `Assign` calls overfill a
  room, and cancelled bookings keep their beds.
- *Money.* A payment is recorded on a booking cancelled meanwhile; a charge can
  be reversed twice under different keys.  Two `PayInvoice` calls pay twice.  A
  promise on a cancelled booking breaks, an instalment of a cancelled schedule
  is reminded of, and nothing ever sets a schedule to "paid".  The agency sweep
  suspends on an exposure it read earlier.  An import that dies before
  `autoMatch` leaves its credits unmatched.  A chase may open a task after the
  confirmation, and a stale `HealthCheck` overwrites a health set by hand.
  `DeparturePnL` counts revenue whose costs are not known.  Sides derived from
  an official rate are never stale (`app/fx/live.go:405`).  Two recomputes of a
  target may save in the wrong order.
- *Sign-in and tenancy.* The package comment of `sessioncache` calls the TTL
  "the worst-case revocation latency"; the expiry is counted from the end of the
  load (`late` in `StaleWithinTTL`).  A login whose password was checked before
  a change and whose session is stored after it survives the change.  A
  revocation's token update does not see a successor that a concurrent refresh
  commits; the token stays unrevoked but useless.  `endSession` drops the error
  of `RevokeSession`.  A stale profile save writes `mfa_enabled` back
  (`app/profile/service.go:131`).  Concurrent failures both lock the account, and
  a crash before `LockUser` leaves it open.  The workspace cache is dropped
  before the commit; a `SaveCompany` that overlaps a deletion restores the slug;
  users are counted against the plan without a lock.  `UpdateLostReason` upserts
  by branch and code.
- *Messages and tasks.* A crash between `Insert` and the mark leaves a webhook
  event 'received', which no retry picks up; a retried ingest may create another
  lead shell; a late ingest or reply revives a disconnected account.  A stale
  `Reply` or `SetStatus` overwrites a newer inbound message, and `MarkSLAStage`
  may stamp a conversation just answered.  Concurrent `Emit` calls make two
  rows, overlapping runs of the alert sweep escalate an alert twice although its
  comment says "once" (`app/notification/service.go:359`), a crash between `Update` and `Emit` loses an escalation, and e-mail
  leaves before the outer transaction commits
  (`app/notification/service.go:169`).  A rule's key belongs to its first task
  for ever.  500 escalated tasks that stay open keep later ones off the
  escalation list (`app/task/service.go:350`); a documents task inserted from an
  old checklist after its booking became ready stays open
  (`app/automation/jobs.go:443`).  A stale visa `Transition` revives a cancelled
  case.  The
  replacement of an expired document expires at the next sweep.
- *Records.* Two `Convert` calls make two drafts, and a stale `Assign` erases
  `converted_booking_id`; a stored trip interest whose travel date is more than a
  year past cannot be saved again; a note to a previous assignee cannot be read
  by them.  A stale `Update` after `Anonymize` brings a customer back
  (`app/privacy/service.go:180`); crossing merges hide both customers; merging
  two companions always fails (`migrations/00004:27`,
  `app/customer/service.go:334`).  `Confirm` of an import both enqueues and
  processes inline (`app/importexport/service.go:237-247`).  The assistant's
  quota is checked before and charged after; `Disable` writes a stale key back;
  `DailySummary` may return without a run (`app/ai/service.go:311`).  A report
  schedule deleted during the sweep fails the rest of it, `conversion_bps` may
  exceed 10000, the finance summary adds currencies, and the rate limiter lets
  everything through when its store fails.  A quote may read a hotel's contract
  between two edits.

## 5. Proofs

All theorems hold for every value of the constants that satisfies the named
assumptions: those of the component (`DomainAssumption`, `LifecycleAssumption`,
`SeatAssumption`, `OpsAssumption`, `DocAssumption`, `NoteAssumption`,
`OutboxAssumption`, `FactorAssumption`, `PackagesAssumption`, `TaskAssumption`,
`AuthAssumption`, `LedgerAssumption`, `PlanAssumption`, `SupplierAssumption`,
`TreasuryAssumption`, `ReceivablesAssumption`, `FxAssumption`,
`DeskAssumption`, `WebhookAssumption`, `ConvAssumption`, `AutoAssumption`,
`LeadAssumption`, `CustomersAssumption`, `ImportAssumption`,
`AssistantAssumption`, `OfficeAssumption`, `HotelAssumption`,
`TenancyAssumption`, `AccessAssumption`) and, where a record type must be named
first, those about placeholders (`AbsentAssumption`, `DocRowAssumption`,
`HookRowAssumption`, `ConvRowAssumption`, `InvoiceAssumption`).
They say that bounds and durations are naturals, that policies make sense (a
lock has a length, the longest is no shorter than the first), that the desks
and an agency's bookings are finitely many, that there is a desk, that today is
the last of the days with rates, and that the placeholders for "no row" are not
rows: in TLC placeholders are model values, for the prover they are any value.

**BookingLifecycle_proof.** The inductive invariant is `TypeOK`,
`HoldSetExactlyOnOption`, `ForcedOnlyWhileReady`, `ListedInPast` (a listing
is not from the future) and `UnitInv`, which says what the row lock is for:
while a unit of work holds it, the row, the checklist and, once read, the
override are what it has read, and participants are only removed, its own insert
aside.  Documents are not in it: nothing keeps them.  Every step is first
classified by what it does to the row (`RowChange`: rewritten, rederived,
requested, extended, lapsed, departed or untouched), and each property is proved
over that classification.  `ListedInPast` is needed because the sweeps compare
with the instant they were listed at, the property with the clock; `UnitInv`
because a commit derives from what was read and the properties speak of what is
there (`ReadyAtCommit`).  Proved: the type invariant, `FlagsFollowStatus` (both
of its parts), `DriftIsListed`, `SoldStaysSold`, `SweepsActOnCurrentRow`,
`ReadyIsEarned`.

**SeatAllocation_proof.** `NoOversell` is not inductive: a transaction acts on
a count it made earlier.  The invariant adds `LockDiscipline` (locks belong to
the transactions in the phases that hold them) and `RememberedCounts` (the
count a transaction remembers while it holds the departure is still right,
unless excused).  Cardinality facts about `Seats` come from
`FiniteSetTheorems`.  Proved: the type invariant, `NoOversell`,
`CounterFollowsSeats`, `SeatsOnlyWhileOpen`.  Beside the seats the instance has
the rooms, documents and alerts of a group, with an invariant each
(`GroupInv`).  `OpsInv`: the beds of a room and the requests about to assign one
are together at most its capacity and the desks that may overlap, and the same
for a bus; a fare that is cached or being fetched is one the provider gave for
that key.  `DocInv`: a copy of a document in flight is one of its versions,
which the version check of the write relies on, and a reminder was claimed.
`NoteInv`: a row that is open, or that a run not overtaken still lists, has
been taken fewer times than alerts were folded into it (`OnceEach`): taking it
closes it, and only a new alert opens it again; what a run was overtaken on is
on its list (`OvertakenFits`).  Proved: `GroupHolds`.

**MCEventOutbox_proof.** For the refinement, `IInv` says that claimed events were
recorded, and that what was delivered without error, dispatched or purged was
completed by every handler; each step is then a step of `EventDelivery` or
stutters (`OutboxDelivers`).  For the claims, `Exclusive` says that an event
whose lease never ran out has one holder, whose copy is current, and that after
an error-free delivery nobody delivers it again (`DeliveredOnce`,
`MarksOwnClaimHolds`).
*Sign-in*: a factor is spent once because the row remembers it
(`SpentKept`: accepted steps lie at or below `last_mfa_step`, accepted codes
are no longer unused, codes to come are newer).  The bound on wrong answers
needs that the counter of the row misses none (`Counted`) and that every
answer past the last but one of the policy leaves a request that is about to
lock the account (`LocksPending`), unless it dies: that is where the number of
desks and of crashes in `GuessesBounded` come from.  Proved: `SignInHolds`.
*Catalogue*: `CatInv` says that a package made for visas has its one standing
departure, that every departure belongs to a package that is there and no set
of prices repeats a code, and, for the edits that overlap, that a copy in flight agrees
with its row about what it was made for.  Proved: `CatalogueCoheres`.

**TaskEngine_proof.** Copies in flight make the invariants non-inductive:
the inductive invariant adds that a process holds copies only of rows that
exist, under the row's own key and each a consistent row (`CopiesMatch`), and
that a seeder in mid-call knows its key; the limits of the lists are any.  Proved: the type
invariant, `OneTaskPerKey`, `AnnouncedOnce`, `RowsConsistent`.

**Sessions_proof.** Two parts without shared state.  *Cache*: the invariant
says what a load in flight knows: while `gen` has not changed, what it read is
not older than what its instance was told (`LoadsFresh`); that holds when it
reads because instances are only told what has happened in the store
(`ToldIsTrue`).  `EntriesBounded` relates entries to the clock, which is what a
session's end is compared with.  Proved: the type invariant, `NotOlderThanTold`,
`StaleWithinTTL`.  *Sessions*: `SingleUse` is not inductive, because a rotation
must not find that its token already has children and a grace refresh must
still find the rotation it was judged against.  `RotationsKept` (a rotated
token keeps its mark and its instant for good) and `RequestsHold` (what a
request carries is still true of the rows when it commits) say why.  Proved:
`SessionsSound` with its type part, and the step property `NoTokenAfterEnd`.

**MCPaymentLedger_proof.** *The ledger*: the invariant describes units in flight: a copy that
waits to be inserted is not approved, a row version revises only status and
approver of the row it locks (`Revises`, `VersionHeld`), two units never hold
one row or one key (`Apart`), and a sum that was not overtaken is the sum of
what the unit sees (`SumTrue`).  The lemmas about `SumCollected` (it is a
number; a row that does not count leaves it alone) rest on
`FiniteSetTheorems`.  Proved: the type invariant, `OneEntryPerKey`,
`RefundsApprovedByAnother`, `BalanceFollowsLedger`, `LedgerAppendOnly`.

*The composition*.  Every step of `MCNext` is a
step of one service and a stutter of the others (`EachStep`), so `ServicesInv`
is a conjunction of four invariants, each proved by its own service's steps:

- `PlanInv`: what a desk read of a promise still justifies what it will write
  (money that covered the promise once is remembered, a day that has passed
  stays passed), at most one desk is about to tell of a broken promise, and an
  instalment marked as reminded was claimed in the run ledger.
- `TreasuryInv`: a desk that holds an account holds the lower of its two, and
  only a transfer holds any (`LocksHeld`), so what it waits for lies above what
  it holds and two transfers cannot wait in a circle; a credit is counted as
  paid exactly while it is matched.
- `ReceivablesInv`: an answer in flight has a letter, and a letter left 'sent'
  exactly when it was answered; the reason is there exactly while suspended.
- `FxInv`: ids of rates are never used again, so an edit in flight either finds
  its own row, whose source it keeps, or none (`JobSurvives`); a snapshot is
  stored with the instant of a clock that has started.

Proved: `SettledOnce`; and, with `LedgerAppendOnly` through `MCSpec => Spec`
and a count of the agency's open bookings (`AssignWithin`), the step property
`NothingRewritten`.

*Amounts*: `AmountsInv` adds two invariants and `AnswersInv` a third.

- `SupplierInv`: the funds lie on the payment model's side and the last ledger
  line shows them (`OnItsSide`).  An entry posted, a payment settled and a
  change of model keep that only because a copy of an invoice or of the funds
  that a desk carries is a row there was, and the invoice is never removed.
- `BooksInv`: a balance is the sum of what was posted and a cash account is not
  overdrawn.  The account of the bank feed is left out: its import adds a whole
  file at once, and what that fold adds up to is TLC's.
- `AnswersInv`: every rate is positive however it came in, so it can be
  inverted, and the newest of finitely many days is one of them
  (`LatestIs`, by well-foundedness of strict inclusion); rounding is within
  half a unit (`RoundsToHalf`); the board is cached over an unseen snapshot
  only while the sync that stored it has not ended.

Proved: `FundsStayOnTheirSide`, `BooksBalance`, `RatesAnswer`.

**Records_proof and MCWorkspace_proof.** The desks around a booking.  The first
module has the invariants of the records and a lemma per operation, the second
those of messages and access, the composition (`StepOfOne`: a step of the
instance is a step of one service) and the theorems.

- `MessageInv` (`HookInv`, `ConvInv`, `AutoInv`): what an ingest, a closing or
  a reactor holds between two statements is still what it read or was
  overtaken, which the row remembers; two passes never hold one claim of the
  run ledger (`ClaimsApart`).  Proved: `MessagesOnce`.
- `AccessInv` (`TenInv`, `SetupInv`, `AskedInv`, `ReasonInv`): there is exactly
  one main centre whatever two edits do, because the company's lock orders
  them; a cached workspace is a version of the company no older than its age
  says.  The rules of scope, gate and placement are proved for every scope and
  row, not only those enumerated.  Proved: `AccessHolds`.
- `UndoneInv` (`SetupInv`, `CustInv`, `AskInv`, `HotelInv`): a merged or
  anonymised customer stays one although copies of earlier rows are written
  back, because a desk's copy is of a row that is still there and no write
  clears the mark.  Proved: `NothingUndone`.
- `RowsInv`, the parts of `RecordsHold` that are about rows.  `LeadInv`: the
  last entry of the history is the stage unless a write was overtaken.
  `RegInv`: a stored passport is sealed under a key there has been and opens to
  what was entered, or was erased; following merges leaves every set of
  customers (`MergesEnd`), so nobody is merged in a circle.
  `ImportInv`: a pass at row n has counted the n - 1 rows before it and left
  none of their phones without a customer, and creators and customers of a
  phone are together at most the desks.  `AiInv`: the usage of a day and the
  questions in flight are at most the quota and the desks less one, past days
  stay within it, days to come are not charged.  `OfficeInv`: ids of schedules
  are not used again, a schedule has one run per period and tells of it once;
  requests made are at most those the limiter counted and those it missed.
  `HotelInv`: only one desk has the hotel's row locked, so its copies are the
  rows.  Arguments by the least element of a finite set go through `Smallest`
  and `LeastNumber`.  Proved: `LeadsKeepTheirHistory`, `RegistryKeepsItsRows`,
  `ImportsAccountForEveryRow`, `AssistantStaysInBounds`, `OfficeTellsOnce`,
  `ContractsCohere`.

Elsewhere a theorem about `Spec` of a component speaks of the part of that name
in its run, whose steps are exactly that specification's.

Only model-checked: all liveness properties (fairness is outside the prover's
reach); and `MoneyAddsUp`, `RecordsHold` and `CatalogueHolds` as wholes.  Their
parts about rows are the theorems above; the others compare what folds, sorts
and selections over sequences compute (totals, reports, quotes, lists,
programmes, the account of the bank feed) with a reference, which needs
induction over data.

## 6. Not modelled

- HTTP decoding and encoding, routing, PDF and brochure layout, storage, mail,
  push and provider adapters: pure I/O at the boundary; the middleware that
  decides is in `AccessRules` and `Tenancy`.
- Dashboards and the global search: read-only queries over rows that other
  components write (the lists of bookings and leads are modelled).
- Wrappers of the platform (database, logger, crypto, queue client), wiring and
  configuration: no rule of their own; rotation of keys is in `Customers`, the
  limiter where it guards something (`BackOffice`).
- Texts: message templates, prompts, wording and audience of each alert, the
  supplier's profile and contract texts, media of a hotel.
- Checklist templates, custom fields, read marks of notes, extraction of ids
  from provider payloads and the signatures over them.
- One hazard has no property: `UpdateDeparture` writes every column of a
  departure from an old copy (`app/tourpackage/service.go:470`); `SeatAllocation`
  takes that step and excuses it.

## 7. Plan

1. A composition of `EventOutbox` with `BookingLifecycle`, in which the events a
   booking waits for are outbox records.
2. The parts of `MoneyAddsUp` about targets and the booking desk whose rows do
   not depend on a fold (`ContributionsAddUp`, `WorkspaceAgrees`).
