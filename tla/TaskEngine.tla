----------------------------- MODULE TaskEngine -----------------------------
(***************************************************************************)
(* The tasks of one record (a booking, a lead, a conversation ...).        *)
(* Modelled code: src/internal/app/task, src/internal/domain/task,         *)
(* src/internal/adapter/postgres/task and the sweeps that drive them.      *)
(*                                                                         *)
(* Units of work run READ COMMITTED.  Every change of a task but the       *)
(* overdue stamp reads the row without a lock, changes the copy and writes *)
(* all of its columns back, so a process holds a copy between two steps    *)
(* and what happened to the row in between is lost.  Title, description,   *)
(* assignee, package link and outcome are left out: no step of the engine  *)
(* depends on them.  Assign, BulkAssign and LinkPackage remain, as steps   *)
(* that write a copy back.  Time is kept as far as it is compared, per     *)
(* task, in clock.  The sweeps list at most ListLimit rows of the whole    *)
(* branch: of the escalation list, whose order matters, room says how many *)
(* rows of this record fit in beside those of other records.               *)
(***************************************************************************)
EXTENDS Naturals, FiniteSets

CONSTANTS
    Procs,        \* concurrent requests, event handlers and scheduled jobs
    MaxRuleRows,  \* bound on the rows automation rules insert, ids 1, 2, ...
    ManualRows,   \* ids of tasks users create (bounds their number)
    Keys,         \* idempotency keys of rule tasks
    Seed,         \* key -> rule, kind and priority of the task its rule creates
    Templates,    \* kind, priority and "has a due date" of tasks users create
    ListLimit,    \* rows a sweep lists (500)
    Enabled,      \* the branch's escalation matrix has its task.overdue rule
    MaxFaults,    \* bound on failed or crashed units of work
    NoKey, NoTask

VARIABLES
    tasks,        \* row id -> tasks row, or NoTask
    clock,        \* row id -> due_at and due_at + grace against now
    notified,     \* rows whose overdue_notified_at is set
    overdueEvents,\* row id -> task.overdue records written to the outbox
    room,         \* rows of this record that fit in the escalation list
    job,          \* process -> its unit of work
    ensured,      \* keys for which a seeder call returned without error
    faults

vars == <<tasks, clock, notified, overdueEvents, room, job, ensured, faults>>

RuleRows   == 1 .. MaxRuleRows
Rows       == RuleRows \cup ManualRows
Statuses   == {"open", "in_progress", "done", "cancelled"}
Levels     == {"critical", "major", "minor"}
Kinds      == {"payment", "other"}
Clocks     == {"none", "ahead", "overdue", "late"}
Task       == [key: Keys \cup {NoKey}, kind: Kinds, status: Statuses, priority: Levels,
               escalated: BOOLEAN, completed: BOOLEAN]
TaskOrNone == Task \cup {NoTask}

(* copies holds the rows to write back ("save") or the rows a sweep read   *)
(* ("escalate"); left the rows a sweep has yet to announce.                *)
Ops     == {"idle", "save", "escalate", "announce", "lookup", "insert"}
Nothing == [r \in Rows |-> NoTask]
Idle    == [op |-> "idle", copies |-> Nothing, left |-> {}, key |-> NoKey]
Job     == [op: Ops, copies: [Rows -> TaskOrNone], left: SUBSET Rows, key: Keys \cup {NoKey}]

ASSUME TaskAssumption ==
    /\ NoKey \notin Keys
    /\ NoTask \notin Task
    /\ MaxRuleRows \in Nat
    /\ ManualRows \cap RuleRows = {}
    /\ Seed \in [Keys -> [rule: STRING, kind: Kinds, priority: Levels]]
    /\ Templates \subseteq [kind: Kinds, priority: Levels, due: BOOLEAN]
    /\ ListLimit \in Nat /\ MaxFaults \in Nat /\ Enabled \in BOOLEAN

(* Type correctness of the whole state.                                    *)
TypeOK ==
    /\ tasks \in [Rows -> TaskOrNone]
    /\ clock \in [Rows -> Clocks]
    /\ notified \in SUBSET Rows
    /\ overdueEvents \in [Rows -> Nat]
    /\ room \in 0 .. ListLimit
    /\ job \in [Procs -> Job]
    /\ ensured \in SUBSET Keys
    /\ faults \in 0 .. MaxFaults

Init ==
    /\ tasks = Nothing
    /\ clock = [r \in Rows |-> "none"]
    /\ notified = {}
    /\ overdueEvents = [r \in Rows |-> 0]
    /\ room \in 0 .. ListLimit
    /\ job = [p \in Procs |-> Idle]
    /\ ensured = {}
    /\ faults = 0

-----------------------------------------------------------------------------
(* The rules of domain/task.                                               *)
taskTransitions ==
    [open        |-> {"in_progress", "done", "cancelled"},
     in_progress |-> {"done", "cancelled", "open"},
     done        |-> {},
     cancelled   |-> {}]

TransitionTo(t, to) == [t EXCEPT !.status = to, !.completed = (to = "done")]

(* Leaves the priority of an escalated task alone.                         *)
EscalateQuietly(t) == [t EXCEPT !.escalated = TRUE]

Escalate(t) ==
    [t EXCEPT !.escalated = TRUE, !.priority = IF @ = "critical" THEN @ ELSE "major"]

Active(t) == t # NoTask /\ t.status \in {"open", "in_progress"}

(* Keeps a retired priority value that ParsePriority should have mapped.   *)
NewTaskRetiredPriority(k, t) ==
    [key |-> k, kind |-> t.kind, status |-> "open",
     priority |-> IF t.priority = "minor" THEN "normal" ELSE t.priority,
     escalated |-> FALSE, completed |-> FALSE]

NewTask(k, t) ==
    [key |-> k, kind |-> t.kind, status |-> "open", priority |-> t.priority,
     escalated |-> FALSE, completed |-> FALSE]

(* A filter that forgets the tasks somebody has started.                   *)
OverdueOnlyOpen ==
    {r \in Rows : /\ Active(tasks[r]) /\ tasks[r].status = "open"
                  /\ clock[r] \in {"overdue", "late"}}

(* ListFilter.OverdueOnly: what the lists of both sweeps are taken from.   *)
OverdueOnly == {r \in Rows : Active(tasks[r]) /\ clock[r] \in {"overdue", "late"}}

(* At most n of the rows of a list.                                        *)
FitsIn(list, set, n) ==
    list \subseteq set /\ Cardinality(list) = IF Cardinality(set) < n THEN Cardinality(set) ELSE n

(* FindByIdempotencyKey.                                                   *)
HasKey(k) == \E r \in Rows : tasks[r] # NoTask /\ tasks[r].key = k

(* Read the rows of set and hold them, changed by TransitionTo(to).        *)
Stage(p, set, to) ==
    /\ job[p] = Idle
    /\ job' = [job EXCEPT ![p] =
                 [Idle EXCEPT !.op = "save",
                    !.copies = [r \in Rows |-> IF r \in set THEN TransitionTo(tasks[r], to) ELSE NoTask]]]
    /\ UNCHANGED <<tasks, clock, notified, overdueEvents, room, ensured, faults>>

(* Read the rows of set and hold them as they are.                         *)
Hold(p, op, set) ==
    /\ job[p] = Idle
    /\ job' = [job EXCEPT ![p] =
                 [Idle EXCEPT !.op = op,
                    !.copies = [r \in Rows |-> IF r \in set THEN tasks[r] ELSE NoTask]]]
    /\ UNCHANGED <<tasks, clock, notified, overdueEvents, room, ensured, faults>>

-----------------------------------------------------------------------------
(* Requests of users.  Each reads and checks here and writes in WriteBack. *)
Create(r, t) ==
    /\ tasks[r] = NoTask
    /\ tasks' = [tasks EXCEPT ![r] = NewTask(NoKey, t)]
    /\ clock' = [clock EXCEPT ![r] = IF t.due THEN "ahead" ELSE "none"]
    /\ UNCHANGED <<notified, overdueEvents, room, job, ensured, faults>>

Transition(p, r, to) ==
    /\ tasks[r] # NoTask
    /\ to \in taskTransitions[tasks[r].status]
    /\ Stage(p, {r}, to)

Complete(p, r) ==
    /\ tasks[r] # NoTask
    /\ "done" \in taskTransitions[tasks[r].status]
    /\ Stage(p, {r}, "done")

Cancel(p, r) ==
    /\ tasks[r] # NoTask
    /\ "cancelled" \in taskTransitions[tasks[r].status]
    /\ Stage(p, {r}, "cancelled")

Assign(p, r) == Active(tasks[r]) /\ Hold(p, "save", {r})

(* One closed task fails the whole call.                                   *)
BulkAssign(p, set) ==
    /\ set # {}
    /\ \A r \in set : Active(tasks[r])
    /\ Hold(p, "save", set)

LinkPackage(p, r) == Active(tasks[r]) /\ Hold(p, "save", {r})

(* Event handlers and modules that close tasks.                            *)
CloseByRule(p, rule) ==
    LET set == {r \in Rows : Active(tasks[r]) /\ tasks[r].key # NoKey /\ Seed[tasks[r].key].rule = rule}
    IN  set # {} /\ Stage(p, set, "done")

CloseTask(p, r, done) ==
    Active(tasks[r]) /\ Stage(p, {r}, IF done THEN "done" ELSE "cancelled")

onPaymentRecorded(p) ==
    LET set == {r \in Rows : Active(tasks[r]) /\ tasks[r].kind = "payment"}
    IN  set # {} /\ Stage(p, set, "done")

onBookingCancelled(p) ==
    LET set == {r \in Rows : Active(tasks[r])}
    IN  set # {} /\ Stage(p, set, "cancelled")

(* Repository.Update of every held row, and the commit.  due_at is never   *)
(* edited, so the stamp of the overdue announcement stays.                 *)
WriteBack(p) ==
    /\ job[p].op = "save"
    /\ tasks' = [r \in Rows |-> IF job[p].copies[r] # NoTask THEN job[p].copies[r] ELSE tasks[r]]
    /\ job' = [job EXCEPT ![p] = Idle]
    /\ UNCHANGED <<clock, notified, overdueEvents, room, ensured, faults>>

-----------------------------------------------------------------------------
(* EscalateOverdue, by the job or by a request: list, then one transaction *)
(* that writes the copies which are past their grace and not escalated.    *)
(* The list does not leave out what is escalated already: it puts it first,*)
(* then orders by priority (and by due date, on which nothing is known).   *)
Rank(level) == IF level = "critical" THEN 0 ELSE IF level = "major" THEN 1 ELSE 2

Before(s, r) ==
    \/ tasks[s].escalated /\ ~tasks[r].escalated
    \/ tasks[s].escalated = tasks[r].escalated /\ Rank(tasks[s].priority) < Rank(tasks[r].priority)

EscalateList(p) ==
    \E list \in SUBSET OverdueOnly \ {{}} :
       /\ FitsIn(list, OverdueOnly, room)
       /\ \A r \in list, s \in OverdueOnly \ list : ~Before(s, r)
       /\ Hold(p, "escalate", list)

ShouldEscalate(t, c) == t # NoTask /\ ~t.escalated /\ c = "late"

(* graceFor: a branch without the rule escalates nothing.                  *)
EscalateWrite(p) ==
    /\ job[p].op = "escalate"
    /\ tasks' = [r \in Rows |->
                   IF Enabled /\ ShouldEscalate(job[p].copies[r], clock[r])
                   THEN Escalate(job[p].copies[r]) ELSE tasks[r]]
    /\ job' = [job EXCEPT ![p] = Idle]
    /\ UNCHANGED <<clock, notified, overdueEvents, room, ensured, faults>>

(* AnnounceOverdue: list the unannounced, then one transaction per row.    *)
(* What is announced leaves this list, so that its limit only delays.      *)
AnnounceList(p) ==
    /\ job[p] = Idle
    /\ \E list \in SUBSET (OverdueOnly \ notified) \ {{}} :
         /\ FitsIn(list, OverdueOnly \ notified, ListLimit)
         /\ job' = [job EXCEPT ![p] = [Idle EXCEPT !.op = "announce", !.left = list]]
    /\ UNCHANGED <<tasks, clock, notified, overdueEvents, room, ensured, faults>>

Dequeue(p, r) ==
    IF job[p].left = {r} THEN Idle ELSE [job[p] EXCEPT !.left = @ \ {r}]

(* Records the event whether or not this call stamped the row.             *)
AnnounceUnconditionally(p, r) ==
    /\ job[p].op = "announce" /\ r \in job[p].left
    /\ notified' = notified \cup {r}
    /\ overdueEvents' = [overdueEvents EXCEPT ![r] = @ + 1]
    /\ job' = [job EXCEPT ![p] = Dequeue(p, r)]
    /\ UNCHANGED <<tasks, clock, room, ensured, faults>>

(* MarkOverdueNotified stamps a row that has no stamp; only then is the    *)
(* event recorded, in the same transaction.                                *)
AnnounceOne(p, r) ==
    /\ job[p].op = "announce" /\ r \in job[p].left
    /\ notified' = notified \cup {r}
    /\ overdueEvents' = IF r \in notified THEN overdueEvents
                        ELSE [overdueEvents EXCEPT ![r] = @ + 1]
    /\ job' = [job EXCEPT ![p] = Dequeue(p, r)]
    /\ UNCHANGED <<tasks, clock, room, ensured, faults>>

-----------------------------------------------------------------------------
(* The seeder.  ensureTask looks outside a transaction first, then again   *)
(* inside one, then inserts.                                               *)
EnsureTask(p, k) ==
    /\ job[p] = Idle
    /\ IF HasKey(k)
       THEN ensured' = ensured \cup {k} /\ job' = job
       ELSE ensured' = ensured /\ job' = [job EXCEPT ![p] = [Idle EXCEPT !.op = "lookup", !.key = k]]
    /\ UNCHANGED <<tasks, clock, notified, overdueEvents, room, faults>>

(* ensureTaskID looks only inside the transaction.                         *)
EnsureTaskID(p, k) ==
    /\ job[p] = Idle
    /\ job' = [job EXCEPT ![p] = [Idle EXCEPT !.op = "lookup", !.key = k]]
    /\ UNCHANGED <<tasks, clock, notified, overdueEvents, room, ensured, faults>>

LookupInTx(p) ==
    /\ job[p].op = "lookup"
    /\ IF HasKey(job[p].key)
       THEN ensured' = ensured \cup {job[p].key} /\ job' = [job EXCEPT ![p] = Idle]
       ELSE ensured' = ensured /\ job' = [job EXCEPT ![p].op = "insert"]
    /\ UNCHANGED <<tasks, clock, notified, overdueEvents, room, faults>>

(* The insert when the table had no unique index on idempotency_key.       *)
InsertUnindexed(p, r) ==
    /\ job[p].op = "insert"
    /\ tasks[r] = NoTask /\ \A s \in 1 .. (r - 1) : tasks[s] # NoTask
    /\ tasks' = [tasks EXCEPT ![r] = NewTask(job[p].key, Seed[job[p].key])]
    /\ clock' = [clock EXCEPT ![r] = "ahead"]
    /\ ensured' = ensured \cup {job[p].key}
    /\ job' = [job EXCEPT ![p] = Idle]
    /\ UNCHANGED <<notified, overdueEvents, room, faults>>

InsertTask(p, r) ==
    /\ job[p].op = "insert"
    /\ tasks[r] = NoTask /\ \A s \in 1 .. (r - 1) : tasks[s] # NoTask
    /\ ~HasKey(job[p].key)
    /\ tasks' = [tasks EXCEPT ![r] = NewTask(job[p].key, Seed[job[p].key])]
    /\ clock' = [clock EXCEPT ![r] = "ahead"]
    /\ ensured' = ensured \cup {job[p].key}
    /\ job' = [job EXCEPT ![p] = Idle]
    /\ UNCHANGED <<notified, overdueEvents, room, faults>>

(* The unique index refuses the insert; the call returns an error.         *)
InsertRefused(p) ==
    /\ job[p].op = "insert"
    /\ HasKey(job[p].key)
    /\ job' = [job EXCEPT ![p] = Idle]
    /\ UNCHANGED <<tasks, clock, notified, overdueEvents, room, ensured, faults>>

-----------------------------------------------------------------------------
(* Time passes due_at, then due_at + grace; a unit of work rolls back.     *)
Tick(r) ==
    /\ clock[r] \in {"ahead", "overdue"}
    /\ clock' = [clock EXCEPT ![r] = IF @ = "ahead" THEN "overdue" ELSE "late"]
    /\ UNCHANGED <<tasks, notified, overdueEvents, room, job, ensured, faults>>

(* Tasks of other records take and leave their places in the list.         *)
OthersMove ==
    /\ room' \in 0 .. ListLimit
    /\ UNCHANGED <<tasks, clock, notified, overdueEvents, job, ensured, faults>>

Abandon(p) ==
    /\ job[p] # Idle
    /\ faults < MaxFaults
    /\ faults' = faults + 1
    /\ job' = [job EXCEPT ![p] = Idle]
    /\ UNCHANGED <<tasks, clock, notified, overdueEvents, room, ensured>>

(* What a process in the middle of a unit of work does next.               *)
Continue(p) ==
    \/ WriteBack(p)
    \/ EscalateWrite(p)
    \/ \E r \in Rows : AnnounceOne(p, r)
    \/ LookupInTx(p)
    \/ \E r \in RuleRows : InsertTask(p, r)
    \/ InsertRefused(p)

Begin(p) ==
    \/ \E r \in Rows, to \in Statuses : Transition(p, r, to)
    \/ \E r \in Rows : Complete(p, r) \/ Cancel(p, r) \/ Assign(p, r) \/ LinkPackage(p, r)
    \/ \E set \in SUBSET Rows : BulkAssign(p, set)
    \/ \E k \in Keys : CloseByRule(p, Seed[k].rule)
    \/ \E r \in Rows, done \in BOOLEAN : CloseTask(p, r, done)
    \/ onPaymentRecorded(p)
    \/ onBookingCancelled(p)
    \/ EscalateList(p)
    \/ AnnounceList(p)
    \/ \E k \in Keys : EnsureTask(p, k) \/ EnsureTaskID(p, k)

Next ==
    \/ \E p \in Procs : Begin(p) \/ Continue(p) \/ Abandon(p)
    \/ \E r \in ManualRows, t \in Templates : Create(r, t)
    \/ \E r \in Rows : Tick(r)
    \/ OthersMove

Spec == Init /\ [][Next]_vars

(* The scheduler starts both sweeps again and again, and whoever began a   *)
(* unit of work goes on with it.                                           *)
Fairness ==
    /\ SF_vars(\E p \in Procs : EscalateList(p))
    /\ SF_vars(\E p \in Procs : AnnounceList(p))
    /\ \A p \in Procs : WF_vars(Continue(p))

FairSpec == Spec /\ Fairness

-----------------------------------------------------------------------------
(* "ensureTask creates a system-generated task once per idempotency key":  *)
(* whatever races, no key has two tasks, and a seeder call that returned   *)
(* without error left exactly one.                                         *)
OneTaskPerKey ==
    /\ \A r, s \in Rows :
         /\ tasks[r] # NoTask /\ tasks[s] # NoTask
         /\ tasks[r].key # NoKey /\ tasks[r].key = tasks[s].key
         => r = s
    /\ \A k \in ensured : HasKey(k)

(* "AnnounceOverdue records task.overdue once per overdue episode; the     *)
(* stamp and the event commit together", with overlapping sweeps, crashes  *)
(* and copies written back from before the stamp.                          *)
AnnouncedOnce ==
    \A r \in Rows : overdueEvents[r] = IF r \in notified THEN 1 ELSE 0

(* A row is never a mixture of two versions: an escalated task is at least *)
(* major, and completed_at is set exactly on done tasks, also when stale   *)
(* copies overwrite newer rows (Escalate, TransitionTo).                   *)
RowsConsistent ==
    \A r \in Rows : tasks[r] # NoTask =>
        /\ tasks[r].escalated => tasks[r].priority # "minor"
        /\ tasks[r].completed <=> tasks[r].status = "done"

(* "done is terminal" (TestTaskTransitions): a closed task stays closed.   *)
ClosedStaysClosed ==
    [][\A r \in Rows : tasks[r] # NoTask /\ ~Active(tasks[r]) => tasks'[r].status = tasks[r].status]_vars

(* The overdue sweep reaches every overdue task that stays open.           *)
OverdueIsAnnounced ==
    \A r \in Rows : (Active(tasks[r]) /\ clock[r] \in {"overdue", "late"})
                      ~> (r \in notified \/ ~Active(tasks[r]))

(* "escalation never depends on someone opening the task screen": a task   *)
(* past its grace is escalated by the sweep, although users move it between*)
(* open and in_progress and stale copies overwrite it, unless it is closed,*)
(* the branch's rule is off, or the list has no room for it: escalated     *)
(* tasks that stay open keep their place at its head, and 500 of them hold *)
(* back every task that becomes late after them.                           *)
CrowdedOut(r) == room <= Cardinality({s \in OverdueOnly \ {r} : ~Before(r, s)})

LateIsEscalated ==
    \A r \in Rows : (Active(tasks[r]) /\ clock[r] = "late")
                      ~> (~Active(tasks[r]) \/ tasks[r].escalated \/ ~Enabled \/ CrowdedOut(r))

(* The sweeps catch up with every task that stays open and is listed.      *)
SweepsReachTasks == OverdueIsAnnounced /\ LateIsEscalated

-----------------------------------------------------------------------------
(* Values of Seed and Templates for TLC: one rule task (a second row is    *)
(* free for a duplicate of its key) and a manual task.                     *)
OneRuleSeed == [k \in Keys |-> [rule |-> "payment.promise", kind |-> "payment", priority |-> "minor"]]
OneTemplate == {[kind |-> "other", priority |-> "minor", due |-> FALSE]}
=============================================================================
