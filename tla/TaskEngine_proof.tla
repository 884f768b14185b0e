--------------------------- MODULE TaskEngine_proof ---------------------------
(***************************************************************************)
(* Safety of TaskEngine for any number of processes, tasks and keys.       *)
(*                                                                         *)
(* The inductive invariant adds to the checked invariants what the copies  *)
(* in flight look like: a process holds copies only of rows that exist,    *)
(* under their own key, and each copy is a consistent row.                 *)
(***************************************************************************)
EXTENDS TaskEngine, TLAPS

Consistent(t) ==
    /\ t.escalated => t.priority # "minor"
    /\ t.completed <=> t.status = "done"

(* A copy is of an existing row, keeps its key and could be a row itself.  *)
CopiesMatch ==
    \A p \in Procs, r \in Rows : job[p].copies[r] # NoTask =>
        /\ tasks[r] # NoTask
        /\ job[p].copies[r].key = tasks[r].key
        /\ Consistent(job[p].copies[r])

(* A seeder in the middle of a call knows its key.                         *)
SeedersHaveKeys ==
    \A p \in Procs : job[p].op \in {"lookup", "insert"} => job[p].key \in Keys

Inv ==
    /\ TypeOK
    /\ CopiesMatch
    /\ SeedersHaveKeys
    /\ OneTaskPerKey
    /\ AnnouncedOnce
    /\ RowsConsistent

-----------------------------------------------------------------------------
(* The idle job has its type.                                              *)
LEMMA IdleType == Idle \in Job
  BY DEF Idle, Job, Ops, Nothing, TaskOrNone

(* TransitionTo keeps the key and yields a consistent row (domain/task).   *)
LEMMA TransitionKeeps ==
  ASSUME NEW t \in Task, Consistent(t), NEW to \in Statuses
  PROVE  /\ TransitionTo(t, to) \in Task
         /\ TransitionTo(t, to).key = t.key
         /\ Consistent(TransitionTo(t, to))
  BY DEF TransitionTo, Consistent, Task

(* Escalate keeps the key and yields a consistent row (domain/task).       *)
LEMMA EscalateKeeps ==
  ASSUME NEW t \in Task, Consistent(t)
  PROVE  /\ Escalate(t) \in Task
         /\ Escalate(t).key = t.key
         /\ Consistent(Escalate(t))
  BY DEF Escalate, Consistent, Task, Levels

(* Init establishes the invariant: there are no rows and no copies.        *)
LEMMA InitInv == Init => Inv
<1> SUFFICES ASSUME Init PROVE Inv OBVIOUS
<1>1. TypeOK
  BY IdleType, TaskAssumption DEF Init, TypeOK, Nothing, TaskOrNone, Clocks
<1>2. CopiesMatch /\ SeedersHaveKeys
  BY DEF Init, CopiesMatch, SeedersHaveKeys, Idle, Nothing
<1>3. OneTaskPerKey /\ AnnouncedOnce /\ RowsConsistent
  BY DEF Init, OneTaskPerKey, AnnouncedOnce, RowsConsistent, Nothing
<1> QED BY <1>1, <1>2, <1>3 DEF Inv

-----------------------------------------------------------------------------
(* A step that begins or drops a unit of work: only job changes, and what  *)
(* it becomes is a job whose copies match.                                 *)
LEMMA JobStep ==
  ASSUME Inv, NEW p \in Procs, NEW j \in Job,
         job' = [job EXCEPT ![p] = j],
         \A r \in Rows : j.copies[r] # NoTask =>
            tasks[r] # NoTask /\ j.copies[r].key = tasks[r].key /\ Consistent(j.copies[r]),
         j.op \in {"lookup", "insert"} => j.key \in Keys,
         UNCHANGED <<tasks, clock, notified, overdueEvents, room, ensured>>,
         faults' \in 0 .. MaxFaults
  PROVE  Inv'
<1>1. TypeOK'
  BY DEF Inv, TypeOK
<1>2. CopiesMatch'
  BY DEF Inv, TypeOK, CopiesMatch
<1>3. SeedersHaveKeys'
  BY DEF Inv, TypeOK, SeedersHaveKeys
<1>4. OneTaskPerKey' /\ AnnouncedOnce' /\ RowsConsistent'
  BY DEF Inv, OneTaskPerKey, AnnouncedOnce, RowsConsistent, HasKey
<1> QED BY <1>1, <1>2, <1>3, <1>4 DEF Inv

(* Stage holds changed copies of existing rows.                            *)
LEMMA StageStep ==
  ASSUME Inv, NEW p \in Procs, NEW set \in SUBSET Rows, NEW to \in Statuses,
         \A r \in set : tasks[r] # NoTask,
         Stage(p, set, to)
  PROVE  Inv'
<1> DEFINE c == [r \in Rows |-> IF r \in set THEN TransitionTo(tasks[r], to) ELSE NoTask]
           j == [Idle EXCEPT !.op = "save", !.copies = c]
<1>1. \A r \in set : /\ tasks[r] \in Task
                     /\ Consistent(tasks[r])
  BY DEF Inv, TypeOK, TaskOrNone, RowsConsistent, Consistent
<1>2. \A r \in set : /\ TransitionTo(tasks[r], to) \in Task
                     /\ TransitionTo(tasks[r], to).key = tasks[r].key
                     /\ Consistent(TransitionTo(tasks[r], to))
  BY <1>1, TransitionKeeps
<1>3. c \in [Rows -> TaskOrNone]
  BY <1>2 DEF TaskOrNone
<1>4. j \in Job /\ j.copies = c /\ j.op = "save"
  BY <1>3, IdleType DEF Job, Idle, Ops
<1>5. \A r \in Rows : c[r] # NoTask =>
         tasks[r] # NoTask /\ c[r].key = tasks[r].key /\ Consistent(c[r])
  BY <1>2
<1>6. job' = [job EXCEPT ![p] = j] /\ faults' \in 0 .. MaxFaults
      /\ UNCHANGED <<tasks, clock, notified, overdueEvents, room, ensured>>
  BY DEF Stage, Inv, TypeOK
<1> HIDE DEF c, j
<1> QED BY <1>4, <1>5, <1>6, JobStep

(* Hold holds existing rows as they are.                                   *)
LEMMA HoldStep ==
  ASSUME Inv, NEW p \in Procs, NEW set \in SUBSET Rows, NEW op \in {"save", "escalate"},
         \A r \in set : tasks[r] # NoTask,
         Hold(p, op, set)
  PROVE  Inv'
<1> DEFINE c == [r \in Rows |-> IF r \in set THEN tasks[r] ELSE NoTask]
           j == [Idle EXCEPT !.op = op, !.copies = c]
<1>1. \A r \in set : Consistent(tasks[r])
  BY DEF Inv, RowsConsistent, Consistent
<1>2. c \in [Rows -> TaskOrNone]
  BY DEF Inv, TypeOK, TaskOrNone
<1>3. j \in Job /\ j.copies = c /\ j.op = op
  BY <1>2, IdleType DEF Job, Idle, Ops
<1>4. \A r \in Rows : c[r] # NoTask =>
         tasks[r] # NoTask /\ c[r].key = tasks[r].key /\ Consistent(c[r])
  BY <1>1
<1>5. job' = [job EXCEPT ![p] = j] /\ faults' \in 0 .. MaxFaults
      /\ UNCHANGED <<tasks, clock, notified, overdueEvents, room, ensured>>
  BY DEF Hold, Inv, TypeOK
<1> HIDE DEF c, j
<1> QED BY <1>3, <1>4, <1>5, JobStep

(* A step that returns to idle with nothing else changed.                  *)
LEMMA DropStep ==
  ASSUME Inv, NEW p \in Procs, job' = [job EXCEPT ![p] = Idle],
         UNCHANGED <<tasks, clock, notified, overdueEvents, room, ensured>>,
         faults' \in 0 .. MaxFaults
  PROVE  Inv'
<1>1. \A r \in Rows : Idle.copies[r] = NoTask
  BY DEF Idle, Nothing
<1>2. Idle.op = "idle"
  BY DEF Idle
<1> QED BY <1>1, <1>2, IdleType, JobStep

(* A process writes rows back: the new rows keep existence and key of the  *)
(* old ones and are consistent, and the process is idle afterwards.        *)
LEMMA WriteStep ==
  ASSUME Inv, NEW p \in Procs, job' = [job EXCEPT ![p] = Idle],
         tasks' \in [Rows -> TaskOrNone],
         \A r \in Rows : tasks[r] = NoTask => tasks'[r] = NoTask,
         \A r \in Rows : tasks[r] # NoTask =>
            tasks'[r] # NoTask /\ tasks'[r].key = tasks[r].key /\ Consistent(tasks'[r]),
         UNCHANGED <<clock, notified, overdueEvents, room, ensured, faults>>
  PROVE  Inv'
<1>1. TypeOK'
  BY IdleType DEF Inv, TypeOK
<1>2. CopiesMatch'
  <2>1. \A r \in Rows : Idle.copies[r] = NoTask
    BY DEF Idle, Nothing
  <2>2. \A q \in Procs : job'[q] = IF q = p THEN Idle ELSE job[q]
    BY DEF Inv, TypeOK
  <2> QED BY <2>1, <2>2 DEF Inv, CopiesMatch
<1>3. SeedersHaveKeys'
  BY DEF Inv, TypeOK, SeedersHaveKeys, Idle
<1>4. OneTaskPerKey'
  BY DEF Inv, OneTaskPerKey, HasKey
<1>5. AnnouncedOnce'
  BY DEF Inv, AnnouncedOnce
<1>6. RowsConsistent'
  BY DEF Inv, RowsConsistent, Consistent
<1> QED BY <1>1, <1>2, <1>3, <1>4, <1>5, <1>6 DEF Inv

-----------------------------------------------------------------------------
(* Every action that begins a unit of work keeps the invariant.            *)
LEMMA BeginInv ==
  ASSUME Inv, NEW p \in Procs, Begin(p)
  PROVE  Inv'
<1> USE DEF Statuses
<1>0. \A r \in Rows : tasks[r] # NoTask =>
        taskTransitions[tasks[r].status] \subseteq Statuses
  BY DEF Inv, TypeOK, TaskOrNone, Task, taskTransitions
<1>1. ASSUME NEW r \in Rows, NEW to \in Statuses, Transition(p, r, to) PROVE Inv'
  BY <1>1, StageStep DEF Transition
<1>2. ASSUME NEW r \in Rows, Complete(p, r) PROVE Inv'
  BY <1>2, StageStep DEF Complete
<1>3. ASSUME NEW r \in Rows, Cancel(p, r) PROVE Inv'
  BY <1>3, StageStep DEF Cancel
<1>4. ASSUME NEW r \in Rows, Assign(p, r) \/ LinkPackage(p, r) PROVE Inv'
  BY <1>4, HoldStep DEF Assign, LinkPackage, Active
<1>5. ASSUME NEW set \in SUBSET Rows, BulkAssign(p, set) PROVE Inv'
  BY <1>5, HoldStep DEF BulkAssign, Active
<1>6. ASSUME NEW rule, CloseByRule(p, rule) PROVE Inv'
  BY <1>6, StageStep DEF CloseByRule, Active
<1>7. ASSUME NEW r \in Rows, NEW done \in BOOLEAN, CloseTask(p, r, done) PROVE Inv'
  <2>1. CASE done
    BY <1>7, <2>1, StageStep DEF CloseTask, Active
  <2>2. CASE ~done
    BY <1>7, <2>2, StageStep DEF CloseTask, Active
  <2> QED BY <2>1, <2>2
<1>8. ASSUME onPaymentRecorded(p) PROVE Inv'
  BY <1>8, StageStep DEF onPaymentRecorded, Active
<1>9. ASSUME onBookingCancelled(p) PROVE Inv'
  BY <1>9, StageStep DEF onBookingCancelled, Active
<1>10. ASSUME EscalateList(p) PROVE Inv'
  <2>1. PICK list \in SUBSET OverdueOnly : Hold(p, "escalate", list)
    BY <1>10 DEF EscalateList
  <2> QED BY <2>1, HoldStep DEF OverdueOnly, Active
<1>11. ASSUME AnnounceList(p) PROVE Inv'
  <2>0. PICK list \in SUBSET (OverdueOnly \ notified) :
          job' = [job EXCEPT ![p] = [Idle EXCEPT !.op = "announce", !.left = list]]
    BY <1>11 DEF AnnounceList
  <2> DEFINE j == [Idle EXCEPT !.op = "announce", !.left = list]
  <2>1. j \in Job /\ j.copies = Nothing /\ j.op = "announce"
    BY IdleType DEF Job, Idle, Ops, OverdueOnly
  <2>2. job' = [job EXCEPT ![p] = j] /\ faults' \in 0 .. MaxFaults
        /\ UNCHANGED <<tasks, clock, notified, overdueEvents, room, ensured>>
    BY <1>11, <2>0 DEF AnnounceList, Inv, TypeOK
  <2> HIDE DEF j
  <2> QED BY <2>1, <2>2, JobStep DEF Nothing
<1>12. ASSUME NEW k \in Keys,
              job' = [job EXCEPT ![p] = [Idle EXCEPT !.op = "lookup", !.key = k]],
              UNCHANGED <<tasks, clock, notified, overdueEvents, room, ensured, faults>>
       PROVE Inv'
  <2> DEFINE j == [Idle EXCEPT !.op = "lookup", !.key = k]
  <2>1. j \in Job /\ j.copies = Nothing /\ j.op = "lookup" /\ j.key = k
    BY IdleType DEF Job, Idle, Ops
  <2>2. job' = [job EXCEPT ![p] = j] /\ faults' \in 0 .. MaxFaults
    BY <1>12 DEF Inv, TypeOK
  <2> HIDE DEF j
  <2> QED BY <1>12, <2>1, <2>2, JobStep DEF Nothing
<1>13. ASSUME NEW k \in Keys, EnsureTask(p, k) PROVE Inv'
  <2>1. CASE HasKey(k)
    <3>1. TypeOK' /\ CopiesMatch' /\ SeedersHaveKeys'
      BY <1>13, <2>1 DEF EnsureTask, Inv, TypeOK, CopiesMatch, SeedersHaveKeys
    <3>2. OneTaskPerKey' /\ AnnouncedOnce' /\ RowsConsistent'
      BY <1>13, <2>1 DEF EnsureTask, Inv, OneTaskPerKey, AnnouncedOnce, RowsConsistent, HasKey
    <3> QED BY <3>1, <3>2 DEF Inv
  <2>2. CASE ~HasKey(k)
    BY <1>12, <1>13, <2>2 DEF EnsureTask
  <2> QED BY <2>1, <2>2
<1>14. ASSUME NEW k \in Keys, EnsureTaskID(p, k) PROVE Inv'
  BY <1>12, <1>14 DEF EnsureTaskID
<1> QED
  BY <1>1, <1>2, <1>3, <1>4, <1>5, <1>6, <1>7, <1>8, <1>9, <1>10, <1>11, <1>13, <1>14 DEF Begin

(* Every step of a unit of work under way keeps the invariant.             *)
LEMMA ContinueInv ==
  ASSUME Inv, NEW p \in Procs, Continue(p)
  PROVE  Inv'
<1>1. ASSUME WriteBack(p) PROVE Inv'
  <2>1. tasks' \in [Rows -> TaskOrNone]
    BY <1>1 DEF WriteBack, Inv, TypeOK, Job
  <2>2. \A r \in Rows : tasks[r] = NoTask => tasks'[r] = NoTask
    BY <1>1 DEF WriteBack, Inv, CopiesMatch
  <2>3. \A r \in Rows : tasks[r] # NoTask =>
          tasks'[r] # NoTask /\ tasks'[r].key = tasks[r].key /\ Consistent(tasks'[r])
    BY <1>1 DEF WriteBack, Inv, CopiesMatch, RowsConsistent, Consistent
  <2> QED BY <1>1, <2>1, <2>2, <2>3, WriteStep DEF WriteBack
<1>2. ASSUME EscalateWrite(p) PROVE Inv'
  <2> DEFINE c == job[p].copies
  <2>1. \A r \in Rows : c[r] # NoTask =>
          /\ c[r] \in Task /\ Consistent(c[r]) /\ tasks[r] # NoTask
          /\ Escalate(c[r]) \in Task /\ Escalate(c[r]).key = tasks[r].key
          /\ Consistent(Escalate(c[r]))
    <3>1. \A r \in Rows : c[r] # NoTask => c[r] \in Task
      BY DEF Inv, TypeOK, Job, TaskOrNone
    <3> QED BY <3>1, EscalateKeeps DEF Inv, CopiesMatch
  <2>2. \A r \in Rows : tasks'[r] = IF Enabled /\ ShouldEscalate(c[r], clock[r]) THEN Escalate(c[r]) ELSE tasks[r]
    BY <1>2 DEF EscalateWrite
  <2>3. \A r \in Rows : ShouldEscalate(c[r], clock[r]) => c[r] # NoTask
    BY DEF ShouldEscalate
  <2>4. \A r \in Rows : tasks[r] # NoTask => Consistent(tasks[r])
    BY DEF Inv, RowsConsistent, Consistent
  <2>5. tasks' \in [Rows -> TaskOrNone]
    <3>1. \A r \in Rows : (IF Enabled /\ ShouldEscalate(c[r], clock[r]) THEN Escalate(c[r]) ELSE tasks[r]) \in TaskOrNone
      BY <2>1, <2>3 DEF Inv, TypeOK, TaskOrNone
    <3> QED BY <3>1, <1>2 DEF EscalateWrite
  <2>6. \A r \in Rows : tasks[r] = NoTask => tasks'[r] = NoTask
    BY <2>1, <2>2, <2>3
  <2>7. \A r \in Rows : tasks[r] # NoTask =>
          tasks'[r] # NoTask /\ tasks'[r].key = tasks[r].key /\ Consistent(tasks'[r])
    BY <2>1, <2>2, <2>3, <2>4, TaskAssumption
  <2> QED BY <1>2, <2>5, <2>6, <2>7, WriteStep DEF EscalateWrite
<1>3. ASSUME NEW r \in Rows, AnnounceOne(p, r) PROVE Inv'
  <2> DEFINE j == Dequeue(p, r)
  <2>1. /\ j \in Job
        /\ \A s \in Rows : j.copies[s] # NoTask => j.copies[s] = job[p].copies[s]
        /\ j.op \in {"idle", "announce"}
    BY <1>3, IdleType DEF AnnounceOne, Dequeue, Inv, TypeOK, Job, Idle, Nothing, Ops
  <2>2. job' = [job EXCEPT ![p] = j]
    BY <1>3 DEF AnnounceOne
  <2> HIDE DEF j
  <2>3. TypeOK'
    BY <1>3, <2>1, <2>2 DEF AnnounceOne, Inv, TypeOK
  <2>4. CopiesMatch' /\ SeedersHaveKeys'
    BY <1>3, <2>1, <2>2 DEF AnnounceOne, Inv, TypeOK, CopiesMatch, SeedersHaveKeys
  <2>5. OneTaskPerKey' /\ RowsConsistent'
    BY <1>3 DEF AnnounceOne, Inv, OneTaskPerKey, RowsConsistent, HasKey
  <2>6. AnnouncedOnce'
    BY <1>3 DEF AnnounceOne, Inv, TypeOK, AnnouncedOnce
  <2> QED BY <2>3, <2>4, <2>5, <2>6 DEF Inv
<1>4. ASSUME LookupInTx(p) PROVE Inv'
  <2>1. job[p].key \in Keys
    BY <1>4 DEF LookupInTx, Inv, SeedersHaveKeys
  <2>2. CASE HasKey(job[p].key)
    <3>1. TypeOK'
      BY <1>4, <2>1, <2>2, IdleType DEF LookupInTx, Inv, TypeOK
    <3>2. CopiesMatch' /\ SeedersHaveKeys'
      BY <1>4, <2>2 DEF LookupInTx, Inv, TypeOK, CopiesMatch, SeedersHaveKeys, Idle, Nothing
    <3>3. OneTaskPerKey' /\ AnnouncedOnce' /\ RowsConsistent'
      BY <1>4, <2>2 DEF LookupInTx, Inv, OneTaskPerKey, AnnouncedOnce, RowsConsistent, HasKey
    <3> QED BY <3>1, <3>2, <3>3 DEF Inv
  <2>3. CASE ~HasKey(job[p].key)
    <3> DEFINE j == [job[p] EXCEPT !.op = "insert"]
    <3>1. j \in Job /\ j.copies = job[p].copies /\ j.key = job[p].key
      BY DEF Inv, TypeOK, Job, Ops
    <3>2. job' = [job EXCEPT ![p] = j] /\ faults' \in 0 .. MaxFaults
          /\ UNCHANGED <<tasks, clock, notified, overdueEvents, room, ensured>>
      BY <1>4, <2>3 DEF LookupInTx, Inv, TypeOK
    <3> HIDE DEF j
    <3>3. \A r \in Rows : j.copies[r] # NoTask =>
            tasks[r] # NoTask /\ j.copies[r].key = tasks[r].key /\ Consistent(j.copies[r])
      BY <3>1 DEF Inv, CopiesMatch
    <3> QED BY <2>1, <3>1, <3>2, <3>3, JobStep
  <2> QED BY <2>2, <2>3
<1>5. ASSUME NEW r \in RuleRows, InsertTask(p, r) PROVE Inv'
  <2> DEFINE k == job[p].key
             t == NewTask(k, Seed[k])
  <2>0. r \in Rows
    BY DEF Rows
  <2>1. k \in Keys
    BY <1>5 DEF InsertTask, Inv, SeedersHaveKeys
  <2>2. t \in Task /\ t.key = k /\ Consistent(t) /\ t # NoTask
    <3>1. Seed[k].kind \in Kinds /\ Seed[k].priority \in Levels
      BY <2>1, TaskAssumption
    <3>2. t \in Task /\ t.key = k /\ Consistent(t)
      BY <2>1, <3>1 DEF NewTask, Task, Consistent, Statuses
    <3> QED BY <3>2, TaskAssumption
  <2>3. \A s \in Rows : tasks'[s] = IF s = r THEN t ELSE tasks[s]
    BY <1>5, <2>0 DEF InsertTask, Inv, TypeOK
  <2>4. \A s \in Rows : tasks[s] # NoTask => tasks[s].key # k
    BY <1>5 DEF InsertTask, HasKey
  <2>5. ensured' = ensured \cup {k} /\ job' = [job EXCEPT ![p] = Idle]
        /\ UNCHANGED <<notified, overdueEvents, room, faults>>
    BY <1>5 DEF InsertTask
  <2>6. TypeOK'
    <3>1. tasks' \in [Rows -> TaskOrNone]
      BY <1>5, <2>0, <2>2 DEF InsertTask, Inv, TypeOK, TaskOrNone
    <3>2. clock' \in [Rows -> Clocks]
      BY <1>5, <2>0 DEF InsertTask, Inv, TypeOK, Clocks
    <3> QED BY <2>1, <2>5, <3>1, <3>2, IdleType DEF Inv, TypeOK
  <2> HIDE DEF k, t
  <2>7. CopiesMatch'
    <3>1. \A q \in Procs : job'[q] = IF q = p THEN Idle ELSE job[q]
      BY <2>5 DEF Inv, TypeOK
    <3>2. tasks[r] = NoTask
      BY <1>5 DEF InsertTask
    <3> QED BY <2>3, <3>1, <3>2 DEF Inv, CopiesMatch, Idle, Nothing
  <2>8. SeedersHaveKeys'
    BY <2>5 DEF Inv, TypeOK, SeedersHaveKeys, Idle
  <2>9. OneTaskPerKey'
    <3>1. \A x, y \in Rows :
            /\ tasks'[x] # NoTask /\ tasks'[y] # NoTask
            /\ tasks'[x].key # NoKey /\ tasks'[x].key = tasks'[y].key
            => x = y
      BY <2>2, <2>3, <2>4 DEF Inv, OneTaskPerKey
    <3>2. \A e \in ensured' : \E s \in Rows : tasks'[s] # NoTask /\ tasks'[s].key = e
      <4>1. \A e \in ensured : \E s \in Rows : tasks[s] # NoTask /\ tasks[s].key = e /\ s # r
        BY <1>5 DEF Inv, OneTaskPerKey, HasKey, InsertTask
      <4>2. ASSUME NEW e \in ensured
            PROVE  \E s \in Rows : tasks'[s] # NoTask /\ tasks'[s].key = e
        <5>1. PICK s \in Rows : tasks[s] # NoTask /\ tasks[s].key = e /\ s # r
          BY <4>1
        <5>2. tasks'[s] = tasks[s]
          BY <2>3, <5>1
        <5> QED BY <5>1, <5>2
      <4>3. tasks'[r] # NoTask /\ tasks'[r].key = k
        BY <2>0, <2>2, <2>3
      <4> QED BY <2>0, <2>5, <4>2, <4>3
    <3> QED BY <3>1, <3>2 DEF OneTaskPerKey, HasKey
  <2>10. AnnouncedOnce'
    BY <2>5 DEF Inv, AnnouncedOnce
  <2>11. RowsConsistent'
    <3>1. \A s \in Rows : tasks[s] # NoTask => Consistent(tasks[s])
      BY DEF Inv, RowsConsistent, Consistent
    <3>2. \A s \in Rows : tasks'[s] # NoTask => Consistent(tasks'[s])
      BY <2>2, <2>3, <3>1
    <3> QED BY <3>2 DEF RowsConsistent, Consistent
  <2> QED BY <2>6, <2>7, <2>8, <2>9, <2>10, <2>11 DEF Inv
<1>6. ASSUME InsertRefused(p) PROVE Inv'
  BY <1>6, DropStep DEF InsertRefused, Inv, TypeOK
<1> QED BY <1>1, <1>2, <1>3, <1>4, <1>5, <1>6 DEF Continue

(* One action of the engine, or a stutter, keeps the invariant.            *)
LEMMA NextInv == Inv /\ [Next]_vars => Inv'
<1> SUFFICES ASSUME Inv, [Next]_vars PROVE Inv' OBVIOUS
<1>1. ASSUME NEW p \in Procs, Abandon(p) PROVE Inv'
  <2>1. faults' \in 0 .. MaxFaults
    BY <1>1, TaskAssumption DEF Abandon, Inv, TypeOK
  <2> QED BY <1>1, <2>1, DropStep DEF Abandon
<1>2. ASSUME NEW r \in ManualRows, NEW t \in Templates, Create(r, t) PROVE Inv'
  <2> DEFINE n == NewTask(NoKey, t)
  <2>0. r \in Rows /\ tasks[r] = NoTask
    BY <1>2 DEF Rows, Create
  <2>1. n \in Task /\ n.key = NoKey /\ Consistent(n) /\ n # NoTask
    <3>1. t.kind \in Kinds /\ t.priority \in Levels
      BY TaskAssumption
    <3>2. n \in Task /\ n.key = NoKey /\ Consistent(n)
      BY <3>1 DEF NewTask, Task, Consistent, Statuses
    <3> QED BY <3>2, TaskAssumption
  <2>2. \A s \in Rows : tasks'[s] = IF s = r THEN n ELSE tasks[s]
    BY <1>2, <2>0 DEF Create, Inv, TypeOK
  <2>3. TypeOK'
    BY <1>2, <2>0, <2>1 DEF Create, Inv, TypeOK, TaskOrNone, Clocks
  <2> HIDE DEF n
  <2>4. CopiesMatch' /\ SeedersHaveKeys'
    BY <1>2, <2>0, <2>2 DEF Create, Inv, CopiesMatch, SeedersHaveKeys
  <2>5. OneTaskPerKey'
    BY <1>2, <2>0, <2>1, <2>2 DEF Create, Inv, OneTaskPerKey, HasKey
  <2>6. AnnouncedOnce'
    BY <1>2 DEF Create, Inv, AnnouncedOnce
  <2>7. RowsConsistent'
    <3>1. \A s \in Rows : tasks[s] # NoTask => Consistent(tasks[s])
      BY DEF Inv, RowsConsistent, Consistent
    <3>2. \A s \in Rows : tasks'[s] # NoTask => Consistent(tasks'[s])
      BY <2>1, <2>2, <3>1
    <3> QED BY <3>2 DEF RowsConsistent, Consistent
  <2> QED BY <2>3, <2>4, <2>5, <2>6, <2>7 DEF Inv
<1>3. ASSUME NEW r \in Rows, Tick(r) PROVE Inv'
  <2>1. TypeOK'
    BY <1>3 DEF Tick, Inv, TypeOK, Clocks
  <2>2. CopiesMatch' /\ SeedersHaveKeys'
    BY <1>3 DEF Tick, Inv, CopiesMatch, SeedersHaveKeys
  <2>3. OneTaskPerKey' /\ AnnouncedOnce' /\ RowsConsistent'
    BY <1>3 DEF Tick, Inv, OneTaskPerKey, AnnouncedOnce, RowsConsistent, HasKey
  <2> QED BY <2>1, <2>2, <2>3 DEF Inv
<1>a. ASSUME OthersMove PROVE Inv'
  <2>1. TypeOK' /\ CopiesMatch' /\ SeedersHaveKeys'
    BY <1>a DEF OthersMove, Inv, TypeOK, CopiesMatch, SeedersHaveKeys
  <2>2. OneTaskPerKey' /\ AnnouncedOnce' /\ RowsConsistent'
    BY <1>a DEF OthersMove, Inv, OneTaskPerKey, AnnouncedOnce, RowsConsistent, HasKey
  <2> QED BY <2>1, <2>2 DEF Inv
<1>4. CASE UNCHANGED vars
  <2>1. TypeOK' /\ CopiesMatch' /\ SeedersHaveKeys'
    BY <1>4 DEF vars, Inv, TypeOK, CopiesMatch, SeedersHaveKeys
  <2>2. OneTaskPerKey' /\ AnnouncedOnce' /\ RowsConsistent'
    BY <1>4 DEF vars, Inv, OneTaskPerKey, AnnouncedOnce, RowsConsistent, HasKey
  <2> QED BY <2>1, <2>2 DEF Inv
<1> QED BY <1>1, <1>2, <1>3, <1>a, <1>4, BeginInv, ContinueInv DEF Next

-----------------------------------------------------------------------------
(* The inductive invariant holds in every reachable state.                 *)
THEOREM EngineInvariant == Spec => []Inv
  BY InitInv, NextInv, PTL DEF Spec

(* Type correctness of the task engine.                                    *)
THEOREM EngineTypeCorrect == Spec => []TypeOK
<1>1. Inv => TypeOK
  BY DEF Inv
<1> QED BY <1>1, EngineInvariant, PTL

(* ensureTask and ensureTaskID leave one task per idempotency key, however *)
(* many handlers race on it.                                               *)
THEOREM OneTaskPerKeyHolds == Spec => []OneTaskPerKey
<1>1. Inv => OneTaskPerKey
  BY DEF Inv
<1> QED BY <1>1, EngineInvariant, PTL

(* AnnounceOverdue records one event per stamped task, however many sweeps *)
(* overlap and whatever stale copies are written back.                     *)
THEOREM AnnouncedOnceHolds == Spec => []AnnouncedOnce
<1>1. Inv => AnnouncedOnce
  BY DEF Inv
<1> QED BY <1>1, EngineInvariant, PTL

(* Stale copies never mix two versions of a row.                           *)
THEOREM RowsConsistentHolds == Spec => []RowsConsistent
<1>1. Inv => RowsConsistent
  BY DEF Inv
<1> QED BY <1>1, EngineInvariant, PTL
=============================================================================
