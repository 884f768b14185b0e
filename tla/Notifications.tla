--------------------------- MODULE Notifications ---------------------------
(***************************************************************************)
(* Notifications: an alert is folded into the recipient's open row of its  *)
(* group, is acknowledged or resolved by the recipient, and is escalated   *)
(* to the managers by a sweep when it stands open too long.                *)
(* Modelled code: src/internal/app/notification,                           *)
(* src/internal/domain/notification, adapter/postgres/notification.        *)
(*                                                                         *)
(* No operation locks the row it read: every write puts a whole copy back, *)
(* so each one is a read step and a write step and the copies may be old.  *)
(* The sweep is scheduled every five minutes and takes no lock and claims  *)
(* no row.  The queue keeps a second task of the kind out for less than a  *)
(* minute, retries one that failed and works on several at a time, so runs *)
(* overlap; one may crash between any two of its statements.  Titles,      *)
(* bodies and the e-mail and push copies, which fail silently, are left    *)
(* out.                                                                    *)
(***************************************************************************)
EXTENDS Rows, FiniteSets, FiniteSetsExt

CONSTANTS NoteIds,      \* ids of notification rows
          MaxReports,   \* alerts reported at most
          LastNoteTick, \* last tick of the clock
          ListCap       \* rows one page of a list may hold (100)

VARIABLES
    notes,              \* notifications: id -> row
    noteDesk,           \* request or run of the sweep -> what it has read and is about to write
    overtaken,          \* history: run -> rows of its list another one took since
    noteTick,           \* the clock
    reported,           \* id -> alerts folded into the row so far
    escalations         \* id -> times a run not overtaken took the row to pass it on

noteVars == <<notes, noteDesk, overtaken, noteTick, reported, escalations>>

Owner == "owner"
Manager == "gm"
NoteUsers == {Owner, Manager}

-----------------------------------------------------------------------------
(* rules.go.  The rules come in two shapes: one that folds a branch's      *)
(* alerts and escalates, and one told per entity that never escalates.     *)
NoteKinds == {"sla_breached", "booking_confirmed"}
DefaultRules ==
    [k \in NoteKinds |->
        CASE k = "sla_breached"      -> [severity |-> 2, after |-> 1, to |-> {Manager}, groupable |-> TRUE]
          [] k = "booking_confirmed" -> [severity |-> 1, after |-> 0, to |-> {},        groupable |-> FALSE]]
MatchRule(kind) == DefaultRules[kind]
Escalates(rule) == rule.after > 0 /\ rule.to # {}
Due(rule, created, now) == Escalates(rule) /\ created + rule.after <= now

(* model.go.  Severities are ranked 1 info, 2 warning, 3 critical.         *)
Critical == 3
BuildGroupKey(kind, entity) == IF MatchRule(kind).groupable THEN <<kind, "branch">> ELSE <<kind, entity>>
BumpOccurrence(n, severity) == [n EXCEPT !.count = @ + 1, !.severity = IF severity >= @ THEN severity ELSE @]
Acknowledge(n) == {m \in {[n EXCEPT !.status = "acknowledged"]} : n.status # "resolved"}
Resolve(n) == [n EXCEPT !.status = "resolved"]
IsEscalation(n) == n.from # NoRow

(* repository.go.                                                          *)
FindOpenByGroup(to, key) ==
    {id \in Present(notes) : notes[id].to = to /\ notes[id].key = key /\ notes[id].status = "open"}
OpenOf(user) == {id \in Present(notes) : notes[id].to = user /\ notes[id].status = "open"}
(* A page holds the most severe rows first; ties go by age, left open here.*)
ListOpen(user) ==
    {page \in SUBSET OpenOf(user) :
        /\ Cardinality(page) = Min({ListCap, Cardinality(OpenOf(user))})
        /\ \A i \in page, j \in OpenOf(user) \ page : notes[i].severity >= notes[j].severity}
(* A list that also takes the rows someone has acknowledged.               *)
ListUnresolvedCandidates(now) ==
    {id \in Present(notes) : notes[id].status # "resolved" /\ notes[id].at < now /\ ~IsEscalation(notes[id])}
ListEscalationCandidates(now) ==
    {id \in Present(notes) : notes[id].status = "open" /\ notes[id].at < now /\ ~IsEscalation(notes[id])}

Update(id, copy) == notes' = [notes EXCEPT ![id] = copy]

-----------------------------------------------------------------------------
(* Emit.  The alert goes into the open row the transaction found, or into  *)
(* a row of its own; a row it folds into takes the new alert's meta.       *)
EmitRead(in) ==
    LET open == FindOpenByGroup(in.to, in.key)
    IN  IF open = {} THEN {[in |-> in, id |-> NoRow, copy |-> NoRow]}
        ELSE {[in |-> in, id |-> id, copy |-> notes[id]] : id \in open}
NewNote(in) == [to |-> in.to, key |-> in.key, kind |-> in.kind, severity |-> in.severity, count |-> 1,
                status |-> "open", from |-> in.from, at |-> noteTick]
EmitWrite(e) ==
    \E id \in (IF e.id # NoRow THEN {e.id} ELSE Fresh(notes)) :
        /\ Update(id, IF e.id # NoRow THEN [BumpOccurrence(e.copy, e.in.severity) EXCEPT !.from = e.in.from]
                      ELSE NewNote(e.in))
        /\ reported' = [reported EXCEPT ![id] = @ + 1]
Alert(to, kind, entity, severity, from) ==
    [to |-> to, kind |-> kind, key |-> BuildGroupKey(kind, entity), severity |-> severity, from |-> from]
Reports == MapThenSumSet(LAMBDA id : reported[id], NoteIds)

(* reactor.go: what the bus makes of an event.  A breach is told to the    *)
(* conversation's owner and to every manager, a confirmation to the owner. *)
OnSLABreached == {Alert(u, "sla_breached", "e1", MatchRule("sla_breached").severity, NoRow) : u \in NoteUsers}
OnBookingConfirmed(entity) == {Alert(Owner, "booking_confirmed", entity, MatchRule("booking_confirmed").severity, NoRow)}
Emitted == OnSLABreached \cup OnBookingConfirmed("e1")

Emit(d) ==
    /\ noteDesk[d] = Free
    /\ Reports < MaxReports
    /\ \E in \in Emitted : \E e \in EmitRead(in) : noteDesk' = [noteDesk EXCEPT ![d] = [op |-> "emit", e |-> e]]
    /\ UNCHANGED <<notes, overtaken, noteTick, reported, escalations>>
EmitCommit(d) ==
    /\ noteDesk[d].op = "emit"
    /\ EmitWrite(noteDesk[d].e)
    /\ noteDesk' = [noteDesk EXCEPT ![d] = Free]
    /\ UNCHANGED <<overtaken, noteTick, escalations>>

-----------------------------------------------------------------------------
(* Acknowledge and Resolve, by the recipient alone, and AcknowledgeAll,    *)
(* which reads one page and then writes its copies back one by one.        *)
Mutate(d) ==
    /\ noteDesk[d] = Free
    /\ \E id \in Present(notes) :
        \E copy \in Acknowledge(notes[id]) \cup {Resolve(notes[id])} :
            noteDesk' = [noteDesk EXCEPT ![d] = [op |-> "write", left |-> [i \in {id} |-> copy]]]
    /\ UNCHANGED <<notes, overtaken, noteTick, reported, escalations>>
AcknowledgeAll(d) ==
    /\ noteDesk[d] = Free
    /\ \E user \in NoteUsers : \E page \in ListOpen(user) :
        /\ page # {}
        /\ noteDesk' = [noteDesk EXCEPT ![d] =
              [op |-> "write", left |-> [i \in page |-> CHOOSE n \in Acknowledge(notes[i]) : TRUE]]]
    /\ UNCHANGED <<notes, overtaken, noteTick, reported, escalations>>
WriteNotes(d) ==
    /\ noteDesk[d].op = "write"
    /\ \E id \in DOMAIN noteDesk[d].left :
        LET rest == DOMAIN noteDesk[d].left \ {id}
        IN  /\ Update(id, noteDesk[d].left[id])
            /\ noteDesk' = [noteDesk EXCEPT ![d] =
                  IF rest = {} THEN Free ELSE [@ EXCEPT !.left = [i \in rest |-> noteDesk[d].left[i]]]]
    /\ UNCHANGED <<overtaken, noteTick, reported, escalations>>

-----------------------------------------------------------------------------
(* ProcessEscalations: one list, then for each row that is due a write of  *)
(* the acknowledged copy and an alert to every manager.                    *)
Sweeping(d) == noteDesk[d].op \in {"listed", "told", "tell"}
SweepList(d) ==
    /\ noteDesk[d] = Free
    /\ noteDesk' = [noteDesk EXCEPT ![d] = [op |-> "listed", left |-> [id \in ListEscalationCandidates(noteTick) |-> notes[id]]]]
    /\ UNCHANGED <<notes, overtaken, noteTick, reported, escalations>>
Taken(d, id) ==
    /\ overtaken' = [c \in Desks |-> IF c = d THEN overtaken[c] \ {id}
                                     ELSE overtaken[c] \cup (IF Sweeping(c) THEN {id} \cap DOMAIN noteDesk[c].left ELSE {})]
    /\ escalations' = [escalations EXCEPT ![id] = IF id \in overtaken[d] THEN @ ELSE @ + 1]
SweepItem(d) ==
    /\ noteDesk[d].op = "listed"
    /\ \E id \in DOMAIN noteDesk[d].left :
        LET copy == noteDesk[d].left[id]
            rest == [i \in DOMAIN noteDesk[d].left \ {id} |-> noteDesk[d].left[i]]
        IN  IF Due(MatchRule(copy.kind), copy.at, noteTick)
            THEN \E acked \in Acknowledge(copy) :
                    /\ Update(id, acked)
                    /\ noteDesk' = [noteDesk EXCEPT ![d] =
                          [op |-> "told", left |-> rest, in |-> Alert(Manager, copy.kind, "e1", Critical, id)]]
                    /\ Taken(d, id)
            ELSE /\ noteDesk' = [noteDesk EXCEPT ![d] = [op |-> "listed", left |-> rest]]
                 /\ overtaken' = [overtaken EXCEPT ![d] = @ \ {id}]
                 /\ UNCHANGED <<notes, escalations>>
    /\ UNCHANGED <<noteTick, reported>>
SweepFind(d) ==
    /\ noteDesk[d].op = "told"
    /\ \E e \in EmitRead(noteDesk[d].in) :
        noteDesk' = [noteDesk EXCEPT ![d] = [op |-> "tell", left |-> noteDesk[d].left, e |-> e]]
    /\ UNCHANGED <<notes, overtaken, noteTick, reported, escalations>>
SweepWrite(d) ==
    /\ noteDesk[d].op = "tell"
    /\ EmitWrite(noteDesk[d].e)
    /\ noteDesk' = [noteDesk EXCEPT ![d] = [op |-> "listed", left |-> noteDesk[d].left]]
    /\ UNCHANGED <<overtaken, noteTick, escalations>>
(* Telling the managers fails: it is logged, and the run goes on with the  *)
(* next row; the row it acknowledged is not passed on.                     *)
SweepTellFails(d) ==
    /\ noteDesk[d].op \in {"told", "tell"}
    /\ noteDesk' = [noteDesk EXCEPT ![d] = [op |-> "listed", left |-> noteDesk[d].left]]
    /\ UNCHANGED <<notes, overtaken, noteTick, reported, escalations>>
SweepEnd(d) ==
    /\ noteDesk[d].op = "listed" /\ DOMAIN noteDesk[d].left = {}
    /\ noteDesk' = [noteDesk EXCEPT ![d] = Free]
    /\ UNCHANGED <<notes, overtaken, noteTick, reported, escalations>>
SweepCrash(d) ==
    /\ Sweeping(d)
    /\ noteDesk' = [noteDesk EXCEPT ![d] = Free]
    /\ overtaken' = [overtaken EXCEPT ![d] = {}]
    /\ UNCHANGED <<notes, noteTick, reported, escalations>>
NoteTick ==
    /\ noteTick < LastNoteTick
    /\ noteTick' = noteTick + 1
    /\ UNCHANGED <<notes, noteDesk, overtaken, reported, escalations>>

NoteInit ==
    /\ notes = [id \in NoteIds |-> NoRow]
    /\ noteDesk = [d \in Desks |-> Free]
    /\ overtaken = [d \in Desks |-> {}]
    /\ noteTick = 0
    /\ reported = [id \in NoteIds |-> 0]
    /\ escalations = [id \in NoteIds |-> 0]
NoteRequest(d) == Emit(d) \/ EmitCommit(d) \/ Mutate(d) \/ AcknowledgeAll(d) \/ WriteNotes(d)
NoteSweep(d) ==
    \/ SweepList(d) \/ SweepItem(d) \/ SweepFind(d) \/ SweepWrite(d)
    \/ SweepTellFails(d) \/ SweepEnd(d) \/ SweepCrash(d)
NoteNext == NoteTick \/ \E d \in Desks : NoteRequest(d) \/ NoteSweep(d)

-----------------------------------------------------------------------------
NoteRow == [to : NoteUsers, key : NoteKinds \X {"branch", "e1"}, kind : NoteKinds, severity : 1 .. 3,
            count : Nat \ {0}, status : {"open", "acknowledged", "resolved"},
            from : NoteIds \cup {NoRow}, at : 0 .. LastNoteTick]

ASSUME NoteAssumption == LastNoteTick \in Nat /\ NoRow \notin NoteRow \cup NoteIds

NotesTypeOK ==
    /\ \A id \in NoteIds : notes[id] # NoRow => notes[id] \in NoteRow
    /\ noteTick \in 0 .. LastNoteTick
    /\ \A d \in Desks : overtaken[d] \subseteq (IF Sweeping(d) THEN DOMAIN noteDesk[d].left ELSE {})

(* A row that carries an escalation is critical: an alert folded in later  *)
(* and a copy written back late keep the severity and the mark together.   *)
EscalationIsCritical == \A id \in Present(notes) : IsEscalation(notes[id]) => notes[id].severity = Critical

(* A row never counts more alerts than were folded into it, and at most    *)
(* once per alert a sweep takes it to pass it on: it acknowledges the row  *)
(* before it tells the managers, and only a new alert opens it again.  A   *)
(* run that listed the row before another one took it takes it again, and  *)
(* only such a run does: nothing in the code keeps it from that.           *)
EscalatedOncePerAlert ==
    \A id \in NoteIds : notes[id] # NoRow =>
        /\ notes[id].count <= reported[id]
        /\ escalations[id] <= reported[id]

=============================================================================
