----------------------------- MODULE Documents -----------------------------
(***************************************************************************)
(* The documents of one booking: upload, review, replacement, the          *)
(* checklist they satisfy, and the daily expiry sweep.                     *)
(* Modelled code: src/internal/app/document/service.go,                    *)
(* src/internal/domain/document/model.go,                                  *)
(* src/internal/adapter/postgres/document and postgres/schedule.           *)
(*                                                                         *)
(* Transitions read a document without a lock and write every column back; *)
(* the sweep does so from the copies it listed.  File, storage key and     *)
(* uploader are abstracted; expiry is kept in days.                        *)
(***************************************************************************)
EXTENDS Rows

CONSTANTS
    DocIds,            \* bound: documents, numbered from one
    DocKinds,          \* kinds the policy may require
    Expiries,          \* days a document may expire on, NoRow for never
    ReminderDays,      \* days ahead at which a reminder goes out
    LastDay,           \* bound: the last day
    MaxDocJobs         \* bound: transitions and sweeps begun

ASSUME DocAssumption ==
    /\ DocIds \subseteq Nat /\ ReminderDays \subseteq Nat \ {0} /\ LastDay \in Nat /\ MaxDocJobs \in Nat
    /\ Expiries \subseteq Nat \cup {NoRow}

VARIABLES
    docs,              \* id -> documents row
    required,          \* kinds the active policy requires
    today,             \* the day
    claimed,           \* run ledger: document and slot reminded
    docJobs,           \* transitions and sweeps begun
    djob,              \* desk -> what it holds between two steps
    reminders          \* history: <<document, slot>> -> reminders sent

docVars == <<docs, required, today, claimed, docJobs, djob, reminders>>

DocStatuses == {"pending", "uploaded", "submitted", "approved", "rejected", "expired"}
docTransitions == [s \in DocStatuses |->
    CASE s = "pending"   -> {"uploaded", "expired"}
      [] s = "uploaded"  -> {"submitted", "expired", "rejected"}
      [] s = "submitted" -> {"approved", "rejected", "expired"}
      [] s = "approved"  -> {"expired"}
      [] OTHER           -> {}]
DocCanTransition(from, to) == to \in docTransitions[from]

DocRow == [status : DocStatuses, kind : DocKinds, sized : BOOLEAN, reviewed : BOOLEAN,
           expires : Expiries, replaces : DocIds \cup {NoRow}, version : Nat]

ASSUME DocRowAssumption == NoRow \notin DocRow

(* Type correctness; a replacement continues the version of what it        *)
(* replaces, which stays on record.                                        *)
DocTypeOK ==
    /\ docs \in [DocIds -> DocRow \cup {NoRow}]
    /\ \A i \in Present(docs) : docs[i].replaces # NoRow =>
         /\ docs[i].replaces \in Present(docs)
         /\ docs[i].version = docs[docs[i].replaces].version + 1
    /\ required \subseteq DocKinds
    /\ today \in 0 .. LastDay
    /\ docJobs \in 0 .. MaxDocJobs

-----------------------------------------------------------------------------
(* domain/document: the changes a copy undergoes; NoRow when refused.      *)
To(x, s) == IF DocCanTransition(x.status, s) THEN [x EXCEPT !.status = s] ELSE NoRow
MarkUploaded(x) ==
    IF x.status = "pending" \/ (x.status = "uploaded" /\ ~x.sized)
    THEN [x EXCEPT !.status = "uploaded", !.sized = TRUE] ELSE NoRow
Decided(x, s) == IF To(x, s) = NoRow THEN NoRow ELSE [To(x, s) EXCEPT !.reviewed = TRUE]
Classified(x, k) ==
    IF x.status \in {"pending", "uploaded", "submitted", "rejected"} THEN [x EXCEPT !.kind = k] ELSE NoRow
MarkExpired(x) == IF x.status = "expired" THEN x ELSE To(x, "expired")
NewDocument(k, exp) ==
    [status |-> "pending", kind |-> k, sized |-> FALSE, reviewed |-> FALSE, expires |-> exp,
     replaces |-> NoRow, version |-> 1]
NewReplacement(i) ==
    [NewDocument(docs[i].kind, docs[i].expires) EXCEPT !.replaces = i, !.version = docs[i].version + 1]

(* The shortest reminder distance that has been reached; none when the     *)
(* expiry is further away than all.                                        *)
ReminderSlots(daysLeft) ==
    {r \in ReminderDays : daysLeft <= r /\ \A q \in ReminderDays : daysLeft <= q => r <= q}

(* postgres/document.                                                      *)
ListExpiring ==
    {i \in Present(docs) : /\ docs[i].expires # NoRow
                           /\ \A r \in ReminderDays : (\A q \in ReminderDays : q <= r) => docs[i].expires <= today + r
                           /\ docs[i].status \in {"uploaded", "submitted", "approved"}}
ListApprovedBySubjects == {i \in Present(docs) : docs[i].status = "approved"}

(* Checklist: the required kinds without an approved document.             *)
MissingRequiredKinds == required \ {docs[i].kind : i \in ListApprovedBySubjects}

-----------------------------------------------------------------------------
BeginJob == docJobs < MaxDocJobs /\ docJobs' = docJobs + 1

(* A transition takes a copy and writes the changed copy later.            *)
ChangeDocument(d, i, changed) ==
    /\ djob[d] = Free
    /\ changed # NoRow
    /\ BeginJob
    /\ djob' = [djob EXCEPT ![d] = [op |-> "write", i |-> i, copy |-> changed]]
    /\ UNCHANGED <<docs, required, today, claimed, reminders>>

CompleteUpload(d, i) == ChangeDocument(d, i, MarkUploaded(docs[i]))
Submit(d, i) == ChangeDocument(d, i, To(docs[i], "submitted"))
Classify(d, i, k) == ChangeDocument(d, i, Classified(docs[i], k))
Review(d, i, s) == ChangeDocument(d, i, Decided(docs[i], s))

(* saveTransition, or the unit of work rolls back.                         *)
SaveTransition(d) ==
    /\ djob[d].op = "write"
    /\ docs' = [docs EXCEPT ![djob[d].i] = djob[d].copy] \/ docs' = docs
    /\ djob' = [djob EXCEPT ![d] = Free]
    /\ UNCHANGED <<required, today, claimed, reminders, docJobs>>

PresignUpload(k, exp) ==
    /\ \E i \in Fresh(docs) : docs' = [docs EXCEPT ![i] = NewDocument(k, exp)]
    /\ UNCHANGED <<required, today, claimed, djob, reminders, docJobs>>

Replace(i) ==
    /\ docs[i].status \in {"rejected", "expired", "approved"}
    /\ \E n \in Fresh(docs) : docs' = [docs EXCEPT ![n] = NewReplacement(i)]
    /\ UNCHANGED <<required, today, claimed, djob, reminders, docJobs>>

(* UpsertPolicy replaces the requirements of the policy in a transaction.  *)
UpsertPolicy(ks) ==
    /\ required' = ks
    /\ UNCHANGED <<docs, today, claimed, djob, reminders, docJobs>>

-----------------------------------------------------------------------------
(* ProcessExpiryReminders lists the documents near their expiry and works  *)
(* on the copies: past it they expire, otherwise the slot is claimed in    *)
(* the ledger and reminded in one transaction.                             *)
ListForExpiry(d) ==
    /\ djob[d] = Free
    /\ ListExpiring # {}
    /\ BeginJob
    /\ djob' = [djob EXCEPT ![d] =
                  [op |-> "sweep", day |-> today,
                   list |-> [i \in ListExpiring |-> docs[i]]]]
    /\ UNCHANGED <<docs, required, today, claimed, reminders>>

Rest(f, i) == [j \in DOMAIN f \ {i} |-> f[j]]
Unlisted(d, i) ==
    djob' = [djob EXCEPT ![d] = IF DOMAIN @.list = {i} THEN Free ELSE [@ EXCEPT !.list = Rest(djob[d].list, i)]]

Expire(d, i) ==
    /\ djob[d].list[i].expires < djob[d].day
    /\ docs' = [docs EXCEPT ![i] = MarkExpired(djob[d].list[i])]
    /\ Unlisted(d, i)
    /\ UNCHANGED <<required, today, claimed, reminders, docJobs>>

RemindExpiry(d, i) ==
    LET slots == ReminderSlots(djob[d].list[i].expires - djob[d].day) IN
    /\ djob[d].list[i].expires >= djob[d].day
    /\ IF slots = {} \/ \E s \in slots : <<i, s>> \in claimed
       THEN UNCHANGED <<claimed, reminders>>
       ELSE \E s \in slots :
              /\ claimed' = claimed \cup {<<i, s>>}
              /\ reminders' = [reminders EXCEPT ![<<i, s>>] = @ + 1]
    /\ Unlisted(d, i)
    /\ UNCHANGED <<docs, required, today, docJobs>>

StopSweep(d) ==
    /\ djob[d].op = "sweep"
    /\ djob' = [djob EXCEPT ![d] = Free]
    /\ UNCHANGED <<docs, required, today, claimed, reminders, docJobs>>

NextDay ==
    /\ today < LastDay
    /\ today' = today + 1
    /\ UNCHANGED <<docs, required, claimed, djob, reminders, docJobs>>

-----------------------------------------------------------------------------
DocInit ==
    /\ docs = [i \in DocIds |-> NoRow]
    /\ required = {}
    /\ today = 0
    /\ claimed = {}
    /\ docJobs = 0
    /\ djob = [d \in Desks |-> Free]
    /\ reminders = [p \in DocIds \X ReminderDays |-> 0]

DocNext ==
    \/ \E d \in Desks :
         \/ \E i \in Present(docs) :
              \/ CompleteUpload(d, i) \/ Submit(d, i)
              \/ \E k \in DocKinds : Classify(d, i, k)
              \/ \E s \in {"approved", "rejected"} : Review(d, i, s)
         \/ SaveTransition(d)
         \/ ListForExpiry(d) \/ StopSweep(d)
         \/ djob[d].op = "sweep" /\ \E i \in DOMAIN djob[d].list : Expire(d, i) \/ RemindExpiry(d, i)
    \/ \E k \in DocKinds, exp \in Expiries : PresignUpload(k, exp)
    \/ \E i \in Present(docs) : Replace(i)
    \/ \E ks \in SUBSET DocKinds : UpsertPolicy(ks)
    \/ NextDay

-----------------------------------------------------------------------------
(* However sweeps overlap, stop and run again on later days, a document is *)
(* reminded once per slot (remindExpiry, Ledger.Claim).                    *)
RemindedOnce == \A p \in DOMAIN reminders : reminders[p] <= 1

(* What satisfies the checklist was uploaded and reviewed, also when stale *)
(* copies overwrite each other: no document is approved by chance          *)
(* (MarkUploaded, Approve, saveTransition).                                *)
ApprovedWasReviewed ==
    \A i \in ListApprovedBySubjects : docs[i].reviewed /\ docs[i].sized
=============================================================================
