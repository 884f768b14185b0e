------------------------------- MODULE Inbox -------------------------------
(***************************************************************************)
(* The inbox: webhook deliveries and the conversations they feed.          *)
(* Modelled code: src/internal/app/webhook/service.go, src/internal/app/   *)
(* inbox (service, connect, link_lead), src/internal/domain/inbox/model.go *)
(* and the repositories src/internal/adapter/postgres/webhook and inbox.   *)
(*                                                                         *)
(* Webhooks: the journal of received events, the ingest that stores each   *)
(* as a message, retries, and the account of the channel.                  *)
(*                                                                         *)
(* Conversations of one channel identity: inbound messages, replies, edits *)
(* and the SLA clock.  Every edit reads the row without a lock and writes  *)
(* its columns back.  An ingest upserts the channel identity first and so  *)
(* holds that row until it commits.  Texts, owner and lead are abstracted; *)
(* sla_started_at is named by the message that started the clock, time     *)
(* passes by itself.  What an ingest does to the journal and what it does  *)
(* to the conversation are followed separately: one transaction holds      *)
(* both, and neither reads the other's rows.                               *)
(***************************************************************************)
EXTENDS Rows

CONSTANTS
    HookEvents,    \* events of the provider, by external id
    AccountIds,    \* ids drawn for the integration account
    MaxRetries,    \* retries of a failed delivery
    MaxDelivery    \* bound: signed deliveries, the provider's repeats included

ASSUME WebhookAssumption == MaxRetries \in Nat \ {0} /\ MaxDelivery \in Nat

VARIABLES
    hook,          \* event -> its webhook_events row that is not 'rejected'
    inMsgs,        \* event -> number of its rows in messages
    account,       \* the integration_accounts row
    wjob,          \* desk -> what it holds between two steps
    genuine        \* history: event -> signed deliveries so far

hookVars == <<hook, inMsgs, account, wjob, genuine>>

HookRow    == [status : {"received", "failed", "processed"}, attempts : Nat, retry : BOOLEAN]
AccountRow == [id : AccountIds, sealed : AccountIds \cup {NoRow},
               status : {"connected", "ok", "disconnected"}]

ASSUME HookRowAssumption == NoRow \notin HookRow \cup AccountRow

(* Type correctness.                                                       *)
HookTypeOK ==
    /\ hook \in [HookEvents -> HookRow \cup {NoRow}]
    /\ inMsgs \in [HookEvents -> Nat]
    /\ account \in AccountRow \cup {NoRow}
    /\ genuine \in [HookEvents -> 0 .. MaxDelivery]

-----------------------------------------------------------------------------
(* postgres/webhook, and how long a failed delivery is retried.            *)
RetryAfter(failed, permanent) == failed \in 1 .. MaxRetries /\ ~permanent
InsertHook == [status |-> "received", attempts |-> 0, retry |-> FALSE]
MarkStatus(h) == [h EXCEPT !.status = "processed"]
MarkHookFailed(h, retry) == [status |-> "failed", attempts |-> h.attempts + 1, retry |-> retry]
ListRetryable == {e \in Present(hook) : hook[e].status = "failed" /\ hook[e].retry}

(* postgres/inbox: the unique index on provider events, and the upsert     *)
(* that only touches the row it was prepared for.                          *)
FindMessageByEvent(e) == inMsgs[e] > 0
InsertMessageUnindexed(e) == inMsgs' = [inMsgs EXCEPT ![e] = @ + 1]
InsertMessage(e) == inMsgs[e] = 0 /\ inMsgs' = [inMsgs EXCEPT ![e] = @ + 1]
UpsertAccount(row) == (account # NoRow => account.id = row.id) /\ account' = row
UpdateAccountHealth(status) ==
    account' = IF account = NoRow THEN NoRow ELSE [account EXCEPT !.status = status]

(* Service.verify needs the secret of a connected account.                 *)
VerifyHook == account # NoRow /\ account.sealed # NoRow

-----------------------------------------------------------------------------
(* A signed delivery inserts its row, or finds the one of an earlier       *)
(* delivery and goes on with it unless it is processed.  A delivery that   *)
(* VerifyHook refuses leaves a rejected row, which nothing reads.          *)
Handle(d, e) ==
    /\ wjob[d] = Free
    /\ VerifyHook
    /\ genuine[e] < MaxDelivery
    /\ genuine' = [genuine EXCEPT ![e] = @ + 1]
    /\ hook' = [hook EXCEPT ![e] = IF @ = NoRow THEN InsertHook ELSE @]
    /\ wjob' = IF hook[e] # NoRow /\ hook[e].status = "processed" THEN wjob
               ELSE [wjob EXCEPT ![d] = [op |-> "ingest", e |-> e, att |-> 0, repeat |-> hook[e] # NoRow]]
    /\ UNCHANGED <<inMsgs, account>>

(* RetryFailed takes up one listed row with the attempts it listed.        *)
RetryFailed(d, e) ==
    /\ wjob[d] = Free
    /\ e \in ListRetryable
    /\ wjob' = [wjob EXCEPT ![d] = [op |-> "ingest", e |-> e, att |-> hook[e].attempts, repeat |-> FALSE]]
    /\ UNCHANGED <<hook, inMsgs, account, genuine>>

(* IngestWebhook up to its transaction: a known event is done.             *)
IngestLookup(d) ==
    /\ wjob[d].op = "ingest"
    /\ wjob' = [wjob EXCEPT ![d].op = IF FindMessageByEvent(wjob[d].e) THEN "done" ELSE "store"]
    /\ UNCHANGED <<hook, inMsgs, account, genuine>>

IngestStore(d) ==
    /\ wjob[d].op = "store"
    /\ InsertMessage(wjob[d].e)
    /\ UpdateAccountHealth("ok")
    /\ wjob' = [wjob EXCEPT ![d].op = "done"]
    /\ UNCHANGED <<hook, genuine>>

(* The ingest fails, also because another one stored the event meanwhile;  *)
(* what the provider's data causes is permanent.  A delivery that found an *)
(* earlier row reads its attempts only now.                                *)
FailHook(d, permanent) ==
    /\ wjob[d].op \in {"ingest", "store"}
    /\ LET att == IF wjob[d].repeat THEN hook[wjob[d].e].attempts ELSE wjob[d].att
       IN  hook' = [hook EXCEPT ![wjob[d].e] = MarkHookFailed(@, RetryAfter(att + 1, permanent))]
    /\ wjob' = [wjob EXCEPT ![d] = Free]
    /\ UNCHANGED <<inMsgs, account, genuine>>

FinishHook(d) ==
    /\ wjob[d].op = "done"
    /\ hook' = [hook EXCEPT ![wjob[d].e] = MarkStatus(@)]
    /\ wjob' = [wjob EXCEPT ![d] = Free]
    /\ UNCHANGED <<inMsgs, account, genuine>>

(* The process dies, or the last update of the row fails and is logged.    *)
HookCrash(d) ==
    /\ wjob[d].op \in {"ingest", "store", "done"}
    /\ wjob' = [wjob EXCEPT ![d] = Free]
    /\ UNCHANGED <<hook, inMsgs, account, genuine>>

-----------------------------------------------------------------------------
(* Connect takes the id of the stored account, or draws one, and seals the *)
(* secrets to it before the upsert; Disconnect empties them the same way.  *)
PrepareAccount(d, keepSecrets, status) ==
    /\ wjob[d] = Free
    /\ \E id \in IF account = NoRow THEN AccountIds ELSE {account.id} :
         wjob' = [wjob EXCEPT ![d] = [op |-> "account",
           row |-> [id |-> id, sealed |-> IF keepSecrets THEN id ELSE NoRow, status |-> status]]]
    /\ UNCHANGED <<hook, inMsgs, account, genuine>>

Connect(d) == PrepareAccount(d, TRUE, "connected")

Disconnect(d) == PrepareAccount(d, FALSE, "disconnected")

SaveAccount(d) ==
    /\ wjob[d].op = "account"
    /\ UpsertAccount(wjob[d].row) \/ (account # NoRow /\ account.id # wjob[d].row.id /\ UNCHANGED account)
    /\ wjob' = [wjob EXCEPT ![d] = Free]
    /\ UNCHANGED <<hook, inMsgs, genuine>>

-----------------------------------------------------------------------------
HookInit ==
    /\ hook = [e \in HookEvents |-> NoRow]
    /\ inMsgs = [e \in HookEvents |-> 0]
    /\ account = NoRow
    /\ wjob = [d \in Desks |-> Free]
    /\ genuine = [e \in HookEvents |-> 0]

HookNext ==
    \E d \in Desks :
      \/ \E e \in HookEvents : Handle(d, e) \/ RetryFailed(d, e)
      \/ IngestLookup(d) \/ IngestStore(d) \/ FinishHook(d) \/ HookCrash(d)
      \/ \E permanent \in BOOLEAN : FailHook(d, permanent)
      \/ Connect(d) \/ Disconnect(d) \/ SaveAccount(d)

-----------------------------------------------------------------------------
(* However often the provider delivers an event and the job retries it, it *)
(* is stored once; it is stored only if a signed delivery brought it, and  *)
(* a row says 'processed' only once it is stored (Handle, RetryFailed,     *)
(* IngestWebhook).                                                         *)
StoredOnce ==
    \A e \in HookEvents :
      /\ inMsgs[e] <= 1
      /\ inMsgs[e] > 0 => genuine[e] > 0
      /\ hook[e] # NoRow /\ hook[e].status = "processed" => inMsgs[e] = 1

(* The stored secrets can be opened: they are sealed to the id of the row  *)
(* that carries them, also when two first connects race (UpsertAccount).   *)
SealedToItsRow == account # NoRow => account.sealed \in {account.id, NoRow}

-----------------------------------------------------------------------------
(* The conversations.                                                      *)
CONSTANTS
    Inbounds,      \* messages of the identity, each ingested once
    ConvIds,       \* bound: its conversations, numbered from one
    MaxEdits       \* bound: edits begun

ASSUME ConvAssumption == ConvIds \subseteq Nat /\ IsFiniteSet(ConvIds) /\ MaxEdits \in Nat

VARIABLES
    conv,          \* number -> conversations row
    arrived,       \* messages stored
    idLock,        \* the desk that holds the channel_identities row
    edits,         \* edits begun
    cjob,          \* desk -> what it holds between two steps
    reopened,      \* history: a closed conversation was opened again
    overtaken,     \* history: conversations a stale copy was written over
    told,          \* history: SLA stages announced, with their clock
    toldTwice      \* history: those announced more than once

convVars == <<conv, arrived, idLock, edits, cjob, reopened, overtaken, told, toldTwice>>

SLAStages == {"warning", "breach"}
Closings  == {"resolved", "dismissed"}      \* MarkSpam and MarkDuplicate are alike
ConvRow   == [status : Closings \cup {"open"}, started : Inbounds, stopped : BOOLEAN,
              warning : BOOLEAN, breach : BOOLEAN, waiting : BOOLEAN, answered : BOOLEAN]

ASSUME ConvRowAssumption == NoRow \notin ConvRow \cup Desks

(* Type correctness; only a desk inside an ingest holds the identity.      *)
ConvTypeOK ==
    /\ conv \in [ConvIds -> ConvRow \cup {NoRow}]
    /\ arrived \subseteq Inbounds
    /\ edits \in 0 .. MaxEdits
    /\ idLock \in Desks \cup {NoRow}
    /\ \A d \in Desks : idLock = d <=> cjob[d].op \in {"create", "add"}
    /\ overtaken \subseteq ConvIds
    /\ toldTwice \subseteq told

-----------------------------------------------------------------------------
(* domain/inbox: the SLA clock and the closing marks.                      *)
StartSLA(c, e) == [c EXCEPT !.started = e, !.stopped = FALSE, !.breach = FALSE, !.warning = FALSE]
StopSLA(c) == [c EXCEPT !.stopped = TRUE, !.waiting = FALSE]
MarkClosed(c, s) == [c EXCEPT !.status = s, !.stopped = TRUE, !.waiting = FALSE]

(* postgres/inbox.                                                         *)
FindOpenByIdentity == {n \in Present(conv) : conv[n].status = "open"}
CreateConversation(n, e) ==
    conv' = [conv EXCEPT ![n] =
               [status |-> "open", started |-> e, stopped |-> FALSE, warning |-> FALSE,
                breach |-> FALSE, waiting |-> TRUE, answered |-> FALSE]]

(* UpdateConversation writes all columns of the copy but sla_warned_at,    *)
(* which it clears when the clock is another one than the row's.           *)
UpdateConversation(n, seen, copy) ==
    /\ conv' = [conv EXCEPT ![n] =
                  [copy EXCEPT !.warning = conv[n].started = copy.started /\ conv[n].warning]]
    /\ overtaken' = IF conv[n] = seen THEN overtaken ELSE overtaken \cup {n}
    /\ reopened' = (reopened \/ (copy.status = "open" /\ conv[n].status # "open"))

ListDueForSLA(stage) ==
    {n \in FindOpenByIdentity : ~conv[n].stopped /\ ~conv[n].breach /\ ~conv[n][stage]}

-----------------------------------------------------------------------------
(* A conversation is edited in two steps: a copy is taken and checked, and *)
(* later the changed copy is written.                                      *)
TakeCopy(d, n, change) ==
    /\ cjob[d] = Free
    /\ edits < MaxEdits
    /\ edits' = edits + 1
    /\ cjob' = [cjob EXCEPT ![d] = [op |-> "edit", n |-> n, seen |-> conv[n], copy |-> change]]
    /\ UNCHANGED <<conv, arrived, idLock, reopened, overtaken, told, toldTwice>>

AssignConversation(d, n) == conv[n].status = "open" /\ TakeCopy(d, n, conv[n])

LinkLead(d, n) == TakeCopy(d, n, conv[n])

SetStatus(d, n, s) ==
    \/ s = "resolved" /\ conv[n].status = "open" /\ TakeCopy(d, n, MarkClosed(conv[n], s))
    \/ s = "dismissed" /\ TakeCopy(d, n, MarkClosed(conv[n], s))
    \/ s = "open" /\ TakeCopy(d, n, [conv[n] EXCEPT !.status = "open", !.stopped = FALSE])

Reply(d, n) ==
    /\ conv[n].status = "open"
    /\ TakeCopy(d, n, [StopSLA(conv[n]) EXCEPT !.answered = TRUE])

(* The copy is written, or the transaction rolls back because the provider *)
(* refused the reply or the database the write.                            *)
WriteConversation(d) ==
    /\ cjob[d].op = "edit"
    /\ \/ UpdateConversation(cjob[d].n, cjob[d].seen, cjob[d].copy)
       \/ UNCHANGED <<conv, reopened, overtaken>>
    /\ cjob' = [cjob EXCEPT ![d] = Free]
    /\ UNCHANGED <<edits, arrived, idLock, told, toldTwice>>

-----------------------------------------------------------------------------
(* IngestWebhook's transaction takes the identity's row and reads the open *)
(* conversation: the newest, when there are several.                       *)
UpsertIdentity(d, e) ==
    /\ cjob[d] = Free
    /\ e \notin arrived
    /\ idLock = NoRow
    /\ idLock' = d
    /\ cjob' = [cjob EXCEPT ![d] =
                  IF FindOpenByIdentity = {} THEN [op |-> "create", e |-> e]
                  ELSE LET n == CHOOSE n \in FindOpenByIdentity : \A m \in FindOpenByIdentity : m <= n
                       IN  [op |-> "add", e |-> e, n |-> n, seen |-> conv[n]]]
    /\ UNCHANGED <<edits, conv, arrived, reopened, overtaken, told, toldTwice>>

(* What an inbound message does to the open conversation.                  *)
Inbound(c, e) ==
    LET w == [c EXCEPT !.waiting = TRUE] IN
    IF c.stopped \/ c.answered THEN StartSLA(w, e) ELSE w

IngestMessage(d) ==
    /\ \/ /\ cjob[d].op = "create"
          /\ \E n \in Fresh(conv) : CreateConversation(n, cjob[d].e)
          /\ UNCHANGED <<reopened, overtaken>>
       \/ /\ cjob[d].op = "add"
          /\ UpdateConversation(cjob[d].n, cjob[d].seen, Inbound(cjob[d].seen, cjob[d].e))
    /\ arrived' = arrived \cup {cjob[d].e}
    /\ idLock' = NoRow
    /\ cjob' = [cjob EXCEPT ![d] = Free]
    /\ UNCHANGED <<edits, told, toldTwice>>

(* The ingest rolls back; its message may come again.                      *)
IngestAbort(d) ==
    /\ cjob[d].op \in {"create", "add"}
    /\ idLock' = NoRow
    /\ cjob' = [cjob EXCEPT ![d] = Free]
    /\ UNCHANGED <<edits, conv, arrived, reopened, overtaken, told, toldTwice>>

-----------------------------------------------------------------------------
(* sweepSLA lists what is due and stamps it one by one; the stamp asks     *)
(* only whether the stage is still unmarked.                               *)
SweepSLA(d, stage) ==
    /\ cjob[d] = Free
    /\ \E n \in ListDueForSLA(stage) :
         cjob' = [cjob EXCEPT ![d] = [op |-> "sla", n |-> n, stage |-> stage]]
    /\ UNCHANGED <<edits, conv, arrived, idLock, reopened, overtaken, told, toldTwice>>

MarkSLAStage(d) ==
    /\ cjob[d].op = "sla"
    /\ LET n == cjob[d].n
           stage == cjob[d].stage
           mark == [n |-> n, stage |-> stage, started |-> conv[n].started]
       IN  IF conv[n][stage] THEN UNCHANGED <<conv, told, toldTwice>>
           ELSE /\ conv' = [conv EXCEPT ![n][stage] = TRUE]
                /\ told' = told \cup {mark}
                /\ toldTwice' = IF mark \in told THEN toldTwice \cup {mark} ELSE toldTwice
    /\ cjob' = [cjob EXCEPT ![d] = Free]
    /\ UNCHANGED <<edits, arrived, idLock, reopened, overtaken>>

-----------------------------------------------------------------------------
ConvInit ==
    /\ conv = [n \in ConvIds |-> NoRow]
    /\ arrived = {}
    /\ idLock = NoRow
    /\ edits = 0
    /\ cjob = [d \in Desks |-> Free]
    /\ reopened = FALSE
    /\ overtaken = {}
    /\ told = {}
    /\ toldTwice = {}

ConvNext ==
    \E d \in Desks :
      \/ \E n \in Present(conv) :
           \/ AssignConversation(d, n)
           \/ LinkLead(d, n)
           \/ Reply(d, n)
           \/ \E s \in Closings \cup {"open"} : SetStatus(d, n, s)
      \/ WriteConversation(d)
      \/ \E e \in Inbounds : UpsertIdentity(d, e)
      \/ IngestMessage(d) \/ IngestAbort(d)
      \/ \E stage \in SLAStages : SweepSLA(d, stage)
      \/ MarkSLAStage(d)

-----------------------------------------------------------------------------
(* The identity lock keeps two messages that arrive together in one        *)
(* conversation: a second open one exists only after a closed one was      *)
(* opened again (IngestWebhook, SetStatus).                                *)
OneOpenConversation == reopened \/ Cardinality(FindOpenByIdentity) <= 1

(* A message that waits for an answer has its clock running, unless a      *)
(* stale copy was written over the conversation (Reply, SetStatus,         *)
(* IngestWebhook).                                                         *)
UnansweredIsTimed ==
    \A n \in Present(conv) \ overtaken : conv[n].waiting => ~conv[n].stopped /\ conv[n].status = "open"

(* Each stage of one clock is announced once, unless a stale copy erased   *)
(* the mark (MarkSLAStage).                                                *)
StageToldOnce == \A m \in toldTwice : m.n \in overtaken
=============================================================================
