---------------------------- MODULE EventOutbox ----------------------------
(***************************************************************************)
(* The transactional outbox and its dispatchers.                           *)
(* Modelled code: src/internal/app/outbox/dispatcher.go,                   *)
(* src/internal/domain/outbox, src/internal/adapter/postgres/outbox and    *)
(* Bus.Deliver of src/internal/platform/events/bus.go.                     *)
(*                                                                         *)
(* A dispatcher claims a batch under a lease, delivers its records one     *)
(* after the other and marks each; nothing ties a mark to the claim it     *)
(* belongs to.  Time is kept as far as it is compared: a pending record is *)
(* "waiting" or "due" (next_attempt_at <= now), a processing one "leased"  *)
(* or "lapsed" (locked_until < now).  attempts is kept up to               *)
(* MaxAttempts + 1: only attempts >= MaxAttempts is ever asked.            *)
(***************************************************************************)
EXTENDS Integers, FiniteSets

CONSTANTS
    Events,        \* events recorded by business transactions
    Handlers,      \* handlers subscribed to them
    Dispatchers,   \* worker processes
    Batch,         \* most records of one claim
    MaxAttempts,   \* deliveries before a record is dead-lettered
    None           \* nothing being delivered

ASSUME OutboxAssumption ==
    /\ Handlers # {}
    /\ Batch \in Nat \ {0}
    /\ MaxAttempts \in Nat \ {0}
    /\ None \notin Events

VARIABLES
    status,        \* event -> status of its outbox_events row
    attempts,      \* event -> the row's attempts
    done,          \* event -> handlers that completed it at least once
    held,          \* dispatcher -> event -> attempts in its claimed copy, 0: none
    current,       \* dispatcher -> the record delivered and not yet marked
    ok,            \* dispatcher -> that delivery had no error
    delivered,     \* history: events delivered without error
    twice,         \* history: events delivered without error more than once
    lapsed         \* history: events whose lease ran out

vars == <<status, attempts, done, held, current, ok, delivered, twice, lapsed>>
history == <<delivered, twice, lapsed>>

Live     == {"due", "waiting", "leased", "lapsed"}
Statuses == Live \cup {"absent", "dispatched", "dead", "purged"}
Counts   == 0 .. (MaxAttempts + 1)
NoClaim  == [e \in Events |-> 0]

(* Type correctness of the whole state.                                    *)
TypeOK ==
    /\ status \in [Events -> Statuses]
    /\ attempts \in [Events -> Counts]
    /\ done \in [Events -> SUBSET Handlers]
    /\ held \in [Dispatchers -> [Events -> Counts]]
    /\ current \in [Dispatchers -> Events \cup {None}]
    /\ ok \in [Dispatchers -> BOOLEAN]
    /\ delivered \in SUBSET Events
    /\ twice \in SUBSET Events
    /\ lapsed \in SUBSET Events

Init ==
    /\ status = [e \in Events |-> "absent"]
    /\ attempts = [e \in Events |-> 0]
    /\ done = [e \in Events |-> {}]
    /\ held = [d \in Dispatchers |-> NoClaim]
    /\ current = [d \in Dispatchers |-> None]
    /\ ok = [d \in Dispatchers |-> FALSE]
    /\ delivered = {} /\ twice = {} /\ lapsed = {}

-----------------------------------------------------------------------------
(* Writer.Add inside the business transaction: the record appears with its *)
(* commit, due at once.                                                    *)
Add(e) ==
    /\ status[e] = "absent"
    /\ status' = [status EXCEPT ![e] = "due"]
    /\ UNCHANGED <<attempts, done, held, current, ok, history>>

(* next_attempt_at arrives; locked_until passes, whether or not the        *)
(* dispatcher that holds the record still works on it.                     *)
BackoffElapses(e) ==
    /\ status[e] = "waiting"
    /\ status' = [status EXCEPT ![e] = "due"]
    /\ UNCHANGED <<attempts, done, held, current, ok, history>>

LeaseExpires(e) ==
    /\ status[e] = "leased"
    /\ status' = [status EXCEPT ![e] = "lapsed"]
    /\ lapsed' = lapsed \cup {e}
    /\ UNCHANGED <<attempts, done, held, current, ok, delivered, twice>>

(* A claim that also takes records another dispatcher is working on.       *)
ClaimableIgnoringLease == {e \in Events : status[e] \in {"due", "leased", "lapsed"}}

Claimable == {e \in Events : status[e] \in {"due", "lapsed"}}

Idle(d) == held[d] = NoClaim /\ current[d] = None

(* Claim: one statement, FOR UPDATE SKIP LOCKED, so two claims never get   *)
(* the same record and one may get less than there is.                     *)
Claim(d) ==
    /\ Idle(d)
    /\ \E batch \in SUBSET Claimable :
         /\ batch # {} /\ Cardinality(batch) <= Batch
         /\ status' = [e \in Events |-> IF e \in batch THEN "leased" ELSE status[e]]
         /\ attempts' = [e \in Events |->
                           IF e \in batch /\ attempts[e] <= MaxAttempts
                           THEN attempts[e] + 1 ELSE attempts[e]]
         /\ held' = [held EXCEPT ![d] = [e \in Events |-> IF e \in batch THEN attempts'[e] ELSE 0]]
    /\ UNCHANGED <<done, current, ok, history>>

(* A delivery that counts as one when any handler succeeded.               *)
DeliverForgivingly(d, e) ==
    /\ held[d][e] > 0 /\ current[d] = None
    /\ \E hs \in SUBSET Handlers :
         /\ done' = [done EXCEPT ![e] = @ \cup hs]
         /\ ok' = [ok EXCEPT ![d] = hs # {}]
         /\ delivered' = IF hs # {} THEN delivered \cup {e} ELSE delivered
         /\ twice' = IF hs # {} /\ e \in delivered THEN twice \cup {e} ELSE twice
    /\ current' = [current EXCEPT ![d] = e]
    /\ UNCHANGED <<status, attempts, held, lapsed>>

(* Bus.Deliver runs every handler, whatever the others return; the errors  *)
(* are joined.  A payload that cannot be decoded reaches no handler.       *)
Deliver(d, e) ==
    /\ held[d][e] > 0 /\ current[d] = None
    /\ \E hs \in SUBSET Handlers :
         /\ done' = [done EXCEPT ![e] = @ \cup hs]
         /\ ok' = [ok EXCEPT ![d] = hs = Handlers]
         /\ delivered' = IF hs = Handlers THEN delivered \cup {e} ELSE delivered
         /\ twice' = IF hs = Handlers /\ e \in delivered THEN twice \cup {e} ELSE twice
    /\ current' = [current EXCEPT ![d] = e]
    /\ UNCHANGED <<status, attempts, held, lapsed>>

(* The record is done with, and the dispatcher goes on to the next one.    *)
Release(d) ==
    /\ held' = [held EXCEPT ![d][current[d]] = 0]
    /\ current' = [current EXCEPT ![d] = None]
    /\ UNCHANGED <<attempts, done, ok, history>>

(* An UPDATE by id: it changes the row whatever its status is, and nothing *)
(* when the row was purged.                                                *)
Mark(e, to) == status' = [status EXCEPT ![e] = IF @ = "purged" THEN @ ELSE to]

(* Dead-lettering one attempt early.                                       *)
AfterFailureEarly(n) == IF n + 1 >= MaxAttempts THEN "dead" ELSE "waiting"

(* A failure status that no claim looks for.                               *)
AfterFailureUnknown(n) == IF n >= MaxAttempts THEN "dead" ELSE "failed"

(* AfterFailure, on the attempts of the claimed copy; Backoff is a wait.   *)
AfterFailure(n) == IF n >= MaxAttempts THEN "dead" ELSE "waiting"

MarkDispatched(d) ==
    /\ current[d] # None /\ ok[d]
    /\ Mark(current[d], "dispatched")
    /\ Release(d)

MarkFailed(d) ==
    /\ current[d] # None /\ ~ok[d]
    /\ Mark(current[d], AfterFailure(held[d][current[d]]))
    /\ Release(d)

(* The mark fails and is only logged: the row waits for its lease.         *)
MarkLost(d) ==
    /\ current[d] # None
    /\ Release(d)
    /\ UNCHANGED status

(* A worker process dies, at any point of its batch.                       *)
Crash(d) ==
    /\ ~Idle(d)
    /\ held' = [held EXCEPT ![d] = NoClaim]
    /\ current' = [current EXCEPT ![d] = None]
    /\ UNCHANGED <<status, attempts, done, ok, history>>

(* Admin.Requeue gives a dead record a fresh set of attempts.              *)
Requeue(e) ==
    /\ status[e] = "dead"
    /\ status' = [status EXCEPT ![e] = "due"]
    /\ attempts' = [attempts EXCEPT ![e] = 0]
    /\ UNCHANGED <<done, held, current, ok, history>>

(* A purge that clears dead records too.                                   *)
PurgeDeadToo(e) ==
    /\ status[e] \in {"dispatched", "dead"}
    /\ status' = [status EXCEPT ![e] = "purged"]
    /\ UNCHANGED <<attempts, done, held, current, ok, history>>

(* Purge, once the retention of a dispatched record has passed.            *)
Purge(e) ==
    /\ status[e] = "dispatched"
    /\ status' = [status EXCEPT ![e] = "purged"]
    /\ UNCHANGED <<attempts, done, held, current, ok, history>>

-----------------------------------------------------------------------------
EventStep(e) ==
    Add(e) \/ BackoffElapses(e) \/ LeaseExpires(e) \/ Requeue(e) \/ Purge(e)

DispatcherStep(d) ==
    \/ Claim(d) \/ (\E e \in Events : Deliver(d, e))
    \/ MarkDispatched(d) \/ MarkFailed(d) \/ MarkLost(d) \/ Crash(d)

Next == (\E e \in Events : EventStep(e)) \/ (\E d \in Dispatchers : DispatcherStep(d))

Spec == Init /\ [][Next]_vars

(* Backoffs and leases end.  Run polls every second and claims the oldest  *)
(* due records first, so a due record is claimed in the end, also among    *)
(* newer ones (SF); a dispatcher works through its batch.  Crashes and     *)
(* lost marks may recur, but not at every attempt on one record (SF).      *)
ClaimOf(e) ==
    \E d \in Dispatchers : Claim(d) /\ held'[d][e] > 0

MarkOf(e) ==
    \E d \in Dispatchers : current[d] = e /\ (MarkDispatched(d) \/ MarkFailed(d))

Fairness ==
    /\ \A e \in Events : WF_vars(BackoffElapses(e)) /\ WF_vars(LeaseExpires(e))
    /\ \A e \in Events : SF_vars(ClaimOf(e)) /\ SF_vars(MarkOf(e))
    /\ \A e \in Events : SF_vars(\E d \in Dispatchers : Deliver(d, e))

FairSpec == Spec /\ Fairness

-----------------------------------------------------------------------------
Stored == {e \in Events : status[e] \notin {"absent", "purged"}}

Delivery == INSTANCE EventDelivery WITH stored <- Stored, completed <- done

(* The outbox keeps an event until every handler has completed it, through *)
(* crashes, lapsed leases, stale marks, requeues and purges.               *)
AtLeastOnce == Delivery!Spec

(* An event is delivered without error a second time only when its lease   *)
(* ran out: claims are exclusive and a finished record is not offered      *)
(* again.                                                                  *)
OnceUnlessLapsed == twice \subseteq lapsed

(* A record is dead-lettered only after MaxAttempts claims since it was    *)
(* recorded or requeued, and a dispatched record is not reopened, unless a *)
(* lease ran out and a stale mark got in.                                  *)
MarksOwnClaim ==
    [][\A e \in Events \ lapsed :
         /\ status[e] # "dead" /\ status'[e] = "dead" => attempts[e] >= MaxAttempts
         /\ status[e] = "dispatched" => status'[e] \in {"dispatched", "purged"}]_vars

(* Every recorded event is handled by all its handlers or dead-lettered    *)
(* where an operator sees it.                                              *)
EventuallyHandled ==
    \A e \in Events :
        status[e] \in Live ~> done[e] = Handlers \/ status[e] = "dead"

(* "MaxAttempts is how many deliveries are tried before a record is        *)
(* dead-lettered" (src/internal/domain/outbox).  Only MarkFailed looks at  *)
(* attempts: a record whose delivery ends in a crash or a lost mark is     *)
(* claimed again without end, so this does not hold.                       *)
AttemptsBounded == \A e \in Events : attempts[e] <= MaxAttempts
=============================================================================
