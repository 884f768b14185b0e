------------------------- MODULE MCWorkspace_proof --------------------------
(***************************************************************************)
(* Proofs about the services around a booking, for any number of desks,    *)
(* rows, events and messages and any of the limits.                        *)
(***************************************************************************)
EXTENDS MCWorkspace, Records_proof

-----------------------------------------------------------------------------
(* Webhooks: the journal of deliveries and the account.                    *)
(* What a desk holds of a delivery, and of the account.                    *)
IngestJob == [op : {"ingest", "store", "done"}, e : HookEvents, att : Nat, repeat : BOOLEAN]
AccountJob == [op : {"account"}, row : AccountRow]

(* An ingest under way has its row in the journal, which a signed delivery *)
(* brought; one that is done found or made its message.                    *)
HookJob(j, h, m) ==
    \/ j = Free
    \/ j \in IngestJob /\ h[j.e] # NoRow /\ (j.op = "done" => m[j.e] = 1)
    \/ j \in AccountJob /\ j.row.sealed \in {j.row.id, NoRow}

(* A row of the journal was delivered, and is processed once stored.       *)
HookEvent(h, m, g) ==
    /\ m \in {0, 1}
    /\ h # NoRow => g > 0
    /\ m > 0 => g > 0
    /\ h # NoRow /\ h.status = "processed" => m = 1

HookInv ==
    /\ HookTypeOK
    /\ wjob \in [Desks -> IngestJob \cup AccountJob \cup {Free}]
    /\ \A d \in Desks : HookJob(wjob[d], hook, inMsgs)
    /\ \A e \in HookEvents : HookEvent(hook[e], inMsgs[e], genuine[e])
    /\ SealedToItsRow

LEMMA HookInitHolds == HookInit => HookInv
  BY WebhookAssumption DEF HookInit, HookInv, HookTypeOK, HookJob, HookEvent, SealedToItsRow

LEMMA HookInvHolds == HookInv => HookTypeOK /\ StoredOnce /\ SealedToItsRow
  BY DEF HookInv, StoredOnce, HookEvent, HookTypeOK

(* Rows stay in the journal and messages stay stored, so what a desk holds *)
(* of them stays true.                                                     *)
LEMMA HookJobStays ==
    ASSUME NEW j, NEW h, NEW m, NEW h2, NEW m2, HookJob(j, h, m),
           \A e \in HookEvents : h[e] # NoRow => h2[e] # NoRow,
           \A e \in HookEvents : m[e] = 1 => m2[e] = 1
    PROVE  HookJob(j, h2, m2)
  BY DEF HookJob, IngestJob

(* One desk goes on, the tables keep what the others hold.                 *)
HookKept ==
    /\ \A e \in HookEvents : hook[e] # NoRow => hook'[e] # NoRow
    /\ \A e \in HookEvents : inMsgs[e] = 1 => inMsgs'[e] = 1

LEMMA HookDesks ==
    ASSUME HookInv, NEW d \in Desks, NEW j \in IngestJob \cup AccountJob \cup {Free},
           wjob' = [wjob EXCEPT ![d] = j], HookJob(j, hook', inMsgs'), HookKept
    PROVE  /\ wjob' \in [Desks -> IngestJob \cup AccountJob \cup {Free}]
           /\ \A k \in Desks : HookJob(wjob'[k], hook', inMsgs')
  <1>1. wjob' \in [Desks -> IngestJob \cup AccountJob \cup {Free}] /\ wjob'[d] = j
    BY DEF HookInv
  <1>2. ASSUME NEW k \in Desks, k # d
        PROVE  HookJob(wjob'[k], hook', inMsgs')
    <2>1. wjob'[k] = wjob[k] /\ HookJob(wjob[k], hook, inMsgs)
      BY <1>2 DEF HookInv
    <2>. QED  BY <2>1, HookJobStays DEF HookKept
  <1>. QED  BY <1>1, <1>2

(* The kinds of job a desk holds.                                          *)
LEMMA HookKinds ==
    ASSUME HookInv, NEW d \in Desks
    PROVE  /\ wjob[d].op \in {"ingest", "store", "done"} =>
                wjob[d] \in IngestJob /\ hook[wjob[d].e] # NoRow /\ (wjob[d].op = "done" => inMsgs[wjob[d].e] = 1)
           /\ wjob[d].op = "account" => wjob[d] \in AccountJob /\ wjob[d].row.sealed \in {wjob[d].row.id, NoRow}
  BY DEF HookInv, HookJob, IngestJob, AccountJob, Free

(* A failure recorded in a row of the journal; what the flag may be does   *)
(* not matter.                                                             *)
LEMMA FailureRecorded ==
    ASSUME NEW B, NEW r \in B, NEW h \in [status : {"received", "failed", "processed"}, attempts : Nat, retry : B]
    PROVE  /\ MarkHookFailed(h, r) \in [status : {"received", "failed", "processed"}, attempts : Nat, retry : B]
           /\ MarkHookFailed(h, r).status = "failed"
  BY DEF MarkHookFailed

LEMMA HookInvNext == HookInv /\ (HookNext \/ UNCHANGED hookVars) => HookInv'
  <1>. SUFFICES ASSUME HookInv, HookNext \/ UNCHANGED hookVars PROVE HookInv'
    OBVIOUS
  <1>0. /\ hook \in [HookEvents -> HookRow \cup {NoRow}] /\ inMsgs \in [HookEvents -> Nat]
        /\ account \in AccountRow \cup {NoRow} /\ genuine \in [HookEvents -> 0 .. MaxDelivery]
        /\ \A e \in HookEvents : HookEvent(hook[e], inMsgs[e], genuine[e])
        /\ SealedToItsRow /\ MaxDelivery \in Nat /\ NoRow \notin HookRow \cup AccountRow
    BY WebhookAssumption, HookRowAssumption DEF HookInv, HookTypeOK
  <1>1. CASE UNCHANGED hookVars
    BY <1>1 DEF hookVars, HookInv, HookTypeOK, SealedToItsRow
  <1>2. ASSUME NEW d \in Desks, NEW e \in HookEvents, Handle(d, e)
        PROVE  HookInv'
    <2>. DEFINE j == [op |-> "ingest", e |-> e, att |-> 0, repeat |-> hook[e] # NoRow]
    <2>1. /\ hook' \in [HookEvents -> HookRow \cup {NoRow}] /\ genuine' \in [HookEvents -> 0 .. MaxDelivery]
          /\ hook'[e] # NoRow /\ HookKept /\ UNCHANGED <<inMsgs, account>>
      <3>1. InsertHook \in HookRow
        BY DEF InsertHook, HookRow
      <3>2. hook' = [hook EXCEPT ![e] = IF hook[e] = NoRow THEN InsertHook ELSE hook[e]]
        BY <1>0, <1>2 DEF Handle
      <3>3. genuine' = [genuine EXCEPT ![e] = genuine[e] + 1] /\ genuine[e] < MaxDelivery /\ UNCHANGED <<inMsgs, account>>
        BY <1>0, <1>2 DEF Handle
      <3>. QED  BY <1>0, <3>1, <3>2, <3>3 DEF HookKept
    <2>2. \A k \in HookEvents : HookEvent(hook'[k], inMsgs'[k], genuine'[k])
      BY <1>0, <1>2 DEF Handle, HookEvent, InsertHook
    <2>3. j \in IngestJob /\ j.op = "ingest" /\ j.e = e
      <3>1. (hook[e] # NoRow) \in BOOLEAN
        OBVIOUS
      <3>. QED  BY <3>1 DEF IngestJob
    <2>. HIDE DEF j
    <2>4. HookJob(j, hook', inMsgs')
      BY <2>1, <2>3 DEF HookJob
    <2>5. wjob' \in [Desks -> IngestJob \cup AccountJob \cup {Free}] /\ \A k \in Desks : HookJob(wjob'[k], hook', inMsgs')
      <3>1. CASE wjob' = [wjob EXCEPT ![d] = j]
        BY <2>1, <2>3, <2>4, <3>1, HookDesks
      <3>2. CASE wjob' = wjob
        BY <2>1, <3>2, HookJobStays DEF HookInv, HookKept
      <3>. QED  BY <1>2, <3>1, <3>2 DEF Handle, j
    <2>. QED  BY <1>0, <2>1, <2>2, <2>5 DEF HookInv, HookTypeOK, SealedToItsRow
  <1>3. ASSUME NEW d \in Desks, NEW e \in HookEvents, RetryFailed(d, e)
        PROVE  HookInv'
    <2>. DEFINE j == [op |-> "ingest", e |-> e, att |-> hook[e].attempts, repeat |-> FALSE]
    <2>1. UNCHANGED <<hook, inMsgs, account, genuine>> /\ hook[e] \in HookRow /\ HookKept
      BY <1>0, <1>3 DEF RetryFailed, ListRetryable, Present, HookKept
    <2>2. j \in IngestJob /\ HookJob(j, hook', inMsgs')
      BY <1>0, <2>1 DEF IngestJob, HookRow, HookJob
    <2>3. wjob' = [wjob EXCEPT ![d] = j]
      BY <1>3 DEF RetryFailed
    <2>. HIDE DEF j
    <2>. QED  BY <1>0, <2>1, <2>2, <2>3, HookDesks DEF HookInv, HookTypeOK, SealedToItsRow
  <1>4. ASSUME NEW d \in Desks, IngestLookup(d)
        PROVE  HookInv'
    <2>. DEFINE j == [wjob[d] EXCEPT !.op = IF FindMessageByEvent(wjob[d].e) THEN "done" ELSE "store"]
    <2>1. UNCHANGED <<hook, inMsgs, account, genuine>> /\ HookKept /\ wjob' = [wjob EXCEPT ![d] = j]
      BY <1>4 DEF IngestLookup, HookKept, HookInv
    <2>2. wjob[d] \in IngestJob /\ hook[wjob[d].e] # NoRow
      BY <1>4, HookKinds DEF IngestLookup
    <2>3. j \in IngestJob /\ HookJob(j, hook', inMsgs')
      BY <1>0, <2>1, <2>2 DEF IngestJob, HookJob, FindMessageByEvent, HookEvent
    <2>. HIDE DEF j
    <2>. QED  BY <1>0, <2>1, <2>3, HookDesks DEF HookInv, HookTypeOK, SealedToItsRow
  <1>5. ASSUME NEW d \in Desks, IngestStore(d)
        PROVE  HookInv'
    <2>. DEFINE j == [wjob[d] EXCEPT !.op = "done"]
    <2>1. wjob[d] \in IngestJob /\ hook[wjob[d].e] # NoRow
      BY <1>5, HookKinds DEF IngestStore
    <2>2. PICK e \in HookEvents : e = wjob[d].e
      BY <2>1 DEF IngestJob
    <2>3. inMsgs[e] = 0 /\ inMsgs' = [inMsgs EXCEPT ![e] = 1] /\ UNCHANGED <<hook, genuine>>
      BY <1>0, <1>5, <2>2 DEF IngestStore, InsertMessage
    <2>4. HookKept /\ wjob' = [wjob EXCEPT ![d] = j]
      BY <1>0, <1>5, <2>3 DEF IngestStore, HookKept, HookInv
    <2>5. account' \in AccountRow \cup {NoRow} /\ SealedToItsRow'
      BY <1>0, <1>5 DEF IngestStore, UpdateAccountHealth, AccountRow, SealedToItsRow
    <2>6. j \in IngestJob /\ HookJob(j, hook', inMsgs')
      BY <1>0, <2>1, <2>2, <2>3 DEF IngestJob, HookJob
    <2>7. \A k \in HookEvents : HookEvent(hook'[k], inMsgs'[k], genuine'[k])
      BY <1>0, <2>1, <2>2, <2>3 DEF HookEvent
    <2>8. inMsgs' \in [HookEvents -> Nat]
      BY <1>0, <2>3
    <2>. HIDE DEF j
    <2>. QED  BY <1>0, <2>3, <2>4, <2>5, <2>6, <2>7, <2>8, HookDesks DEF HookInv, HookTypeOK
  <1>6. ASSUME NEW d \in Desks, FinishHook(d)
        PROVE  HookInv'
    <2>1. wjob[d] \in IngestJob /\ hook[wjob[d].e] # NoRow /\ inMsgs[wjob[d].e] = 1
      BY <1>6, HookKinds DEF FinishHook
    <2>2. PICK e \in HookEvents : e = wjob[d].e
      BY <2>1 DEF IngestJob
    <2>3. hook[e] \in HookRow /\ hook' = [hook EXCEPT ![e] = MarkStatus(hook[e])] /\ UNCHANGED <<inMsgs, account, genuine>>
      BY <1>0, <1>6, <2>1, <2>2 DEF FinishHook
    <2>4. MarkStatus(hook[e]) \in HookRow
      BY <2>3 DEF MarkStatus, HookRow
    <2>5. hook' \in [HookEvents -> HookRow \cup {NoRow}] /\ HookKept
      BY <1>0, <2>3, <2>4 DEF HookKept
    <2>6. \A k \in HookEvents : HookEvent(hook'[k], inMsgs'[k], genuine'[k])
      BY <1>0, <2>1, <2>2, <2>3 DEF HookEvent
    <2>7. wjob' = [wjob EXCEPT ![d] = Free] /\ HookJob(Free, hook', inMsgs')
      BY <1>6 DEF FinishHook, HookJob
    <2>. QED  BY <1>0, <2>3, <2>5, <2>6, <2>7, HookDesks DEF HookInv, HookTypeOK, SealedToItsRow
  <1>7. ASSUME NEW d \in Desks, HookCrash(d)
        PROVE  HookInv'
    <2>1. UNCHANGED <<hook, inMsgs, account, genuine>> /\ HookKept /\ wjob' = [wjob EXCEPT ![d] = Free] /\ HookJob(Free, hook', inMsgs')
      BY <1>7 DEF HookCrash, HookKept, HookJob
    <2>. QED  BY <1>0, <2>1, HookDesks DEF HookInv, HookTypeOK, SealedToItsRow
  <1>8. ASSUME NEW d \in Desks, NEW permanent \in BOOLEAN, FailHook(d, permanent)
        PROVE  HookInv'
    <2>1. wjob[d] \in IngestJob /\ hook[wjob[d].e] # NoRow
      BY <1>8, HookKinds DEF FailHook
    <2>2. PICK e \in HookEvents : e = wjob[d].e
      BY <2>1 DEF IngestJob
    <2>3. PICK retry \in BOOLEAN : hook' = [hook EXCEPT ![e] = MarkHookFailed(hook[e], retry)]
      <3>. DEFINE att == IF wjob[d].repeat THEN hook[wjob[d].e].attempts ELSE wjob[d].att
      <3>1. RetryAfter(att + 1, permanent) \in BOOLEAN
        BY DEF RetryAfter
      <3>2. hook' = [hook EXCEPT ![e] = MarkHookFailed(hook[e], RetryAfter(att + 1, permanent))]
        BY <1>0, <1>8, <2>2 DEF FailHook
      <3>. HIDE DEF att
      <3>. QED  BY <3>1, <3>2
    <2>4. hook[e] \in HookRow
      BY <1>0, <2>1, <2>2
    <2>5. MarkHookFailed(hook[e], retry) \in HookRow /\ MarkHookFailed(hook[e], retry).status = "failed"
      BY <2>4, FailureRecorded DEF HookRow
    <2>6. UNCHANGED <<inMsgs, account, genuine>> /\ wjob' = [wjob EXCEPT ![d] = Free]
      BY <1>8 DEF FailHook
    <2>7. hook' \in [HookEvents -> HookRow \cup {NoRow}] /\ HookKept
      BY <1>0, <2>3, <2>5, <2>6 DEF HookKept
    <2>8. \A k \in HookEvents : HookEvent(hook'[k], inMsgs'[k], genuine'[k])
      BY <1>0, <2>3, <2>4, <2>5, <2>6 DEF HookEvent
    <2>9. HookJob(Free, hook', inMsgs')
      BY DEF HookJob
    <2>. QED  BY <1>0, <2>6, <2>7, <2>8, <2>9, HookDesks DEF HookInv, HookTypeOK, SealedToItsRow
  <1>9. ASSUME NEW d \in Desks, Connect(d) \/ Disconnect(d)
        PROVE  HookInv'
    <2>1. PICK keep \in BOOLEAN, st \in {"connected", "disconnected"} : PrepareAccount(d, keep, st)
      BY <1>9 DEF Connect, Disconnect
    <2>2. PICK id \in AccountIds :
            wjob' = [wjob EXCEPT ![d] = [op |-> "account",
                       row |-> [id |-> id, sealed |-> IF keep THEN id ELSE NoRow, status |-> st]]]
      BY <1>0, <2>1 DEF PrepareAccount, AccountRow
    <2>. DEFINE r == [id |-> id, sealed |-> IF keep THEN id ELSE NoRow, status |-> st]
                j == [op |-> "account", row |-> r]
    <2>3. r \in AccountRow /\ r.sealed \in {r.id, NoRow}
      BY DEF AccountRow
    <2>4. wjob' = [wjob EXCEPT ![d] = j]
      BY <2>2
    <2>. HIDE DEF r
    <2>5. j \in AccountJob /\ HookJob(j, hook', inMsgs')
      BY <2>3 DEF AccountJob, HookJob
    <2>6. UNCHANGED <<hook, inMsgs, account, genuine>> /\ HookKept
      BY <2>1 DEF PrepareAccount, HookKept
    <2>. HIDE DEF j
    <2>. QED  BY <1>0, <2>4, <2>5, <2>6, HookDesks DEF HookInv, HookTypeOK, SealedToItsRow
  <1>10. ASSUME NEW d \in Desks, SaveAccount(d)
         PROVE  HookInv'
    <2>1. wjob[d] \in AccountJob /\ wjob[d].row.sealed \in {wjob[d].row.id, NoRow}
      BY <1>10, HookKinds DEF SaveAccount
    <2>2. account' \in AccountRow \cup {NoRow} /\ SealedToItsRow'
      BY <1>0, <1>10, <2>1 DEF SaveAccount, UpsertAccount, AccountJob, SealedToItsRow
    <2>3. UNCHANGED <<hook, inMsgs, genuine>> /\ HookKept /\ wjob' = [wjob EXCEPT ![d] = Free] /\ HookJob(Free, hook', inMsgs')
      BY <1>10 DEF SaveAccount, HookKept, HookJob
    <2>. QED  BY <1>0, <2>2, <2>3, HookDesks DEF HookInv, HookTypeOK
  <1>. QED
    BY <1>1, <1>2, <1>3, <1>4, <1>5, <1>6, <1>7, <1>8, <1>9, <1>10 DEF HookNext

-----------------------------------------------------------------------------
(* Conversations and their SLA clock.                                      *)
(* A finite set of numbers has a largest one.                              *)
Above(S, n) == {m \in S : m > n}
LEMMA LeastAbove ==
    ASSUME NEW S, IsFiniteSet(S), S # {}
    PROVE  \E n \in S : \A m \in S : Above(S, m) \subseteq Above(S, n) => Above(S, m) = Above(S, n)
  <1>. DEFINE F == {Above(S, n) : n \in S}
  <1>1. F \in SUBSET (SUBSET S) /\ F # {}
    BY DEF Above
  <1>2. /\ \A n \in S : Above(S, n) \in F
        /\ \A T \in F : \E n \in S : T = Above(S, n)
    OBVIOUS
  <1>. HIDE DEF F
  <1>3. PICK T \in F : \A U \in F : U \subseteq T => U = T
    BY <1>1, Smallest
  <1>4. PICK n \in S : T = Above(S, n)
    BY <1>2
  <1>. QED  BY <1>2, <1>3, <1>4

LEMMA Largest ==
    ASSUME NEW S, S \subseteq Nat, IsFiniteSet(S), S # {}
    PROVE  \E n \in S : \A m \in S : m <= n
  <1>1. PICK n \in S : \A m \in S : Above(S, m) \subseteq Above(S, n) => Above(S, m) = Above(S, n)
    BY LeastAbove, Zenon
  <1>2. ASSUME NEW m \in S, m > n
        PROVE  FALSE
    <2>1. ~(m > m) /\ \A k \in S : k > m => k > n
      BY <1>2
    <2>2. Above(S, m) \subseteq Above(S, n) /\ m \in Above(S, n) /\ m \notin Above(S, m)
      BY <1>2, <2>1, Zenon DEF Above
    <2>. QED  BY <1>1, <2>2, Zenon
  <1>. QED  BY <1>2

Timed(c) == c.waiting => ~c.stopped /\ c.status = "open"
Open(cv, n) == cv[n] # NoRow /\ cv[n].status = "open"

(* What a desk holds.  A copy keeps the clock and the mark of the row it   *)
(* was taken from; an ingest holds the identity, so its message has not    *)
(* arrived, and no conversation it did not find has been opened.           *)
Edits(j, cv, over, arr) ==
    /\ j = [op |-> "edit", n |-> j.n, seen |-> j.seen, copy |-> j.copy]
    /\ j.n \in ConvIds /\ cv[j.n] # NoRow /\ j.seen \in ConvRow /\ j.copy \in ConvRow
    /\ j.copy.started \in arr /\ j.copy.started = j.seen.started /\ (j.copy.breach <=> j.seen.breach)
    /\ j.n \in over \/ Timed(j.copy)
Creates(j, cv, reo, arr) ==
    /\ j = [op |-> "create", e |-> j.e]
    /\ j.e \in Inbounds \ arr
    /\ reo \/ \A n \in ConvIds : ~Open(cv, n)
Adds(j, cv, arr) ==
    /\ j = [op |-> "add", e |-> j.e, n |-> j.n, seen |-> j.seen]
    /\ j.e \in Inbounds \ arr
    /\ j.n \in ConvIds /\ cv[j.n] # NoRow /\ j.seen \in ConvRow /\ j.seen.status = "open" /\ j.seen.started \in arr
Stamps(j, cv) ==
    /\ j = [op |-> "sla", n |-> j.n, stage |-> j.stage]
    /\ j.n \in ConvIds /\ cv[j.n] # NoRow /\ j.stage \in SLAStages
ConvJob(j, cv, over, reo, arr) ==
    j = Free \/ Edits(j, cv, over, arr) \/ Creates(j, cv, reo, arr) \/ Adds(j, cv, arr) \/ Stamps(j, cv)

(* A row runs on a clock that arrived.  A stage told of that clock is      *)
(* marked in it, unless a stale copy was written over the row.             *)
ConvHolds(n, c, over, arr) == c # NoRow => c.started \in arr /\ (n \in over \/ Timed(c))
MarkHolds(m, cv, over, arr) ==
    /\ m = [n |-> m.n, stage |-> m.stage, started |-> m.started]
    /\ m.n \in ConvIds /\ cv[m.n] # NoRow /\ m.stage \in SLAStages /\ m.started \in arr
    /\ m.n \in over \/ cv[m.n][m.stage] \/ cv[m.n].started # m.started
OneOpen(cv, reo) == reo \/ \A a, b \in ConvIds : Open(cv, a) /\ Open(cv, b) => a = b

ConvRows(cv, over, reo, arr) ==
    /\ cv \in [ConvIds -> ConvRow \cup {NoRow}]
    /\ arr \subseteq Inbounds /\ over \subseteq ConvIds /\ reo \in BOOLEAN
    /\ \A n \in ConvIds : ConvHolds(n, cv[n], over, arr)
    /\ OneOpen(cv, reo)
Marks(tl, tw, cv, over, arr) ==
    /\ \A m \in tl : MarkHolds(m, cv, over, arr)
    /\ \A m \in tw : m \in tl /\ m.n \in over
ConvDesksHold(jobs, lock, cv, over, reo, arr) ==
    /\ jobs = [d \in Desks |-> jobs[d]]
    /\ \A d \in Desks : ConvJob(jobs[d], cv, over, reo, arr) /\ (lock = d <=> jobs[d].op \in {"create", "add"})
    /\ lock \in Desks \cup {NoRow}

ConvInv ==
    /\ edits \in 0 .. MaxEdits
    /\ ConvRows(conv, overtaken, reopened, arrived)
    /\ Marks(told, toldTwice, conv, overtaken, arrived)
    /\ ConvDesksHold(cjob, idLock, conv, overtaken, reopened, arrived)

LEMMA ConvInitHolds == ConvInit => ConvInv
  <1>. SUFFICES ASSUME ConvInit PROVE ConvInv
    OBVIOUS
  <1>1. edits \in 0 .. MaxEdits /\ Marks(told, toldTwice, conv, overtaken, arrived)
    BY ConvAssumption DEF ConvInit, Marks
  <1>2. ConvRows(conv, overtaken, reopened, arrived)
    BY DEF ConvInit, ConvRows, ConvHolds, OneOpen, Open
  <1>3. ConvDesksHold(cjob, idLock, conv, overtaken, reopened, arrived)
    <2>1. cjob = [d \in Desks |-> cjob[d]] /\ \A d \in Desks : cjob[d] = Free
      BY DEF ConvInit
    <2>2. ~(Free.op \in {"create", "add"})
      BY DEF Free
    <2>3. idLock = NoRow /\ idLock \notin Desks
      BY ConvRowAssumption DEF ConvInit
    <2>. QED  BY <2>1, <2>2, <2>3 DEF ConvDesksHold, ConvJob
  <1>. QED  BY <1>1, <1>2, <1>3 DEF ConvInv

LEMMA AtMostOne ==
    ASSUME NEW S, \A a, b \in S : a = b
    PROVE  Cardinality(S) <= 1
  <1>1. CASE S = {}
    BY <1>1, FS_EmptySet
  <1>2. CASE S # {}
    <2>1. PICK a : a \in S
      BY <1>2
    <2>2. S = {a}
      BY <2>1
    <2>3. Cardinality({a}) = 1
      BY FS_Singleton
    <2>4. Cardinality(S) = 1
      BY <2>2, <2>3, Zenon
    <2>. QED  BY <2>4
  <1>. QED  BY <1>1, <1>2

LEMMA ConvInvHolds == ConvInv => ConvTypeOK /\ OneOpenConversation /\ UnansweredIsTimed /\ StageToldOnce
  <1>. SUFFICES ASSUME ConvInv PROVE ConvTypeOK /\ OneOpenConversation /\ UnansweredIsTimed /\ StageToldOnce
    OBVIOUS
  <1>1. ConvTypeOK
    BY DEF ConvInv, ConvTypeOK, ConvRows, Marks, ConvDesksHold
  <1>2. OneOpenConversation
    <2>1. CASE reopened
      BY <2>1 DEF OneOpenConversation
    <2>2. CASE ~reopened
      <3>1. \A a, b \in FindOpenByIdentity : a = b
        BY <2>2 DEF ConvInv, ConvRows, OneOpen, Open, FindOpenByIdentity, Present
      <3>. QED  BY <3>1, AtMostOne DEF OneOpenConversation
    <2>. QED  BY <2>1, <2>2
  <1>3. UnansweredIsTimed
    BY DEF ConvInv, ConvRows, ConvHolds, Timed, UnansweredIsTimed, Present
  <1>4. StageToldOnce
    BY DEF ConvInv, Marks, StageToldOnce
  <1>. QED  BY <1>1, <1>2, <1>3, <1>4

(* What a desk holds outlives the steps of the others: rows stay, and only *)
(* who holds the identity lets a message arrive or opens a conversation.   *)
LEMMA JobStays ==
    ASSUME NEW j, NEW cv, NEW over, NEW reo \in BOOLEAN, NEW arr, NEW cv2, NEW over2, NEW reo2 \in BOOLEAN, NEW arr2,
           ConvJob(j, cv, over, reo, arr),
           \A n \in ConvIds : cv[n] # NoRow => cv2[n] # NoRow,
           over \subseteq over2, arr \subseteq arr2,
           ~(j.op \in {"create", "add"})
           \/ (arr2 = arr /\ (reo => reo2) /\ (reo2 \/ \A n \in ConvIds : Open(cv2, n) => Open(cv, n)))
    PROVE  ConvJob(j, cv2, over2, reo2, arr2)
  <1>1. CASE j = Free
    BY <1>1 DEF ConvJob
  <1>2. CASE Edits(j, cv, over, arr)
    BY <1>2 DEF ConvJob, Edits
  <1>3. CASE Creates(j, cv, reo, arr)
    <2>1. j.op = "create"
      BY <1>3 DEF Creates
    <2>. QED  BY <1>3, <2>1 DEF ConvJob, Creates
  <1>4. CASE Adds(j, cv, arr)
    <2>1. j.op = "add"
      BY <1>4 DEF Adds
    <2>. QED  BY <1>4, <2>1 DEF ConvJob, Adds
  <1>5. CASE Stamps(j, cv)
    BY <1>5 DEF ConvJob, Stamps
  <1>. QED  BY <1>1, <1>2, <1>3, <1>4, <1>5 DEF ConvJob

(* One desk goes on; the others keep what they hold.                       *)
LEMMA ConvDesksStep ==
    ASSUME ConvInv, NEW d \in Desks, NEW j, cjob' = [cjob EXCEPT ![d] = j],
           ConvJob(j, conv', overtaken', reopened', arrived'), reopened' \in BOOLEAN,
           \A n \in ConvIds : conv[n] # NoRow => conv'[n] # NoRow,
           overtaken \subseteq overtaken', arrived \subseteq arrived',
           j.op \in {"create", "add"} => idLock \in {NoRow, d},
           idLock' = IF j.op \in {"create", "add"} THEN d ELSE IF idLock = d THEN NoRow ELSE idLock,
           idLock = d \/ (/\ arrived' = arrived /\ (reopened => reopened')
                          /\ reopened' \/ \A n \in ConvIds : Open(conv', n) => Open(conv, n))
    PROVE  ConvDesksHold(cjob', idLock', conv', overtaken', reopened', arrived')
  <1>1. /\ cjob = [k \in Desks |-> cjob[k]] /\ idLock \in Desks \cup {NoRow} /\ reopened \in BOOLEAN
        /\ \A k \in Desks : ConvJob(cjob[k], conv, overtaken, reopened, arrived) /\ (idLock = k <=> cjob[k].op \in {"create", "add"})
    BY DEF ConvInv, ConvDesksHold, ConvRows
  <1>2. cjob' = [k \in Desks |-> cjob'[k]] /\ cjob'[d] = j /\ \A k \in Desks \ {d} : cjob'[k] = cjob[k]
    BY <1>1
  <1>3. idLock' \in Desks \cup {NoRow} /\ (idLock' = d <=> j.op \in {"create", "add"})
    BY <1>1, ConvRowAssumption
  <1>4. ASSUME NEW k \in Desks, k # d
        PROVE  ConvJob(cjob'[k], conv', overtaken', reopened', arrived') /\ (idLock' = k <=> cjob'[k].op \in {"create", "add"})
    <2>1. cjob'[k] = cjob[k]
      BY <1>2, <1>4
    <2>2. idLock' = k <=> idLock = k
      BY <1>1, <1>4, ConvRowAssumption
    <2>3. ConvJob(cjob[k], conv', overtaken', reopened', arrived')
      <3>1. ConvJob(cjob[k], conv, overtaken, reopened, arrived)
        BY <1>1
      <3>2. idLock = d => ~(cjob[k].op \in {"create", "add"})
        BY <1>1, <1>4
      <3>3. ~(cjob[k].op \in {"create", "add"})
            \/ (arrived' = arrived /\ (reopened => reopened') /\ (reopened' \/ \A n \in ConvIds : Open(conv', n) => Open(conv, n)))
        BY <3>2
      <3>. QED  BY <1>1, <3>1, <3>3, JobStays
    <2>. QED  BY <1>1, <2>1, <2>2, <2>3
  <1>. QED  BY <1>2, <1>3, <1>4 DEF ConvDesksHold

(* The rows of the five booleans.                                          *)
LEMMA Rewarned ==
    ASSUME NEW c \in ConvRow, NEW w \in BOOLEAN
    PROVE  LET r == [c EXCEPT !.warning = w]
           IN  /\ r \in ConvRow /\ r.started = c.started /\ r.status = c.status /\ (r.warning <=> w)
               /\ (r.breach <=> c.breach) /\ (Timed(r) <=> Timed(c))
  BY DEF ConvRow, Timed

(* A copy written back: of this row, or over one that changed meanwhile.   *)
LEMMA RowWritten ==
    ASSUME ConvInv, NEW n \in ConvIds, conv[n] # NoRow, NEW seen \in ConvRow, NEW copy \in ConvRow,
           UpdateConversation(n, seen, copy), UNCHANGED <<told, toldTwice>>,
           arrived' \subseteq Inbounds, arrived \subseteq arrived', copy.started \in arrived',
           n \in overtaken \/ conv[n] # seen \/ Timed(copy),
           (copy.started = seen.started /\ (copy.breach <=> seen.breach)) \/ copy.started \notin arrived
    PROVE  /\ ConvRows(conv', overtaken', reopened', arrived')
           /\ Marks(told', toldTwice', conv', overtaken', arrived')
           /\ \A k \in ConvIds : conv[k] # NoRow => conv'[k] # NoRow
           /\ overtaken \subseteq overtaken' /\ (reopened => reopened')
           /\ reopened' \/ \A k \in ConvIds : Open(conv', k) => Open(conv, k)
  <1>1. /\ conv \in [ConvIds -> ConvRow \cup {NoRow}] /\ conv[n] \in ConvRow /\ NoRow \notin ConvRow
        /\ overtaken \subseteq ConvIds /\ reopened \in BOOLEAN
        /\ \A k \in ConvIds : ConvHolds(k, conv[k], overtaken, arrived)
        /\ OneOpen(conv, reopened)
    BY ConvRowAssumption DEF ConvInv, ConvRows
  <1>2. PICK w \in BOOLEAN : w <=> (conv[n].started = copy.started /\ conv[n].warning)
    OBVIOUS
  <1>. DEFINE r == [copy EXCEPT !.warning = w]
  <1>3. conv' = [conv EXCEPT ![n] = r]
    BY <1>2 DEF UpdateConversation
  <1>4. /\ r \in ConvRow /\ r.started = copy.started /\ r.status = copy.status /\ (r.warning <=> w)
        /\ (r.breach <=> copy.breach) /\ (Timed(r) <=> Timed(copy))
    BY Rewarned
  <1>. HIDE DEF r
  <1>5. /\ conv' \in [ConvIds -> ConvRow \cup {NoRow}] /\ conv'[n] = r /\ \A k \in ConvIds \ {n} : conv'[k] = conv[k]
    BY <1>1, <1>3, <1>4
  <1>6. /\ overtaken' \subseteq ConvIds /\ overtaken \subseteq overtaken' /\ (conv[n] # seen => n \in overtaken')
        /\ reopened' \in BOOLEAN /\ (reopened => reopened') /\ (copy.status = "open" /\ conv[n].status # "open" => reopened')
    BY <1>1 DEF UpdateConversation
  <1>7. \A k \in ConvIds : ConvHolds(k, conv'[k], overtaken', arrived')
    BY <1>1, <1>4, <1>5, <1>6 DEF ConvHolds
  <1>8. reopened' \/ \A k \in ConvIds : Open(conv', k) => Open(conv, k)
    BY <1>1, <1>4, <1>5, <1>6 DEF Open
  <1>9. OneOpen(conv', reopened')
    BY <1>1, <1>6, <1>8 DEF OneOpen
  <1>10. ASSUME NEW m \in told
         PROVE  MarkHolds(m, conv', overtaken', arrived')
    <2>1. MarkHolds(m, conv, overtaken, arrived)
      BY DEF ConvInv, Marks
    <2>2. CASE m.n # n \/ n \in overtaken'
      BY <1>1, <1>4, <1>5, <1>6, <2>1, <2>2 DEF MarkHolds
    <2>3. CASE m.n = n /\ n \notin overtaken'
      <3>1. conv[n] = seen /\ n \notin overtaken
        BY <1>6, <2>3
      <3>2. conv[n][m.stage] \/ conv[n].started # m.started
        BY <2>1, <2>3, <3>1 DEF MarkHolds
      <3>3. CASE copy.started \notin arrived
        BY <1>1, <1>4, <1>5, <2>1, <2>3, <3>3 DEF MarkHolds
      <3>4. CASE copy.started = seen.started /\ (copy.breach <=> seen.breach)
        <4>1. CASE m.stage = "warning"
          <5>1. conv[n].warning \/ conv[n].started # m.started
            BY <3>2, <4>1
          <5>2. conv'[n].warning \/ conv'[n].started # m.started
            BY <1>2, <1>4, <1>5, <3>1, <3>4, <5>1
          <5>3. conv'[n][m.stage] \/ conv'[n].started # m.started
            BY <4>1, <5>2
          <5>. QED  BY <1>1, <1>4, <1>5, <2>1, <2>3, <5>3 DEF MarkHolds
        <4>2. CASE m.stage = "breach"
          <5>1. conv[n].breach \/ conv[n].started # m.started
            BY <3>2, <4>2
          <5>2. conv'[n].breach \/ conv'[n].started # m.started
            BY <1>2, <1>4, <1>5, <3>1, <3>4, <5>1
          <5>3. conv'[n][m.stage] \/ conv'[n].started # m.started
            BY <4>2, <5>2
          <5>. QED  BY <1>1, <1>4, <1>5, <2>1, <2>3, <5>3 DEF MarkHolds
        <4>. QED  BY <2>1, <4>1, <4>2 DEF MarkHolds, SLAStages
      <3>. QED  BY <3>3, <3>4
    <2>. QED  BY <2>2, <2>3
  <1>11. \A m \in toldTwice' : m \in told' /\ m.n \in overtaken'
    BY <1>6 DEF ConvInv, Marks
  <1>12. \A k \in ConvIds : conv[k] # NoRow => conv'[k] # NoRow
    BY <1>1, <1>4, <1>5
  <1>. QED  BY <1>5, <1>6, <1>7, <1>8, <1>9, <1>10, <1>11, <1>12 DEF ConvRows, Marks

(* Steps that change no row: a desk takes something up or lets it go.      *)
LEMMA DeskOnly ==
    ASSUME ConvInv, UNCHANGED <<conv, arrived, reopened, overtaken, told, toldTwice>>, edits' \in 0 .. MaxEdits,
           NEW d \in Desks, NEW j, cjob' = [cjob EXCEPT ![d] = j], ConvJob(j, conv, overtaken, reopened, arrived),
           j.op \in {"create", "add"} => idLock \in {NoRow, d},
           idLock' = IF j.op \in {"create", "add"} THEN d ELSE IF idLock = d THEN NoRow ELSE idLock
    PROVE  ConvInv'
  <1>1. ConvRows(conv', overtaken', reopened', arrived') /\ Marks(told', toldTwice', conv', overtaken', arrived')
    BY DEF ConvInv
  <1>2. ConvJob(j, conv', overtaken', reopened', arrived') /\ reopened' = reopened /\ reopened \in BOOLEAN
    BY DEF ConvInv, ConvRows
  <1>3. ConvDesksHold(cjob', idLock', conv', overtaken', reopened', arrived')
    <2>1. arrived' = arrived /\ (reopened => reopened') /\ (reopened' \/ \A n \in ConvIds : Open(conv', n) => Open(conv, n))
      BY <1>2
    <2>. QED  BY <1>2, <2>1, ConvDesksStep
  <1>. QED  BY <1>1, <1>3 DEF ConvInv

(* A desk that holds nothing does not hold the identity.                   *)
LEMMA FreeHoldsNoLock ==
    ASSUME ConvInv, NEW d \in Desks, cjob[d].op \notin {"create", "add"}
    PROVE  idLock # d
  BY DEF ConvInv, ConvDesksHold

LEMMA CopyTaken ==
    ASSUME ConvInv, NEW d \in Desks, NEW n \in Present(conv), NEW change \in ConvRow, TakeCopy(d, n, change),
           change.started = conv[n].started, change.breach <=> conv[n].breach, n \in overtaken \/ Timed(change)
    PROVE  ConvInv'
  <1>. DEFINE j == [op |-> "edit", n |-> n, seen |-> conv[n], copy |-> change]
  <1>1. /\ n \in ConvIds /\ conv[n] # NoRow /\ conv[n] \in ConvRow /\ conv[n].started \in arrived
    BY DEF ConvInv, ConvRows, ConvHolds, Present
  <1>2. ConvJob(j, conv, overtaken, reopened, arrived) /\ j.op = "edit"
    BY <1>1 DEF ConvJob, Edits
  <1>3. cjob[d].op = "free"
    BY DEF TakeCopy, Free
  <1>4. idLock # d
    BY <1>3, FreeHoldsNoLock
  <1>5. edits' \in 0 .. MaxEdits
    BY ConvAssumption DEF ConvInv, TakeCopy
  <1>6. UNCHANGED <<conv, arrived, idLock, reopened, overtaken, told, toldTwice>> /\ cjob' = [cjob EXCEPT ![d] = j]
    BY DEF TakeCopy
  <1>. HIDE DEF j
  <1>. QED  BY <1>2, <1>4, <1>5, <1>6, DeskOnly

LEMMA ConvInvNext == ConvInv /\ (ConvNext \/ UNCHANGED convVars) => ConvInv'
  <1>. SUFFICES ASSUME ConvInv, ConvNext \/ UNCHANGED convVars PROVE ConvInv'
    OBVIOUS
  <1>0. /\ conv \in [ConvIds -> ConvRow \cup {NoRow}] /\ NoRow \notin ConvRow
        /\ \A k \in ConvIds : ConvHolds(k, conv[k], overtaken, arrived)
        /\ reopened \in BOOLEAN /\ edits \in 0 .. MaxEdits /\ arrived \subseteq Inbounds /\ overtaken \subseteq ConvIds
        /\ OneOpen(conv, reopened) /\ Marks(told, toldTwice, conv, overtaken, arrived)
        /\ \A k \in Desks : ConvJob(cjob[k], conv, overtaken, reopened, arrived) /\ (idLock = k <=> cjob[k].op \in {"create", "add"})
    BY ConvRowAssumption DEF ConvInv, ConvRows, ConvDesksHold
  <1>00. ConvJob(Free, conv, overtaken, reopened, arrived) /\ Free.op \notin {"create", "add"} /\ \A cv, over, reo, arr : ConvJob(Free, cv, over, reo, arr)
    BY DEF ConvJob, Free
  <1>01. \A d \in Desks : /\ cjob[d].op = "edit" => Edits(cjob[d], conv, overtaken, arrived)
                          /\ cjob[d].op = "create" => Creates(cjob[d], conv, reopened, arrived)
                          /\ cjob[d].op = "add" => Adds(cjob[d], conv, arrived)
                          /\ cjob[d].op = "sla" => Stamps(cjob[d], conv)
    <2>. TAKE d \in Desks
    <2>1. CASE cjob[d] = Free
      BY <2>1 DEF Free
    <2>2. CASE Edits(cjob[d], conv, overtaken, arrived)
      <3>1. cjob[d].op = "edit"
        BY <2>2 DEF Edits
      <3>. QED  BY <2>2, <3>1
    <2>3. CASE Creates(cjob[d], conv, reopened, arrived)
      <3>1. cjob[d].op = "create"
        BY <2>3 DEF Creates
      <3>. QED  BY <2>3, <3>1
    <2>4. CASE Adds(cjob[d], conv, arrived)
      <3>1. cjob[d].op = "add"
        BY <2>4 DEF Adds
      <3>. QED  BY <2>4, <3>1
    <2>5. CASE Stamps(cjob[d], conv)
      <3>1. cjob[d].op = "sla"
        BY <2>5 DEF Stamps
      <3>. QED  BY <2>5, <3>1
    <2>. QED  BY <1>0, <2>1, <2>2, <2>3, <2>4, <2>5 DEF ConvJob
  <1>1. CASE UNCHANGED convVars
    BY <1>1 DEF convVars, ConvInv
  <1>2. ASSUME NEW d \in Desks, NEW n \in Present(conv), AssignConversation(d, n) \/ LinkLead(d, n)
        PROVE  ConvInv'
    <2>1. conv[n] \in ConvRow /\ (n \in overtaken \/ Timed(conv[n])) /\ TakeCopy(d, n, conv[n])
      BY <1>0, <1>2 DEF Present, ConvHolds, AssignConversation, LinkLead
    <2>. QED  BY <2>1, CopyTaken
  <1>3. ASSUME NEW d \in Desks, NEW n \in Present(conv), Reply(d, n)
        PROVE  ConvInv'
    <2>. DEFINE c == [StopSLA(conv[n]) EXCEPT !.answered = TRUE]
    <2>1. conv[n] \in ConvRow
      BY <1>0 DEF Present
    <2>2. c \in ConvRow /\ c.started = conv[n].started /\ (c.breach <=> conv[n].breach) /\ Timed(c)
      BY <2>1 DEF ConvRow, StopSLA, Timed
    <2>3. TakeCopy(d, n, c)
      BY <1>3 DEF Reply
    <2>. HIDE DEF c
    <2>. QED  BY <2>2, <2>3, CopyTaken
  <1>4. ASSUME NEW d \in Desks, NEW n \in Present(conv), NEW s \in Closings \cup {"open"}, SetStatus(d, n, s)
        PROVE  ConvInv'
    <2>1. conv[n] \in ConvRow /\ (n \in overtaken \/ Timed(conv[n]))
      BY <1>0 DEF Present, ConvHolds
    <2>2. CASE s \in Closings /\ TakeCopy(d, n, MarkClosed(conv[n], s))
      <3>1. /\ MarkClosed(conv[n], s) \in ConvRow /\ MarkClosed(conv[n], s).started = conv[n].started
            /\ (MarkClosed(conv[n], s).breach <=> conv[n].breach) /\ Timed(MarkClosed(conv[n], s))
        BY <2>1, <2>2 DEF ConvRow, MarkClosed, Timed
      <3>. QED  BY <2>2, <3>1, CopyTaken
    <2>3. CASE TakeCopy(d, n, [conv[n] EXCEPT !.status = "open", !.stopped = FALSE])
      <3>. DEFINE c == [conv[n] EXCEPT !.status = "open", !.stopped = FALSE]
      <3>1. c \in ConvRow /\ c.started = conv[n].started /\ (c.breach <=> conv[n].breach) /\ Timed(c)
        BY <2>1 DEF ConvRow, Timed
      <3>2. TakeCopy(d, n, c)
        BY <2>3
      <3>. HIDE DEF c
      <3>. QED  BY <3>1, <3>2, CopyTaken
    <2>. QED  BY <1>4, <2>2, <2>3 DEF SetStatus, Closings
  <1>5. ASSUME NEW d \in Desks, WriteConversation(d)
        PROVE  ConvInv'
    <2>1. Edits(cjob[d], conv, overtaken, arrived)
      BY <1>01, <1>5 DEF WriteConversation
    <2>2. PICK n, seen, copy : n = cjob[d].n /\ seen = cjob[d].seen /\ copy = cjob[d].copy
      OBVIOUS
    <2>3. /\ n \in ConvIds /\ conv[n] # NoRow /\ seen \in ConvRow /\ copy \in ConvRow
          /\ copy.started \in arrived /\ copy.started = seen.started /\ (copy.breach <=> seen.breach)
          /\ n \in overtaken \/ Timed(copy)
      BY <2>1, <2>2 DEF Edits
    <2>4. UNCHANGED <<edits, arrived, idLock, told, toldTwice>> /\ cjob' = [cjob EXCEPT ![d] = Free] /\ idLock # d
      BY <1>0, <1>5 DEF WriteConversation
    <2>5. CASE UNCHANGED <<conv, reopened, overtaken>>
      BY <1>0, <1>00, <2>4, <2>5, DeskOnly
    <2>6. CASE UpdateConversation(n, seen, copy)
      <3>1. /\ ConvRows(conv', overtaken', reopened', arrived')
            /\ Marks(told', toldTwice', conv', overtaken', arrived')
            /\ \A k \in ConvIds : conv[k] # NoRow => conv'[k] # NoRow
            /\ overtaken \subseteq overtaken' /\ (reopened => reopened')
            /\ reopened' \/ \A k \in ConvIds : Open(conv', k) => Open(conv, k)
        BY <1>0, <2>3, <2>4, <2>6, RowWritten
      <3>2. reopened' \in BOOLEAN
        BY <3>1 DEF ConvRows
      <3>3. ConvDesksHold(cjob', idLock', conv', overtaken', reopened', arrived')
        BY <1>00, <2>4, <3>1, <3>2, ConvDesksStep
      <3>. QED  BY <1>0, <2>4, <3>1, <3>3 DEF ConvInv
    <2>. QED  BY <1>5, <2>2, <2>5, <2>6 DEF WriteConversation
  <1>6. ASSUME NEW d \in Desks, NEW e \in Inbounds, UpsertIdentity(d, e)
        PROVE  ConvInv'
    <2>1. /\ UNCHANGED <<edits, conv, arrived, reopened, overtaken, told, toldTwice>>
          /\ idLock = NoRow /\ idLock' = d /\ e \in Inbounds \ arrived
      BY <1>6 DEF UpsertIdentity
    <2>2. CASE FindOpenByIdentity = {}
      <3>. DEFINE j == [op |-> "create", e |-> e]
      <3>1. \A n \in ConvIds : ~Open(conv, n)
        BY <1>0, <2>2 DEF FindOpenByIdentity, Present, Open
      <3>2. ConvJob(j, conv, overtaken, reopened, arrived) /\ j.op = "create"
        BY <2>1, <3>1 DEF ConvJob, Creates
      <3>3. cjob' = [cjob EXCEPT ![d] = j]
        BY <1>6, <2>2 DEF UpsertIdentity
      <3>. HIDE DEF j
      <3>. QED  BY <1>0, <2>1, <3>2, <3>3, DeskOnly
    <2>3. CASE FindOpenByIdentity # {}
      <3>. DEFINE n == CHOOSE n \in FindOpenByIdentity : \A m \in FindOpenByIdentity : m <= n
                  j == [op |-> "add", e |-> e, n |-> n, seen |-> conv[n]]
      <3>1. cjob' = [cjob EXCEPT ![d] = j]
        BY <1>6, <2>3 DEF UpsertIdentity
      <3>2. n \in FindOpenByIdentity
        <4>1. FindOpenByIdentity \in SUBSET ConvIds
          BY <1>0 DEF FindOpenByIdentity, Present
        <4>2. FindOpenByIdentity \in SUBSET Nat /\ IsFiniteSet(FindOpenByIdentity)
          BY <4>1, ConvAssumption, FS_Subset
        <4>3. \E k \in FindOpenByIdentity : \A m \in FindOpenByIdentity : m <= k
          BY <2>3, <4>2, Largest
        <4>. QED  BY <4>3
      <3>. HIDE DEF n
      <3>3. n \in ConvIds /\ conv[n] # NoRow /\ conv[n] \in ConvRow /\ conv[n].status = "open" /\ conv[n].started \in arrived
        BY <1>0, <3>2 DEF FindOpenByIdentity, Present, ConvHolds
      <3>4. ConvJob(j, conv, overtaken, reopened, arrived) /\ j.op = "add"
        BY <2>1, <3>3 DEF ConvJob, Adds
      <3>. HIDE DEF j
      <3>. QED  BY <1>0, <2>1, <3>1, <3>4, DeskOnly
    <2>. QED  BY <2>2, <2>3
  <1>7. ASSUME NEW d \in Desks, IngestMessage(d)
        PROVE  ConvInv'
    <2>1. UNCHANGED <<edits, told, toldTwice>> /\ arrived' = arrived \cup {cjob[d].e} /\ idLock' = NoRow
          /\ cjob' = [cjob EXCEPT ![d] = Free] /\ idLock = d
      BY <1>0, <1>7 DEF IngestMessage
    <2>2. CASE cjob[d].op = "create"
      <3>1. Creates(cjob[d], conv, reopened, arrived)
        BY <1>01, <2>2
      <3>2. PICK e \in Inbounds \ arrived : e = cjob[d].e
        BY <3>1 DEF Creates
      <3>3. PICK n \in ConvIds : conv[n] = NoRow /\ CreateConversation(n, e) /\ UNCHANGED <<reopened, overtaken>>
        BY <1>0, <1>7, <2>2, <3>2 DEF IngestMessage, Fresh
      <3>. DEFINE c == [status |-> "open", started |-> e, stopped |-> FALSE, warning |-> FALSE,
                        breach |-> FALSE, waiting |-> TRUE, answered |-> FALSE]
      <3>4. c \in ConvRow /\ Timed(c) /\ c.started = e /\ c.status = "open"
        BY <3>2 DEF ConvRow, Timed
      <3>5. conv' = [conv EXCEPT ![n] = c]
        BY <3>3 DEF CreateConversation
      <3>. HIDE DEF c
      <3>6. conv' \in [ConvIds -> ConvRow \cup {NoRow}] /\ conv'[n] = c /\ \A k \in ConvIds \ {n} : conv'[k] = conv[k]
        BY <1>0, <3>4, <3>5
      <3>7. ConvRows(conv', overtaken', reopened', arrived')
        <4>1. \A k \in ConvIds : ConvHolds(k, conv'[k], overtaken', arrived')
          BY <1>0, <2>1, <3>2, <3>3, <3>4, <3>6 DEF ConvHolds
        <4>2. OneOpen(conv', reopened')
          BY <1>0, <3>1, <3>3, <3>6 DEF Creates, OneOpen, Open
        <4>. QED  BY <1>0, <2>1, <3>2, <3>3, <3>6, <4>1, <4>2 DEF ConvRows
      <3>8. Marks(told', toldTwice', conv', overtaken', arrived')
        BY <1>0, <2>1, <3>3, <3>6 DEF Marks, MarkHolds
      <3>9. ConvDesksHold(cjob', idLock', conv', overtaken', reopened', arrived')
        <4>1. \A k \in ConvIds : conv[k] # NoRow => conv'[k] # NoRow
          BY <3>3, <3>6
        <4>. QED  BY <1>0, <1>00, <2>1, <3>3, <4>1, ConvDesksStep
      <3>. QED  BY <1>0, <2>1, <3>7, <3>8, <3>9 DEF ConvInv
    <2>3. CASE cjob[d].op = "add"
      <3>1. Adds(cjob[d], conv, arrived)
        BY <1>01, <2>3
      <3>2. PICK e, n, seen : e = cjob[d].e /\ n = cjob[d].n /\ seen = cjob[d].seen
        OBVIOUS
      <3>3. /\ e \in Inbounds \ arrived /\ n \in ConvIds /\ conv[n] # NoRow /\ seen \in ConvRow /\ seen.status = "open"
            /\ seen.started \in arrived
        BY <3>1, <3>2 DEF Adds
      <3>4. UpdateConversation(n, seen, Inbound(seen, e))
        BY <1>7, <2>3, <3>2 DEF IngestMessage
      <3>. DEFINE c == Inbound(seen, e)
      <3>5. /\ c \in ConvRow /\ Timed(c) /\ c.started \in arrived'
            /\ (c.started = seen.started /\ (c.breach <=> seen.breach)) \/ c.started \notin arrived
        <4>1. CASE seen.stopped \/ seen.answered
          BY <2>1, <3>2, <3>3, <4>1 DEF Inbound, StartSLA, ConvRow, Timed
        <4>2. CASE ~(seen.stopped \/ seen.answered)
          BY <2>1, <3>2, <3>3, <4>2 DEF Inbound, ConvRow, Timed
        <4>. QED  BY <4>1, <4>2
      <3>6. UpdateConversation(n, seen, c)
        BY <3>4
      <3>. HIDE DEF c
      <3>7. /\ ConvRows(conv', overtaken', reopened', arrived')
            /\ Marks(told', toldTwice', conv', overtaken', arrived')
            /\ \A k \in ConvIds : conv[k] # NoRow => conv'[k] # NoRow
            /\ overtaken \subseteq overtaken' /\ (reopened => reopened')
        <4>1. arrived' \subseteq Inbounds /\ arrived \subseteq arrived'
          BY <1>0, <2>1, <3>2, <3>3
        <4>. QED  BY <2>1, <3>3, <3>5, <3>6, <4>1, RowWritten
      <3>8. ConvDesksHold(cjob', idLock', conv', overtaken', reopened', arrived')
        <4>1. reopened' \in BOOLEAN
          BY <3>7 DEF ConvRows
        <4>2. arrived \subseteq arrived'
          BY <2>1
        <4>. QED  BY <1>0, <1>00, <2>1, <3>7, <4>1, <4>2, ConvDesksStep
      <3>. QED  BY <1>0, <2>1, <3>7, <3>8 DEF ConvInv
    <2>. QED  BY <1>7, <2>2, <2>3 DEF IngestMessage
  <1>8. ASSUME NEW d \in Desks, IngestAbort(d)
        PROVE  ConvInv'
    <2>1. /\ UNCHANGED <<edits, conv, arrived, reopened, overtaken, told, toldTwice>>
          /\ cjob' = [cjob EXCEPT ![d] = Free] /\ idLock' = NoRow /\ idLock = d
      BY <1>0, <1>8 DEF IngestAbort
    <2>. QED  BY <1>0, <1>00, <2>1, DeskOnly
  <1>9. ASSUME NEW d \in Desks, NEW stage \in SLAStages, SweepSLA(d, stage)
        PROVE  ConvInv'
    <2>1. PICK n \in ListDueForSLA(stage) : cjob' = [cjob EXCEPT ![d] = [op |-> "sla", n |-> n, stage |-> stage]]
      BY <1>9 DEF SweepSLA
    <2>. DEFINE j == [op |-> "sla", n |-> n, stage |-> stage]
    <2>2. n \in ConvIds /\ conv[n] # NoRow
      BY <1>0 DEF ListDueForSLA, FindOpenByIdentity, Present
    <2>3. ConvJob(j, conv, overtaken, reopened, arrived) /\ j.op = "sla" /\ cjob' = [cjob EXCEPT ![d] = j]
      BY <2>1, <2>2 DEF ConvJob, Stamps
    <2>4. UNCHANGED <<edits, conv, arrived, idLock, reopened, overtaken, told, toldTwice>> /\ idLock # d
      BY <1>0, <1>9 DEF SweepSLA, Free
    <2>. HIDE DEF j
    <2>. QED  BY <1>0, <2>3, <2>4, DeskOnly
  <1>10. ASSUME NEW d \in Desks, MarkSLAStage(d)
         PROVE  ConvInv'
    <2>1. Stamps(cjob[d], conv)
      BY <1>01, <1>10 DEF MarkSLAStage
    <2>2. PICK n, stage : n = cjob[d].n /\ stage = cjob[d].stage
      OBVIOUS
    <2>3. n \in ConvIds /\ conv[n] # NoRow /\ stage \in SLAStages
      BY <2>1, <2>2 DEF Stamps
    <2>. DEFINE mark == [n |-> n, stage |-> stage, started |-> conv[n].started]
    <2>4. UNCHANGED <<edits, arrived, idLock, reopened, overtaken>> /\ cjob' = [cjob EXCEPT ![d] = Free] /\ idLock # d
      BY <1>0, <1>10 DEF MarkSLAStage
    <2>5. CASE UNCHANGED <<conv, told, toldTwice>>
      BY <1>0, <1>00, <2>4, <2>5, DeskOnly
    <2>6. CASE /\ ~conv[n][stage] /\ conv' = [conv EXCEPT ![n][stage] = TRUE] /\ told' = told \cup {mark}
               /\ toldTwice' = IF mark \in told THEN toldTwice \cup {mark} ELSE toldTwice
      <3>. DEFINE c == [conv[n] EXCEPT ![stage] = TRUE]
      <3>1. c \in ConvRow /\ c.started = conv[n].started /\ c.status = conv[n].status /\ (Timed(c) <=> Timed(conv[n])) /\ c[stage]
            /\ (conv[n].warning => c.warning) /\ (conv[n].breach => c.breach)
        <4>1. conv[n] \in ConvRow
          BY <1>0, <2>3
        <4>2. CASE stage = "warning"
          BY <4>1, <4>2 DEF ConvRow, Timed
        <4>3. CASE stage = "breach"
          BY <4>1, <4>3 DEF ConvRow, Timed
        <4>. QED  BY <2>3, <4>2, <4>3 DEF SLAStages
      <3>2. conv' = [conv EXCEPT ![n] = c]
        BY <1>0, <2>3, <2>6
      <3>. HIDE DEF c
      <3>3. conv' \in [ConvIds -> ConvRow \cup {NoRow}] /\ conv'[n] = c /\ \A k \in ConvIds \ {n} : conv'[k] = conv[k]
        BY <1>0, <2>3, <3>1, <3>2
      <3>4. ConvRows(conv', overtaken', reopened', arrived') /\ \A k \in ConvIds : Open(conv', k) => Open(conv, k)
        <4>1. \A k \in ConvIds : ConvHolds(k, conv'[k], overtaken', arrived')
          BY <1>0, <2>3, <2>4, <3>1, <3>3 DEF ConvHolds
        <4>2. \A k \in ConvIds : Open(conv', k) => Open(conv, k)
          BY <2>3, <3>1, <3>3 DEF Open
        <4>3. OneOpen(conv', reopened')
          BY <1>0, <2>4, <4>2 DEF OneOpen
        <4>. QED  BY <1>0, <2>4, <3>3, <4>1, <4>2, <4>3 DEF ConvRows
      <3>5. ASSUME NEW m \in told'
            PROVE  MarkHolds(m, conv', overtaken', arrived')
        <4>1. CASE m = mark
          <5>1. m.n = n /\ m.stage = stage /\ m.started = conv[n].started /\ m = [n |-> m.n, stage |-> m.stage, started |-> m.started]
            BY <4>1
          <5>2. conv'[m.n][m.stage] /\ conv'[m.n] # NoRow /\ conv[n].started \in arrived
            BY <1>0, <2>3, <3>1, <3>3, <5>1 DEF ConvHolds
          <5>. QED  BY <2>3, <2>4, <5>1, <5>2 DEF MarkHolds
        <4>2. CASE m \in told
          <5>1. MarkHolds(m, conv, overtaken, arrived)
            BY <1>0, <4>2 DEF Marks
          <5>2. CASE m.n # n
            BY <2>4, <3>3, <5>1, <5>2 DEF MarkHolds
          <5>3. CASE m.n = n
            <6>1. conv[n][m.stage] => c[m.stage]
              BY <3>1, <5>1 DEF MarkHolds, SLAStages
            <6>. QED  BY <1>0, <2>3, <2>4, <3>1, <3>3, <5>1, <5>3, <6>1 DEF MarkHolds
          <5>. QED  BY <5>2, <5>3
        <4>. QED  BY <2>6, <4>1, <4>2
      <3>6. ASSUME NEW m \in toldTwice'
            PROVE  m \in told' /\ m.n \in overtaken'
        <4>1. CASE m \in toldTwice
          BY <1>0, <2>4, <2>6, <4>1 DEF Marks
        <4>2. CASE m = mark /\ mark \in told
          <5>1. MarkHolds(m, conv, overtaken, arrived) /\ m.n = n /\ m.stage = stage /\ m.started = conv[n].started
            BY <1>0, <4>2 DEF Marks
          <5>. QED  BY <2>4, <2>6, <4>2, <5>1 DEF MarkHolds
        <4>. QED  BY <2>6, <4>1, <4>2
      <3>7. ConvDesksHold(cjob', idLock', conv', overtaken', reopened', arrived')
        <4>1. \A k \in ConvIds : conv[k] # NoRow => conv'[k] # NoRow
          BY <1>0, <3>1, <3>3
        <4>. QED  BY <1>0, <1>00, <2>4, <3>4, <4>1, ConvDesksStep
      <3>. QED  BY <1>0, <2>4, <3>4, <3>5, <3>6, <3>7 DEF ConvInv, Marks
    <2>. QED  BY <1>10, <2>2, <2>5, <2>6 DEF MarkSLAStage
  <1>. QED
    BY <1>1, <1>2, <1>3, <1>4, <1>5, <1>6, <1>7, <1>8, <1>9, <1>10 DEF ConvNext

-----------------------------------------------------------------------------
(* What runs by itself.                                                    *)
(* The slot of a passport's claim, and the dates of an application.        *)
SlotFits(left, slot) ==
    IF left < 0 THEN slot = 0
    ELSE left <= slot /\ \A s \in PassportReminderDays : left <= s => slot <= s
DatesFit(v) ==
    /\ v.status \in {"submitted", "processing", "approved", "rejected", "issued"} => v.submitted # NoRow
    /\ v.status \in {"approved", "rejected", "issued"} => v.decided # NoRow

(* What a job holds between two steps.                                     *)
Claims(j) == j = [op |-> "claim", key |-> j.key, left |-> j.left] /\ j.key \in LedgerKeys
             /\ (j.key[1] = "passport" => SlotFits(j.left, j.key[2]))
Moves(j) == /\ j = [op |-> "transition", from |-> j.from, to |-> j.to]
            /\ j.from \in VisaStatuses /\ j.to \in VisaRow /\ ValidTransition(j.from, j.to.status) /\ DatesFit(j.to)
AutoJob(j) == j.op \in {"free", "follow", "list", "docs"} \/ Claims(j) \/ Moves(j)

(* Two claims under way are of different keys, and none is in the ledger.  *)
ClaimsApart(jobs, led) ==
    \A d \in Desks : jobs[d].op = "claim" =>
        jobs[d].key \notin led /\ \A e \in Desks \ {d} : jobs[e].op = "claim" => jobs[e].key # jobs[d].key

VisaInv(v, log) ==
    /\ v = NoRow => log = <<>>
    /\ v # NoRow => v \in VisaRow /\ DatesFit(v) /\ (log # <<>> => v.status = log[Len(log)].to)
    /\ log \in Seq([from : VisaStatuses, to : VisaStatuses]) /\ Len(log) <= MaxVisaEvents
    /\ \A i \in DOMAIN log : ValidTransition(log[i].from, log[i].to)

(* Between two steps of a handler all steps before the next one succeeded, *)
(* unless one failed.                                                      *)
Deliveries(h) ==
    [op : {"handle", "handled"}, h : {h}, at : 1 .. Len(h) + 1, failed : BOOLEAN, tries : 1 .. 3,
     done : [1 .. Len(h) -> Nat], effects : [1 .. Len(h) -> Nat]]
DeliveryFits(x) ==
    /\ x.h \in ReactorHandlers /\ x \in Deliveries(x.h)
    /\ x.op = "handle" /\ ~x.failed => \A i \in 1 .. Len(x.h) : i < x.at => x.done[i] > 0
    /\ x.op = "handled" => \A i \in 1 .. Len(x.h) : x.done[i] > 0
    /\ \A i \in 1 .. Len(x.h) : x.h[i].once => x.effects[i] <= 1

ScheduleFits(fxLive, overrides, registered, out) ==
    out # NoRow =>
        /\ DOMAIN out \subseteq registered
        /\ \A j \in DOMAIN overrides :
            IF overrides[j] = "off" THEN j \notin DOMAIN out ELSE j \in DOMAIN out /\ out[j] = overrides[j]
        /\ \A j \in DOMAIN defaultSchedule(fxLive) \ DOMAIN overrides : j \in DOMAIN out

AutoInv ==
    /\ ledger \subseteq LedgerKeys /\ findingTold.once = ledger /\ ~findingTold.twice
    /\ runTick \in 0 .. LastRunTick
    /\ runDesk = [d \in Desks |-> runDesk[d]] /\ \A d \in Desks : AutoJob(runDesk[d])
    /\ ClaimsApart(runDesk, ledger)
    /\ VisaInv(visa, visaLog)
    /\ ruleTask \in {"none", "open", "done"}
    /\ checklist \in BOOLEAN /\ standing \in Standings /\ docEvents \subseteq {"due", "dead"}
    /\ delivery = Free \/ DeliveryFits(delivery)
    /\ schedule = Free \/ ScheduleFits(schedule.fxLive, schedule.overrides, schedule.registered, schedule.out)

LEMMA AutoInitHolds == AutoInit => AutoInv
  <1>. SUFFICES ASSUME AutoInit PROVE AutoInv
    OBVIOUS
  <1>1. \A d \in Desks : runDesk[d].op = "free"
    BY DEF AutoInit, Free
  <1>2. VisaInv(visa, visaLog)
    BY AutoAssumption DEF AutoInit, VisaInv
  <1>3. findingTold.once = ledger /\ ~findingTold.twice /\ ledger = {}
    BY DEF AutoInit
  <1>4. ClaimsApart(runDesk, ledger)
    BY <1>1 DEF ClaimsApart
  <1>5. runDesk = [d \in Desks |-> runDesk[d]] /\ \A d \in Desks : AutoJob(runDesk[d])
    BY <1>1 DEF AutoInit, AutoJob
  <1>6. /\ ledger \subseteq LedgerKeys /\ runTick \in 0 .. LastRunTick /\ ruleTask \in {"none", "open", "done"}
        /\ checklist \in BOOLEAN /\ standing \in Standings /\ docEvents \subseteq {"due", "dead"}
        /\ delivery = Free /\ schedule = Free
    <2>1. runTick \in 0 .. LastRunTick /\ ledger \subseteq LedgerKeys
      BY AutoAssumption DEF AutoInit
    <2>2. ruleTask = "none" /\ delivery = Free /\ schedule = Free
      BY DEF AutoInit
    <2>3. checklist \in BOOLEAN
      BY Zenon DEF AutoInit
    <2>4. standing \in Standings /\ docEvents \subseteq {"due", "dead"}
      BY DEF AutoInit, Standings
    <2>. QED  BY <2>1, <2>2, <2>3, <2>4
  <1>. QED  BY <1>2, <1>3, <1>4, <1>5, <1>6 DEF AutoInv

LEMMA HandlerSteps ==
    ASSUME NEW h \in ReactorHandlers
    PROVE  Len(h) \in Nat /\ DOMAIN h = 1 .. Len(h)
  BY DEF ReactorHandlers, onPaymentReversed, DocumentSteps, onTargetStatusChanged, onSLABreached, onTaskNoteAdded,
         onConversationResponded, onLeadStageChanged, onTaskOverdue

LEMMA AutoInvHolds ==
    AutoInv => AutoTypeOK /\ ToldOncePerPeriod /\ SlotIsNearest /\ VisaFitsHistory /\ HandledMeansApplied /\ ScheduleHonest
  <1>. SUFFICES ASSUME AutoInv
       PROVE  AutoTypeOK /\ ToldOncePerPeriod /\ SlotIsNearest /\ VisaFitsHistory /\ HandledMeansApplied /\ ScheduleHonest
    OBVIOUS
  <1>1. AutoTypeOK
    BY DEF AutoInv, AutoTypeOK, VisaInv
  <1>2. ToldOncePerPeriod
    BY DEF AutoInv, ToldOncePerPeriod
  <1>3. SlotIsNearest
    <2>. SUFFICES ASSUME NEW d \in Desks, runDesk[d].op = "claim", runDesk[d].key[1] = "passport"
         PROVE  SlotFits(runDesk[d].left, runDesk[d].key[2])
      BY DEF SlotIsNearest, SlotFits
    <2>1. AutoJob(runDesk[d])
      BY DEF AutoInv
    <2>. QED  BY <2>1 DEF AutoJob, Claims, Moves
  <1>4. VisaFitsHistory
    BY DEF AutoInv, VisaInv, DatesFit, VisaFitsHistory
  <1>5. HandledMeansApplied
    <2>. SUFFICES ASSUME DeliveryFits(delivery)
         PROVE  \A i \in DOMAIN delivery.h :
                  (delivery.op = "handled" => delivery.done[i] > 0) /\ (delivery.h[i].once => delivery.effects[i] <= 1)
      BY DEF AutoInv, HandledMeansApplied
    <2>1. DOMAIN delivery.h = 1 .. Len(delivery.h)
      BY HandlerSteps DEF DeliveryFits
    <2>. QED  BY <2>1 DEF DeliveryFits
  <1>6. ScheduleHonest
    BY DEF AutoInv, ScheduleHonest, ScheduleFits
  <1>. QED  BY <1>1, <1>2, <1>3, <1>4, <1>5, <1>6

(* A schedule that is built honours its overrides and has its handlers.    *)
LEMMA ScheduleBuilt ==
    ASSUME NEW fxLive, NEW overrides, NEW registered
    PROVE  ScheduleFits(fxLive, overrides, registered, buildSchedule(fxLive, overrides, registered))
  <1>. DEFINE defaults == defaultSchedule(fxLive)
              kept == {j \in DOMAIN defaults : Effective(defaults, overrides, j) # "off"}
              out == buildSchedule(fxLive, overrides, registered)
  <1>1. \A j \in DOMAIN defaults : defaults[j] = "default"
    BY DEF defaultSchedule
  <1>2. CASE kept \subseteq registered /\ DOMAIN overrides \subseteq DOMAIN defaults
    <2>1. out = [j \in kept |-> Effective(defaults, overrides, j)]
      BY <1>2 DEF buildSchedule
    <2>. HIDE DEF out, defaults
    <2>2. DOMAIN out \subseteq registered
      BY <1>2, <2>1
    <2>3. ASSUME NEW j \in DOMAIN overrides
          PROVE  IF overrides[j] = "off" THEN j \notin DOMAIN out ELSE j \in DOMAIN out /\ out[j] = overrides[j]
      BY <1>2, <2>1 DEF Effective
    <2>4. ASSUME NEW j \in DOMAIN defaults \ DOMAIN overrides
          PROVE  j \in DOMAIN out
      BY <1>1, <2>1 DEF Effective
    <2>. QED  BY <2>2, <2>3, <2>4 DEF ScheduleFits, out, defaults
  <1>3. CASE ~(kept \subseteq registered /\ DOMAIN overrides \subseteq DOMAIN defaults)
    <2>1. out = NoRow
      BY <1>3 DEF buildSchedule
    <2>. QED  BY <2>1 DEF ScheduleFits
  <1>. QED  BY <1>2, <1>3


(* The reactors: one event in the hands of its handler.                    *)
LEMMA ReactKeeps ==
    ASSUME delivery = Free \/ DeliveryFits(delivery),
           DeliverToReactor \/ StepDone \/ StepFails \/ Redeliver \/ Handled
    PROVE  delivery' = Free \/ DeliveryFits(delivery')
  <1>1. CASE DeliverToReactor
    <2>1. PICK h \in ReactorHandlers :
            delivery' = [op |-> "handle", h |-> h, at |-> 1, failed |-> FALSE, tries |-> 1,
                         done |-> [i \in DOMAIN h |-> 0], effects |-> [i \in DOMAIN h |-> 0]]
      BY <1>1 DEF DeliverToReactor
    <2>2. Len(h) \in Nat /\ DOMAIN h = 1 .. Len(h)
      BY HandlerSteps
    <2>3. delivery' \in Deliveries(h) /\ delivery'.h = h
      BY <2>1, <2>2 DEF Deliveries
    <2>4. delivery'.at = 1 /\ delivery'.op = "handle" /\ \A i \in 1 .. Len(h) : delivery'.effects[i] = 0
      BY <2>1, <2>2
    <2>. QED  BY <2>2, <2>3, <2>4 DEF DeliveryFits
  <1>2. ASSUME delivery.op = "handle", DeliveryFits(delivery), StepDone \/ StepFails \/ Redeliver \/ Handled
        PROVE  DeliveryFits(delivery')
    <2>1. PICK h \in ReactorHandlers : h = delivery.h
      BY <1>2 DEF DeliveryFits
    <2>2. /\ Len(h) \in Nat /\ DOMAIN h = 1 .. Len(h) /\ delivery \in Deliveries(h)
          /\ (~delivery.failed => \A i \in 1 .. Len(h) : i < delivery.at => delivery.done[i] > 0)
          /\ \A i \in 1 .. Len(h) : h[i].once => delivery.effects[i] <= 1
      BY <1>2, <2>1, HandlerSteps DEF DeliveryFits
    <2>3. CASE StepDone
      <3>1. PICK i \in 1 .. Len(h) : i = delivery.at
        <4>1. delivery.at \in 1 .. Len(h) + 1 /\ delivery.at <= Len(h)
          BY <2>1, <2>2, <2>3 DEF StepDone, Deliveries
        <4>. QED  BY <2>2, <4>1
      <3>2. PICK k \in Nat : k = (IF h[i].once /\ delivery.effects[i] > 0 THEN delivery.effects[i] ELSE delivery.effects[i] + 1)
        BY <2>2 DEF Deliveries
      <3>3. delivery' = [delivery EXCEPT !.at = i + 1, !.done[i] = delivery.done[i] + 1, !.effects[i] = k]
        BY <2>1, <2>3, <3>1, <3>2 DEF StepDone
      <3>4. /\ delivery' \in Deliveries(h) /\ delivery'.op = "handle" /\ delivery'.h = h /\ delivery'.at = i + 1
            /\ (delivery'.failed <=> delivery.failed)
            /\ delivery'.done = [delivery.done EXCEPT ![i] = delivery.done[i] + 1]
            /\ delivery'.effects = [delivery.effects EXCEPT ![i] = k]
        <4>1. i + 1 \in 1 .. Len(h) + 1
          BY <2>2
        <4>2. [delivery.done EXCEPT ![i] = delivery.done[i] + 1] \in [1 .. Len(h) -> Nat]
          BY <2>2 DEF Deliveries
        <4>3. [delivery.effects EXCEPT ![i] = k] \in [1 .. Len(h) -> Nat]
          BY <2>2 DEF Deliveries
        <4>4. delivery' = [delivery EXCEPT !.at = i + 1, !.done = [delivery.done EXCEPT ![i] = delivery.done[i] + 1],
                                           !.effects = [delivery.effects EXCEPT ![i] = k]]
          BY <2>2, <3>3 DEF Deliveries
        <4>. QED  BY <1>2, <2>1, <2>2, <4>1, <4>2, <4>3, <4>4 DEF Deliveries
      <3>5. \A m \in 1 .. Len(h) : /\ delivery.done[m] \in Nat /\ delivery.effects[m] \in Nat
                                   /\ delivery'.done[m] = IF m = i THEN delivery.done[i] + 1 ELSE delivery.done[m]
                                   /\ delivery'.effects[m] = IF m = i THEN k ELSE delivery.effects[m]
        BY <2>2, <3>4 DEF Deliveries
      <3>6. ~delivery'.failed => \A m \in 1 .. Len(h) : m < i + 1 => delivery'.done[m] > 0
        BY <2>2, <3>1, <3>4, <3>5
      <3>7. \A m \in 1 .. Len(h) : h[m].once => delivery'.effects[m] <= 1
        BY <2>2, <3>2, <3>5
      <3>. QED  BY <3>4, <3>6, <3>7 DEF DeliveryFits
    <2>4. CASE StepFails
      <3>1. delivery.at \in 1 .. Len(h)
        <4>1. delivery.at \in 1 .. Len(h) + 1 /\ delivery.at <= Len(h)
          BY <2>1, <2>2, <2>4 DEF StepFails, Deliveries
        <4>. QED  BY <2>2, <4>1
      <3>2. PICK k \in 1 .. Len(h) + 1 : delivery' = [delivery EXCEPT !.failed = TRUE, !.at = k]
        <4>1. (IF Joins(h) THEN delivery.at + 1 ELSE Len(h) + 1) \in 1 .. Len(h) + 1
          BY <2>2, <3>1
        <4>. QED  BY <2>1, <2>4, <4>1 DEF StepFails
      <3>3. /\ delivery' \in Deliveries(h) /\ delivery'.op = "handle" /\ delivery'.h = h /\ delivery'.failed
            /\ delivery'.effects = delivery.effects
        BY <1>2, <2>1, <2>2, <3>2 DEF Deliveries
      <3>. QED  BY <2>2, <3>3 DEF DeliveryFits
    <2>5. CASE Redeliver
      <3>1. /\ delivery' = [delivery EXCEPT !.at = 1, !.failed = FALSE, !.tries = delivery.tries + 1] /\ delivery.tries < 3
        BY <2>5 DEF Redeliver
      <3>2. /\ delivery' \in Deliveries(h) /\ delivery'.op = "handle" /\ delivery'.h = h /\ delivery'.at = 1
            /\ delivery'.effects = delivery.effects
        <4>1. delivery.tries + 1 \in 1 .. 3 /\ 1 \in 1 .. Len(h) + 1
          BY <2>2, <3>1 DEF Deliveries
        <4>. QED  BY <1>2, <2>1, <2>2, <3>1, <4>1 DEF Deliveries
      <3>. QED  BY <2>2, <3>2 DEF DeliveryFits
    <2>6. CASE Handled
      <3>1. delivery' = [delivery EXCEPT !.op = "handled"] /\ delivery.at > Len(h) /\ ~delivery.failed
        BY <2>1, <2>6 DEF Handled
      <3>2. /\ delivery' \in Deliveries(h) /\ delivery'.op = "handled" /\ delivery'.h = h
            /\ delivery'.effects = delivery.effects /\ delivery'.done = delivery.done
        BY <2>1, <2>2, <3>1 DEF Deliveries
      <3>3. delivery.at \in Nat /\ \A i \in 1 .. Len(h) : delivery.done[i] > 0
        BY <2>2, <3>1 DEF Deliveries
      <3>. QED  BY <2>2, <3>2, <3>3 DEF DeliveryFits
    <2>. QED  BY <1>2, <2>3, <2>4, <2>5, <2>6
  <1>3. StepDone \/ StepFails \/ Redeliver \/ Handled => delivery.op = "handle" /\ delivery # Free
    BY DEF StepDone, StepFails, Redeliver, Handled, Free
  <1>. QED  BY <1>1, <1>2, <1>3

(* What the visa applications go through.                                  *)
LEMMA DatesTransition ==
    ASSUME NEW v \in VisaRow, DatesFit(v), NEW to \in Transitions[v.status], runTick \in 0 .. LastRunTick
    PROVE  TransitionTo(v, to) \in VisaRow /\ DatesFit(TransitionTo(v, to)) /\ TransitionTo(v, to).status = to
  <1>1. to \in VisaStatuses /\ runTick # NoRow
    BY AutoAssumption DEF VisaRow, VisaStatuses, Transitions
  <1>2. TransitionTo(v, to) \in VisaRow /\ TransitionTo(v, to).status = to
    BY <1>1 DEF VisaRow, TransitionTo
  <1>3. /\ to = "submitted" => TransitionTo(v, to).submitted = runTick
        /\ to # "submitted" => TransitionTo(v, to).submitted = v.submitted
        /\ to \in {"approved", "rejected", "issued"} => TransitionTo(v, to).decided = runTick
    BY DEF VisaRow, TransitionTo
  <1>4. to \in {"processing", "approved", "rejected", "issued"} => v.status \in {"submitted", "processing", "approved"}
    BY DEF VisaRow, VisaStatuses, Transitions
  <1>. QED  BY <1>1, <1>2, <1>3, <1>4 DEF DatesFit

LEMMA VisaMoves ==
    ASSUME NEW j, Moves(j), VisaInv(visa, visaLog), Len(visaLog) < MaxVisaEvents, visa' = j.to,
           visaLog' = Append(visaLog, [from |-> j.from, to |-> j.to.status])
    PROVE  VisaInv(visa', visaLog')
  <1>. DEFINE e == [from |-> j.from, to |-> j.to.status]
  <1>1. e \in [from : VisaStatuses, to : VisaStatuses] /\ ValidTransition(e.from, e.to) /\ e.to = j.to.status
    BY DEF Moves, VisaRow
  <1>2. visaLog' = Append(visaLog, e)
    OBVIOUS
  <1>. HIDE DEF e
  <1>3. /\ visaLog' \in Seq([from : VisaStatuses, to : VisaStatuses]) /\ Len(visaLog') = Len(visaLog) + 1
        /\ \A i \in 1 .. Len(visaLog) : visaLog'[i] = visaLog[i]
        /\ visaLog'[Len(visaLog) + 1] = e /\ Len(visaLog) \in Nat /\ DOMAIN visaLog = 1 .. Len(visaLog)
    BY <1>1, <1>2, AppendProperties DEF VisaInv
  <1>4. \A i \in DOMAIN visaLog' : ValidTransition(visaLog'[i].from, visaLog'[i].to)
    BY <1>1, <1>3 DEF VisaInv
  <1>5. visa' # NoRow /\ visa' \in VisaRow /\ DatesFit(visa') /\ visa'.status = visaLog'[Len(visaLog')].to
    BY <1>1, <1>3, AutoAssumption DEF Moves
  <1>6. Len(visaLog') <= MaxVisaEvents
    BY <1>3, AutoAssumption
  <1>. QED  BY <1>3, <1>4, <1>5, <1>6 DEF VisaInv

(* What a job takes up, and lets go.                                       *)
LEMMA JobTaken ==
    ASSUME AutoInv, NEW d \in Desks, NEW j, runDesk' = [runDesk EXCEPT ![d] = j], AutoJob(j), j.op # "claim",
           ledger' \subseteq ledger
    PROVE  /\ runDesk' = [k \in Desks |-> runDesk'[k]] /\ \A k \in Desks : AutoJob(runDesk'[k])
           /\ ClaimsApart(runDesk', ledger')
  <1>1. runDesk' = [k \in Desks |-> runDesk'[k]] /\ runDesk'[d] = j /\ \A k \in Desks \ {d} : runDesk'[k] = runDesk[k]
    BY DEF AutoInv
  <1>. QED  BY <1>1 DEF AutoInv, ClaimsApart

(* The keys of the ledger.                                                 *)
LEMMA SlotOfPassport ==
    ASSUME NEW left \in {91, 90, 31, 30, 0, -1}
    PROVE  passportSlot(left) \in {0, 30, 90, 180} /\ SlotFits(left, passportSlot(left))
  <1>1. CASE left < 0
    BY <1>1 DEF passportSlot, SlotFits
  <1>2. CASE left >= 0
    <2>. DEFINE S == {180} \cup {s \in PassportReminderDays : left <= s}
    <2>1. \E x \in S : \A y \in S : x <= y
      BY <1>2 DEF PassportReminderDays
    <2>2. Min(S) \in S /\ \A y \in S : Min(S) <= y
      BY <2>1 DEF Min
    <2>3. passportSlot(left) = Min(S)
      BY <1>2 DEF passportSlot
    <2>. QED  BY <1>2, <2>2, <2>3 DEF SlotFits, PassportReminderDays
  <1>. QED  BY <1>1, <1>2

LEMMA PeriodKnown ==
    ASSUME NEW job \in Jobs, runTick \in 0 .. LastRunTick
    PROVE  /\ <<LedgerName(job), Period(job)>> \in LedgerKeys
           /\ LedgerName(job) = "passport" => SlotFits(DaysLeft(runTick), Period(job))
  <1>1. DaysLeft(runTick) \in {91, 90, 31, 30, 0, -1}
    <2>1. runTick % 6 \in 0 .. 5
      BY AutoAssumption
    <2>. QED  BY <2>1 DEF DaysLeft
  <1>2. Day \in 0 .. LastRunTick /\ Day \div 7 \in 0 .. LastRunTick
    BY AutoAssumption DEF Day
  <1>3. Period(job) \in {0, 30, 90, 180} \cup 1 .. LastRunTick + 1
    BY <1>1, <1>2, SlotOfPassport, AutoAssumption DEF Period, Jobs
  <1>4. LedgerName(job) = "passport" => Period(job) = passportSlot(DaysLeft(runTick))
    BY DEF LedgerName, Period, Jobs
  <1>. QED  BY <1>1, <1>3, <1>4, SlotOfPassport DEF LedgerKeys

(* The desks' part of the invariant under a step of one job.               *)
LEMMA JobSet ==
    ASSUME AutoInv, NEW d \in Desks, NEW j, runDesk' = [runDesk EXCEPT ![d] = j]
    PROVE  /\ runDesk' = [k \in Desks |-> runDesk'[k]] /\ runDesk'[d] = j
           /\ \A k \in Desks \ {d} : runDesk'[k] = runDesk[k] /\ AutoJob(runDesk[k])
  BY DEF AutoInv

LEMMA OnceKeeps == AutoInv /\ OnceNext => AutoInv'
  <1>. SUFFICES ASSUME AutoInv, OnceNext PROVE AutoInv'
    OBVIOUS
  <1>0. UNCHANGED <<visaVars, ruleTask, docsVars, delivery, schedule>>
    BY DEF OnceNext
  <1>1. ASSUME NEW d \in Desks, NEW job \in Jobs, Once(d, job)
        PROVE  AutoInv'
    <2>. DEFINE key == <<LedgerName(job), Period(job)>>
                j == [op |-> "claim", key |-> key, left |-> DaysLeft(runTick)]
    <2>1. runDesk' = [runDesk EXCEPT ![d] = j] /\ ClaimFree(key) /\ UNCHANGED <<ledger, findingTold, runTick>>
      BY <1>1 DEF Once
    <2>2. key \in LedgerKeys /\ (key[1] = "passport" => SlotFits(DaysLeft(runTick), key[2]))
      BY PeriodKnown DEF AutoInv, docsVars
    <2>. HIDE DEF key
    <2>3. AutoJob(j) /\ j.op = "claim" /\ j.key = key
      BY <2>2 DEF AutoJob, Claims
    <2>. HIDE DEF j
    <2>4. runDesk' = [k \in Desks |-> runDesk'[k]] /\ runDesk'[d] = j /\ \A k \in Desks \ {d} : runDesk'[k] = runDesk[k] /\ AutoJob(runDesk[k])
      BY <2>1, JobSet
    <2>5. ClaimsApart(runDesk', ledger')
      BY <2>1, <2>3, <2>4 DEF AutoInv, docsVars, ClaimsApart, ClaimFree, Claimed
    <2>6. \A k \in Desks : AutoJob(runDesk'[k])
      BY <2>3, <2>4
    <2>. QED  BY <1>0, <2>1, <2>4, <2>5, <2>6 DEF AutoInv, docsVars, visaVars
  <1>2. ASSUME NEW d \in Desks, Told(d)
        PROVE  AutoInv'
    <2>1. runDesk[d].op = "claim" /\ AutoJob(runDesk[d])
      BY <1>2 DEF Told, AutoInv
    <2>2. runDesk[d].key \in LedgerKeys /\ runDesk[d].key \notin ledger
      BY <2>1 DEF AutoJob, Claims, Moves, AutoInv, ClaimsApart
    <2>3. /\ ledger' = ledger \cup {runDesk[d].key} /\ runDesk' = [runDesk EXCEPT ![d] = Free] /\ runTick' = runTick
          /\ findingTold'.once = findingTold.once \cup {runDesk[d].key}
          /\ (findingTold'.twice <=> (findingTold.twice \/ runDesk[d].key \in findingTold.once))
      BY <1>2, Zenon DEF Told
    <2>4. runDesk' = [k \in Desks |-> runDesk'[k]] /\ runDesk'[d] = Free /\ \A k \in Desks \ {d} : runDesk'[k] = runDesk[k] /\ AutoJob(runDesk[k])
      BY <2>3, JobSet
    <2>5. AutoJob(Free) /\ Free.op # "claim"
      BY DEF AutoJob, Free
    <2>6. ClaimsApart(runDesk', ledger')
      BY <2>1, <2>3, <2>4, <2>5 DEF AutoInv, docsVars, ClaimsApart
    <2>7. findingTold'.once = ledger' /\ ~findingTold'.twice
      BY <2>2, <2>3 DEF AutoInv, docsVars
    <2>8. \A k \in Desks : AutoJob(runDesk'[k])
      BY <2>4, <2>5
    <2>. QED  BY <1>0, <2>2, <2>3, <2>4, <2>6, <2>7, <2>8 DEF AutoInv, docsVars, visaVars
  <1>3. ASSUME NEW d \in Desks, TellFails(d)
        PROVE  AutoInv'
    <2>1. AutoJob(Free) /\ Free.op # "claim"
      BY DEF AutoJob, Free
    <2>2. runDesk' = [runDesk EXCEPT ![d] = Free] /\ UNCHANGED <<ledger, findingTold, runTick>>
      BY <1>3 DEF TellFails
    <2>3. /\ runDesk' = [k \in Desks |-> runDesk'[k]] /\ \A k \in Desks : AutoJob(runDesk'[k])
          /\ ClaimsApart(runDesk', ledger')
      BY <2>1, <2>2, JobTaken
    <2>. QED  BY <1>0, <2>2, <2>3 DEF AutoInv, docsVars, visaVars
  <1>4. CASE RunTick
    <2>1. runTick' \in 0 .. LastRunTick
      BY <1>4, AutoAssumption DEF RunTick, AutoInv
    <2>. QED  BY <1>0, <1>4, <2>1 DEF AutoInv, docsVars, RunTick, visaVars
  <1>. QED  BY <1>1, <1>2, <1>3, <1>4 DEF OnceNext

LEMMA VisaKeeps == AutoInv /\ VisaNext => AutoInv'
  <1>. SUFFICES ASSUME AutoInv, VisaNext PROVE AutoInv'
    OBVIOUS
  <1>0. UNCHANGED <<ledger, findingTold, docsVars, delivery, schedule>>
    BY DEF VisaNext
  <1>1. CASE CreateVisa
    <2>. DEFINE v == [status |-> "draft", submitted |-> NoRow, decided |-> NoRow]
    <2>1. v \in VisaRow /\ DatesFit(v)
      BY DEF VisaRow, DatesFit, VisaStatuses, Transitions
    <2>2. visa' = v /\ visaLog' = <<>> /\ visaLog' = visaLog
      BY <1>1 DEF CreateVisa, AutoInv, VisaInv
    <2>. HIDE DEF v
    <2>3. VisaInv(visa', visaLog')
      BY <2>1, <2>2, AutoAssumption DEF AutoInv, docsVars, VisaInv
    <2>. QED  BY <1>0, <1>1, <2>3 DEF AutoInv, docsVars, CreateVisa
  <1>2. CASE VisaTick
    <2>1. runTick' \in 0 .. LastRunTick
      BY <1>2, AutoAssumption DEF VisaTick, AutoInv
    <2>. QED  BY <1>0, <1>2, <2>1 DEF AutoInv, docsVars, VisaTick, visaVars
  <1>3. ASSUME NEW d \in Desks, TransitionRead(d)
        PROVE  AutoInv'
    <2>1. PICK to \in Transitions[visa.status] :
            runDesk' = [runDesk EXCEPT ![d] = [op |-> "transition", from |-> visa.status, to |-> TransitionTo(visa, to)]]
      BY <1>3 DEF TransitionRead
    <2>. DEFINE j == [op |-> "transition", from |-> visa.status, to |-> TransitionTo(visa, to)]
    <2>2. visa \in VisaRow /\ DatesFit(visa) /\ UNCHANGED <<visaVars, ruleTask, runTick>> /\ runTick \in 0 .. LastRunTick
      BY <1>3 DEF TransitionRead, AutoInv, VisaInv
    <2>3. TransitionTo(visa, to) \in VisaRow /\ DatesFit(TransitionTo(visa, to)) /\ TransitionTo(visa, to).status = to
      BY <2>2, DatesTransition
    <2>4. visa.status \in VisaStatuses
      BY <2>2 DEF VisaRow
    <2>5. AutoJob(j) /\ j.op = "transition"
      BY <2>3, <2>4 DEF AutoJob, Moves, ValidTransition
    <2>6. runDesk' = [runDesk EXCEPT ![d] = j]
      BY <2>1
    <2>. HIDE DEF j
    <2>7. /\ runDesk' = [k \in Desks |-> runDesk'[k]] /\ \A k \in Desks : AutoJob(runDesk'[k])
          /\ ClaimsApart(runDesk', ledger')
      BY <1>0, <2>5, <2>6, JobTaken
    <2>. QED  BY <1>0, <2>2, <2>7 DEF AutoInv, docsVars, visaVars
  <1>4. ASSUME NEW d \in Desks, TransitionCommit(d)
        PROVE  AutoInv'
    <2>1. runDesk[d].op = "transition" /\ AutoJob(runDesk[d])
      BY <1>4 DEF TransitionCommit, AutoInv
    <2>2. Moves(runDesk[d])
      BY <2>1 DEF AutoJob, Claims
    <2>3. /\ Len(visaLog) < MaxVisaEvents /\ visa' = runDesk[d].to
          /\ visaLog' = Append(visaLog, [from |-> runDesk[d].from, to |-> runDesk[d].to.status])
          /\ runDesk' = [runDesk EXCEPT ![d] = Free] /\ runTick' = runTick
          /\ ruleTask' \in {ruleTask, "done"}
      BY <1>4 DEF TransitionCommit, CloseByRule
    <2>4. VisaInv(visa', visaLog')
      BY <2>2, <2>3, VisaMoves DEF AutoInv, docsVars
    <2>5. AutoJob(Free) /\ Free.op # "claim"
      BY DEF AutoJob, Free
    <2>6. /\ runDesk' = [k \in Desks |-> runDesk'[k]] /\ \A k \in Desks : AutoJob(runDesk'[k])
          /\ ClaimsApart(runDesk', ledger')
      BY <1>0, <2>3, <2>5, JobTaken
    <2>. QED  BY <1>0, <2>3, <2>4, <2>6 DEF AutoInv, docsVars
  <1>5. ASSUME NEW d \in Desks, FollowUpList(d) \/ VisaAwaitingDecision(d)
        PROVE  AutoInv'
    <2>1. PICK j : runDesk' = [runDesk EXCEPT ![d] = j] /\ j.op \in {"follow", "free"}
      BY <1>5 DEF FollowUpList, VisaAwaitingDecision, Free
    <2>2. AutoJob(j)
      BY <2>1 DEF AutoJob
    <2>3. ruleTask' \in {ruleTask, "open"} /\ UNCHANGED <<visaVars, runTick>>
      BY <1>5 DEF FollowUpList, VisaAwaitingDecision, EnsureTask
    <2>4. /\ runDesk' = [k \in Desks |-> runDesk'[k]] /\ \A k \in Desks : AutoJob(runDesk'[k])
          /\ ClaimsApart(runDesk', ledger')
      BY <1>0, <2>1, <2>2, JobTaken
    <2>. QED  BY <1>0, <2>3, <2>4 DEF AutoInv, docsVars, visaVars
  <1>. QED  BY <1>1, <1>2, <1>3, <1>4, <1>5 DEF VisaNext

LEMMA DocsKeeps == AutoInv /\ DocsNext => AutoInv'
  <1>. SUFFICES ASSUME AutoInv, DocsNext PROVE AutoInv'
    OBVIOUS
  <1>0. UNCHANGED <<ledger, findingTold, runTick, visaVars, delivery, schedule>>
    BY DEF DocsNext
  <1>1. CASE BookingMoves
    <2>1. standing' \in Standings
      BY <1>1 DEF BookingMoves, Recomputed, AutoInv, Standings
    <2>. QED  BY <1>0, <1>1, <2>1 DEF AutoInv, BookingMoves, visaVars
  <1>2. CASE DocsChange
    <2>1. checklist' \in BOOLEAN
      BY <1>2, Zenon DEF DocsChange
    <2>2. docEvents' \subseteq {"due", "dead"}
      BY <1>2 DEF DocsChange, AutoInv
    <2>. QED  BY <1>0, <1>2, <2>1, <2>2 DEF AutoInv, DocsChange, visaVars
  <1>3. ASSUME NEW d \in Desks, DocsJob(d)
        PROVE  AutoInv'
    <2>1. PICK j : runDesk' = [runDesk EXCEPT ![d] = j] /\ j.op \in {"list", "docs", "free"}
      <3>1. CASE MissingDocsRead(d)
        <4>. DEFINE r == [op |-> "docs", complete |-> checklist]
        <4>1. r.op = "docs"
          OBVIOUS
        <4>2. runDesk' = [runDesk EXCEPT ![d] = r]
          BY <3>1 DEF MissingDocsRead
        <4>. HIDE DEF r
        <4>. QED  BY <4>1, <4>2
      <3>2. CASE ~MissingDocsRead(d)
        BY <1>3, <3>2 DEF DocsJob, MissingDocsList, MissingDocs, Free
      <3>. QED  BY <3>1, <3>2
    <2>2. AutoJob(j)
      BY <2>1 DEF AutoJob
    <2>3. ruleTask' \in {ruleTask, "open", "done"} /\ UNCHANGED docsVars
      BY <1>3 DEF DocsJob, MissingDocsList, MissingDocsRead, MissingDocs, EnsureTask, CloseByRule
    <2>4. /\ runDesk' = [k \in Desks |-> runDesk'[k]] /\ \A k \in Desks : AutoJob(runDesk'[k])
          /\ ClaimsApart(runDesk', ledger')
      BY <1>0, <2>1, <2>2, JobTaken
    <2>. QED  BY <1>0, <2>3, <2>4 DEF AutoInv, visaVars, docsVars
  <1>4. ASSUME NEW d \in Desks, DocsReaction(d) \/ DocsDead(d)
        PROVE  AutoInv'
    <2>1. ruleTask' \in {ruleTask, "done"} /\ checklist' = checklist /\ runDesk' = runDesk
      BY <1>4 DEF DocsReaction, onDocumentStatusChanged, DocsRead, DocsComplete, DocsDead, CloseByRule
    <2>2. standing' \in Standings
      BY <1>4 DEF DocsReaction, onDocumentStatusChanged, DocsRead, DocsComplete, DocsDead, Recomputed, Standings, AutoInv
    <2>3. docEvents' \subseteq {"due", "dead"}
      BY <1>4 DEF DocsReaction, onDocumentStatusChanged, DocsRead, DocsComplete, DocsDead, AutoInv
    <2>. QED  BY <1>0, <2>1, <2>2, <2>3 DEF AutoInv, visaVars
  <1>. QED  BY <1>1, <1>2, <1>3, <1>4 DEF DocsNext

LEMMA AutoInvNext ==
    AutoInv /\ (OnceNext \/ VisaNext \/ DocsNext \/ ReactNext \/ ScheduleNext \/ UNCHANGED autoVars) => AutoInv'
  <1>. SUFFICES ASSUME AutoInv, OnceNext \/ VisaNext \/ DocsNext \/ ReactNext \/ ScheduleNext \/ UNCHANGED autoVars
       PROVE  AutoInv'
    OBVIOUS
  <1>1. CASE ReactNext
    <2>1. delivery' = Free \/ DeliveryFits(delivery')
      BY <1>1, ReactKeeps DEF ReactNext, AutoInv
    <2>2. UNCHANGED <<ledger, findingTold, runTick, runDesk, visaVars, ruleTask, docsVars, schedule>>
      BY <1>1 DEF ReactNext
    <2>. QED  BY <2>1, <2>2 DEF AutoInv, visaVars, docsVars
  <1>2. CASE ScheduleNext
    <2>1. PICK fxLive, registered, overrides :
            schedule' = [op |-> "build", fxLive |-> fxLive, overrides |-> overrides, registered |-> registered,
                         out |-> buildSchedule(fxLive, overrides, registered)]
      BY <1>2, Zenon DEF ScheduleNext
    <2>2. ScheduleFits(schedule'.fxLive, schedule'.overrides, schedule'.registered, schedule'.out)
      <3>1. ScheduleFits(fxLive, overrides, registered, buildSchedule(fxLive, overrides, registered))
        BY ScheduleBuilt, Zenon
      <3>. QED  BY <2>1, <3>1, Zenon
    <2>3. UNCHANGED <<ledger, findingTold, runTick, runDesk, visaVars, ruleTask, docsVars, delivery>>
      BY <1>2 DEF ScheduleNext
    <2>. QED  BY <2>2, <2>3 DEF AutoInv, visaVars, docsVars
  <1>3. CASE UNCHANGED autoVars
    BY <1>3 DEF autoVars, visaVars, docsVars, AutoInv
  <1>. QED  BY <1>1, <1>2, <1>3, OnceKeeps, VisaKeeps, DocsKeeps

-----------------------------------------------------------------------------
(* Tenancy: the company's rows, its cache and its desks.                   *)
(* A workspace read from the rows: how long it lives, and that it is only  *)
(* of another version than the company's if the company changed since.     *)
Entry(x) == x.ws.ids \subseteq BranchIds /\ x.ws.version \in Nat /\ x.expires \in Nat
EntryHolds(x, version, now, changed) ==
    /\ Entry(x) /\ x.ws.version <= version
    /\ x.expires <= now + WorkspaceTTL
    /\ x.ws.version # version => x.expires <= changed + WorkspaceTTL

(* What a desk holds; who inserts a branch or deletes the company holds    *)
(* the company's lock.                                                     *)
WsOps == {"free", "load", "save", "plan", "delete", "branch", "invalidate", "user", "upgrade"}
WsJob(j, version, now, changed) ==
    /\ j.op \in WsOps
    /\ j.op = "load" => EntryHolds(j, version, now, changed)
    /\ j.op = "plan" => j.plan \in Plans
    /\ j.op = "branch" => j.kind \in {"main_center", "branch"}
    /\ j.op = "upgrade" => j.to \in Plans

Held(d) == [op |-> "held", by |-> d]
Users(jobs) == {d \in Desks : jobs[d].op = "user"}
Mains(rows) == {b \in BranchIds : rows[b] = "main_center"}
Rooms(rows) == Cardinality(Present(rows))

WsDesks(jobs, lock, version, now, changed) ==
    /\ jobs = [d \in Desks |-> jobs[d]]
    /\ \A d \in Desks : WsJob(jobs[d], version, now, changed)
    /\ \A d \in Desks : jobs[d].op \in {"branch", "delete"} => lock = Held(d)
    /\ lock # Nobody => \E d \in Desks : lock = Held(d)

CompanyRow == [plan : Plans, active : BOOLEAN, retired : BOOLEAN, version : Nat]

TenInv ==
    /\ company \in CompanyRow
    /\ branches \in [BranchIds -> {NoRow, "main_center", "branch"}]
    /\ \E b \in BranchIds : Mains(branches) = {b}
    /\ wsTime \in Nat /\ changedAt \in 0 .. wsTime
    /\ wcache # NoRow => EntryHolds(wcache, company.version, wsTime, changedAt)
    /\ WsDesks(wsDesk, companyLock, company.version, wsTime, changedAt)
    /\ tickets \subseteq Plans
    /\ roomiest \in Nat /\ roomiest >= 1 /\ Cap(company.plan) <= roomiest
    /\ Rooms(branches) <= roomiest
    /\ \A d \in Desks : wsDesk[d].op = "branch" => Rooms(branches) < roomiest
    /\ staff \in Nat /\ staff + Cardinality(Users(wsDesk)) < roomiest + Cardinality(Desks)

LEMMA CapsArePositive ==
    ASSUME NEW p \in Plans
    PROVE  Cap(p) \in Nat /\ Cap(p) >= 1
  <1>1. Cardinality(BranchIds) \in Nat
    BY FS_CardinalityType, TenancyAssumption
  <1>. QED  BY <1>1, TenancyAssumption DEF Cap, Unlimited, Plans

LEMMA UsersCounted ==
    ASSUME NEW jobs
    PROVE  Users(jobs) \subseteq Desks /\ IsFiniteSet(Users(jobs)) /\ Cardinality(Users(jobs)) \in Nat
           /\ Cardinality(Users(jobs)) <= Cardinality(Desks) /\ Cardinality(Desks) \in Nat
  <1>1. Users(jobs) \subseteq Desks
    BY DEF Users
  <1>. QED  BY <1>1, FS_Subset, FS_CardinalityType, TenancyAssumption

LEMMA RoomsCounted ==
    ASSUME NEW rows \in [BranchIds -> {NoRow, "main_center", "branch"}]
    PROVE  IsFiniteSet(Present(rows)) /\ Rooms(rows) \in Nat
  <1>1. Present(rows) \in SUBSET BranchIds
    BY DEF Present
  <1>. QED  BY <1>1, FS_Subset, FS_CardinalityType, TenancyAssumption DEF Rooms

(* A finite set of branches has a least one. *)
Below(n) == {m \in BranchIds : m < n}
LEMMA LeastBranch == \E b \in BranchIds : \A x \in BranchIds : b <= x
  <1>. DEFINE F == {Below(n) : n \in BranchIds}
  <1>1. F \in SUBSET (SUBSET BranchIds) /\ F # {}
    BY TenancyAssumption DEF Below
  <1>2. /\ \A n \in BranchIds : Below(n) \in F
        /\ \A T \in F : \E n \in BranchIds : T = Below(n)
    OBVIOUS
  <1>. HIDE DEF F
  <1>3. IsFiniteSet(BranchIds)
    BY TenancyAssumption
  <1>4. PICK T \in F : \A U \in F : U \subseteq T => U = T
    BY <1>1, <1>3, Smallest
  <1>5. PICK n \in BranchIds : T = Below(n)
    BY <1>2, <1>4
  <1>6. ASSUME NEW m \in BranchIds, m < n
        PROVE  FALSE
    <2>0. m \in Nat /\ n \in Nat /\ \A k \in BranchIds : k \in Nat
      BY TenancyAssumption
    <2>1. ~(m < m) /\ \A k \in BranchIds : k < m => k < n
      BY <1>6, <2>0
    <2>2. Below(m) \subseteq Below(n) /\ m \in Below(n) /\ m \notin Below(m)
      BY <1>6, <2>1, Zenon DEF Below
    <2>. QED  BY <1>2, <1>4, <1>5, <2>2, Zenon
  <1>. QED  BY <1>6, TenancyAssumption

LEMMA TenInitHolds == TenancyInit => TenInv
  <1>. SUFFICES ASSUME TenancyInit PROVE TenInv
    OBVIOUS
  <1>1. PICK m \in BranchIds : \A x \in BranchIds : m <= x
    BY LeastBranch
  <1>2. /\ branches \in [BranchIds -> {NoRow, "main_center", "branch"}]
        /\ Mains(branches) = {m} /\ Present(branches) = {m}
    <2>1. branches = [b \in BranchIds |-> IF \A x \in BranchIds : b <= x THEN "main_center" ELSE NoRow]
      BY DEF TenancyInit
    <2>2. \A b \in BranchIds : (\A x \in BranchIds : b <= x) <=> b = m
      BY <1>1, TenancyAssumption
    <2>3. \A b \in BranchIds : branches[b] = IF b = m THEN "main_center" ELSE NoRow
      BY <2>1, <2>2
    <2>4. branches \in [BranchIds -> {NoRow, "main_center", "branch"}] /\ DOMAIN branches = BranchIds
      BY <2>1
    <2>. QED  BY <1>1, <2>3, <2>4, TenancyAssumption DEF Mains, Present
  <1>3. Rooms(branches) = 1
    <2>1. Cardinality({m}) = 1
      BY FS_Singleton
    <2>. QED  BY <1>2, <2>1, Zenon DEF Rooms
  <1>4. \A d \in Desks : wsDesk[d] = Free /\ Free.op = "free"
    BY DEF TenancyInit, Free
  <1>5. Users(wsDesk) = {} /\ WsDesks(wsDesk, companyLock, company.version, wsTime, changedAt)
    BY <1>4 DEF TenancyInit, Users, WsDesks, WsJob, WsOps
  <1>6. Cardinality(Users(wsDesk)) = 0 /\ Cardinality(Desks) \in Nat /\ Cardinality(Desks) # 0
    BY <1>5, FS_EmptySet, FS_CardinalityType, TenancyAssumption
  <1>7. company \in CompanyRow /\ company.plan \in Plans /\ company.version = 0 /\ roomiest = Cap(company.plan)
    BY DEF TenancyInit, CompanyRow
  <1>8. roomiest \in Nat /\ roomiest >= 1
    BY <1>7, CapsArePositive
  <1>9. staff = 1 /\ wcache = NoRow /\ tickets = {} /\ wsTime = 0 /\ changedAt = 0
    BY DEF TenancyInit
  <1>. QED  BY <1>2, <1>3, <1>4, <1>5, <1>6, <1>7, <1>8, <1>9 DEF TenInv

LEMMA TenInvHolds == TenInv /\ setup.completed \in BOOLEAN => TenancyTypeOK /\ OneMainCenter /\ WithinPlan /\ WorkspaceFresh
  <1>. SUFFICES ASSUME TenInv, setup.completed \in BOOLEAN PROVE TenancyTypeOK /\ OneMainCenter /\ WithinPlan /\ WorkspaceFresh
    OBVIOUS
  <1>1. TenancyTypeOK
    BY DEF TenInv, TenancyTypeOK, EntryHolds, Entry, CompanyRow
  <1>2. OneMainCenter
    <2>1. PICK b \in BranchIds : Mains(branches) = {b}
      BY DEF TenInv
    <2>2. Cardinality({b}) = 1
      BY FS_Singleton
    <2>. QED  BY <2>1, <2>2, Zenon DEF OneMainCenter, Mains
  <1>3. WithinPlan
    BY UsersCounted DEF TenInv, WithinPlan, CountUsage, Rooms
  <1>4. WorkspaceFresh
    BY TenancyAssumption DEF TenInv, WorkspaceFresh, EntryHolds, Entry, CompanyRow
  <1>. QED  BY <1>1, <1>2, <1>3, <1>4

(* One desk goes on: the entries stay good, the lock is kept, taken or     *)
(* given back.                                                             *)
LEMMA WsDesksStep ==
    ASSUME NEW jobs, NEW lock, NEW v, NEW now, NEW ch, NEW d \in Desks,
           NEW j, NEW lock2, NEW v2, NEW now2, NEW ch2,
           WsDesks(jobs, lock, v, now, ch),
           \A x : EntryHolds(x, v, now, ch) => EntryHolds(x, v2, now2, ch2),
           WsJob(j, v2, now2, ch2),
           j.op \in {"branch", "delete"} => lock2 = Held(d),
           lock2 = lock \/ (lock = Nobody /\ lock2 = Held(d)) \/ (lock = Held(d) /\ lock2 = Nobody)
    PROVE  WsDesks([jobs EXCEPT ![d] = j], lock2, v2, now2, ch2)
  <1>. DEFINE jobs2 == [jobs EXCEPT ![d] = j]
  <1>1. jobs2 = [e \in Desks |-> jobs2[e]] /\ jobs2[d] = j /\ \A e \in Desks \ {d} : jobs2[e] = jobs[e]
    BY DEF WsDesks
  <1>. HIDE DEF jobs2
  <1>2. \A e \in Desks : WsJob(jobs2[e], v2, now2, ch2)
    <2>1. \A e \in Desks \ {d} : WsJob(jobs[e], v, now, ch)
      BY DEF WsDesks
    <2>2. \A e \in Desks \ {d} : WsJob(jobs[e], v2, now2, ch2)
      BY <2>1, Zenon DEF WsJob
    <2>. QED  BY <1>1, <2>2
  <1>3. \A e \in Desks : jobs2[e].op \in {"branch", "delete"} => lock2 = Held(e)
    <2>1. ASSUME NEW e \in Desks \ {d}, jobs2[e].op \in {"branch", "delete"}
          PROVE  lock2 = Held(e)
      <3>1. lock = Held(e)
        BY <1>1, <2>1 DEF WsDesks
      <3>2. Held(e) # Held(d) /\ Held(e) # Nobody
        BY DEF Held, Nobody
      <3>. QED  BY <3>1, <3>2
    <2>. QED  BY <1>1, <2>1
  <1>4. lock2 # Nobody => \E e \in Desks : lock2 = Held(e)
    BY DEF WsDesks
  <1>5. WsDesks(jobs2, lock2, v2, now2, ch2)
    BY <1>1, <1>2, <1>3, <1>4, Zenon DEF WsDesks
  <1>. QED  BY <1>5 DEF jobs2

(* A desk that begins to create a user is one more of them.                *)
LEMMA UsersStep ==
    ASSUME NEW jobs, NEW d \in Desks, NEW j, DOMAIN jobs = Desks
    PROVE  LET n == Cardinality(Users(jobs))
               m == Cardinality(Users([jobs EXCEPT ![d] = j]))
           IN  /\ n \in Nat /\ m \in Nat /\ Cardinality(Desks) \in Nat
               /\ j.op # "user" => m <= n
               /\ j.op # "user" /\ jobs[d].op = "user" => m + 1 <= n
               /\ jobs[d].op # "user" => m <= n + 1 /\ n + 1 <= Cardinality(Desks)
  <1>. DEFINE U == Users(jobs)
              V == Users([jobs EXCEPT ![d] = j])
  <1>1. /\ IsFiniteSet(U) /\ Cardinality(U) \in Nat /\ U \subseteq Desks /\ Cardinality(U) <= Cardinality(Desks)
        /\ IsFiniteSet(V) /\ Cardinality(V) \in Nat /\ Cardinality(Desks) \in Nat /\ IsFiniteSet(Desks)
    BY UsersCounted, TenancyAssumption
  <1>2. d \in U <=> jobs[d].op = "user"
    BY DEF Users
  <1>3. V = IF j.op = "user" THEN U \cup {d} ELSE U \ {d}
    BY DEF Users
  <1>. HIDE DEF U, V
  <1>4. Cardinality(U \cup {d}) = IF d \in U THEN Cardinality(U) ELSE Cardinality(U) + 1
    BY <1>1, FS_AddElement
  <1>5. Cardinality(U \ {d}) = IF d \in U THEN Cardinality(U) - 1 ELSE Cardinality(U)
    BY <1>1, FS_RemoveElement
  <1>6. U \cup {d} \subseteq Desks
    BY <1>1
  <1>7. Cardinality(U \cup {d}) <= Cardinality(Desks)
    BY <1>1, <1>6, FS_Subset
  <1>8. /\ j.op # "user" => Cardinality(V) <= Cardinality(U)
        /\ j.op # "user" /\ jobs[d].op = "user" => Cardinality(V) + 1 <= Cardinality(U)
    BY <1>1, <1>2, <1>3, <1>5
  <1>9. jobs[d].op # "user" => Cardinality(U) + 1 <= Cardinality(Desks)
    BY <1>1, <1>2, <1>4, <1>7
  <1>10. jobs[d].op # "user" => Cardinality(V) <= Cardinality(U) + 1
    BY <1>1, <1>2, <1>3, <1>4, <1>5
  <1>. QED  BY <1>1, <1>8, <1>9, <1>10 DEF U, V

(* The entry of the cache, and the entries desks hold, as time goes on and *)
(* rows change.                                                            *)
LEMMA EntriesLater ==
    ASSUME NEW v \in Nat, NEW now \in Nat, NEW ch \in 0 .. now, NEW x, EntryHolds(x, v, now, ch)
    PROVE  EntryHolds(x, v, now + 1, ch) /\ EntryHolds(x, v + 1, now, now)
  BY TenancyAssumption DEF EntryHolds, Entry

Placed(rows, b, kind) == [(IF kind = "main_center" THEN DemoteMainCenter(rows, b) ELSE rows) EXCEPT ![b] = kind]
Kinds == {"main_center", "branch"}
Ruled(rows) == /\ rows \in [BranchIds -> {NoRow, "main_center", "branch"}]
               /\ \E b \in BranchIds : Mains(rows) = {b}
LEMMA OneMain ==
    ASSUME NEW rows, Ruled(rows), NEW b \in BranchIds, NEW kind,
           kind \in Kinds, rows[b] = "main_center" => kind = "main_center"
    PROVE  Ruled(Placed(rows, b, kind)) /\ Present(Placed(rows, b, kind)) = Present(rows) \cup {b}
  <1>0. rows \in [BranchIds -> {NoRow, "main_center", "branch"}]
    BY DEF Ruled
  <1>01. PICK m \in BranchIds : Mains(rows) = {m}
    BY DEF Ruled
  <1>. DEFINE rows2 == Placed(rows, b, kind)
  <1>. SUFFICES Ruled(rows2) /\ Present(rows2) = Present(rows) \cup {b}
    OBVIOUS
  <1>1. rows2 \in [BranchIds -> {NoRow, "main_center", "branch"}]
    BY <1>0 DEF DemoteMainCenter, Placed, Kinds
  <1>2. CASE kind = "main_center"
    <2>1. \A x \in BranchIds : rows2[x] = IF x = b THEN "main_center" ELSE IF rows[x] = "main_center" THEN "branch" ELSE rows[x]
      BY <1>0, <1>2 DEF DemoteMainCenter, Placed
    <2>2. Mains(rows2) = {b}
      BY <1>0, <2>1 DEF Mains
    <2>3. Present(rows2) = Present(rows) \cup {b}
      BY <1>0, <1>1, <2>1, TenancyAssumption DEF Present
    <2>. QED  BY <1>1, <2>2, <2>3 DEF Ruled
  <1>3. CASE kind = "branch"
    <2>1. \A x \in BranchIds : rows2[x] = IF x = b THEN "branch" ELSE rows[x]
      BY <1>0, <1>3 DEF Placed
    <2>2. rows[b] # "main_center"
      BY <1>3
    <2>3. Mains(rows2) = {m}
      BY <1>0, <1>01, <2>1, <2>2 DEF Mains
    <2>4. Present(rows2) = Present(rows) \cup {b}
      BY <1>0, <1>1, <2>1, TenancyAssumption DEF Present
    <2>. QED  BY <1>01, <1>1, <2>3, <2>4 DEF Ruled
  <1>. QED  BY <1>2, <1>3 DEF Kinds

(* A desk that only changes what it holds, and maybe the lock or the cache.*)
LEMMA DeskTurns ==
    ASSUME TenInv, NEW d \in Desks, NEW j, wsDesk' = [wsDesk EXCEPT ![d] = j],
           UNCHANGED <<company, branches, wsTime, changedAt, roomiest>>,
           WsJob(j, company.version, wsTime, changedAt),
           j.op \in {"branch", "delete"} => companyLock' = Held(d),
           \/ companyLock' = companyLock
           \/ companyLock = Nobody /\ companyLock' = Held(d)
           \/ companyLock = Held(d) /\ companyLock' = Nobody,
           wcache' = wcache \/ wcache' = NoRow \/ EntryHolds(wcache', company.version, wsTime, changedAt),
           j.op = "branch" => Rooms(branches) < roomiest,
           tickets' \subseteq Plans,
           \/ staff' = staff /\ j.op # "user"
           \/ staff' = staff /\ wsDesk[d] = Free /\ staff < roomiest
           \/ staff' = staff + 1 /\ j.op # "user" /\ wsDesk[d].op = "user"
    PROVE  TenInv'
  <1>1. WsDesks(wsDesk', companyLock', company'.version, wsTime', changedAt')
    <2>1. WsDesks(wsDesk, companyLock, company.version, wsTime, changedAt)
      BY DEF TenInv
    <2>2. WsDesks([wsDesk EXCEPT ![d] = j], companyLock', company.version, wsTime, changedAt)
      BY <2>1, WsDesksStep
    <2>. QED  BY <2>2
  <1>2. DOMAIN wsDesk = Desks /\ Free.op = "free"
    BY DEF TenInv, WsDesks, Free
  <1>3. /\ Cardinality(Users(wsDesk)) \in Nat /\ Cardinality(Users(wsDesk')) \in Nat /\ Cardinality(Desks) \in Nat
        /\ j.op # "user" => Cardinality(Users(wsDesk')) <= Cardinality(Users(wsDesk))
        /\ j.op # "user" /\ wsDesk[d].op = "user" => Cardinality(Users(wsDesk')) + 1 <= Cardinality(Users(wsDesk))
        /\ wsDesk[d].op # "user" => /\ Cardinality(Users(wsDesk')) <= Cardinality(Users(wsDesk)) + 1
                                    /\ Cardinality(Users(wsDesk)) + 1 <= Cardinality(Desks)
    BY <1>2, UsersStep
  <1>4. staff \in Nat /\ roomiest \in Nat /\ staff + Cardinality(Users(wsDesk)) < roomiest + Cardinality(Desks)
    BY DEF TenInv
  <1>5. staff' \in Nat /\ staff' + Cardinality(Users(wsDesk')) < roomiest + Cardinality(Desks)
    BY <1>2, <1>3, <1>4
  <1>6. \A e \in Desks : wsDesk'[e].op = "branch" => Rooms(branches) < roomiest
    BY <1>2 DEF TenInv
  <1>7. wcache' # NoRow => EntryHolds(wcache', company.version, wsTime, changedAt)
    BY DEF TenInv
  <1>8. /\ company' \in CompanyRow
        /\ branches' \in [BranchIds -> {NoRow, "main_center", "branch"}]
        /\ \E b \in BranchIds : Mains(branches') = {b}
        /\ wsTime' \in Nat /\ changedAt' \in 0 .. wsTime'
        /\ roomiest' \in Nat /\ roomiest' >= 1 /\ Cap(company'.plan) <= roomiest'
        /\ Rooms(branches') <= roomiest'
    BY DEF TenInv
  <1>. QED  BY <1>1, <1>5, <1>6, <1>7, <1>8 DEF TenInv

(* The company or its branches change in one commit.                       *)
LEMMA CompanyTurns ==
    ASSUME TenInv, NEW d \in Desks, NEW j, wsDesk' = [wsDesk EXCEPT ![d] = j],
           j = Free \/ j = [op |-> "invalidate"],
           company' \in CompanyRow, company'.version = company.version + 1, changedAt' = wsTime, wsTime' = wsTime,
           UNCHANGED <<wcache, tickets, staff>>,
           companyLock' = companyLock \/ (companyLock = Held(d) /\ companyLock' = Nobody),
           branches' \in [BranchIds -> {NoRow, "main_center", "branch"}],
           \E b \in BranchIds : Mains(branches') = {b},
           roomiest' \in Nat, roomiest' >= roomiest, Cap(company'.plan) <= roomiest',
           Rooms(branches') <= roomiest',
           branches' = branches \/ \A e \in Desks \ {d} : wsDesk[e].op # "branch"
    PROVE  TenInv'
  <1>0. /\ company.version \in Nat /\ wsTime \in Nat /\ changedAt \in 0 .. wsTime
        /\ WsDesks(wsDesk, companyLock, company.version, wsTime, changedAt)
        /\ company'.plan \in Plans
        /\ wcache # NoRow => EntryHolds(wcache, company.version, wsTime, changedAt)
        /\ tickets \subseteq Plans /\ roomiest \in Nat /\ roomiest >= 1
        /\ Rooms(branches) \in Nat
        /\ \A e \in Desks : wsDesk[e].op = "branch" => Rooms(branches) < roomiest
        /\ staff \in Nat /\ staff + Cardinality(Users(wsDesk)) < roomiest + Cardinality(Desks)
    BY RoomsCounted DEF TenInv, CompanyRow
  <1>1. j.op \in {"free", "invalidate"}
    BY DEF Free
  <1>2. WsDesks(wsDesk', companyLock', company'.version, wsTime', changedAt')
    <2>1. WsJob(j, company.version + 1, wsTime, wsTime)
      BY <1>1 DEF WsJob, WsOps
    <2>2. \A x : EntryHolds(x, company.version, wsTime, changedAt) => EntryHolds(x, company.version + 1, wsTime, wsTime)
      BY <1>0, EntriesLater
    <2>3. j.op \notin {"branch", "delete"}
      BY <1>1
    <2>4. WsDesks([wsDesk EXCEPT ![d] = j], companyLock', company.version + 1, wsTime, wsTime)
      BY <1>0, <2>1, <2>2, <2>3, WsDesksStep
    <2>. QED  BY <2>4
  <1>3. DOMAIN wsDesk = Desks /\ \A e \in Desks \ {d} : wsDesk'[e] = wsDesk[e]
    BY <1>0 DEF WsDesks
  <1>4. /\ Cardinality(Users(wsDesk)) \in Nat /\ Cardinality(Users(wsDesk')) \in Nat /\ Cardinality(Desks) \in Nat
        /\ Cardinality(Users(wsDesk')) <= Cardinality(Users(wsDesk))
    BY <1>1, <1>3, UsersStep
  <1>5. staff' \in Nat /\ staff' + Cardinality(Users(wsDesk')) < roomiest' + Cardinality(Desks)
    BY <1>0, <1>4
  <1>6. \A e \in Desks : wsDesk'[e].op = "branch" => Rooms(branches') < roomiest'
    <2>1. ASSUME NEW e \in Desks, wsDesk'[e].op = "branch"
          PROVE  Rooms(branches') < roomiest'
      <3>1. e # d /\ wsDesk[e].op = "branch"
        BY <1>1, <1>3, <2>1
      <3>2. branches' = branches /\ Rooms(branches) < roomiest
        BY <1>0, <3>1
      <3>. QED  BY <1>0, <3>2
    <2>. QED  BY <2>1
  <1>7. wcache' # NoRow => EntryHolds(wcache', company'.version, wsTime', changedAt')
    BY <1>0, EntriesLater
  <1>8. /\ company'.version \in Nat /\ wsTime' \in Nat /\ changedAt' \in 0 .. wsTime'
        /\ roomiest' >= 1 /\ tickets' \subseteq Plans
    BY <1>0
  <1>. QED  BY <1>2, <1>5, <1>6, <1>7, <1>8 DEF TenInv

LEMMA TenInvNext == TenInv /\ (TenantNext \/ PlanNext) => TenInv'
  <1>. SUFFICES ASSUME TenInv, TenantNext \/ PlanNext PROVE TenInv'
    OBVIOUS
  <1>0. /\ company \in CompanyRow /\ company.plan \in Plans /\ company.version \in Nat /\ wsTime \in Nat /\ changedAt \in 0 .. wsTime
        /\ branches \in [BranchIds -> {NoRow, "main_center", "branch"}] /\ tickets \subseteq Plans
        /\ roomiest \in Nat /\ Cap(company.plan) <= roomiest /\ Rooms(branches) <= roomiest /\ Rooms(branches) \in Nat
        /\ wcache # NoRow => EntryHolds(wcache, company.version, wsTime, changedAt)
        /\ WsDesks(wsDesk, companyLock, company.version, wsTime, changedAt)
        /\ \A d \in Desks : wsDesk[d].op = "branch" => Rooms(branches) < roomiest
        /\ staff \in Nat /\ roomiest >= 1 /\ \E b \in BranchIds : Mains(branches) = {b}
    BY RoomsCounted DEF TenInv, CompanyRow
  <1>01. \A d \in Desks : WsJob(wsDesk[d], company.version, wsTime, changedAt)
    BY <1>0 DEF WsDesks
  <1>02. Free.op = "free" /\ WsJob(Free, company.version, wsTime, changedAt)
    BY DEF Free, WsJob, WsOps
  <1>03. Cap(company.plan) \in Nat
    BY <1>0, CapsArePositive
  <1>1. ASSUME NEW d \in Desks, LoadWorkspace(d)
        PROVE  TenInv'
    <2>. DEFINE j == [op |-> "load", ws |-> Workspace, expires |-> wsTime + WorkspaceTTL]
    <2>1. wsDesk' = [wsDesk EXCEPT ![d] = j]
          /\ UNCHANGED <<company, branches, staff, wcache, companyLock, tickets, wsTime, changedAt, roomiest>>
      BY <1>1 DEF LoadWorkspace, Work1
    <2>2. Present(branches) \subseteq BranchIds
      BY <1>0 DEF Present
    <2>3. EntryHolds(j, company.version, wsTime, changedAt)
      BY <1>0, <2>2, TenancyAssumption DEF EntryHolds, Entry, Workspace
    <2>4. WsJob(j, company.version, wsTime, changedAt) /\ j.op = "load"
      BY <2>3, Zenon DEF WsJob, WsOps
    <2>. HIDE DEF j
    <2>. QED  BY <1>0, <2>1, <2>4, DeskTurns
  <1>2. ASSUME NEW d \in Desks, PutWorkspace(d)
        PROVE  TenInv'
    <2>1. EntryHolds(wsDesk[d], company.version, wsTime, changedAt)
      BY <1>01, <1>2 DEF PutWorkspace, WsJob
    <2>2. EntryHolds(wcache', company.version, wsTime, changedAt)
      BY <1>2, <2>1 DEF PutWorkspace, PutExpiry, EntryHolds, Entry
    <2>3. wsDesk' = [wsDesk EXCEPT ![d] = Free]
          /\ UNCHANGED <<company, branches, staff, companyLock, tickets, wsTime, changedAt, roomiest>>
      BY <1>2 DEF PutWorkspace, Work1
    <2>. QED  BY <1>0, <1>02, <2>2, <2>3, DeskTurns
  <1>3. ASSUME NEW d \in Desks, NEW op \in {"save", "plan"}, NEW p \in Plans, EditCompany(d, op, p)
        PROVE  TenInv'
    <2>. DEFINE j == [op |-> op, plan |-> p]
    <2>1. wsDesk' = [wsDesk EXCEPT ![d] = j] /\ wcache' = NoRow
          /\ UNCHANGED <<company, branches, staff, companyLock, tickets, wsTime, changedAt, roomiest>>
      BY <1>3 DEF EditCompany, StartsEdit, Work1
    <2>2. WsJob(j, company.version, wsTime, changedAt) /\ j.op \in {"save", "plan"}
      BY DEF WsJob, WsOps
    <2>. HIDE DEF j
    <2>. QED  BY <1>0, <2>1, <2>2, DeskTurns
  <1>4. ASSUME NEW d \in Desks, DeleteTenant(d)
        PROVE  TenInv'
    <2>. DEFINE j == [op |-> "delete", plan |-> 1]
    <2>1. wsDesk' = [wsDesk EXCEPT ![d] = j] /\ wcache' = NoRow /\ companyLock = Nobody /\ companyLock' = Held(d)
          /\ UNCHANGED <<company, branches, staff, tickets, wsTime, changedAt, roomiest>>
      BY <1>4 DEF DeleteTenant, StartsEdit, Work1, Held
    <2>2. WsJob(j, company.version, wsTime, changedAt) /\ j.op = "delete"
      BY DEF WsJob, WsOps
    <2>. HIDE DEF j
    <2>. QED  BY <1>0, <2>1, <2>2, DeskTurns
  <1>5. ASSUME NEW d \in Desks, CommitCompany(d)
        PROVE  TenInv'
    <2>1. wsDesk' = [wsDesk EXCEPT ![d] = Free] /\ changedAt' = wsTime /\ wsDesk[d].op \in {"save", "plan", "delete"}
          /\ UNCHANGED <<branches, staff, wcache, tickets, wsTime>>
      BY <1>5 DEF CommitCompany, Work1, Changed
    <2>2. companyLock' = companyLock \/ (companyLock = Held(d) /\ companyLock' = Nobody)
      <3>1. wsDesk[d].op = "delete" => companyLock = Held(d)
        BY <1>0 DEF WsDesks
      <3>. QED  BY <1>5, <3>1 DEF CommitCompany
    <2>3. CASE wsDesk[d].op = "delete" /\ ~company.active
      <3>1. UNCHANGED <<company, roomiest>>
        BY <1>5, <2>3 DEF CommitCompany
      <3>. HIDE <2>3
      <3>2. EntryHolds(wcache, company.version, wsTime, wsTime) \/ wcache = NoRow
        BY <1>0, TenancyAssumption DEF EntryHolds, Entry
      <3>3. WsDesks(wsDesk', companyLock', company.version, wsTime, wsTime)
        <4>1. \A x : EntryHolds(x, company.version, wsTime, changedAt) => EntryHolds(x, company.version, wsTime, wsTime)
          BY <1>0, TenancyAssumption DEF EntryHolds, Entry
        <4>2. WsJob(Free, company.version, wsTime, wsTime) /\ Free.op \notin {"branch", "delete"}
          BY DEF Free, WsJob, WsOps
        <4>3. WsDesks([wsDesk EXCEPT ![d] = Free], companyLock', company.version, wsTime, wsTime)
          BY <1>0, <2>2, <4>1, <4>2, WsDesksStep
        <4>. QED  BY <2>1, <4>3
      <3>4. DOMAIN wsDesk = Desks /\ Free.op = "free"
        BY <1>0 DEF WsDesks, Free
      <3>5. /\ Cardinality(Users(wsDesk)) \in Nat /\ Cardinality(Users(wsDesk')) \in Nat /\ Cardinality(Desks) \in Nat
            /\ Cardinality(Users(wsDesk')) <= Cardinality(Users(wsDesk))
        BY <2>1, <3>4, UsersStep
      <3>6. staff + Cardinality(Users(wsDesk)) < roomiest + Cardinality(Desks)
        BY DEF TenInv
      <3>7. staff + Cardinality(Users(wsDesk')) < roomiest + Cardinality(Desks)
        BY <1>0, <3>5, <3>6
      <3>8. \A e \in Desks : wsDesk'[e].op = "branch" => Rooms(branches) < roomiest
        BY <1>0, <2>1, <3>4
      <3>9. changedAt' \in 0 .. wsTime
        BY <1>0, <2>1
      <3>. QED  BY <1>0, <2>1, <3>1, <3>2, <3>3, <3>7, <3>8, <3>9 DEF TenInv
    <2>4. CASE ~(wsDesk[d].op = "delete" /\ ~company.active)
      <3>1. company' = Bump(Written(wsDesk[d]))
            /\ roomiest' = IF wsDesk[d].op = "plan" /\ Cap(wsDesk[d].plan) > roomiest THEN Cap(wsDesk[d].plan) ELSE roomiest
        BY <1>5, <2>4 DEF CommitCompany
      <3>2. wsDesk[d].op = "plan" => wsDesk[d].plan \in Plans
        BY <1>01 DEF WsJob
      <3>3. /\ company'.plan = (IF wsDesk[d].op = "plan" THEN wsDesk[d].plan ELSE company.plan)
           /\ company'.version = company.version + 1 /\ company' \in CompanyRow
        <4>1. Written(wsDesk[d]) \in CompanyRow /\ Written(wsDesk[d]).version = company.version
              /\ Written(wsDesk[d]).plan = (IF wsDesk[d].op = "plan" THEN wsDesk[d].plan ELSE company.plan)
          BY <1>0, <2>1, <3>2 DEF Written, DeleteCompany, CompanyRow
        <4>. QED  BY <3>1, <4>1 DEF Bump, CompanyRow
      <3>4. wsDesk[d].op = "plan" => Cap(wsDesk[d].plan) \in Nat
        BY <3>2, CapsArePositive
      <3>5. company'.plan \in Plans /\ roomiest' \in Nat /\ roomiest' >= roomiest /\ Cap(company'.plan) <= roomiest'
        BY <1>0, <1>03, <3>1, <3>2, <3>3, <3>4
      <3>6. Rooms(branches') <= roomiest' /\ \E b \in BranchIds : Mains(branches') = {b}
        BY <1>0, <2>1, <3>5
      <3>. QED  BY <1>0, <2>1, <2>2, <3>3, <3>5, <3>6, CompanyTurns
    <2>. QED  BY <2>3, <2>4
  <1>6. ASSUME NEW d \in Desks, NEW k \in {"main_center", "branch"}, CreateBranchBegins(d, k)
        PROVE  TenInv'
    <2>. DEFINE j == [op |-> "branch", kind |-> k]
    <2>1. wsDesk' = [wsDesk EXCEPT ![d] = j] /\ companyLock = Nobody /\ companyLock' = Held(d) /\ ~Refuse(company.plan, CountUsage)
          /\ UNCHANGED <<company, branches, staff, wcache, tickets, wsTime, changedAt, roomiest>>
      BY <1>6 DEF CreateBranchBegins, Work1, Held
    <2>2. WsJob(j, company.version, wsTime, changedAt) /\ j.op = "branch"
      BY DEF WsJob, WsOps
    <2>3. Rooms(branches) < roomiest
      BY <1>0, <1>03, <2>1 DEF Refuse, CountUsage, Rooms
    <2>. HIDE DEF j
    <2>. QED  BY <1>0, <2>1, <2>2, <2>3, DeskTurns
  <1>7. ASSUME NEW d \in Desks, CreateBranch(d)
        PROVE  TenInv'
    <2>. DEFINE j == [op |-> "invalidate"]
                kind == wsDesk[d].kind
    <2>1. PICK b \in Fresh(branches) :
            branches' = Placed(branches, b, kind)
      BY <1>7 DEF CreateBranch, Placed
    <2>2. /\ wsDesk[d].op = "branch" /\ company' = Bump(company) /\ changedAt' = wsTime /\ companyLock' = Nobody
          /\ wsDesk' = [wsDesk EXCEPT ![d] = j] /\ UNCHANGED <<staff, wcache, tickets, wsTime, roomiest>>
      BY <1>7 DEF CreateBranch, Work1, Changed
    <2>. HIDE DEF j
    <2>3. kind \in {"main_center", "branch"}
      BY <1>01, <2>2 DEF WsJob
    <2>4. companyLock = Held(d) /\ \A e \in Desks \ {d} : wsDesk[e].op # "branch"
      BY <1>0, <2>2 DEF WsDesks, Held
    <2>5. b \in BranchIds /\ branches[b] = NoRow
      BY <1>0, <2>1 DEF Fresh
    <2>6. branches[b] # "main_center"
      BY <2>5, TenancyAssumption
    <2>. HIDE DEF kind
    <2>7. kind \in Kinds /\ Ruled(branches)
      BY <1>0, <2>3 DEF Kinds, Ruled
    <2>8. Ruled(branches') /\ Present(branches') = Present(branches) \cup {b}
      BY <2>1, <2>5, <2>6, <2>7, OneMain
    <2>9. b \notin Present(branches) /\ IsFiniteSet(Present(branches))
      BY <1>0, <2>5, RoomsCounted DEF Present
    <2>10. Rooms(branches') = Rooms(branches) + 1
      BY <2>8, <2>9, FS_AddElement DEF Rooms
    <2>11. Rooms(branches') <= roomiest'
      BY <1>0, <2>2, <2>10
    <2>12. company' \in CompanyRow /\ company'.version = company.version + 1 /\ company'.plan = company.plan
      BY <1>0, <2>2 DEF Bump, CompanyRow
    <2>13. roomiest' \in Nat /\ roomiest' >= roomiest /\ Cap(company'.plan) <= roomiest'
      BY <1>0, <2>2, <2>12
    <2>14. j = Free \/ j = [op |-> "invalidate"]
      BY DEF j
    <2>15. branches' \in [BranchIds -> {NoRow, "main_center", "branch"}] /\ \E x \in BranchIds : Mains(branches') = {x}
      BY <2>8 DEF Ruled
    <2>. QED  BY <2>2, <2>4, <2>11, <2>12, <2>13, <2>14, <2>15, CompanyTurns
  <1>8. ASSUME NEW d \in Desks, NEW b \in BranchIds, NEW k \in {"main_center", "branch"}, UpdateBranch(d, b, k)
        PROVE  TenInv'
    <2>. DEFINE j == [op |-> "invalidate"]
    <2>1. /\ companyLock = Nobody /\ branches[b] # NoRow /\ (branches[b] = "main_center" => k = "main_center")
          /\ branches' = Placed(branches, b, k)
          /\ company' = Bump(company) /\ changedAt' = wsTime /\ wsDesk' = [wsDesk EXCEPT ![d] = j]
          /\ UNCHANGED <<staff, wcache, companyLock, tickets, wsTime, roomiest>>
      BY <1>8 DEF UpdateBranch, Work1, Changed, Placed
    <2>. HIDE DEF j
    <2>2. \A e \in Desks \ {d} : wsDesk[e].op # "branch"
      BY <1>0, <2>1 DEF WsDesks, Held, Nobody
    <2>3. k \in Kinds /\ Ruled(branches)
      BY <1>0 DEF Kinds, Ruled
    <2>4. Ruled(branches') /\ Present(branches') = Present(branches) \cup {b}
      BY <2>1, <2>3, OneMain
    <2>5. Present(branches') = Present(branches)
      BY <1>0, <2>1, <2>4 DEF Present
    <2>6. Rooms(branches') <= roomiest'
      BY <1>0, <2>1, <2>5 DEF Rooms
    <2>7. company' \in CompanyRow /\ company'.version = company.version + 1 /\ company'.plan = company.plan
      BY <1>0, <2>1 DEF Bump, CompanyRow
    <2>8. roomiest' \in Nat /\ roomiest' >= roomiest /\ Cap(company'.plan) <= roomiest'
      BY <1>0, <2>1, <2>7
    <2>9. j = Free \/ j = [op |-> "invalidate"]
      BY DEF j
    <2>10. branches' \in [BranchIds -> {NoRow, "main_center", "branch"}] /\ \E x \in BranchIds : Mains(branches') = {x}
      BY <2>4 DEF Ruled
    <2>. QED  BY <2>1, <2>2, <2>6, <2>7, <2>8, <2>9, <2>10, CompanyTurns
  <1>9. ASSUME NEW d \in Desks, InvalidateWorkspace(d)
        PROVE  TenInv'
    <2>1. wsDesk' = [wsDesk EXCEPT ![d] = Free] /\ wcache' = NoRow
          /\ UNCHANGED <<company, branches, staff, companyLock, tickets, wsTime, changedAt, roomiest>>
      BY <1>9 DEF InvalidateWorkspace, Work1
    <2>. QED  BY <1>0, <1>02, <2>1, DeskTurns
  <1>10. ASSUME NEW d \in Desks, GuardUsers(d)
        PROVE  TenInv'
    <2>. DEFINE j == [op |-> "user"]
    <2>1. wsDesk' = [wsDesk EXCEPT ![d] = j] /\ wsDesk[d] = Free /\ ~Refuse(company.plan, staff)
          /\ UNCHANGED <<company, branches, staff, wcache, companyLock, tickets, wsTime, changedAt, roomiest>>
      BY <1>10 DEF GuardUsers, Work1
    <2>2. WsJob(j, company.version, wsTime, changedAt) /\ j.op = "user"
      BY DEF WsJob, WsOps
    <2>3. staff < roomiest
      BY <1>0, <1>03, <2>1 DEF Refuse
    <2>. HIDE DEF j
    <2>. QED  BY <1>0, <2>1, <2>2, <2>3, DeskTurns
  <1>11. ASSUME NEW d \in Desks, CreateUser(d)
        PROVE  TenInv'
    <2>1. wsDesk' = [wsDesk EXCEPT ![d] = Free] /\ wsDesk[d].op = "user" /\ staff' = staff + 1
          /\ UNCHANGED <<company, branches, wcache, companyLock, tickets, wsTime, changedAt, roomiest>>
      BY <1>11 DEF CreateUser, Work1
    <2>. QED  BY <1>0, <1>02, <2>1, DeskTurns
  <1>12. ASSUME NEW d \in Desks, NEW to, RequestUpgrade(d, to)
        PROVE  TenInv'
    <2>. DEFINE j == [op |-> "upgrade", to |-> to]
    <2>1. wsDesk' = [wsDesk EXCEPT ![d] = j] /\ to \in Plans
          /\ UNCHANGED <<company, branches, staff, wcache, companyLock, tickets, wsTime, changedAt, roomiest>>
      BY <1>12 DEF RequestUpgrade, Work1, CanUpgradeTo
    <2>2. WsJob(j, company.version, wsTime, changedAt) /\ j.op = "upgrade"
      BY <2>1 DEF WsJob, WsOps
    <2>. HIDE DEF j
    <2>. QED  BY <1>0, <2>1, <2>2, DeskTurns
  <1>13. ASSUME NEW d \in Desks, SubmitUpgrade(d)
        PROVE  TenInv'
    <2>1. wsDesk' = [wsDesk EXCEPT ![d] = Free] /\ tickets' = tickets \cup {wsDesk[d].to} /\ wsDesk[d].op = "upgrade"
          /\ UNCHANGED <<company, branches, staff, wcache, companyLock, wsTime, changedAt, roomiest>>
      BY <1>13 DEF SubmitUpgrade, Work1
    <2>2. tickets' \subseteq Plans
      BY <1>0, <1>01, <2>1 DEF WsJob
    <2>. QED  BY <1>0, <1>02, <2>1, <2>2, DeskTurns
  <1>14. ASSUME NEW d \in Desks, WorkspaceCrash(d)
        PROVE  TenInv'
    <2>1. wsDesk' = [wsDesk EXCEPT ![d] = Free] /\ wcache' = NoRow
          /\ companyLock' = (IF companyLock # Nobody THEN IF companyLock.by = d THEN Nobody ELSE companyLock ELSE companyLock)
          /\ UNCHANGED <<company, branches, staff, tickets, wsTime, changedAt, roomiest>>
      BY <1>14 DEF WorkspaceCrash, Work1
    <2>2. companyLock' = companyLock \/ (companyLock = Held(d) /\ companyLock' = Nobody)
      BY <1>0, <2>1 DEF WsDesks, Held
    <2>. QED  BY <1>0, <1>02, <2>1, <2>2, DeskTurns
  <1>15. ASSUME WorkspaceTick
         PROVE  TenInv'
    <2>1. wsTime' = wsTime + 1
          /\ UNCHANGED <<company, branches, staff, wcache, companyLock, tickets, wsDesk, changedAt, roomiest>>
      BY <1>15 DEF WorkspaceTick
    <2>2. \A x : EntryHolds(x, company.version, wsTime, changedAt) => EntryHolds(x, company.version, wsTime + 1, changedAt)
      BY <1>0, EntriesLater
    <2>3. \A d \in Desks : WsJob(wsDesk[d], company.version, wsTime + 1, changedAt)
      BY <1>01, <2>2, Zenon DEF WsJob
    <2>4. WsDesks(wsDesk', companyLock', company'.version, wsTime', changedAt')
      BY <1>0, <2>1, <2>3 DEF WsDesks
    <2>5. wcache' # NoRow => EntryHolds(wcache', company'.version, wsTime', changedAt')
      BY <1>0, <2>1, <2>2
    <2>6. wsTime' \in Nat /\ changedAt' \in 0 .. wsTime'
      BY <1>0, <2>1
    <2>7. /\ \A d \in Desks : wsDesk'[d].op = "branch" => Rooms(branches') < roomiest'
          /\ staff' + Cardinality(Users(wsDesk')) < roomiest' + Cardinality(Desks)
          /\ \E b \in BranchIds : Mains(branches') = {b}
      BY <2>1 DEF TenInv
    <2>. QED  BY <1>0, <2>1, <2>4, <2>5, <2>6, <2>7 DEF TenInv
  <1>. QED
    BY <1>1, <1>2, <1>3, <1>4, <1>5, <1>6, <1>7, <1>8, <1>9, <1>10, <1>11, <1>12, <1>13, <1>14, <1>15 DEF TenantNext, PlanNext, Plans

LEMMA TenStays == TenInv /\ UNCHANGED tenantVars => TenInv'
  BY DEF tenantVars, TenInv, WsDesks, WsJob, EntryHolds, Entry, Users, Mains, Rooms, Cap, Unlimited, Present

-----------------------------------------------------------------------------
(* The set-up wizard.                                                      *)
SetupRow == [company : BOOLEAN, staffed : BOOLEAN, aiSkipped : BOOLEAN, channelsSkipped : BOOLEAN,
             dismissed : BOOLEAN, completed : BOOLEAN, ai : BOOLEAN, channels : BOOLEAN]
(* The wizard ends with its two required steps done. *)
SetupInv == setup \in SetupRow /\ (setup.completed => setup.company /\ setup.staffed)

LEMMA SetupInitHolds == TenancyInit => SetupInv
  BY DEF TenancyInit, SetupInv, SetupRow

LEMMA SetupInvNext == SetupInv /\ SetupNext => SetupInv' /\ (setup.completed => setup'.completed)
  <1>. SUFFICES ASSUME SetupInv, SetupNext PROVE SetupInv' /\ (setup.completed => setup'.completed)
    OBVIOUS
  <1>1. CASE SaveProfile
    BY <1>1 DEF SaveProfile, SetupInv, SetupRow
  <1>2. CASE Complete
    BY <1>2 DEF Complete, SetupInv, SetupRow
  <1>3. CASE Dismiss
    BY <1>3 DEF Dismiss, SetupInv, SetupRow
  <1>4. CASE FactsChange
    BY <1>4 DEF FactsChange, SetupInv, SetupRow
  <1>5. ASSUME NEW step \in SetupSteps, NEW skip \in BOOLEAN, Advance(step, skip)
        PROVE  SetupInv' /\ (setup.completed => setup'.completed)
    BY <1>5 DEF Advance, SetupInv, SetupRow
  <1>. QED  BY <1>1, <1>2, <1>3, <1>4, <1>5 DEF SetupNext

LEMMA FinishedStays == SetupInv /\ SetupInv' /\ (setup.completed => setup'.completed)
       => (setup.completed => /\ setup'.completed /\ ~Required(setup')
                              /\ \A step \in {"company", "staff"} : StepStatus(setup', step) = "done")
  BY DEF SetupInv, SetupRow, Required, StepStatus

LEMMA SetupStays == SetupInv /\ UNCHANGED setup => SetupInv'
  BY DEF SetupInv

-----------------------------------------------------------------------------
(* Who may see and do what.                                                *)
(* What every answer satisfies, whatever the question.                     *)
AskedInv == AccessTypeOK /\ ListsMatchReads /\ WritesStayInside /\ NoEscalation /\ GateHolds /\ SettingsHold /\ NotesBetweenTwo

LEMMA ListsAgree ==
    ASSUME NEW s \in Scopes, NEW r
    PROVE  /\ Listed(s, r, FALSE) => CanAccess(s, r)
           /\ CanAccess(s, r) => Listed(s, r, TRUE)
           /\ Listed(s, r, TRUE) \/ CanAccess(s, r) => CanAccessBranch(s, r.branch)
  <1>1. s.level \in 0 .. 5
    BY DEF Scopes, LevelNone, LevelGlobal
  <1>. QED
    BY <1>1 DEF Listed, CanAccess, CanAccessBranch, OrUnassigned, InCompany,
                LevelNone, LevelOwn, LevelTeam, LevelBranch, LevelCompany, LevelGlobal

LEMMA WritesInside ==
    ASSUME NEW s \in Scopes, NEW q
    PROVE  \A b \in WriteBranch(s, q) : EnsureBranch(s, b)
  <1>1. s.level \in 0 .. 5
    BY DEF Scopes, LevelNone, LevelGlobal
  <1>. QED
    BY <1>1 DEF WriteBranch, ResolveBranch, EnsureBranch, CanAccessBranch, InCompany, NoBranch,
                LevelNone, LevelOwn, LevelTeam, LevelBranch, LevelCompany, LevelGlobal

LEMMA OwnersInside ==
    ASSUME NEW s \in Scopes, NEW o, s.level = LevelOwn
    PROVE  ResolveOwner(s, o) \subseteq {s.user}
  BY DEF ResolveOwner, LevelOwn, LevelNone

LEMMA PlacedInside ==
    ASSUME NEW role \in {"gm", "admin", "finance"}, NEW b, NEW cs, "users.write" \in PermissionsFor(role),
           NEW is \in {"gm", "finance", "agent", "admin"}, NEW nb
    PROVE  LET s == CallerScope(role, b, cs)
           IN  CreateAllowed(s, is, nb) =>
                 ScopeLevelFor(is) <= s.level /\ VisibleUser(s, [branch |-> nb, role |-> is])
  <1>. DEFINE s == CallerScope(role, b, cs)
  <1>1. role \in {"gm", "admin"} /\ s.level = ScopeLevelFor(role) /\ s.branches = cs
    BY DEF PermissionsFor, CanonicalRole, CallerScope
  <1>2. ScopeLevelFor(role) = (IF role = "gm" THEN 4 ELSE 5)
    BY <1>1 DEF ScopeLevelFor, CanonicalRole, LevelCompany, LevelGlobal
  <1>3. ScopeLevelFor(is) = CASE is = "gm" -> 4 [] is = "admin" -> 5 [] is = "finance" -> 3 [] is = "agent" -> 1
    BY DEF ScopeLevelFor, CanonicalRole, LevelCompany, LevelGlobal, LevelBranch, LevelOwn
  <1>. HIDE DEF s
  <1>4. CreateAllowed(s, is, nb) => ScopeLevelFor(is) <= s.level
    BY <1>1, <1>2, <1>3 DEF CreateAllowed, CheckPlacement, LevelGlobal, LevelCompany
  <1>5. CreateAllowed(s, is, nb) => VisibleUser(s, [branch |-> nb, role |-> is])
    BY <1>1, <1>2, <1>3 DEF CreateAllowed, CheckPlacement, VisibleUser, CanAccessBranch, LevelGlobal, LevelCompany, LevelNone
  <1>. QED  BY <1>4, <1>5 DEF s

LEMMA ChangedInside ==
    ASSUME NEW role \in {"gm", "admin", "finance"}, NEW b, NEW cs, "users.write" \in PermissionsFor(role),
           NEW is \in {"gm", "finance", "agent", "admin"}, NEW nb, NEW u
    PROVE  LET s == CallerScope(role, b, cs)
           IN  UpdateAllowed(s, u, is, nb) =>
                 /\ is # u.role => ScopeLevelFor(is) <= s.level
                 /\ u.id = s.user => is = u.role
  <1>. DEFINE s == CallerScope(role, b, cs)
  <1>1. role \in {"gm", "admin"} /\ s.level = ScopeLevelFor(role)
    BY DEF PermissionsFor, CanonicalRole, CallerScope
  <1>2. ScopeLevelFor(role) = (IF role = "gm" THEN 4 ELSE 5)
    BY <1>1 DEF ScopeLevelFor, CanonicalRole, LevelCompany, LevelGlobal
  <1>3. ScopeLevelFor(is) = CASE is = "gm" -> 4 [] is = "admin" -> 5 [] is = "finance" -> 3 [] is = "agent" -> 1
    BY DEF ScopeLevelFor, CanonicalRole, LevelCompany, LevelGlobal, LevelBranch, LevelOwn
  <1>. HIDE DEF s
  <1>4. UpdateAllowed(s, u, is, nb) /\ is # u.role => ScopeLevelFor(is) <= s.level
    BY <1>1, <1>2, <1>3 DEF UpdateAllowed, CheckPlacement, LevelGlobal, LevelCompany
  <1>5. UpdateAllowed(s, u, is, nb) /\ u.id = s.user => is = u.role
    BY DEF UpdateAllowed, CheckSelfEdit
  <1>. QED  BY <1>4, <1>5 DEF s

Questions == [token : BOOLEAN, session : {"ok", "stale"}, role : {"gm", "finance", "admin"}, branch : {NoBranch, 1},
              workspace : {"none", "suspended", "ok"}, header : {NoBranch, 1, 2}, branches : {{1}},
              plan : {"standard", "premium", "ultimate"}, perm : Permissions]
LEMMA GateAnswers ==
    ASSUME NEW q \in Questions, Gate(q) = "pass"
    PROVE  /\ q.token /\ q.session = "ok"
           /\ q.perm \in PermissionsFor(q.role)
           /\ q.role # "admin" => GateBranch(q) \in q.branches /\ q.workspace = "ok" /\ Allows(q.plan, q.perm)
  <1>1. Authenticate(q) = "pass" /\ GateTenancy(q) = "pass" /\ RequirePermission(q) = "pass"
    BY DEF Gate
  <1>2. q.token /\ q.session = "ok"
    BY <1>1 DEF Authenticate, Questions
  <1>3. EffectiveHas(q.role, q.plan, q.perm)
    BY <1>1 DEF RequirePermission
  <1>4. q.role # "admin" => GateBranch(q) \in q.branches /\ q.workspace = "ok" /\ CanonicalRole(q.role) # "admin"
    BY <1>1 DEF GateTenancy, GateBranch, Questions, ScopeLevelFor, CanonicalRole, NoBranch, LevelCompany, LevelGlobal, LevelBranch, LevelOwn
  <1>. QED  BY <1>2, <1>3, <1>4 DEF EffectiveHas

LEMMA NotesAnswer ==
    ASSUME NEW t, NEW u, t.assignee # NoRow, NEW n \in NewNote(t, u)
    PROVE  NewNote(t, n.to) = {[author |-> n.to, to |-> n.author]}
  <1>. DEFINE alone == t.creator \in {NoRow, t.assignee}
              other == IF u = t.assignee THEN t.creator ELSE t.assignee
  <1>1. NoteAccessFor(t, u).post /\ n = [author |-> u, to |-> NoteAccessFor(t, u).to]
    BY DEF NewNote
  <1>2. u \in {t.creator, t.assignee} /\ u # NoRow /\ ~alone /\ ~t.closed
    BY <1>1 DEF NoteAccessFor
  <1>3. NoteAccessFor(t, u).to = other
    BY <1>2 DEF NoteAccessFor
  <1>4. other \in {t.creator, t.assignee} /\ other # NoRow /\ u = (IF other = t.assignee THEN t.creator ELSE t.assignee)
    BY <1>2
  <1>5. n.author = u /\ n.to = other
    BY <1>1, <1>3
  <1>. HIDE DEF other
  <1>6. NoteAccessFor(t, other).post
    BY <1>2, <1>4 DEF NoteAccessFor
  <1>7. NoteAccessFor(t, other).to = u
    BY <1>2, <1>4 DEF NoteAccessFor
  <1>. QED  BY <1>5, <1>6, <1>7 DEF NewNote

LEMMA NotesKept ==
    ASSUME NEW t, NEW reader, NEW notes, NotesShown(t, reader, notes) # {}
    PROVE  reader \in {t.creator, t.assignee} \ {NoRow}
  BY DEF NotesShown, NoteAccessFor

LEMMA SettingsAnswer ==
    ASSUME NEW t, NEW defaults, NEW overlays, \A k \in DOMAIN defaults : defaults[k].roles # {}
    PROVE  /\ \A x \in NormalizeThresholds(t) : x.warn < x.breach
           /\ DOMAIN MergeEscalation(defaults, overlays) \subseteq DOMAIN defaults
           /\ \A k \in DOMAIN MergeEscalation(defaults, overlays) : MergeEscalation(defaults, overlays)[k].roles # {}
  <1>1. \A x \in NormalizeThresholds(t) : x.warn < x.breach
    BY DEF NormalizeThresholds
  <1>2. /\ DOMAIN MergeEscalation(defaults, overlays) \subseteq DOMAIN defaults
        /\ \A k \in DOMAIN MergeEscalation(defaults, overlays) : MergeEscalation(defaults, overlays)[k].roles # {}
    BY DEF MergeEscalation
  <1>. QED  BY <1>1, <1>2

LEMMA AskedInitHolds == AccessInit => AskedInv
  <1>. SUFFICES ASSUME asked.op = "free" PROVE AskedInv
    BY DEF AccessInit, Free
  <1>. QED
    BY DEF AskedInv, AccessTypeOK, ListsMatchReads, WritesStayInside, NoEscalation, GateHolds, SettingsHold, NotesBetweenTwo

LEMMA AskedInvNext == AccessNext => AskedInv'
  <1>. SUFFICES ASSUME AccessNext PROVE AskedInv'
    OBVIOUS
  <1>1. ASSUME NEW s \in Scopes, NEW b \in ScopeBranches, NEW o \in Owners, NEW q \in ScopeBranches \cup {NoBranch},
               AskScope(s, b, o, q)
        PROVE  AskedInv'
    <2>. DEFINE r == [branch |-> b, owner |-> o[1], team |-> o[2]]
    <2>. DEFINE access == CanAccess(s, r)
                branch == CanAccessBranch(s, b)
                strict == Listed(s, r, FALSE)
                lenient == Listed(s, r, TRUE)
                write == WriteBranch(s, q)
                owner == ResolveOwner(s, o[1])
                read == ResolveBranch(s, q)
    <2>0. asked' = [op |-> "scope", s |-> s, r |-> r, access |-> access, branch |-> branch, strict |-> strict,
                    lenient |-> lenient, read |-> read, write |-> write, owner |-> owner]
      BY <1>1, Zenon DEF AskScope, Answer
    <2>. HIDE DEF access, branch, strict, lenient, write, owner, read
    <2>1. /\ asked'.op = "scope" /\ asked'.s = s /\ asked'.write = write /\ asked'.owner = owner
          /\ asked'.access = access /\ asked'.branch = branch /\ asked'.strict = strict /\ asked'.lenient = lenient
      BY <2>0
    <2>2. r.branch = b
      OBVIOUS
    <2>. HIDE DEF r
    <2>3. (strict => access) /\ (access => lenient) /\ (lenient \/ access => branch)
      BY <2>2, ListsAgree, Zenon DEF strict, lenient, access, branch
    <2>4. (\A x \in write : EnsureBranch(s, x)) /\ (s.level = LevelOwn => owner \subseteq {s.user})
      BY WritesInside, OwnersInside DEF write, owner
    <2>. QED  BY <2>1, <2>3, <2>4
             DEF AskedInv, AccessTypeOK, ListsMatchReads, WritesStayInside, NoEscalation, GateHolds, SettingsHold, NotesBetweenTwo
  <1>2. ASSUME NEW q \in Questions, AskGate(q)
        PROVE  AskedInv'
    <2>1. asked'.op = "gate" /\ asked'.q = q /\ asked'.answer = Gate(q) /\ asked'.branch = GateBranch(q)
      BY <1>2 DEF AskGate, Answer
    <2>. QED  BY <2>1, GateAnswers
             DEF AskedInv, AccessTypeOK, ListsMatchReads, WritesStayInside, NoEscalation, GateHolds, SettingsHold, NotesBetweenTwo
  <1>3. ASSUME NEW role \in {"gm", "admin", "finance"}, NEW b, NEW cs, NEW u,
               NEW is \in {"gm", "finance", "agent", "admin"}, NEW nb, AskPlacement(role, b, cs, u, is, nb)
        PROVE  AskedInv'
    <2>. DEFINE s == CallerScope(role, b, cs)
    <2>1. /\ asked'.op = "placement" /\ asked'.s = s /\ asked'.u = u /\ asked'.role = is /\ asked'.branch = nb
          /\ asked'.create <=> CreateAllowed(s, is, nb)
          /\ asked'.update <=> UpdateAllowed(s, u, is, nb)
          /\ "users.write" \in PermissionsFor(role)
      BY <1>3 DEF AskPlacement, Answer
    <2>2. CreateAllowed(s, is, nb) => ScopeLevelFor(is) <= s.level /\ VisibleUser(s, [branch |-> nb, role |-> is])
      BY <2>1, PlacedInside
    <2>3. UpdateAllowed(s, u, is, nb) => (is # u.role => ScopeLevelFor(is) <= s.level) /\ (u.id = s.user => is = u.role)
      BY <2>1, ChangedInside
    <2>. HIDE DEF s
    <2>. QED  BY <2>1, <2>2, <2>3
             DEF AskedInv, AccessTypeOK, ListsMatchReads, WritesStayInside, NoEscalation, GateHolds, SettingsHold, NotesBetweenTwo
  <1>4. ASSUME NEW t, NEW u, NEW now, NEW reader, t.assignee # NoRow, AskNotes(t, u, now, reader)
        PROVE  AskedInv'
    <2>1. asked'.op = "notes" /\ asked'.t = t /\ asked'.now = now /\ asked'.reader = reader
          /\ asked'.sent = NewNote(t, u) /\ asked'.shown = NotesShown(now, reader, NewNote(t, u))
      BY <1>4 DEF AskNotes, Answer
    <2>. QED  BY <1>4, <2>1, NotesAnswer, NotesKept
             DEF AskedInv, AccessTypeOK, ListsMatchReads, WritesStayInside, NoEscalation, GateHolds, SettingsHold, NotesBetweenTwo
  <1>5. ASSUME NEW t, NEW defaults, NEW overlays, \A k \in DOMAIN defaults : defaults[k].roles # {},
               AskSettings(t, defaults, overlays)
        PROVE  AskedInv'
    <2>1. asked'.op = "settings" /\ asked'.saved = NormalizeThresholds(t) /\ asked'.defaults = defaults
          /\ asked'.rules = MergeEscalation(defaults, overlays)
      BY <1>5 DEF AskSettings, Answer
    <2>. QED  BY <1>5, <2>1, SettingsAnswer
             DEF AskedInv, AccessTypeOK, ListsMatchReads, WritesStayInside, NoEscalation, GateHolds, SettingsHold, NotesBetweenTwo
  <1>6. ASSUME NEW t, NEW keys, NEW now, AskToken(t, keys, now)
        PROVE  AskedInv'
    <2>1. asked'.op = "token"
      BY <1>6 DEF AskToken, Answer
    <2>. QED  BY <2>1
             DEF AskedInv, AccessTypeOK, ListsMatchReads, WritesStayInside, NoEscalation, GateHolds, SettingsHold, NotesBetweenTwo
  <1>. QED
    <2>1. CASE \E s \in Scopes, b \in ScopeBranches, o \in Owners, q \in ScopeBranches \cup {NoBranch} : AskScope(s, b, o, q)
      BY <1>1, <2>1, Zenon
    <2>2. CASE \E tok \in BOOLEAN, ses \in {"ok", "stale"}, role \in {"gm", "finance", "admin"}, b \in {NoBranch, 1},
                  ws \in {"none", "suspended", "ok"}, h \in {NoBranch, 1, 2}, plan \in {"standard", "premium", "ultimate"},
                  p \in Permissions :
                AskGate([token |-> tok, session |-> ses, role |-> role, branch |-> b, workspace |-> ws, header |-> h,
                         branches |-> {1}, plan |-> plan, perm |-> p])
      <3>1. PICK tok \in BOOLEAN, ses \in {"ok", "stale"}, role \in {"gm", "finance", "admin"}, b \in {NoBranch, 1},
                 ws \in {"none", "suspended", "ok"}, h \in {NoBranch, 1, 2}, plan \in {"standard", "premium", "ultimate"},
                 p \in Permissions :
               AskGate([token |-> tok, session |-> ses, role |-> role, branch |-> b, workspace |-> ws, header |-> h,
                        branches |-> {1}, plan |-> plan, perm |-> p])
        BY <2>2, Zenon
      <3>. DEFINE q == [token |-> tok, session |-> ses, role |-> role, branch |-> b, workspace |-> ws, header |-> h,
                        branches |-> {1}, plan |-> plan, perm |-> p]
      <3>2. q \in Questions
        BY DEF Questions
      <3>. HIDE DEF q
      <3>3. AskGate(q)
        BY <3>1 DEF q
      <3>. QED  BY <1>2, <3>2, <3>3
    <2>3. CASE \E role \in {"gm", "admin", "finance"}, b \in ScopeBranches \cup {NoBranch}, cs \in SUBSET ScopeBranches, id \in {"me", "you"},
                  was, is \in {"gm", "finance", "agent", "admin"}, ub, nb \in ScopeBranches \cup {NoBranch} :
                AskPlacement(role, b, cs, [id |-> id, role |-> was, branch |-> ub], is, nb)
      <3>1. PICK role \in {"gm", "admin", "finance"}, b \in ScopeBranches \cup {NoBranch}, cs \in SUBSET ScopeBranches, id \in {"me", "you"},
                 was \in {"gm", "finance", "agent", "admin"}, is \in {"gm", "finance", "agent", "admin"},
                 ub \in ScopeBranches \cup {NoBranch}, nb \in ScopeBranches \cup {NoBranch} :
               AskPlacement(role, b, cs, [id |-> id, role |-> was, branch |-> ub], is, nb)
        BY <2>3, Zenon
      <3>. DEFINE u == [id |-> id, role |-> was, branch |-> ub]
      <3>. HIDE DEF u
      <3>2. AskPlacement(role, b, cs, u, is, nb)
        BY <3>1 DEF u
      <3>3. role \in {"gm", "admin", "finance"} /\ is \in {"gm", "finance", "agent", "admin"}
        OBVIOUS
      <3>. QED  BY <1>3, <3>2, <3>3, Zenon
    <2>4. CASE \E c, u, r \in {NoRow, "me", "you", "they"}, a, b \in {"me", "you", "they"}, closed \in BOOLEAN :
                AskNotes([creator |-> c, assignee |-> a, closed |-> closed], u, [creator |-> c, assignee |-> b, closed |-> closed], r)
      <3>1. PICK c \in {NoRow, "me", "you", "they"}, u \in {NoRow, "me", "you", "they"}, r \in {NoRow, "me", "you", "they"},
                 a \in {"me", "you", "they"}, b \in {"me", "you", "they"}, closed \in BOOLEAN :
               AskNotes([creator |-> c, assignee |-> a, closed |-> closed], u, [creator |-> c, assignee |-> b, closed |-> closed], r)
        BY <2>4, Zenon
      <3>. DEFINE t == [creator |-> c, assignee |-> a, closed |-> closed]
                  now == [creator |-> c, assignee |-> b, closed |-> closed]
      <3>2. t.assignee # NoRow
        BY AccessAssumption
      <3>. HIDE DEF t, now
      <3>3. AskNotes(t, u, now, r)
        BY <3>1 DEF t, now
      <3>. QED  BY <1>4, <3>2, <3>3
    <2>5. CASE \E w \in {0, 9, 75, 100}, br \in {0, 75, 100}, o \in {[x \in {} |-> 0]} \cup [{"k"} -> [enabled : BOOLEAN, after : {0, 5}, roles : {{}, {"r"}}]] :
                AskSettings([warn |-> w, breach |-> br], [k |-> [after |-> 9, roles |-> {"d"}], l |-> [after |-> 9, roles |-> {"d"}]], o)
      <3>. DEFINE defaults == [k |-> [after |-> 9, roles |-> {"d"}], l |-> [after |-> 9, roles |-> {"d"}]]
      <3>1. \A k \in DOMAIN defaults : defaults[k].roles # {}
        OBVIOUS
      <3>2. PICK w, br, o : AskSettings([warn |-> w, breach |-> br], defaults, o)
        BY <2>5, Zenon
      <3>. HIDE DEF defaults
      <3>. QED  BY <1>5, <3>1, <3>2
    <2>6. CASE \E kid \in {"new", "old", "gone"}, alg \in {"HS256", "none"}, iss, aud \in BOOLEAN, exp, iat, now \in 0 .. 2 :
                AskToken([kid |-> kid, alg |-> alg, iss |-> iss, aud |-> aud, exp |-> exp, iat |-> iat],
                         [new |-> "HS256", old |-> "HS256"], now)
      BY <1>6, <2>6, Zenon
    <2>. QED  BY <2>1, <2>2, <2>3, <2>4, <2>5, <2>6, Zenon DEF AccessNext

(* The reasons of a branch. *)
ReasonInv == DOMAIN reasons = {"a", "b", "c"} /\ ReasonsDistinct
LEMMA ReasonInitHolds == AccessInit => ReasonInv
  BY DEF AccessInit, ReasonInv, ReasonsDistinct
LEMMA ReasonInvNext == ReasonInv /\ ReasonNext => ReasonInv'
  <1>. SUFFICES ASSUME ReasonInv, ReasonNext PROVE ReasonInv'
    OBVIOUS
  <1>1. ASSUME NEW c \in DOMAIN reasons, NEW i, CreateLostReason(c, i)
        PROVE  ReasonInv'
    BY <1>1 DEF CreateLostReason, ReasonInv, ReasonsDistinct
  <1>2. ASSUME NEW c, NEW d, UpdateLostReason(c, d)
        PROVE  ReasonInv'
    BY <1>2 DEF UpdateLostReason, ReasonInv, ReasonsDistinct, accessVars
  <1>3. ASSUME NEW c \in DOMAIN reasons, DeleteLostReason(c)
        PROVE  ReasonInv'
    BY <1>3 DEF DeleteLostReason, ReasonInv, ReasonsDistinct
  <1>. QED  BY <1>1, <1>2, <1>3 DEF ReasonNext

LEMMA AskedStays == AskedInv /\ UNCHANGED asked => AskedInv'
  BY DEF AskedInv, AccessTypeOK, ListsMatchReads, WritesStayInside, NoEscalation, GateHolds, SettingsHold, NotesBetweenTwo
LEMMA ReasonStays == ReasonInv /\ UNCHANGED reasons => ReasonInv'
  BY DEF ReasonInv, ReasonsDistinct
LEMMA AnswersOnly == AccessNext => UNCHANGED reasons
  BY DEF AccessNext

-----------------------------------------------------------------------------
(* The services of the instance together: every step is a step of one of   *)
(* them and leaves the tables of the others alone, whatever part says.     *)
MessageInv == HookInv /\ ConvInv /\ AutoInv

LEMMA MessageInit == MCInit => MessageInv
  BY HookInitHolds, ConvInitHolds, AutoInitHolds DEF MCInit, MessageInv

LEMMA MessageNext ==
    MessageInv /\ [MCNext]_<<part, vars, messageVars, recordVars, tenancyVars, accessVars>> => MessageInv'
  <1>. SUFFICES ASSUME MessageInv, [MCNext]_<<part, vars, messageVars, recordVars, tenancyVars, accessVars>>
       PROVE  MessageInv'
    OBVIOUS
  <1>1. /\ HookNext \/ UNCHANGED hookVars
        /\ ConvNext \/ UNCHANGED convVars
        /\ OnceNext \/ VisaNext \/ DocsNext \/ ReactNext \/ ScheduleNext \/ UNCHANGED autoVars
    BY DEF MCNext, MessageStep, messageVars
  <1>. QED  BY <1>1, HookInvNext, ConvInvNext, AutoInvNext DEF MessageInv

(* What comes in is stored once and what is told is told once, for any     *)
(* number of desks, events, accounts, messages and conversations, and any  *)
(* number of retries: deliveries, conversations and their SLA, findings,   *)
(* visa applications, handled events and the cron table.                   *)
THEOREM MessagesOnceHolds == MCSpec => []MessagesOnce
  <1>1. MessageInv => MessagesOnce
    BY HookInvHolds, ConvInvHolds, AutoInvHolds DEF MessageInv, MessagesOnce
  <1>. QED  BY <1>1, MessageInit, MessageNext, PTL DEF MCSpec

AccessInv == TenInv /\ SetupInv /\ AskedInv /\ ReasonInv

LEMMA AccessInitHolds == MCInit => AccessInv
  BY TenInitHolds, SetupInitHolds, AskedInitHolds, ReasonInitHolds DEF MCInit, AccessInv

LEMMA AccessInvNext ==
    AccessInv /\ [MCNext]_<<part, vars, messageVars, recordVars, tenancyVars, accessVars>> => AccessInv'
  <1>. SUFFICES ASSUME AccessInv, [MCNext]_<<part, vars, messageVars, recordVars, tenancyVars, accessVars>>
       PROVE  AccessInv'
    OBVIOUS
  <1>1. AccessStep \/ UNCHANGED <<tenancyVars, accessVars>>
    BY DEF MCNext
  <1>2. \/ (TenantNext \/ PlanNext) /\ UNCHANGED <<setup, asked, reasons>>
        \/ SetupNext /\ UNCHANGED <<tenantVars, asked, reasons>>
        \/ AccessNext /\ UNCHANGED <<tenantVars, setup, reasons>>
        \/ ReasonNext /\ UNCHANGED <<tenantVars, setup, asked>>
        \/ UNCHANGED <<tenantVars, setup, asked, reasons>>
    BY <1>1, AnswersOnly DEF AccessStep, TenantNext, PlanNext, SetupNext, tenancyVars, tenantVars, accessVars
  <1>3. TenInv' /\ SetupInv' /\ AskedInv' /\ ReasonInv'
    BY <1>2, TenInvNext, TenStays, SetupInvNext, SetupStays, AskedInvNext, AskedStays, ReasonInvNext, ReasonStays, Zenon
    DEF AccessInv
  <1>. QED  BY <1>3 DEF AccessInv

(* Who may do what, for any number of desks, branches, plans and users:    *)
(* one main center, branches within the plan, a fresh workspace; lists     *)
(* that show what reads allow, writes inside the scope, no grant beyond    *)
(* the granter's, a gate that only a live session of a linked and paid-up  *)
(* company passes, notes between two.                                      *)
THEOREM AccessHoldsAlways == MCSpec => []AccessHolds
  <1>1. AccessInv => AccessHolds
    <2>. SUFFICES ASSUME AccessInv PROVE AccessHolds
      OBVIOUS
    <2>1. TenancyTypeOK /\ OneMainCenter /\ WithinPlan /\ WorkspaceFresh
      BY TenInvHolds DEF AccessInv, SetupInv, SetupRow
    <2>. QED  BY <2>1 DEF AccessInv, AskedInv, ReasonInv, AccessHolds
  <1>. QED  BY <1>1, AccessInitHolds, AccessInvNext, PTL DEF MCSpec

UndoneInv == SetupInv /\ CustInv /\ AskInv /\ HotelInv

LEMMA UndoneInit == MCInit => UndoneInv
  BY SetupInitHolds, CustInitHolds, AskInitHolds, HotelInitHolds DEF MCInit, UndoneInv

(* A step of the instance is a step of one service, or leaves its tables.  *)
LEMMA StepOfOne ==
    ASSUME [MCNext]_<<part, vars, messageVars, recordVars, tenancyVars, accessVars>>
    PROVE  /\ SetupNext \/ UNCHANGED setup
           /\ RegistryNext \/ SealingNext \/ AskRegistry \/ UNCHANGED customerVars
           /\ ChatNext \/ SettingsNext \/ AskFigure \/ UNCHANGED aiVars
           /\ SellNext \/ StockNext \/ QuoteNext \/ UNCHANGED hotelVars
  <1>1. AccessStep => SetupNext \/ UNCHANGED setup
    BY DEF AccessStep, TenantNext, PlanNext, tenancyVars
  <1>2. AccessStep \/ UNCHANGED <<tenancyVars>>
    BY DEF MCNext
  <1>3. RecordStep => /\ RegistryNext \/ SealingNext \/ AskRegistry \/ UNCHANGED customerVars
                      /\ ChatNext \/ SettingsNext \/ AskFigure \/ UNCHANGED aiVars
                      /\ SellNext \/ StockNext \/ QuoteNext \/ UNCHANGED hotelVars
    BY DEF RecordStep
  <1>4. RecordStep \/ UNCHANGED <<customerVars, aiVars, hotelVars>>
    BY DEF MCNext, recordVars
  <1>5. UNCHANGED <<tenancyVars>> => UNCHANGED setup
    BY DEF tenancyVars
  <1>. QED  BY <1>1, <1>2, <1>3, <1>4, <1>5

LEMMA UndoneNext ==
    UndoneInv /\ [MCNext]_<<part, vars, messageVars, recordVars, tenancyVars, accessVars>>
    => UndoneInv' /\ (setup.completed => setup'.completed) /\ GoneKept /\ Shielded /\ StockKept
  <1>. SUFFICES ASSUME UndoneInv, [MCNext]_<<part, vars, messageVars, recordVars, tenancyVars, accessVars>>
       PROVE  UndoneInv' /\ (setup.completed => setup'.completed) /\ GoneKept /\ Shielded /\ StockKept
    OBVIOUS
  <1>0. SetupInv /\ CustInv /\ AskInv /\ HotelInv
    BY DEF UndoneInv
  <1>1. SetupInv' /\ (setup.completed => setup'.completed)
    BY <1>0, StepOfOne, SetupInvNext, SetupStays
  <1>2. CustInv' /\ GoneKept
    <2>1. UNCHANGED customerVars => UNCHANGED <<custs, custDesk>>
      BY DEF customerVars, registryVars
    <2>. QED  BY <1>0, <2>1, StepOfOne, CustInvNext, CustStays
  <1>3. AskInv' /\ Shielded
    <2>1. AskFigure \/ UNCHANGED aiVars => UNCHANGED <<aiTick, aiUntil, aiDesk>>
      BY DEF AskFigure, aiVars, chatVars
    <2>. QED  BY <1>0, <2>1, StepOfOne, AskInvNext, AskStays
  <1>4. HotelInv' /\ StockKept
    <2>1. UNCHANGED hotelVars => UNCHANGED <<hotel, seasons, allots, stops, sheet, hotelDay, hotelTx>>
      BY DEF hotelVars, hotelRows
    <2>. QED  BY <1>0, <2>1, StepOfOne, HotelInvNext, HotelStays, StockKeptNext
  <1>. QED  BY <1>1, <1>2, <1>3, <1>4 DEF UndoneInv

(* No step undoes what was finished, for any number of desks and rows: a   *)
(* finished setup, a merged or erased customer, the rest a failing         *)
(* provider is left until the breaker closes, and the stock of a hotel,    *)
(* whose rooms go only from an open allotment.                             *)
THEOREM NothingUndoneEver == MCSpec => NothingUndone
  <1>1. UndoneInv /\ UndoneInv' /\ (setup.completed => setup'.completed)
        => [setup.completed => /\ setup'.completed /\ ~Required(setup')
                               /\ \A step \in {"company", "staff"} : StepStatus(setup', step) = "done"]_setup
    BY FinishedStays DEF UndoneInv
  <1>2. GoneKept => [\A i \in Present(custs) : /\ custs[i].merged # NoRow => custs'[i].merged # NoRow
                                               /\ custs[i].anon => custs'[i].anon]_customerVars
    BY DEF GoneKept
  <1>3. Shielded => [\A d \in Desks : (aiDesk[d].op # "call" /\ aiDesk'[d].op = "call") => aiTick >= aiUntil]_aiVars
    BY DEF Shielded
  <1>4. StockKept => [\A i \in DOMAIN allots : allots[i] # NoRow =>
                          /\ (allots'[i] # NoRow /\ allots'[i].sold > allots[i].sold) => AllotStatus(allots[i], hotelDay) = "open"
                          /\ allots'[i] = NoRow => (allots[i].sold = 0 \/ AllotStatus(allots[i], hotelDay) = "expired")]_hotelVars
    BY DEF StockKept
  <1>. QED  BY <1>1, <1>2, <1>3, <1>4, UndoneInit, UndoneNext, PTL
       DEF MCSpec, NothingUndone, SetupFinished, GoneForGood, BreakerShields, StockSoldOpenly

(* The rows behind the records, each service under its own steps.          *)
RowsInv == LeadInv /\ RegInv /\ ImportInv /\ AiInv /\ OfficeInv /\ HotelInv /\ NoOversold

LEMMA RowsInit == MCInit => RowsInv
  BY LeadInitHolds, RegInitHolds, ImportInitHolds, AiInitHolds, OfficeInitHolds, HotelInitHolds DEF MCInit, RowsInv, HotelInit, NoOversold, Present

LEMMA RowsNext ==
    RowsInv /\ [MCNext]_<<part, vars, messageVars, recordVars, tenancyVars, accessVars>> => RowsInv'
  <1>. SUFFICES ASSUME RowsInv, [MCNext]_<<part, vars, messageVars, recordVars, tenancyVars, accessVars>>
       PROVE  RowsInv'
    OBVIOUS
  <1>1. RecordStep => /\ LeadNext \/ UNCHANGED leadVars
                      /\ ImportNext \/ AskSheet \/ UNCHANGED importVars
                      /\ ReportNext \/ SupportNext \/ AskOffice \/ UNCHANGED officeVars
    BY DEF RecordStep, sheetVars
  <1>2. RecordStep \/ UNCHANGED <<leadVars, importVars, officeVars>>
    BY DEF MCNext, recordVars, sheetVars
  <1>3. LeadInv' /\ ImportInv' /\ OfficeInv'
    BY <1>1, <1>2, LeadInvNext, LeadStays, ImportInvNext, ImportStays, OfficeInvNext, OfficeStays DEF RowsInv
  <1>5. AiInv'
    <2>1. UNCHANGED aiVars => UNCHANGED chatVars
      BY DEF aiVars
    <2>. QED  BY <2>1, StepOfOne, AiInvNext, AiStays DEF RowsInv
  <1>4. RegInv' /\ HotelInv' /\ NoOversold'
    <2>1. UNCHANGED hotelVars => UNCHANGED <<hotel, seasons, allots, stops, sheet, hotelDay, hotelTx>>
      BY DEF hotelVars, hotelRows
    <2>. QED  BY <2>1, StepOfOne, RegInvNext, RegStays, HotelInvNext, HotelStays, NoOversoldNext DEF RowsInv
  <1>. QED  BY <1>3, <1>4, <1>5 DEF RowsInv

(* The leads part of RecordsHold, for any number of desks and edits: the   *)
(* row of a lead, its history and its follow-up tasks agree whatever desks *)
(* edit, walk its stages, delete or restore it at the same time.           *)
THEOREM LeadsKeepTheirHistory == MCSpec => [](LeadTypeOK /\ LeadRowConsistent /\ HistoryMatchesStage /\ TasksFollowDeletion)
  <1>1. RowsInv => LeadTypeOK /\ LeadRowConsistent /\ HistoryMatchesStage /\ TasksFollowDeletion
    BY DEF RowsInv, LeadInv
  <1>. QED  BY <1>1, RowsInit, RowsNext, PTL DEF MCSpec

(* The registry part of RecordsHold, for any number of desks, customers    *)
(* and keys: a passport once stored is kept or erased for good, a merged   *)
(* customer stays hidden, an erased one erased, and companions are mutual, *)
(* whatever updates, merges, erasures and resealings overlap.              *)
THEOREM RegistryKeepsItsRows ==
    MCSpec => [](CustomersTypeOK /\ PassportKept /\ MergedStaysHidden /\ ErasedStaysErased /\ CompanionsMutual)
  <1>1. RowsInv => CustomersTypeOK /\ PassportKept /\ MergedStaysHidden /\ ErasedStaysErased /\ CompanionsMutual
    BY RegInvHolds DEF RowsInv
  <1>. QED  BY <1>1, RowsInit, RowsNext, PTL DEF MCSpec

(* The imports part of RecordsHold, for any sheet and any number of passes *)
(* that overlap, fail or die: a completed job accounts for every row and   *)
(* was told, each phone that validated has a customer, and no phone more   *)
(* of them than there are passes.                                          *)
THEOREM ImportsAccountForEveryRow == MCSpec => [](ImportTypeOK /\ CompletedAddsUp /\ EveryRowImported /\ DuplicatesBounded)
  <1>1. RowsInv => ImportTypeOK /\ CompletedAddsUp /\ EveryRowImported /\ DuplicatesBounded
    BY ImportInvHolds DEF RowsInv
  <1>. QED  BY <1>1, RowsInit, RowsNext, PTL DEF MCSpec

(* The contracts part of RecordsHold, for any number of desks: whatever    *)
(* edits of one hotel interleave, no day has two seasons, and nothing the  *)
(* hotel has stopped offering is still priced, allotted or stopped, and no *)
(* allotment is sold beyond its rooms (HotelTypeOK).                       *)
THEOREM ContractsCohere == MCSpec => [](HotelTypeOK /\ ContractCoherent)
  <1>1. RowsInv => HotelTypeOK /\ ContractCoherent
    BY HotelTyped DEF RowsInv, HotelInv
  <1>. QED  BY <1>1, RowsInit, RowsNext, PTL DEF MCSpec

(* The assistant part of RecordsHold, for any number of desks, any quota,  *)
(* TTLs and length of day: a user's answers of a day exceed the allowance  *)
(* by less than the questions in flight, also across midnight, the stored  *)
(* key is one its provider issued whatever edits overlap, and model, cached*)
(* and data answers only reach who may have them, no older than their TTL. *)
THEOREM AssistantStaysInBounds == MCSpec => [](AssistantTypeOK /\ KeyFitsProvider /\ AllowanceHolds /\ AnswersGuarded)
  <1>1. RowsInv => AssistantTypeOK /\ KeyFitsProvider /\ AllowanceHolds /\ AnswersGuarded
    BY AiInvHolds DEF RowsInv
  <1>. QED  BY <1>1, RowsInit, RowsNext, PTL DEF MCSpec

(* The back office part of RecordsHold, for any number of desks, schedules *)
(* and requests: overlapping sweeps produce a period's report once and tell*)
(* a recipient once, of a run that is there until its schedule is deleted; *)
(* a resolved request names who resolved it whatever copies are written    *)
(* back, and the limiter bounds what a user submits, but for what it could *)
(* not count.                                                              *)
THEOREM OfficeTellsOnce == MCSpec => [](OfficeTypeOK /\ ReportOncePerPeriod /\ RequestsHold)
  <1>1. RowsInv => OfficeTypeOK /\ ReportOncePerPeriod /\ RequestsHold
    BY OfficeInvHolds DEF RowsInv
  <1>. QED  BY <1>1, RowsInit, RowsNext, PTL DEF MCSpec
=============================================================================
