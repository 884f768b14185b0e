--------------------------- MODULE Sessions_proof ---------------------------
(***************************************************************************)
(* Proofs about SessionCache and Sessions for any number of requests,      *)
(* instances, sessions and tokens and every choice of the lifetimes.  The  *)
(* two modules share no state; each part has its own inductive invariant.  *)
(*                                                                         *)
(* SessionCache.  The invariant says what a load under way knows: while    *)
(* gen has not changed, what it read is not older than what its instance   *)
(* was told.  ToldIsTrue ties that to the store, EntriesBounded entries to *)
(* the clock.                                                              *)
(*                                                                         *)
(* Sessions.  SingleUse is not inductive by itself.  A rotation must not   *)
(* find that its token already has children, and a grace refresh must      *)
(* still find the rotation it was judged against.  RotationsKept and       *)
(* RequestsHold say why neither can happen: a rotated token keeps its mark *)
(* and its instant for good, and what a request in flight carries remains  *)
(* true of the rows.                                                       *)
(***************************************************************************)
EXTENDS SessionCache, TLAPS

JobsShaped ==
    \A p \in Procs :
        /\ job[p].op # "idle" => job[p].inst \in Instances
        /\ job[p].op = "read" => job[p].state \in State
        /\ job[p].op \in {"load", "read"} => \E s \in CheckedIds : job[p].sids = {s}

(* A load that may still be cached is not older than what was told.        *)
LoadsFresh ==
    \A p \in Procs : (job[p].op = "read" /\ job[p].fresh) =>
        /\ \A s \in job[p].sids : s \in told[job[p].inst].ended => job[p].state.revoked # None
        /\ job[p].state.version >= told[job[p].inst].version

(* Instances are only told what has happened in the store.                 *)
ToldIsTrue ==
    \A i \in Instances :
        /\ \A s \in told[i].ended : ended[s] # None
        /\ told[i].version <= version

EntriesBounded ==
    \A i \in Instances, s \in CheckedIds :
        cache[i][s] # None => cache[i][s].expires <= now + CacheTTL

Inv ==
    /\ TypeOK
    /\ JobsShaped
    /\ LoadsFresh
    /\ ToldIsTrue
    /\ EntriesBounded
    /\ NotOlderThanTold
    /\ StaleWithinTTL

-----------------------------------------------------------------------------
(* The idle job has its type.                                              *)
LEMMA IdleType == Idle \in Job
  BY DEF Idle, Job, Ops

(* Init establishes the invariant: caches are empty, nobody is loading.    *)
LEMMA InitInv == Init => Inv
<1> SUFFICES ASSUME Init PROVE Inv OBVIOUS
<1> USE AuthAssumption
<1>1. TypeOK
  BY IdleType DEF Init, TypeOK, Times, MaybeAt, Versions
<1>2. JobsShaped /\ LoadsFresh
  BY DEF Init, JobsShaped, LoadsFresh, Idle
<1>3. ToldIsTrue
  BY DEF Init, ToldIsTrue
<1>4. EntriesBounded /\ NotOlderThanTold /\ StaleWithinTTL
  BY DEF Init, EntriesBounded, NotOlderThanTold, StaleWithinTTL
<1> QED BY <1>1, <1>2, <1>3, <1>4 DEF Inv

(* The beginning of a load only fills in an idle job (Validator.load).     *)
LEMMA LoadBeginKeeps ==
  ASSUME Inv, NEW p \in Procs, NEW i \in Instances, NEW s \in CheckedIds, LoadBegin(p, i, s)
  PROVE  Inv'
<1> USE AuthAssumption
<1> DEFINE j == [Idle EXCEPT !.op = "load", !.inst = i, !.sids = {s}, !.fresh = TRUE]
<1>1. j \in Job /\ j.op = "load" /\ j.inst = i /\ j.sids = {s}
  BY DEF Idle, Job, Ops
<1>2. /\ job' = [job EXCEPT ![p] = j]
      /\ UNCHANGED <<now, ended, version, cache, told>>
  BY DEF LoadBegin
<1> HIDE DEF j
<1>3. TypeOK'
  BY <1>1, <1>2 DEF Inv, TypeOK
<1>4. JobsShaped' /\ LoadsFresh'
  BY <1>1, <1>2 DEF Inv, TypeOK, JobsShaped, LoadsFresh
<1>5. ToldIsTrue' /\ EntriesBounded' /\ NotOlderThanTold' /\ StaleWithinTTL'
  BY <1>2 DEF Inv, ToldIsTrue, EntriesBounded, NotOlderThanTold, StaleWithinTTL
<1> QED BY <1>3, <1>4, <1>5 DEF Inv

(* What a load reads is at least as new as what was told: ToldIsTrue.      *)
LEMMA LoadReadKeeps ==
  ASSUME Inv, NEW p \in Procs, NEW s \in CheckedIds, LoadRead(p, s)
  PROVE  Inv'
<1> USE AuthAssumption
<1> DEFINE st == [revoked |-> ended[s], version |-> version]
<1> DEFINE j == [job[p] EXCEPT !.op = "read", !.state = st]
<1>0. st \in State /\ st.revoked = ended[s] /\ st.version = version
  BY DEF Inv, TypeOK, State
<1>1. job[p] \in Job /\ job[p].op = "load" /\ s \in job[p].sids
  BY DEF LoadRead, Inv, TypeOK
<1>2. /\ job' = [job EXCEPT ![p] = j]
      /\ UNCHANGED <<now, ended, version, cache, told>>
  BY <1>1 DEF LoadRead, Inv, TypeOK, Job
<1> HIDE DEF st
<1>3. j \in Job /\ j.op = "read" /\ j.inst = job[p].inst /\ j.state = st /\ j.sids = job[p].sids
  BY <1>0, <1>1 DEF Job, Ops
<1>4. job[p].inst \in Instances /\ job[p].sids = {s}
  BY <1>1 DEF Inv, JobsShaped
<1> HIDE DEF j
<1>5. TypeOK'
  BY <1>2, <1>3 DEF Inv, TypeOK
<1>6. JobsShaped'
  BY <1>0, <1>2, <1>3, <1>4 DEF Inv, TypeOK, JobsShaped
<1>7. LoadsFresh'
  <2>1. /\ s \in told[j.inst].ended => j.state.revoked # None
        /\ j.state.version >= told[j.inst].version
    BY <1>0, <1>3, <1>4 DEF Inv, TypeOK, ToldIsTrue, Versions
  <2> QED BY <1>2, <1>3, <1>4, <2>1 DEF Inv, TypeOK, LoadsFresh
<1>8. ToldIsTrue' /\ EntriesBounded' /\ NotOlderThanTold' /\ StaleWithinTTL'
  BY <1>2 DEF Inv, ToldIsTrue, EntriesBounded, NotOlderThanTold, StaleWithinTTL
<1> QED BY <1>5, <1>6, <1>7, <1>8 DEF Inv

(* What a load that nobody disturbed stores is as new as what was told, a  *)
(* disturbed one stores nothing (the gen comparison in Validator.load).    *)
LEMMA LoadPutKeeps ==
  ASSUME Inv, NEW p \in Procs, NEW s \in CheckedIds, LoadPut(p, s)
  PROVE  Inv'
<1> USE AuthAssumption
<1> DEFINE i == job[p].inst
<1> DEFINE e == [state |-> job[p].state, expires |-> now + CacheTTL,
                 late |-> ended[s] # job[p].state.revoked]
<1>1. /\ job[p] \in Job /\ job[p].op = "read" /\ s \in job[p].sids
      /\ i \in Instances /\ job[p].state \in State
  BY DEF LoadPut, Inv, TypeOK, JobsShaped
<1>2. /\ cache' = IF job[p].fresh THEN [cache EXCEPT ![i][s] = e] ELSE cache
      /\ job' = [job EXCEPT ![p] = Idle]
      /\ UNCHANGED <<now, ended, version, told>>
  BY DEF LoadPut, EntryExpiry
<1>3. /\ e \in Entry
      /\ e.state = job[p].state /\ e.expires = now + CacheTTL
      /\ e.late <=> ended[s] # job[p].state.revoked
  <2>1. e.state = job[p].state /\ e.expires = now + CacheTTL
    OBVIOUS
  <2>2. e.late = (ended[s] # job[p].state.revoked)
    BY Zenon
  <2>3. now + CacheTTL \in 0 .. (MaxTime + CacheTTL)
    BY DEF Inv, TypeOK, Times
  <2>4. (ended[s] # job[p].state.revoked) \in BOOLEAN
    OBVIOUS
  <2>5. e \in Entry
    BY <1>1, <2>3, <2>4, Zenon DEF Entry
  <2> QED BY <2>1, <2>2, <2>5
<1>4. \A k \in Instances, t \in CheckedIds :
        cache'[k][t] = IF job[p].fresh /\ k = i /\ t = s THEN e ELSE cache[k][t]
  BY <1>1, <1>2 DEF Inv, TypeOK
<1> HIDE DEF e
<1>5. TypeOK'
  BY <1>1, <1>2, <1>3, IdleType DEF Inv, TypeOK
<1>6. JobsShaped' /\ LoadsFresh' /\ ToldIsTrue'
  BY <1>2 DEF Inv, TypeOK, JobsShaped, LoadsFresh, ToldIsTrue, Idle
<1>7. EntriesBounded'
  BY <1>2, <1>3, <1>4 DEF Inv, TypeOK, EntriesBounded, Times
<1>8. NotOlderThanTold'
  <2>1. job[p].fresh => /\ s \in told[i].ended => e.state.revoked # None
                        /\ e.state.version >= told[i].version
    BY <1>1, <1>3 DEF Inv, LoadsFresh
  <2> QED BY <1>2, <1>4, <2>1 DEF Inv, NotOlderThanTold
<1>9. StaleWithinTTL'
  BY <1>2, <1>3, <1>4 DEF Inv, StaleWithinTTL
<1> QED BY <1>5, <1>6, <1>7, <1>8, <1>9 DEF Inv

-----------------------------------------------------------------------------
(* A session's end happens now: every entry runs out within CacheTTL of it. *)
LEMMA EndingKeepsStale ==
  ASSUME Inv, cache' = cache,
         \A s \in CheckedIds : ended'[s] = ended[s] \/ (ended[s] = None /\ ended'[s] = now)
  PROVE  StaleWithinTTL'
<1> SUFFICES ASSUME NEW k \in Instances, NEW t \in CheckedIds,
                    cache[k][t] # None, ~cache[k][t].late,
                    cache[k][t].state.revoked = None, ended'[t] # None
             PROVE  cache[k][t].expires <= ended'[t] + CacheTTL
  BY DEF StaleWithinTTL
<1>1. CASE ended'[t] = ended[t]
  BY <1>1 DEF Inv, StaleWithinTTL
<1>2. CASE ended'[t] = now
  BY <1>2 DEF Inv, EntriesBounded
<1> QED BY <1>1, <1>2

(* Ending sessions in the store (RevokeSession and the other revocations). *)
LEMMA EndSessionsKeeps ==
  ASSUME Inv, NEW p \in Procs, NEW i \in Instances, NEW set \in SUBSET CheckedIds,
         NEW all \in BOOLEAN, EndSessions(p, i, set, all)
  PROVE  Inv'
<1> USE AuthAssumption
<1> DEFINE j == [Idle EXCEPT !.op = "invalidate", !.inst = i, !.sids = set, !.all = all]
<1>1. j \in Job /\ j.op = "invalidate" /\ j.inst = i
  BY DEF Idle, Job, Ops
<1>2. /\ job' = [job EXCEPT ![p] = j]
      /\ UNCHANGED <<now, version, cache, told>>
      /\ ended' = [s \in CheckedIds |-> IF s \in set /\ ended[s] = None THEN now ELSE ended[s]]
  BY DEF EndSessions
<1> HIDE DEF j
<1>3. /\ ended' \in [CheckedIds -> MaybeAt]
      /\ \A s \in CheckedIds : ended'[s] = ended[s] \/ (ended[s] = None /\ ended'[s] = now)
      /\ \A s \in CheckedIds : ended[s] # None => ended'[s] # None
  BY <1>2 DEF Inv, TypeOK, MaybeAt
<1>4. TypeOK'
  BY <1>1, <1>2, <1>3 DEF Inv, TypeOK
<1>5. JobsShaped' /\ LoadsFresh'
  BY <1>1, <1>2 DEF Inv, TypeOK, JobsShaped, LoadsFresh
<1>6. ToldIsTrue'
  BY <1>2, <1>3 DEF Inv, TypeOK, ToldIsTrue
<1>7. EntriesBounded' /\ NotOlderThanTold'
  BY <1>2 DEF Inv, EntriesBounded, NotOlderThanTold
<1>8. StaleWithinTTL'
  BY <1>2, <1>3, EndingKeepsStale
<1> QED BY <1>4, <1>5, <1>6, <1>7, <1>8 DEF Inv

(* An edit of the user (the triggers of migration 00023).                  *)
LEMMA ChangeUserKeeps ==
  ASSUME Inv, NEW p \in Procs, NEW i \in Instances, NEW ends \in BOOLEAN, ChangeUser(p, i, ends)
  PROVE  Inv'
<1> USE AuthAssumption
<1> DEFINE j == [Idle EXCEPT !.op = "invalidate", !.inst = i, !.all = TRUE]
<1>1. j \in Job /\ j.op = "invalidate" /\ j.inst = i
  BY DEF Idle, Job, Ops
<1>2. /\ job' = [job EXCEPT ![p] = j]
      /\ version < MaxVersion /\ version' = version + 1
      /\ UNCHANGED <<now, cache, told>>
      /\ ended' = [s \in CheckedIds |-> IF ends /\ ended[s] = None THEN now ELSE ended[s]]
  BY DEF ChangeUser
<1> HIDE DEF j
<1>3. /\ ended' \in [CheckedIds -> MaybeAt]
      /\ \A s \in CheckedIds : ended'[s] = ended[s] \/ (ended[s] = None /\ ended'[s] = now)
      /\ \A s \in CheckedIds : ended[s] # None => ended'[s] # None
  BY <1>2 DEF Inv, TypeOK, MaybeAt
<1>4. TypeOK'
  BY <1>1, <1>2, <1>3 DEF Inv, TypeOK, Versions
<1>5. JobsShaped' /\ LoadsFresh'
  BY <1>1, <1>2 DEF Inv, TypeOK, JobsShaped, LoadsFresh
<1>6. ToldIsTrue'
  BY <1>2, <1>3 DEF Inv, TypeOK, ToldIsTrue, Versions
<1>7. EntriesBounded' /\ NotOlderThanTold'
  BY <1>2 DEF Inv, EntriesBounded, NotOlderThanTold
<1>8. StaleWithinTTL'
  BY <1>2, <1>3, EndingKeepsStale
<1> QED BY <1>4, <1>5, <1>6, <1>7, <1>8 DEF Inv

(* Telling a cache drops what would be too old in it and disturbs the      *)
(* loads that could bring it back (Invalidate, InvalidateUser).            *)
LEMMA InvalidateKeeps ==
  ASSUME Inv, NEW p \in Procs, Invalidate(p)
  PROVE  Inv'
<1> USE AuthAssumption
<1> DEFINE i   == job[p].inst
<1> DEFINE set == IF job[p].all THEN CheckedIds ELSE job[p].sids
<1> DEFINE n   == [ended |-> told[i].ended \cup {s \in set : ended[s] # None},
                   version |-> IF job[p].all THEN version ELSE told[i].version]
<1>1. /\ job[p] \in Job /\ i \in Instances /\ set \in SUBSET CheckedIds
  BY DEF Invalidate, Inv, TypeOK, JobsShaped, Job
<1>2. /\ cache' = [cache EXCEPT ![i] = [s \in CheckedIds |-> IF s \in set THEN None ELSE cache[i][s]]]
      /\ told' = [told EXCEPT ![i] = n]
      /\ job' = Disturb(i, p)
      /\ UNCHANGED <<now, ended, version>>
  BY <1>1 DEF Invalidate, Inv, TypeOK
<1>3. /\ n \in [ended: SUBSET CheckedIds, version: Versions]
      /\ n.ended = told[i].ended \cup {s \in set : ended[s] # None}
      /\ n.version = IF job[p].all THEN version ELSE told[i].version
  BY <1>1 DEF Inv, TypeOK
<1>4. \A k \in Instances, t \in CheckedIds :
        cache'[k][t] = IF k = i /\ t \in set THEN None ELSE cache[k][t]
  BY <1>1, <1>2 DEF Inv, TypeOK
<1>5. \A q \in Procs :
        \/ job'[q] = Idle
        \/ /\ job'[q] = job[q]
           /\ ~(job[q].op \in {"load", "read"} /\ job[q].inst = i)
        \/ /\ job'[q] \in Job /\ job'[q].fresh = FALSE
           /\ job'[q].op = job[q].op /\ job'[q].inst = job[q].inst
           /\ job'[q].sids = job[q].sids /\ job'[q].state = job[q].state
  <2> TAKE q \in Procs
  <2> DEFINE d == [job[q] EXCEPT !.fresh = FALSE]
  <2>1. /\ d \in Job /\ d.op = job[q].op /\ d.inst = job[q].inst /\ d.sids = job[q].sids
        /\ d.state = job[q].state /\ d.fresh = FALSE
    BY DEF Inv, TypeOK, Job
  <2>2. job'[q] = IF q = p THEN Idle
                  ELSE IF job[q].op \in {"load", "read"} /\ job[q].inst = i THEN d ELSE job[q]
    BY <1>2 DEF Disturb
  <2> HIDE DEF d, i
  <2> QED BY <2>1, <2>2
<1> HIDE DEF n, i, set
<1>6. TypeOK'
  <2>1. job' \in [Procs -> Job]
    <3>1. \A q \in Procs : job'[q] \in Job
      BY <1>5, IdleType DEF Inv, TypeOK
    <3> QED BY <3>1, <1>2 DEF Disturb
  <2>2. cache' \in [Instances -> [CheckedIds -> Entry \cup {None}]]
    BY <1>1, <1>2 DEF Inv, TypeOK
  <2> QED BY <1>2, <1>3, <2>1, <2>2 DEF Inv, TypeOK
<1>7. JobsShaped'
  BY <1>5 DEF Inv, JobsShaped, Idle
<1>8. LoadsFresh'
  <2> SUFFICES ASSUME NEW q \in Procs, job'[q].op = "read", job'[q].fresh
               PROVE  /\ \A s \in job'[q].sids : s \in told'[job'[q].inst].ended => job'[q].state.revoked # None
                      /\ job'[q].state.version >= told'[job'[q].inst].version
    BY DEF LoadsFresh
  <2>1. job'[q] = job[q] /\ job[q].inst # i
    BY <1>5 DEF Idle
  <2>2. told'[job[q].inst] = told[job[q].inst]
    BY <1>2, <2>1 DEF Inv, TypeOK
  <2> QED BY <2>1, <2>2 DEF Inv, LoadsFresh
<1>9. ToldIsTrue'
  BY <1>1, <1>2, <1>3 DEF Inv, TypeOK, ToldIsTrue, Versions
<1>10. EntriesBounded' /\ StaleWithinTTL'
  BY <1>2, <1>4 DEF Inv, EntriesBounded, StaleWithinTTL
<1>11. NotOlderThanTold'
  <2> SUFFICES ASSUME NEW k \in Instances, NEW t \in CheckedIds, cache'[k][t] # None
               PROVE  /\ t \in told'[k].ended => cache'[k][t].state.revoked # None
                      /\ cache'[k][t].state.version >= told'[k].version
    BY DEF NotOlderThanTold
  <2>1. CASE k # i
    <3>1. told'[k] = told[k] /\ cache'[k][t] = cache[k][t]
      BY <1>2, <1>4, <2>1 DEF Inv, TypeOK
    <3> QED BY <3>1 DEF Inv, NotOlderThanTold
  <2>2. CASE k = i
    <3>1. t \notin set /\ cache'[k][t] = cache[k][t] /\ told'[k] = n
      BY <1>2, <1>4, <2>2 DEF Inv, TypeOK
    <3>2. ~job[p].all
      BY <3>1 DEF set
    <3> QED BY <1>3, <2>2, <3>1, <3>2 DEF Inv, NotOlderThanTold
  <2> QED BY <2>1, <2>2
<1> QED BY <1>6, <1>7, <1>8, <1>9, <1>10, <1>11 DEF Inv

(* The clock only moves away from what is stored.                          *)
LEMMA TickKeeps ==
  ASSUME Inv, Tick
  PROVE  Inv'
<1> USE AuthAssumption
<1>1. TypeOK' /\ EntriesBounded'
  BY DEF Tick, Inv, TypeOK, EntriesBounded, Times, Entry
<1>2. JobsShaped' /\ LoadsFresh' /\ ToldIsTrue' /\ NotOlderThanTold' /\ StaleWithinTTL'
  BY DEF Tick, Inv, JobsShaped, LoadsFresh, ToldIsTrue, NotOlderThanTold, StaleWithinTTL
<1> QED BY <1>1, <1>2 DEF Inv

-----------------------------------------------------------------------------
(* Every step of the session checks, and stuttering, keeps the invariant.  *)
LEMMA NextKeeps == Inv /\ [Next]_vars => Inv'
<1> SUFFICES ASSUME Inv, [Next]_vars PROVE Inv' OBVIOUS
<1>1. CASE Tick
  BY <1>1, TickKeeps
<1>2. ASSUME NEW p \in Procs, NEW i \in Instances, NEW s \in CheckedIds, LoadBegin(p, i, s)
      PROVE  Inv'
  BY <1>2, LoadBeginKeeps
<1>3. ASSUME NEW p \in Procs, NEW i \in Instances, NEW set \in SUBSET CheckedIds,
             NEW all \in BOOLEAN, EndSessions(p, i, set, all)
      PROVE  Inv'
  BY <1>3, EndSessionsKeeps
<1>4. ASSUME NEW p \in Procs, NEW i \in Instances, NEW ends \in BOOLEAN, ChangeUser(p, i, ends)
      PROVE  Inv'
  BY <1>4, ChangeUserKeeps
<1>5. ASSUME NEW p \in Procs, NEW s \in CheckedIds, LoadRead(p, s) \/ LoadPut(p, s)
      PROVE  Inv'
  BY <1>5, LoadReadKeeps, LoadPutKeeps
<1>6. ASSUME NEW p \in Procs, Invalidate(p)
      PROVE  Inv'
  BY <1>6, InvalidateKeeps
<1>7. CASE UNCHANGED vars
  BY <1>7 DEF vars, Inv, TypeOK, JobsShaped, LoadsFresh, ToldIsTrue, EntriesBounded,
              NotOlderThanTold, StaleWithinTTL
<1> QED BY <1>1, <1>2, <1>3, <1>4, <1>5, <1>6, <1>7 DEF Next

(* The inductive invariant holds for every number of requests, instances   *)
(* and sessions (Validator and its callers).                               *)
THEOREM CacheInvariant == Spec => []Inv
  BY InitInv, NextKeeps, PTL DEF Spec

(* Type correctness of rows, caches and requests (Validator).              *)
THEOREM CacheTypeCorrect == Spec => []TypeOK
<1>1. Inv => TypeOK BY DEF Inv
<1> QED BY <1>1, CacheInvariant, PTL

(* An instance's cache is never older than what the instance was told, so  *)
(* a session it revoked is refused there from then on (Validator.load).    *)
THEOREM NeverOlderThanTold == Spec => []NotOlderThanTold
<1>1. Inv => NotOlderThanTold BY DEF Inv
<1> QED BY <1>1, CacheInvariant, PTL

(* Entries that an instance elsewhere made stale run out within CacheTTL   *)
(* of the session's end (Validator.load).                                  *)
THEOREM ConvergesWithinTTL == Spec => []StaleWithinTTL
<1>1. Inv => StaleWithinTTL BY DEF Inv
<1> QED BY <1>1, CacheInvariant, PTL

-----------------------------------------------------------------------------
(* A rotated token is a used one, and was rotated at an earlier instant.   *)
RotationsKept ==
    \A t \in TokenIds : (tok[t] # None /\ tok[t].rotated) =>
        tok[t].revoked # None /\ tok[t].revoked <= clock

(* What the request q carries is still so: the token of a refresh exists,  *)
(* a refresh in its grace window was judged against the rotation that the  *)
(* token still shows, and the tokens of a revocation's snapshot exist.     *)
RefreshHolds(q) ==
    q.op \in {"rotate", "grace", "again"} =>
        q.tok \in TokenIds /\ tok[q.tok] # None /\ q.asked <= clock
GraceHolds(q) ==
    q.op = "grace" =>
        /\ tok[q.tok].rotated
        /\ tok[q.tok].revoked <= q.asked /\ q.asked < tok[q.tok].revoked + ReuseGrace
CopyHolds(q) == q.op \in {"login", "edit", "password"} => q.copy \in Copy
SnapHolds(q) == \A t \in q.snap : tok[t] # None
RequestHolds(q) == RefreshHolds(q) /\ GraceHolds(q) /\ CopyHolds(q) /\ SnapHolds(q)

RequestsHold == \A p \in Procs : RequestHolds(req[p])

(* The inductive invariant.                                                *)
SessionsInv == SessionsSound /\ RotationsKept /\ RequestsHold

-----------------------------------------------------------------------------
(* The values the operations store have their types.                       *)

LEMMA ExpiryWithin ==
    ASSUME NEW at \in Nat, NEW absolute \in Nat
    PROVE  SuccessorExpiry(at, absolute) \in Nat /\ SuccessorExpiry(at, absolute) <= absolute
  BY AuthAssumption DEF SuccessorExpiry

LEMMA NewSessionType ==
    ASSUME clock \in Times, NEW pw \in Passwords, NEW late \in BOOLEAN
    PROVE  /\ NewSession(pw, late) \in Session
           /\ NewSession(pw, late).idle <= NewSession(pw, late).absolute
           /\ NewSession(pw, late).pw = pw
           /\ NewSession(pw, late).late = late
  <1>1. clock + AbsoluteTTL \in Instants
    BY AuthAssumption DEF Times, Instants
  <1>2. /\ SuccessorExpiry(clock, clock + AbsoluteTTL) \in Instants
        /\ SuccessorExpiry(clock, clock + AbsoluteTTL) <= clock + AbsoluteTTL
    BY <1>1, ExpiryWithin, AuthAssumption DEF Times, Instants
  <1>. QED  BY <1>1, <1>2 DEF NewSession, Session, MaybeAt

LEMMA NewTokenType ==
    ASSUME NEW s \in SessionIds, NEW expires \in Instants, NEW parent \in TokenIds \cup {None},
           NEW at \in Times
    PROVE  /\ NewToken(s, expires, parent, at) \in Token
           /\ NewToken(s, expires, parent, at).family = s
           /\ NewToken(s, expires, parent, at).parent = parent
           /\ NewToken(s, expires, parent, at).asked = at
           /\ ~NewToken(s, expires, parent, at).rotated
  BY DEF NewToken, Token, MaybeAt

LEMMA FirstTokenType ==
    ASSUME clock \in Times, NEW s \in SessionIds
    PROVE  /\ FirstToken(s) \in Token
           /\ FirstToken(s).family = s
           /\ FirstToken(s).parent = None
           /\ ~FirstToken(s).rotated
  <1>1. SuccessorExpiry(clock, clock + AbsoluteTTL) \in Instants
    BY ExpiryWithin, AuthAssumption DEF Times, Instants
  <1>. QED  BY <1>1, NewTokenType DEF FirstToken

LEMMA NoRequestHolds == NoRequest \in Request /\ RequestHolds(NoRequest)
  <1>1. NoRequest \in Request
    BY AuthAssumption DEF NoRequest, Request, RequestOps, Times
  <1>2. RequestHolds(NoRequest)
    BY DEF NoRequest, RequestHolds, RefreshHolds, GraceHolds, CopyHolds, SnapHolds
  <1>. QED  BY <1>1, <1>2

LEMMA StartRevokeHolds ==
    ASSUME NEW op \in {"revoke", "revokeUser"}, NEW set \in SUBSET SessionIds
    PROVE  StartRevoke(op, set) \in Request /\ RequestHolds(StartRevoke(op, set))
  <1>1. LiveTokens(set) \in SUBSET TokenIds /\ \A t \in LiveTokens(set) : tok[t] # None
    BY DEF LiveTokens
  <1>2. StartRevoke(op, set).op = op /\ StartRevoke(op, set).snap = LiveTokens(set)
    BY NoRequestHolds DEF StartRevoke, Request
  <1>3. StartRevoke(op, set) \in Request
    BY <1>1, NoRequestHolds DEF StartRevoke, Request, RequestOps
  <1>4. RequestHolds(StartRevoke(op, set))
    BY <1>1, <1>2 DEF RequestHolds, RefreshHolds, GraceHolds, CopyHolds, SnapHolds
  <1>. QED  BY <1>3, <1>4

(* EvaluateRefresh lets a token into the grace window only on the strength *)
(* of a rotation that is not older than ReuseGrace.                        *)
LEMMA VerdictSound ==
    ASSUME NEW t, NEW s, NEW at
    PROVE  /\ EvaluateRefresh(t, s, at) \in {"grace", "reused", "revoked", "expired", "rotate"}
           /\ EvaluateRefresh(t, s, at) = "grace" =>
                 t.revoked # None /\ t.rotated /\ at < t.revoked + ReuseGrace
  BY DEF EvaluateRefresh

LEMMA AfterVerdictHolds ==
    ASSUME SessionsTypeOK, RotationsKept, NEW t \in TokenIds, tok[t] # None
    PROVE  AfterVerdict(t) \in Request /\ RequestHolds(AfterVerdict(t))
  <1>. DEFINE s == tok[t].family
              v == EvaluateRefresh(tok[t], sess[s], clock)
              q(op) == [NoRequest EXCEPT !.op = op, !.tok = t, !.asked = clock]
  <1>1. s \in SessionIds /\ clock \in Times
    BY DEF SessionsTypeOK, Token
  <1>2. StartRevoke("revoke", {s}) \in Request /\ RequestHolds(StartRevoke("revoke", {s}))
    BY <1>1, StartRevokeHolds
  <1>3. ASSUME NEW op \in {"rotate", "grace"}, v = op
        PROVE  q(op) \in Request /\ RequestHolds(q(op))
    <2>1. q(op).op = op /\ q(op).tok = t /\ q(op).asked = clock /\ q(op).snap = {}
      BY NoRequestHolds DEF Request, NoRequest
    <2>2. q(op) \in Request
      BY <1>1, NoRequestHolds DEF Request, RequestOps
    <2>3. RefreshHolds(q(op))
      BY <2>1, <1>1, AuthAssumption DEF RefreshHolds, Times
    <2>4. GraceHolds(q(op))
      <3>1. CASE op = "grace"
        <4>1. tok[t].revoked # None /\ tok[t].rotated /\ clock < tok[t].revoked + ReuseGrace
          BY <3>1, <1>3, VerdictSound
        <4>2. tok[t].revoked <= clock
          BY <4>1 DEF RotationsKept
        <4>. QED  BY <2>1, <4>1, <4>2 DEF GraceHolds
      <3>2. CASE op # "grace"
        BY <2>1, <3>2 DEF GraceHolds
      <3>. QED  BY <3>1, <3>2
    <2>5. CopyHolds(q(op)) /\ SnapHolds(q(op))
      BY <2>1 DEF CopyHolds, SnapHolds
    <2>. QED  BY <2>2, <2>3, <2>4, <2>5 DEF RequestHolds
  <1>4. v \in {"grace", "reused", "revoked", "expired", "rotate"}
    BY VerdictSound
  <1>5. \/ AfterVerdict(t) = NoRequest
        \/ AfterVerdict(t) = StartRevoke("revoke", {s})
        \/ v \in {"rotate", "grace"} /\ AfterVerdict(t) = q(v)
    <2>. HIDE DEF v
    <2>1. AfterVerdict(t) =
            CASE v = "revoked" -> NoRequest
              [] v \in {"reused", "expired"} -> StartRevoke("revoke", {s})
              [] v \in {"rotate", "grace"} ->
                   IF user.active THEN q(v) ELSE StartRevoke("revoke", {s})
      BY DEF AfterVerdict, v
    <2>. HIDE DEF q
    <2>. QED  BY <2>1, <1>4
  <1>. HIDE DEF q, v
  <1>. QED  BY <1>2, <1>3, <1>5, NoRequestHolds

-----------------------------------------------------------------------------
(* A step that changes one request and no row.                             *)
LEMMA OnlyRequest ==
    ASSUME SessionsInv, NEW p \in Procs, NEW q \in Request, RequestHolds(q),
           req' = [req EXCEPT ![p] = q], UNCHANGED <<clock, user, sess, tok>>,
           faults' \in 0 .. MaxFaults
    PROVE  SessionsInv'
  <1>1. SessionsTypeOK'
    BY DEF SessionsInv, SessionsSound, SessionsTypeOK
  <1>2. SingleUse' /\ OldPasswordSignedOut' /\ RotationsKept'
    BY DEF SessionsInv, SessionsSound, SingleUse, OldPasswordSignedOut, RotationsKept, Live
  <1>3. RequestsHold'
    <2>1. \A r \in Procs : RequestHolds(req'[r])
      BY DEF SessionsInv, SessionsSound, SessionsTypeOK, RequestsHold
    <2>. QED
      BY <2>1 DEF RequestsHold, RequestHolds, RefreshHolds, GraceHolds, CopyHolds, SnapHolds
  <1>. QED  BY <1>1, <1>2, <1>3 DEF SessionsInv, SessionsSound

-----------------------------------------------------------------------------
(* What every step leaves of a stored token: it stays, with its parent,    *)
(* and once it was rotated nothing of the rotation changes.                *)
TokensKept ==
    \A t \in TokenIds : tok[t] # None =>
        /\ tok'[t] # None
        /\ tok'[t].parent = tok[t].parent /\ tok'[t].asked = tok[t].asked
        /\ tok[t].rotated =>
              /\ tok'[t].rotated
              /\ tok'[t].revoked = tok[t].revoked /\ tok'[t].next = tok[t].next

(* The request that made the step is over, and the others still hold.      *)
LEMMA OthersHold ==
    ASSUME SessionsInv, TokensKept, clock' = clock, NEW p \in Procs,
           req' = [req EXCEPT ![p] = NoRequest]
    PROVE  req' \in [Procs -> Request] /\ RequestsHold'
  <1>1. req' \in [Procs -> Request]
    BY NoRequestHolds DEF SessionsInv, SessionsSound, SessionsTypeOK
  <1>2. ASSUME NEW r \in Procs
        PROVE  RequestHolds(req[r])'
    <2>1. CASE r = p
      <3>1. req'[r] = NoRequest
        BY <2>1 DEF SessionsInv, SessionsSound, SessionsTypeOK
      <3>. QED
        BY <3>1 DEF NoRequest, RequestHolds, RefreshHolds, GraceHolds, CopyHolds, SnapHolds
    <2>2. CASE r # p
      <3>1. req'[r] = req[r] /\ req[r] \in Request /\ RequestHolds(req[r])
        BY <2>2 DEF SessionsInv, SessionsSound, SessionsTypeOK, RequestsHold
      <3>2. RefreshHolds(req[r])'
        BY <3>1 DEF RequestHolds, RefreshHolds, TokensKept
      <3>3. GraceHolds(req[r])'
        BY <3>1 DEF RequestHolds, RefreshHolds, GraceHolds, TokensKept
      <3>4. CopyHolds(req[r])' /\ SnapHolds(req[r])'
        BY <3>1 DEF RequestHolds, CopyHolds, SnapHolds, TokensKept, Request
      <3>. QED  BY <3>2, <3>3, <3>4 DEF RequestHolds
    <2>. QED  BY <2>1, <2>2
  <1>. QED  BY <1>1, <1>2 DEF RequestsHold

(* c is the replacement of its parent, or was asked for in its window.     *)
ChildOf(c) ==
    LET t == tok[tok[c].parent]
    IN  /\ t # None /\ t.rotated
        /\ t.next = c \/ (t.revoked <= tok[c].asked /\ tok[c].asked < t.revoked + ReuseGrace)

(* Only the tokens a step adds have to be looked at.                       *)
LEMMA SingleUseKept ==
    ASSUME SessionsTypeOK, SingleUse, TokensKept,
           \A c \in TokenIds : (tok[c] = None /\ tok'[c] # None /\ tok'[c].parent # None)
                               => ChildOf(c)'
    PROVE  SingleUse'
  <1>1. ASSUME NEW c \in TokenIds, tok'[c] # None, tok'[c].parent # None
        PROVE  ChildOf(c)'
    <2>1. CASE tok[c] = None
      BY <1>1, <2>1
    <2>2. CASE tok[c] # None
      <3>1. tok'[c].parent = tok[c].parent /\ tok'[c].asked = tok[c].asked
        BY <2>2 DEF TokensKept
      <3>2. ChildOf(c) /\ tok[c].parent \in TokenIds
        BY <2>2, <3>1, <1>1 DEF SingleUse, ChildOf, SessionsTypeOK, Token
      <3>. DEFINE t == tok[c].parent
      <3>3. /\ tok[t] # None /\ tok[t].rotated
            /\ tok[t].next = c \/ (tok[t].revoked <= tok[c].asked
                                    /\ tok[c].asked < tok[t].revoked + ReuseGrace)
        BY <3>2 DEF ChildOf
      <3>4. /\ tok'[t] # None /\ tok'[t].rotated
            /\ tok'[t].revoked = tok[t].revoked /\ tok'[t].next = tok[t].next
        BY <3>2, <3>3 DEF TokensKept
      <3>. QED  BY <3>1, <3>3, <3>4 DEF ChildOf
    <2>. QED  BY <2>1, <2>2
  <1>. QED  BY <1>1 DEF SingleUse, ChildOf

-----------------------------------------------------------------------------
(* k has the stored tokens, each as it was but for its revoked_at.         *)
KeepsTokens(k) ==
    /\ k \in [TokenIds -> Token \cup {None}]
    /\ \A t \in TokenIds :
         /\ tok[t] = None => k[t] = None
         /\ tok[t] # None =>
              /\ k[t] # None
              /\ k[t].parent = tok[t].parent /\ k[t].asked = tok[t].asked
              /\ k[t].next = tok[t].next
              /\ k[t].rotated <=> tok[t].rotated
              /\ tok[t].rotated => k[t].revoked = tok[t].revoked

LEMMA EndedTokensKept ==
    ASSUME SessionsTypeOK, RotationsKept, NEW set \in SUBSET TokenIds,
           \A t \in set : tok[t] # None
    PROVE  KeepsTokens(EndedTokens(set))
  <1>. DEFINE k == EndedTokens(set)
  <1>1. ASSUME NEW t \in TokenIds, tok[t] = None
        PROVE  k[t] = None
    BY <1>1 DEF EndedTokens
  <1>2. ASSUME NEW t \in TokenIds, tok[t] # None
        PROVE  /\ k[t] \in Token
               /\ k[t].parent = tok[t].parent /\ k[t].asked = tok[t].asked
               /\ k[t].next = tok[t].next
               /\ k[t].rotated = tok[t].rotated
               /\ tok[t].rotated => k[t].revoked = tok[t].revoked
    <2>1. tok[t] \in Token /\ clock \in Times
      BY <1>2 DEF SessionsTypeOK
    <2>2. CASE t \in set /\ tok[t].revoked = None
      <3>1. k[t] = [tok[t] EXCEPT !.revoked = clock]
        BY <2>2 DEF EndedTokens
      <3>2. ~tok[t].rotated
        BY <1>2, <2>2 DEF RotationsKept
      <3>. QED  BY <2>1, <3>1, <3>2 DEF Token, MaybeAt
    <2>3. CASE ~(t \in set /\ tok[t].revoked = None)
      <3>1. k[t] = tok[t]
        BY <2>3 DEF EndedTokens
      <3>. QED  BY <2>1, <3>1
    <2>. QED  BY <2>2, <2>3
  <1>3. k = [t \in TokenIds |-> k[t]]
    BY DEF EndedTokens
  <1>4. k \in [TokenIds -> Token \cup {None}]
    <2>. HIDE DEF k
    <2>. QED  BY <1>1, <1>2, <1>3
  <1>. HIDE DEF k
  <1>5. KeepsTokens(k)
    BY <1>1, <1>2, <1>4, AuthAssumption DEF KeepsTokens
  <1>. QED  BY <1>5 DEF k

LEMMA TokensAfterKept ==
    ASSUME SessionsTypeOK, RotationsKept, NEW copy
    PROVE  KeepsTokens(TokensAfter(copy))
  <1>1. KeepsTokens(tok)
    BY DEF KeepsTokens, SessionsTypeOK
  <1>2. KeepsTokens(EndedTokens(LiveTokens(SessionIds)))
    BY EndedTokensKept DEF LiveTokens
  <1>. QED  BY <1>1, <1>2 DEF TokensAfter

(* A step that ends tokens, and one that also stores a first token.        *)
LEMMA TokensEnded ==
    ASSUME SessionsInv, NEW k, KeepsTokens(k), tok' = k, clock' = clock
    PROVE  /\ tok' \in [TokenIds -> Token \cup {None}]
           /\ TokensKept /\ SingleUse' /\ RotationsKept'
  <1>1. tok' \in [TokenIds -> Token \cup {None}] /\ TokensKept
    BY DEF KeepsTokens, TokensKept
  <1>2. SingleUse'
    BY <1>1, SingleUseKept DEF KeepsTokens, SessionsInv, SessionsSound
  <1>3. RotationsKept'
    BY DEF KeepsTokens, RotationsKept, SessionsInv
  <1>. QED  BY <1>1, <1>2, <1>3

LEMMA FirstTokenStored ==
    ASSUME SessionsInv, NEW k, KeepsTokens(k), NEW t \in TokenIds, NEW s \in SessionIds,
           tok[t] = None, tok' = [k EXCEPT ![t] = FirstToken(s)], clock' = clock
    PROVE  /\ tok' \in [TokenIds -> Token \cup {None}]
           /\ TokensKept /\ SingleUse' /\ RotationsKept'
  <1>1. /\ FirstToken(s) \in Token
        /\ FirstToken(s).parent = None /\ ~FirstToken(s).rotated
    BY FirstTokenType DEF SessionsInv, SessionsSound, SessionsTypeOK
  <1>2. tok'[t] = FirstToken(s) /\ \A c \in TokenIds \ {t} : tok'[c] = k[c]
    BY DEF KeepsTokens
  <1>3. tok' \in [TokenIds -> Token \cup {None}]
    BY <1>1 DEF KeepsTokens
  <1>4. TokensKept
    BY <1>2 DEF KeepsTokens, TokensKept
  <1>5. SingleUse'
    BY <1>1, <1>2, <1>4, SingleUseKept DEF KeepsTokens, SessionsInv, SessionsSound
  <1>6. RotationsKept'
    <2>1. ASSUME NEW c \in TokenIds, tok'[c] # None, tok'[c].rotated
          PROVE  tok'[c].revoked # None /\ tok'[c].revoked <= clock
      <3>1. c # t
        BY <1>1, <1>2, <2>1
      <3>2. tok'[c] = k[c]
        BY <1>2, <3>1
      <3>. QED  BY <2>1, <3>2 DEF KeepsTokens, RotationsKept, SessionsInv
    <2>. QED  BY <2>1 DEF RotationsKept
  <1>. QED  BY <1>3, <1>4, <1>5, <1>6

-----------------------------------------------------------------------------
(* e has sessions within their limits, the live ones as they were.         *)
KeepsSessions(e) ==
    /\ e \in [SessionIds -> Session \cup {None}]
    /\ \A s \in SessionIds : e[s] # None =>
         /\ e[s].idle <= e[s].absolute
         /\ e[s].revoked = None => e[s] = sess[s]

LEMMA EndedSessionsKept ==
    ASSUME SessionsTypeOK, NEW set
    PROVE  /\ KeepsSessions(EndedSessions(set))
           /\ \A s \in SessionIds : (s \in set /\ EndedSessions(set)[s] # None)
                 => EndedSessions(set)[s].revoked # None
  <1>. DEFINE e == EndedSessions(set)
  <1>1. ASSUME NEW s \in SessionIds
        PROVE  /\ e[s] \in Session \cup {None}
               /\ e[s] # None =>
                    /\ e[s].idle <= e[s].absolute
                    /\ e[s].revoked = None => e[s] = sess[s] /\ s \notin set
    <2>1. CASE s \in set /\ Live(s)
      <3>1. e[s] = [sess[s] EXCEPT !.revoked = clock]
        BY <2>1 DEF EndedSessions
      <3>2. sess[s] \in Session /\ clock \in Times /\ sess[s].idle <= sess[s].absolute
        BY <2>1 DEF SessionsTypeOK, Live
      <3>3. /\ e[s] \in Session /\ e[s].revoked = clock
            /\ e[s].idle = sess[s].idle /\ e[s].absolute = sess[s].absolute
        <4>. HIDE DEF e
        <4>. QED  BY <3>1, <3>2 DEF Session, MaybeAt
      <3>4. clock # None
        BY <3>2, AuthAssumption DEF Times
      <3>. HIDE DEF e
      <3>. QED  BY <3>2, <3>3, <3>4
    <2>2. CASE ~(s \in set /\ Live(s))
      <3>1. e[s] = sess[s]
        BY <2>2 DEF EndedSessions
      <3>. HIDE DEF e
      <3>. QED  BY <2>2, <3>1 DEF SessionsTypeOK, Live
    <2>. QED  BY <2>1, <2>2
  <1>2. e = [s \in SessionIds |-> e[s]]
    BY DEF EndedSessions
  <1>. HIDE DEF e
  <1>3. /\ KeepsSessions(e)
        /\ \A s \in SessionIds : (s \in set /\ e[s] # None) => e[s].revoked # None
    BY <1>1, <1>2 DEF KeepsSessions
  <1>. QED  BY <1>3 DEF e

(* The trigger: what is live after a user edit was so before, and the      *)
(* password is still the one the user had, if anything is live at all.     *)
LEMMA SessionsAfterKept ==
    ASSUME SessionsTypeOK, NEW copy
    PROVE  /\ KeepsSessions(SessionsAfter(copy))
           /\ \A s \in SessionIds :
                (SessionsAfter(copy)[s] # None /\ SessionsAfter(copy)[s].revoked = None)
                => copy.pw = user.pw
  <1>1. CASE EndsSessions(copy)
    BY <1>1, EndedSessionsKept DEF SessionsAfter
  <1>2. CASE ~EndsSessions(copy)
    <2>1. SessionsAfter(copy) = sess /\ copy.pw = user.pw
      BY <1>2 DEF SessionsAfter, EndsSessions
    <2>2. KeepsSessions(sess)
      BY DEF KeepsSessions, SessionsTypeOK
    <2>. QED  BY <2>1, <2>2
  <1>. QED  BY <1>1, <1>2

LEMMA UserType ==
    ASSUME SessionsTypeOK, NEW copy \in Copy, UpdateUser(copy)
    PROVE  user' \in User /\ user'.pw = copy.pw
  <1>1. user.version \in Versions
    BY DEF SessionsTypeOK, User
  <1>2. (IF BumpsVersion(copy) THEN user.version + 1 ELSE user.version) \in Versions
    BY <1>1, AuthAssumption DEF UpdateUser, Versions
  <1>. QED  BY <1>2 DEF UpdateUser, User, Copy

-----------------------------------------------------------------------------
(* The steps that write rows.                                              *)

LEMMA CompleteLoginKeeps ==
    ASSUME SessionsInv, NEW p \in Procs, NEW s \in SessionIds, NEW t \in TokenIds,
           completeLogin(p, s, t)
    PROVE  SessionsInv'
  <1>. DEFINE pw == req[p].copy.pw
              n  == NewSession(pw, pw # user.pw)
  <1>1. SessionsTypeOK /\ RotationsKept /\ OldPasswordSignedOut
    BY DEF SessionsInv, SessionsSound
  <1>2. pw \in Passwords
    BY DEF SessionsInv, RequestsHold, RequestHolds, CopyHolds, completeLogin, Copy
  <1>3. /\ n \in Session /\ n.idle <= n.absolute
        /\ n.pw = pw /\ n.late = (pw # user.pw)
    <2>1. (pw # user.pw) \in BOOLEAN
      OBVIOUS
    <2>. HIDE DEF pw
    <2>. QED  BY <1>1, <1>2, <2>1, NewSessionType DEF SessionsTypeOK
  <1>4. sess' = [sess EXCEPT ![s] = n] /\ UNCHANGED <<clock, user, faults>>
    BY DEF completeLogin
  <1>. HIDE DEF n
  <1>5. sess'[s] = n /\ \A r \in SessionIds \ {s} : sess'[r] = sess[r]
    BY <1>1, <1>4 DEF SessionsTypeOK
  <1>6. /\ tok' \in [TokenIds -> Token \cup {None}]
        /\ TokensKept /\ SingleUse' /\ RotationsKept'
    <2>1. KeepsTokens(tok)
      BY <1>1 DEF KeepsTokens, SessionsTypeOK
    <2>. QED  BY <2>1, FirstTokenStored DEF completeLogin
  <1>7. req' \in [Procs -> Request] /\ RequestsHold'
    BY <1>6, OthersHold DEF completeLogin
  <1>8. SessionsTypeOK'
    BY <1>1, <1>3, <1>4, <1>5, <1>6, <1>7 DEF SessionsTypeOK
  <1>9. OldPasswordSignedOut'
    <2>1. ASSUME NEW r \in SessionIds, sess'[r] # None, sess'[r].revoked = None, ~sess'[r].late
          PROVE  sess'[r].pw = user'.pw
      <3>1. CASE r = s
        <4>1. ~n.late /\ sess'[r].pw = pw /\ user' = user
          BY <3>1, <1>3, <1>4, <1>5, <2>1
        <4>2. ~(pw # user.pw)
          BY <4>1, <1>3
        <4>. QED  BY <4>1, <4>2
      <3>2. CASE r # s
        BY <3>2, <1>1, <1>4, <1>5, <2>1 DEF OldPasswordSignedOut, Live
      <3>. QED  BY <3>1, <3>2
    <2>. QED  BY <2>1 DEF OldPasswordSignedOut, Live
  <1>. QED  BY <1>6, <1>7, <1>8, <1>9 DEF SessionsInv, SessionsSound

(* The refresh transaction.  A rotation finds its token unused, so nothing *)
(* has the token as its parent yet; a grace refresh finds the rotation it  *)
(* was judged against.                                                     *)
LEMMA RefreshCommitKeeps ==
    ASSUME SessionsInv, NEW p \in Procs, NEW c \in TokenIds, RefreshCommit(p, c)
    PROVE  SessionsInv'
  <1>. DEFINE t       == req[p].tok
              s       == tok[t].family
              at      == req[p].asked
              expires == SuccessorExpiry(at, sess[s].absolute)
              n       == NewToken(s, expires, t, at)
              used    == [tok[t] EXCEPT !.revoked = at, !.rotated = TRUE, !.next = c]
  <1>1. /\ SessionsTypeOK /\ RotationsKept /\ OldPasswordSignedOut /\ SingleUse
        /\ RequestHolds(req[p]) /\ req[p] \in Request
    BY DEF SessionsInv, SessionsSound, RequestsHold, SessionsTypeOK
  <1>2. /\ req[p].op \in {"rotate", "grace"}
        /\ tok[c] = None
        /\ req[p].op = "rotate" => tok[t].revoked = None
        /\ sess[s] # None /\ sess[s].revoked = None
        /\ UNCHANGED <<clock, user, faults>>
        /\ req' = [req EXCEPT ![p] = NoRequest]
        /\ sess' = [sess EXCEPT ![s].idle = expires]
        /\ tok' = [tok EXCEPT ![c] = n, ![t] = IF req[p].op = "grace" THEN @
                   ELSE [@ EXCEPT !.revoked = at, !.rotated = TRUE, !.next = c]]
    BY DEF RefreshCommit, MarkRefreshRotated, TouchSession, Live
  <1>3. t \in TokenIds /\ tok[t] # None /\ at <= clock /\ at \in Times /\ tok[t] \in Token
    BY <1>1, <1>2 DEF RequestHolds, RefreshHolds, Request, SessionsTypeOK
  <1>4. t # c
    BY <1>2, <1>3
  <1>5. s \in SessionIds /\ sess[s] \in Session
    BY <1>1, <1>2, <1>3 DEF Token, SessionsTypeOK
  <1>6. expires \in Instants /\ expires <= sess[s].absolute
    <2>1. sess[s].absolute \in Instants
      BY <1>5 DEF Session
    <2>2. at \in Nat /\ sess[s].absolute \in Nat
      BY <2>1, <1>3, AuthAssumption DEF Instants, Times
    <2>3. expires \in Nat /\ expires <= sess[s].absolute
      <3>. HIDE DEF s, at
      <3>. QED  BY <2>2, ExpiryWithin
    <2>. HIDE DEF expires
    <2>. QED  BY <2>1, <2>3, AuthAssumption DEF Instants
  <1>7. n \in Token /\ n.parent = t /\ n.asked = at /\ ~n.rotated
    <2>. HIDE DEF s, at, expires, t
    <2>. QED  BY <1>3, <1>5, <1>6, NewTokenType
  <1>8. /\ used \in Token /\ used.parent = tok[t].parent /\ used.asked = tok[t].asked
        /\ used.rotated /\ used.revoked = at /\ used.next = c
    <2>. HIDE DEF t, at
    <2>. QED  BY <1>3 DEF Token, MaybeAt
  <1>. HIDE DEF n, used, expires
  <1>9. /\ tok'[c] = n
        /\ req[p].op = "grace" => tok'[t] = tok[t]
        /\ req[p].op = "rotate" => tok'[t] = used
        /\ \A r \in TokenIds \ {c, t} : tok'[r] = tok[r]
        /\ DOMAIN tok' = TokenIds
        /\ tok' = [r \in TokenIds |-> tok'[r]]
    <2>. HIDE DEF t, at
    <2>. QED  BY <1>1, <1>2, <1>3, <1>4 DEF SessionsTypeOK, used
  <1>. HIDE DEF s, at
  <1>10. tok' \in [TokenIds -> Token \cup {None}]
    <2>1. \A r \in TokenIds : tok'[r] \in Token \cup {None}
      <3>. HIDE DEF t
      <3>. QED  BY <1>1, <1>2, <1>3, <1>7, <1>8, <1>9 DEF SessionsTypeOK
    <2>. QED  BY <1>9, <2>1
  <1>11. req[p].op = "rotate" => ~tok[t].rotated
    BY <1>1, <1>2, <1>3 DEF RotationsKept
  <1>12. TokensKept
    <2>1. ASSUME NEW r \in TokenIds, tok[r] # None
          PROVE  /\ tok'[r] # None
                 /\ tok'[r].parent = tok[r].parent /\ tok'[r].asked = tok[r].asked
                 /\ tok[r].rotated =>
                       /\ tok'[r].rotated
                       /\ tok'[r].revoked = tok[r].revoked /\ tok'[r].next = tok[r].next
      <3>1. r # c
        BY <1>2, <2>1
      <3>2. CASE r # t \/ req[p].op = "grace"
        BY <3>1, <3>2, <2>1, <1>9
      <3>3. CASE r = t /\ req[p].op = "rotate"
        BY <3>3, <1>8, <1>9, <1>11, AuthAssumption
      <3>. QED  BY <3>2, <3>3, <1>2
    <2>. QED  BY <2>1 DEF TokensKept
  <1>13. SingleUse'
    <2>1. ASSUME NEW r \in TokenIds, tok[r] = None, tok'[r] # None, tok'[r].parent # None
          PROVE  ChildOf(r)'
      <3>1. r = c
        BY <1>3, <1>9, <2>1
      <3>2. tok'[r] = n /\ tok'[r].parent = t /\ tok'[r].asked = at
        BY <3>1, <1>7, <1>9
      <3>3. CASE req[p].op = "rotate"
        BY <3>1, <3>2, <3>3, <1>8, <1>9, AuthAssumption DEF ChildOf
      <3>4. CASE req[p].op = "grace"
        <4>1. /\ tok[t].rotated
              /\ tok[t].revoked <= at /\ at < tok[t].revoked + ReuseGrace
          BY <3>4, <1>1 DEF RequestHolds, GraceHolds, at
        <4>2. tok'[t] = tok[t] /\ tok[t] # None
          BY <3>4, <1>3, <1>9
        <4>. QED  BY <3>2, <4>1, <4>2 DEF ChildOf
      <3>. QED  BY <3>3, <3>4, <1>2
    <2>. QED  BY <1>1, <1>12, <2>1, SingleUseKept
  <1>14. RotationsKept'
    <2>1. ASSUME NEW r \in TokenIds, tok'[r] # None, tok'[r].rotated
          PROVE  tok'[r].revoked # None /\ tok'[r].revoked <= clock
      <3>1. r # c
        BY <1>7, <1>9, <2>1
      <3>2. CASE r = t /\ req[p].op = "rotate"
        <4>1. tok'[r].revoked = at
          BY <3>2, <1>8, <1>9
        <4>. QED  BY <4>1, <1>3, AuthAssumption DEF Times
      <3>3. CASE r # t \/ req[p].op = "grace"
        <4>1. tok'[r] = tok[r]
          BY <3>1, <3>3, <1>9
        <4>. QED  BY <4>1, <2>1, <1>1 DEF RotationsKept
      <3>. QED  BY <3>2, <3>3, <1>2
    <2>. QED  BY <1>2, <2>1 DEF RotationsKept
  <1>15. req' \in [Procs -> Request] /\ RequestsHold'
    BY <1>2, <1>12, OthersHold
  <1>16. /\ sess'[s] \in Session /\ sess'[s].idle = expires
         /\ sess'[s].absolute = sess[s].absolute /\ sess'[s].revoked = sess[s].revoked
         /\ sess'[s].pw = sess[s].pw /\ sess'[s].late = sess[s].late
         /\ \A r \in SessionIds \ {s} : sess'[r] = sess[r]
         /\ sess' \in [SessionIds -> Session \cup {None}]
    <2>1. sess' = [sess EXCEPT ![s] = [sess[s] EXCEPT !.idle = expires]]
      BY <1>2
    <2>2. sess'[s] = [sess[s] EXCEPT !.idle = expires]
      BY <2>1, <1>1, <1>5 DEF SessionsTypeOK
    <2>3. [sess[s] EXCEPT !.idle = expires] \in Session
      BY <1>5, <1>6 DEF Session
    <2>4. \A r \in SessionIds \ {s} : sess'[r] = sess[r]
      BY <2>1, <1>1 DEF SessionsTypeOK
    <2>5. sess' \in [SessionIds -> Session \cup {None}]
      BY <2>1, <2>3, <1>1 DEF SessionsTypeOK
    <2>6. /\ sess'[s].idle = expires
          /\ sess'[s].absolute = sess[s].absolute /\ sess'[s].revoked = sess[s].revoked
          /\ sess'[s].pw = sess[s].pw /\ sess'[s].late = sess[s].late
      BY <2>2, <1>5 DEF Session
    <2>. QED  BY <2>2, <2>3, <2>4, <2>5, <2>6
  <1>17. SessionsTypeOK'
    BY <1>1, <1>2, <1>6, <1>10, <1>15, <1>16 DEF SessionsTypeOK
  <1>18. OldPasswordSignedOut'
    <2>1. ASSUME NEW r \in SessionIds, sess'[r] # None, sess'[r].revoked = None, ~sess'[r].late
          PROVE  sess'[r].pw = user'.pw
      BY <2>1, <1>1, <1>2, <1>16 DEF OldPasswordSignedOut, Live
    <2>. QED  BY <2>1 DEF OldPasswordSignedOut, Live
  <1>. QED  BY <1>13, <1>14, <1>15, <1>17, <1>18 DEF SessionsInv, SessionsSound

LEMMA RevokeStatementKeeps ==
    ASSUME SessionsInv, NEW p \in Procs, RevokeStatement(p)
    PROVE  SessionsInv'
  <1>. DEFINE set == {t \in req[p].snap : req[p].op = "revokeUser" => Live(tok[t].family)}
  <1>1. /\ SessionsTypeOK /\ RotationsKept /\ OldPasswordSignedOut
        /\ SnapHolds(req[p]) /\ req[p] \in Request
    BY DEF SessionsInv, SessionsSound, RequestsHold, RequestHolds, SessionsTypeOK
  <1>2. KeepsTokens(EndedTokens(set))
    <2>1. set \in SUBSET TokenIds /\ \A t \in set : tok[t] # None
      BY <1>1 DEF SnapHolds, Request
    <2>. HIDE DEF set
    <2>. QED  BY <1>1, <2>1, EndedTokensKept
  <1>3. /\ tok' \in [TokenIds -> Token \cup {None}]
        /\ TokensKept /\ SingleUse' /\ RotationsKept'
    BY <1>2, TokensEnded DEF RevokeStatement
  <1>4. req' \in [Procs -> Request] /\ RequestsHold'
    BY <1>3, OthersHold DEF RevokeStatement
  <1>5. KeepsSessions(sess') /\ UNCHANGED <<clock, user, faults>>
    BY <1>1, EndedSessionsKept DEF RevokeStatement
  <1>6. SessionsTypeOK'
    BY <1>1, <1>3, <1>4, <1>5 DEF SessionsTypeOK, KeepsSessions
  <1>7. OldPasswordSignedOut'
    BY <1>1, <1>5 DEF OldPasswordSignedOut, Live, KeepsSessions
  <1>. QED  BY <1>3, <1>4, <1>6, <1>7 DEF SessionsInv, SessionsSound

LEMMA EditCommitKeeps ==
    ASSUME SessionsInv, NEW p \in Procs, EditCommit(p)
    PROVE  SessionsInv'
  <1>. DEFINE copy == req[p].copy
  <1>1. SessionsTypeOK /\ RotationsKept /\ OldPasswordSignedOut /\ copy \in Copy
    BY DEF SessionsInv, SessionsSound, RequestsHold, RequestHolds, CopyHolds, EditCommit
  <1>. HIDE DEF copy
  <1>2. /\ UpdateUser(copy) /\ sess' = SessionsAfter(copy) /\ tok' = TokensAfter(copy)
        /\ req' = [req EXCEPT ![p] = NoRequest] /\ UNCHANGED <<clock, faults>>
    BY DEF EditCommit, copy
  <1>3. /\ tok' \in [TokenIds -> Token \cup {None}]
        /\ TokensKept /\ SingleUse' /\ RotationsKept'
    BY <1>1, <1>2, TokensAfterKept, TokensEnded
  <1>4. req' \in [Procs -> Request] /\ RequestsHold'
    BY <1>2, <1>3, OthersHold
  <1>5. /\ KeepsSessions(sess')
        /\ \A s \in SessionIds : (sess'[s] # None /\ sess'[s].revoked = None)
                                  => copy.pw = user.pw
    BY <1>1, <1>2, SessionsAfterKept
  <1>6. user' \in User /\ user'.pw = copy.pw
    BY <1>1, <1>2, UserType
  <1>7. SessionsTypeOK'
    BY <1>1, <1>2, <1>3, <1>4, <1>5, <1>6 DEF SessionsTypeOK, KeepsSessions
  <1>8. OldPasswordSignedOut'
    BY <1>1, <1>5, <1>6 DEF OldPasswordSignedOut, Live, KeepsSessions
  <1>. QED  BY <1>3, <1>4, <1>7, <1>8 DEF SessionsInv, SessionsSound

LEMMA PasswordCommitKeeps ==
    ASSUME SessionsInv, NEW p \in Procs, NEW s \in SessionIds, NEW t \in TokenIds,
           PasswordCommit(p, s, t)
    PROVE  SessionsInv'
  <1>. DEFINE copy == req[p].copy
              n    == NewSession(copy.pw, FALSE)
              e    == SessionsAfter(copy)
  <1>1. SessionsTypeOK /\ RotationsKept /\ OldPasswordSignedOut /\ copy \in Copy
    BY DEF SessionsInv, SessionsSound, RequestsHold, RequestHolds, CopyHolds, PasswordCommit
  <1>. HIDE DEF copy
  <1>2. /\ sess[s] = None /\ tok[t] = None
        /\ UpdateUser(copy) /\ sess' = [e EXCEPT ![s] = n]
        /\ tok' = [TokensAfter(copy) EXCEPT ![t] = FirstToken(s)]
        /\ req' = [req EXCEPT ![p] = NoRequest] /\ UNCHANGED <<clock, faults>>
    BY DEF PasswordCommit, copy
  <1>3. n \in Session /\ n.idle <= n.absolute /\ n.pw = copy.pw
    BY <1>1, NewSessionType DEF SessionsTypeOK, Copy
  <1>4. /\ KeepsSessions(e)
        /\ \A r \in SessionIds : (e[r] # None /\ e[r].revoked = None) => copy.pw = user.pw
    BY <1>1, SessionsAfterKept
  <1>. HIDE DEF n, e
  <1>5. sess'[s] = n /\ \A r \in SessionIds \ {s} : sess'[r] = e[r]
    BY <1>2, <1>4 DEF KeepsSessions
  <1>6. /\ tok' \in [TokenIds -> Token \cup {None}]
        /\ TokensKept /\ SingleUse' /\ RotationsKept'
    BY <1>1, <1>2, TokensAfterKept, FirstTokenStored
  <1>7. req' \in [Procs -> Request] /\ RequestsHold'
    BY <1>2, <1>6, OthersHold
  <1>8. user' \in User /\ user'.pw = copy.pw
    BY <1>1, <1>2, UserType
  <1>9. SessionsTypeOK'
    <2>1. sess' \in [SessionIds -> Session \cup {None}]
      BY <1>2, <1>3, <1>4 DEF KeepsSessions
    <2>2. \A r \in SessionIds : sess'[r] # None => sess'[r].idle <= sess'[r].absolute
      BY <1>3, <1>4, <1>5 DEF KeepsSessions
    <2>. QED  BY <1>1, <1>2, <1>6, <1>7, <1>8, <2>1, <2>2 DEF SessionsTypeOK
  <1>10. OldPasswordSignedOut'
    <2>1. ASSUME NEW r \in SessionIds, sess'[r] # None, sess'[r].revoked = None, ~sess'[r].late
          PROVE  sess'[r].pw = user'.pw
      <3>1. CASE r = s
        BY <3>1, <1>3, <1>5, <1>8
      <3>2. CASE r # s
        <4>1. sess'[r] = e[r] /\ e[r] = sess[r] /\ copy.pw = user.pw
          BY <3>2, <1>4, <1>5, <2>1 DEF KeepsSessions
        <4>. QED  BY <4>1, <1>1, <1>8, <2>1 DEF OldPasswordSignedOut, Live
      <3>. QED  BY <3>1, <3>2
    <2>. QED  BY <2>1 DEF OldPasswordSignedOut, Live
  <1>. QED  BY <1>6, <1>7, <1>9, <1>10 DEF SessionsInv, SessionsSound

-----------------------------------------------------------------------------
(* Time passes: what lay in the past still does.                           *)
LEMMA SessionsTickKeeps ==
    ASSUME SessionsInv, SessionsTick
    PROVE  SessionsInv'
  <1>1. clock' \in Times /\ clock \in Nat /\ clock' = clock + 1
    BY AuthAssumption DEF SessionsInv, SessionsSound, SessionsTypeOK, SessionsTick, Times
  <1>2. SessionsTypeOK'
    BY <1>1 DEF SessionsInv, SessionsSound, SessionsTypeOK, SessionsTick
  <1>3. SingleUse' /\ OldPasswordSignedOut'
    BY DEF SessionsInv, SessionsSound, SingleUse, OldPasswordSignedOut, Live, SessionsTick
  <1>4. RotationsKept'
    <2>1. ASSUME NEW t \in TokenIds, tok[t] # None, tok[t].rotated
          PROVE  tok[t].revoked # None /\ tok[t].revoked <= clock'
      <3>1. tok[t].revoked # None /\ tok[t].revoked <= clock
        BY <2>1 DEF SessionsInv, RotationsKept
      <3>2. tok[t].revoked \in Nat
        BY <2>1, <3>1 DEF SessionsInv, SessionsSound, SessionsTypeOK, Token, MaybeAt, Times
      <3>. QED  BY <3>1, <3>2, <1>1
    <2>. QED  BY <2>1 DEF RotationsKept, SessionsTick
  <1>5. RequestsHold'
    <2>1. ASSUME NEW p \in Procs
          PROVE  RequestHolds(req[p])'
      <3>1. RequestHolds(req[p]) /\ req[p] \in Request /\ req' = req /\ tok' = tok
        BY DEF SessionsInv, SessionsSound, SessionsTypeOK, RequestsHold, SessionsTick
      <3>2. RefreshHolds(req[p])'
        <4>1. req[p].asked \in Nat
          BY <3>1 DEF Request, Times
        <4>. QED  BY <3>1, <4>1, <1>1 DEF RequestHolds, RefreshHolds
      <3>3. GraceHolds(req[p])' /\ CopyHolds(req[p])' /\ SnapHolds(req[p])'
        BY <3>1 DEF RequestHolds, GraceHolds, CopyHolds, SnapHolds
      <3>. QED  BY <3>2, <3>3 DEF RequestHolds
    <2>. QED  BY <2>1 DEF RequestsHold
  <1>. QED  BY <1>2, <1>3, <1>4, <1>5 DEF SessionsInv, SessionsSound

(* A new request of any kind.                                              *)
LEMMA BeginKeeps ==
    ASSUME SessionsInv, NEW p \in Procs, Begin(p)
    PROVE  SessionsInv'
  <1>1. SessionsTypeOK /\ RotationsKept /\ faults \in 0 .. MaxFaults
    BY DEF SessionsInv, SessionsSound, SessionsTypeOK
  <1>2. Current \in Copy
    BY <1>1 DEF Current, Copy, SessionsTypeOK, User
  <1>3. ASSUME NEW op \in {"login", "edit", "password"}, NEW copy \in Copy,
               req' = [req EXCEPT ![p] = [NoRequest EXCEPT !.op = op, !.copy = copy]],
               UNCHANGED <<clock, user, sess, tok, faults>>
        PROVE  SessionsInv'
    <2>. DEFINE q == [NoRequest EXCEPT !.op = op, !.copy = copy]
    <2>1. q.op = op /\ q.copy = copy /\ q.snap = {}
      BY NoRequestHolds DEF Request, NoRequest
    <2>2. q \in Request
      BY NoRequestHolds DEF Request, RequestOps
    <2>. HIDE DEF q
    <2>3. RequestHolds(q)
      BY <2>1 DEF RequestHolds, RefreshHolds, GraceHolds, CopyHolds, SnapHolds
    <2>4. req' = [req EXCEPT ![p] = q]
      BY <1>3 DEF q
    <2>. QED  BY <1>1, <1>3, <2>2, <2>3, <2>4, OnlyRequest
  <1>4. ASSUME NEW op \in {"revoke", "revokeUser"}, NEW set \in SUBSET SessionIds,
               Revoke(p, op, set)
        PROVE  SessionsInv'
    BY <1>1, <1>4, StartRevokeHolds, OnlyRequest DEF Revoke
  <1>5. CASE Login(p)
    BY <1>2, <1>3, <1>5 DEF Login
  <1>6. ASSUME NEW t \in TokenIds, Refresh(p, t)
        PROVE  SessionsInv'
    BY <1>1, <1>6, AfterVerdictHolds, OnlyRequest DEF Refresh
  <1>7. ASSUME NEW s \in SessionIds, Logout(p, s) \/ RevokeSession(p, s)
        PROVE  SessionsInv'
    <2>1. Revoke(p, "revoke", {s})
      BY <1>7 DEF Logout, RevokeSession
    <2>. QED  BY <2>1, <1>4
  <1>8. ASSUME NEW keep \in SUBSET SessionIds, RevokeUserSessions(p, keep)
        PROVE  SessionsInv'
    <2>. DEFINE set == {s \in SessionIds \ keep : sess[s] # None /\ Active(sess[s], clock)}
    <2>1. Revoke(p, "revokeUser", set) /\ set \in SUBSET SessionIds
      BY <1>8 DEF RevokeUserSessions
    <2>. HIDE DEF set
    <2>. QED  BY <2>1, <1>4
  <1>9. ASSUME NEW pw \in Passwords, NEW c \in Claims, NEW a \in BOOLEAN,
               AdminUpdate(p, pw, c, a)
        PROVE  SessionsInv'
    <2>1. [pw |-> pw, claims |-> c, active |-> a] \in Copy
      BY DEF Copy
    <2>. QED  BY <2>1, <1>3, <1>9 DEF AdminUpdate, StartEdit
  <1>10. CASE UpdateProfile(p)
    BY <1>2, <1>3, <1>10 DEF UpdateProfile, StartEdit
  <1>11. ASSUME NEW pw \in Passwords, ChangePassword(p, pw)
         PROVE  SessionsInv'
    <2>1. [Current EXCEPT !.pw = pw] \in Copy
      BY <1>2 DEF Copy
    <2>. QED  BY <2>1, <1>3, <1>11 DEF ChangePassword, StartEdit
  <1>. QED
    BY <1>5, <1>6, <1>7, <1>8, <1>9, <1>10, <1>11 DEF Begin

(* A request goes on, or gives up.                                         *)
LEMMA ContinueKeeps ==
    ASSUME SessionsInv, NEW p \in Procs, Continue(p)
    PROVE  SessionsInv'
  <1>1. /\ SessionsTypeOK /\ RotationsKept /\ faults \in 0 .. MaxFaults
        /\ RefreshHolds(req[p])
    BY DEF SessionsInv, SessionsSound, SessionsTypeOK, RequestsHold, RequestHolds
  <1>2. ASSUME NEW s \in SessionIds, NEW t \in TokenIds,
               completeLogin(p, s, t) \/ PasswordCommit(p, s, t)
        PROVE  SessionsInv'
    BY <1>2, CompleteLoginKeeps, PasswordCommitKeeps
  <1>3. ASSUME NEW c \in TokenIds, RefreshCommit(p, c)
        PROVE  SessionsInv'
    BY <1>3, RefreshCommitKeeps
  <1>4. CASE RefreshAgain(p)
    <2>1. req[p].tok \in TokenIds /\ tok[req[p].tok] # None
      BY <1>1, <1>4 DEF RefreshAgain, RefreshHolds
    <2>. QED  BY <1>1, <1>4, <2>1, AfterVerdictHolds, OnlyRequest DEF RefreshAgain
  <1>5. CASE RefreshRaced(p)
    <2>. DEFINE q == [NoRequest EXCEPT !.op = "again", !.tok = req[p].tok]
    <2>1. req[p].tok \in TokenIds /\ tok[req[p].tok] # None /\ clock \in Nat
      BY <1>1, <1>5 DEF RefreshRaced, RefreshHolds, SessionsTypeOK, Times
    <2>2. q.op = "again" /\ q.tok = req[p].tok /\ q.snap = {} /\ q.asked = 0
      BY NoRequestHolds DEF Request, NoRequest
    <2>3. q \in Request
      BY <2>1, NoRequestHolds DEF Request, RequestOps
    <2>4. req' = [req EXCEPT ![p] = q]
      BY <1>5 DEF RefreshRaced
    <2>. HIDE DEF q
    <2>5. RequestHolds(q)
      BY <2>1, <2>2 DEF RequestHolds, RefreshHolds, GraceHolds, CopyHolds, SnapHolds
    <2>. QED  BY <1>1, <1>5, <2>3, <2>4, <2>5, OnlyRequest DEF RefreshRaced
  <1>6. CASE RefreshTooLate(p)
    BY <1>1, <1>6, NoRequestHolds, OnlyRequest DEF RefreshTooLate
  <1>7. CASE RevokeStatement(p)
    BY <1>7, RevokeStatementKeeps
  <1>8. CASE RevokeFails(p)
    <2>1. faults' \in 0 .. MaxFaults
      BY <1>1, <1>8, AuthAssumption DEF RevokeFails
    <2>. QED  BY <1>8, <2>1, NoRequestHolds, OnlyRequest DEF RevokeFails
  <1>9. CASE EditCommit(p)
    BY <1>9, EditCommitKeeps
  <1>. QED  BY <1>2, <1>3, <1>4, <1>5, <1>6, <1>7, <1>8, <1>9 DEF Continue

-----------------------------------------------------------------------------
LEMMA SessionsInvInit == SessionsInit => SessionsInv
  <1>. SUFFICES ASSUME SessionsInit PROVE SessionsInv
    OBVIOUS
  <1>1. SessionsTypeOK
    <2>1. user \in User
      <3>1. {1} \subseteq Versions
        BY AuthAssumption DEF Versions
      <3>2. {TRUE} \subseteq BOOLEAN
        OBVIOUS
      <3>3. [pw: Passwords, claims: Claims, active: {TRUE}, version: {1}] \subseteq User
        BY <3>1, <3>2, Zenon DEF User
      <3>. QED  BY <3>3, Zenon DEF SessionsInit
    <2>2. req \in [Procs -> Request]
      BY NoRequestHolds DEF SessionsInit
    <2>. QED  BY <2>1, <2>2, AuthAssumption DEF SessionsInit, SessionsTypeOK, Times
  <1>2. SingleUse /\ OldPasswordSignedOut /\ RotationsKept
    BY DEF SessionsInit, SingleUse, OldPasswordSignedOut, Live, RotationsKept
  <1>3. RequestsHold
    BY NoRequestHolds DEF SessionsInit, RequestsHold
  <1>. QED  BY <1>1, <1>2, <1>3 DEF SessionsInv, SessionsSound

LEMMA SessionsInvNext == SessionsInv /\ [SessionsNext]_sessionVars => SessionsInv'
  <1>. SUFFICES ASSUME SessionsInv, [SessionsNext]_sessionVars PROVE SessionsInv'
    OBVIOUS
  <1>1. CASE SessionsTick
    BY <1>1, SessionsTickKeeps
  <1>2. ASSUME NEW p \in Procs, Begin(p)
        PROVE  SessionsInv'
    BY <1>2, BeginKeeps
  <1>3. ASSUME NEW p \in Procs, Continue(p)
        PROVE  SessionsInv'
    BY <1>3, ContinueKeeps
  <1>4. CASE UNCHANGED sessionVars
    <2>1. clock' = clock /\ user' = user /\ sess' = sess /\ tok' = tok /\ req' = req
          /\ faults' = faults
      BY <1>4 DEF sessionVars
    <2>. QED
      BY <2>1 DEF SessionsInv, SessionsSound, SessionsTypeOK, SingleUse, OldPasswordSignedOut,
         Live, RotationsKept, RequestsHold, RequestHolds, RefreshHolds, GraceHolds, CopyHolds,
         SnapHolds
  <1>. QED  BY <1>1, <1>2, <1>3, <1>4 DEF SessionsNext

(* For any number of concurrent requests, sessions and tokens: sessions    *)
(* stay within their absolute limit, refresh tokens are single-use outside *)
(* the grace window (Service.Refresh), and a changed password ends what    *)
(* the old one opened (revoke_refresh_tokens_on_credential_change).        *)
THEOREM SessionsSoundHolds == SessionsSpec => []SessionsSound
  <1>1. SessionsInv => SessionsSound
    BY DEF SessionsInv
  <1>. QED  BY SessionsInvInit, SessionsInvNext, <1>1, PTL DEF SessionsSpec

(* No step gives an ended session a token: completeLogin and               *)
(* PasswordCommit open a session that was not there, and the refresh       *)
(* transaction rolls back when TouchSession finds the session ended.       *)
THEOREM NoTokenAfterEndHolds == SessionsSpec => NoTokenAfterEnd
  <1>. DEFINE Issues(s, t) ==
         (sess[s] # None /\ sess[s].revoked # None /\ tok[t] = None)
         => ~(tok'[t] # None /\ tok'[t].family = s)
  <1>1. ASSUME SessionsInv, [SessionsNext]_sessionVars, NEW s \in SessionIds, NEW t \in TokenIds
        PROVE  Issues(s, t)
    <2>1. SessionsTypeOK /\ RotationsKept
      BY <1>1 DEF SessionsInv, SessionsSound
    <2>2. CASE tok' = tok
      BY <2>2
    <2>3. ASSUME NEW p \in Procs, NEW r \in SessionIds, NEW c \in TokenIds,
                 completeLogin(p, r, c)
          PROVE  Issues(s, t)
      <3>1. sess[r] = None /\ tok' = [tok EXCEPT ![c] = FirstToken(r)]
        BY <2>3 DEF completeLogin
      <3>2. FirstToken(r).family = r
        BY <2>1, FirstTokenType DEF SessionsTypeOK
      <3>. QED  BY <2>1, <3>1, <3>2 DEF SessionsTypeOK
    <2>4. ASSUME NEW p \in Procs, NEW r \in SessionIds, NEW c \in TokenIds,
                 PasswordCommit(p, r, c)
          PROVE  Issues(s, t)
      <3>. DEFINE k == TokensAfter(req[p].copy)
      <3>1. sess[r] = None /\ tok' = [k EXCEPT ![c] = FirstToken(r)]
        BY <2>4 DEF PasswordCommit
      <3>2. FirstToken(r).family = r
        BY <2>1, FirstTokenType DEF SessionsTypeOK
      <3>3. KeepsTokens(k)
        BY <2>1, TokensAfterKept
      <3>. HIDE DEF k
      <3>. QED  BY <3>1, <3>2, <3>3 DEF KeepsTokens
    <2>5. ASSUME NEW p \in Procs, NEW c \in TokenIds, RefreshCommit(p, c)
          PROVE  Issues(s, t)
      <3>. DEFINE f == tok[req[p].tok].family
                  n == NewToken(f, SuccessorExpiry(req[p].asked, sess[f].absolute), req[p].tok,
                                req[p].asked)
                  o == IF req[p].op = "grace" THEN tok[req[p].tok]
                       ELSE [tok[req[p].tok] EXCEPT !.revoked = req[p].asked, !.rotated = TRUE,
                                                    !.next = c]
      <3>1. /\ sess[f].revoked = None /\ tok[c] = None
            /\ req[p].tok \in TokenIds /\ tok[req[p].tok] # None
        BY <1>1, <2>5 DEF RefreshCommit, TouchSession, Live, SessionsInv, RequestsHold,
           RequestHolds, RefreshHolds
      <3>2. tok' = [[tok EXCEPT ![c] = n] EXCEPT ![req[p].tok] = o]
        BY <2>1, <2>5, <3>1 DEF RefreshCommit, SessionsTypeOK
      <3>3. n.family = f
        BY DEF NewToken
      <3>. HIDE DEF n, o
      <3>4. tok'[c] = n /\ \A x \in TokenIds \ {c} : tok[x] = None => tok'[x] = None
        BY <2>1, <3>1, <3>2 DEF SessionsTypeOK
      <3>. HIDE DEF f
      <3>. QED  BY <3>1, <3>3, <3>4
    <2>6. ASSUME NEW p \in Procs, RevokeStatement(p)
          PROVE  Issues(s, t)
      <3>. DEFINE set == {x \in req[p].snap : req[p].op = "revokeUser" => Live(tok[x].family)}
      <3>1. set \in SUBSET TokenIds /\ \A x \in set : tok[x] # None
        BY <1>1, <2>1 DEF SessionsInv, RequestsHold, RequestHolds, SnapHolds, SessionsTypeOK,
           Request
      <3>2. tok' = EndedTokens(set)
        BY <2>6 DEF RevokeStatement
      <3>. HIDE DEF set
      <3>. QED  BY <2>1, <3>1, <3>2, EndedTokensKept DEF KeepsTokens
    <2>7. ASSUME NEW p \in Procs, EditCommit(p)
          PROVE  Issues(s, t)
      <3>1. tok' = TokensAfter(req[p].copy)
        BY <2>7 DEF EditCommit
      <3>. QED  BY <2>1, <3>1, TokensAfterKept DEF KeepsTokens
    <2>8. ASSUME NEW p \in Procs, Begin(p)
          PROVE  tok' = tok
      BY <2>8 DEF Begin, Login, Refresh, Logout, RevokeSession, RevokeUserSessions, Revoke,
         AdminUpdate, UpdateProfile, ChangePassword, StartEdit
    <2>9. ASSUME NEW p \in Procs,
                 RefreshAgain(p) \/ RefreshRaced(p) \/ RefreshTooLate(p) \/ RevokeFails(p)
          PROVE  tok' = tok
      BY <2>9 DEF RefreshAgain, RefreshRaced, RefreshTooLate, RevokeFails
    <2>10. ASSUME NEW p \in Procs, Continue(p)
           PROVE  Issues(s, t)
      <3>. HIDE DEF Issues
      <3>. QED  BY <2>2, <2>3, <2>4, <2>5, <2>6, <2>7, <2>9, <2>10 DEF Continue
    <2>11. CASE SessionsTick \/ UNCHANGED sessionVars
      BY <2>2, <2>11 DEF SessionsTick, sessionVars
    <2>. HIDE DEF Issues
    <2>. QED  BY <1>1, <2>2, <2>8, <2>10, <2>11 DEF SessionsNext
  <1>2. SessionsInv /\ [SessionsNext]_sessionVars =>
          [\A s \in SessionIds, t \in TokenIds :
             (sess[s] # None /\ sess[s].revoked # None /\ tok[t] = None)
             => ~(tok'[t] # None /\ tok'[t].family = s)]_sessionVars
    BY <1>1
  <1>. QED
    BY SessionsInvInit, SessionsInvNext, <1>2, PTL DEF SessionsSpec, NoTokenAfterEnd
=============================================================================
