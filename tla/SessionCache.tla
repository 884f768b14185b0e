---------------------------- MODULE SessionCache ----------------------------
(***************************************************************************)
(* The session checks of several API instances, each with its cache.       *)
(* Modelled code: src/internal/adapter/sessioncache/validator.go, and how  *)
(* app/auth, app/useradmin and app/profile tell it of a change: first the  *)
(* store, then, in a later step, the cache of the instance that did it.    *)
(*                                                                         *)
(* gen is kept as far as it is compared: a load knows whether the cache    *)
(* was told anything since it began.  Expiry of a session is judged on     *)
(* every request and needs no state.  Eviction from a full cache is left   *)
(* out: a lost entry is only loaded again.  Sessions gives the row types;  *)
(* the sessions here only end, whatever ended them.                        *)
(***************************************************************************)
EXTENDS Sessions

CONSTANT CheckedIds   \* the sessions whose requests are checked

VARIABLES
    now,
    ended,        \* session -> revoked_at
    version,      \* the user's token_version
    cache,        \* instance -> session -> Entry
    told,         \* instance -> what its cache was last told of (history)
    job           \* process -> its request

vars == <<now, ended, version, cache, told, job>>

Ops  == {"idle", "load", "read", "invalidate"}
Idle == [op |-> "idle", inst |-> None, sids |-> {}, all |-> FALSE, state |-> None, fresh |-> FALSE]
Job  == [op: Ops, inst: Instances \cup {None}, sids: SUBSET CheckedIds, all: BOOLEAN,
         state: State \cup {None}, fresh: BOOLEAN]

(* Type correctness of rows, caches and requests.                          *)
TypeOK ==
    /\ now \in Times
    /\ ended \in [CheckedIds -> MaybeAt]
    /\ version \in Versions
    /\ cache \in [Instances -> [CheckedIds -> Entry \cup {None}]]
    /\ told \in [Instances -> [ended: SUBSET CheckedIds, version: Versions]]
    /\ job \in [Procs -> Job]

Init ==
    /\ now = 0
    /\ ended = [s \in CheckedIds |-> None]
    /\ version = 1
    /\ cache = [i \in Instances |-> [s \in CheckedIds |-> None]]
    /\ told = [i \in Instances |-> [ended |-> {}, version |-> 1]]
    /\ job = [p \in Procs |-> Idle]

-----------------------------------------------------------------------------
(* load on a miss: note gen, read the store, then cache what was read      *)
(* unless gen has changed.  A hit changes nothing.                         *)
LoadBegin(p, i, s) ==
    /\ job[p] = Idle
    /\ cache[i][s] # None => cache[i][s].expires <= now
    /\ job' = [job EXCEPT ![p] = [Idle EXCEPT !.op = "load", !.inst = i, !.sids = {s}, !.fresh = TRUE]]
    /\ UNCHANGED <<now, ended, version, cache, told>>

LoadRead(p, s) ==
    /\ job[p].op = "load" /\ s \in job[p].sids
    /\ job' = [job EXCEPT ![p].op = "read", ![p].state = [revoked |-> ended[s], version |-> version]]
    /\ UNCHANGED <<now, ended, version, cache, told>>

(* Keeps an entry as long as an idle session.                              *)
EntryExpiryIdle(at) == at + CacheTTL + IdleTTL

EntryExpiry(at) == at + CacheTTL

LoadPut(p, s) ==
    LET e == [state |-> job[p].state, expires |-> EntryExpiry(now),
              late |-> ended[s] # job[p].state.revoked]
    IN  /\ job[p].op = "read" /\ s \in job[p].sids
        /\ cache' = IF job[p].fresh THEN [cache EXCEPT ![job[p].inst][s] = e] ELSE cache
        /\ job' = [job EXCEPT ![p] = Idle]
        /\ UNCHANGED <<now, ended, version, told>>

-----------------------------------------------------------------------------
(* A request on instance i ends sessions in the store (Logout, the revoke  *)
(* calls, endSession).  all: InvalidateUser follows (AdminRevokeSessions). *)
EndSessions(p, i, set, all) ==
    /\ job[p] = Idle
    /\ ended' = [s \in CheckedIds |-> IF s \in set /\ ended[s] = None THEN now ELSE ended[s]]
    /\ job' = [job EXCEPT ![p] = [Idle EXCEPT !.op = "invalidate", !.inst = i, !.sids = set, !.all = all]]
    /\ UNCHANGED <<now, version, cache, told>>

(* A user edit on instance i: new claims, or also a new password or a      *)
(* deactivation, which end every session (triggers of migration 00023).    *)
ChangeUser(p, i, ends) ==
    /\ job[p] = Idle
    /\ version < MaxVersion
    /\ version' = version + 1
    /\ ended' = [s \in CheckedIds |-> IF ends /\ ended[s] = None THEN now ELSE ended[s]]
    /\ job' = [job EXCEPT ![p] = [Idle EXCEPT !.op = "invalidate", !.inst = i, !.all = TRUE]]
    /\ UNCHANGED <<now, cache, told>>

(* Forgets to change gen.                                                  *)
DisturbNobody(i, p) == [q \in Procs |-> IF q = p THEN Idle ELSE job[q]]

(* gen changes, so loads under way on the instance will not be cached.     *)
Disturb(i, p) ==
    [q \in Procs |->
       IF q = p THEN Idle
       ELSE IF job[q].op \in {"load", "read"} /\ job[q].inst = i
       THEN [job[q] EXCEPT !.fresh = FALSE] ELSE job[q]]

(* Invalidate of each session, or InvalidateUser.                          *)
Invalidate(p) ==
    LET i   == job[p].inst
        set == IF job[p].all THEN CheckedIds ELSE job[p].sids
    IN  /\ job[p].op = "invalidate"
        /\ cache' = [cache EXCEPT ![i] = [s \in CheckedIds |-> IF s \in set THEN None ELSE @[s]]]
        /\ told' = [told EXCEPT ![i] =
                      [ended |-> @.ended \cup {s \in set : ended[s] # None},
                       version |-> IF job[p].all THEN version ELSE @.version]]
        /\ job' = Disturb(i, p)
        /\ UNCHANGED <<now, ended, version>>

Tick ==
    /\ now < MaxTime
    /\ now' = now + 1
    /\ UNCHANGED <<ended, version, cache, told, job>>

Next ==
    \/ Tick
    \/ \E p \in Procs, i \in Instances :
         \/ \E s \in CheckedIds : LoadBegin(p, i, s)
         \/ \E set \in SUBSET CheckedIds, all \in BOOLEAN : EndSessions(p, i, set, all)
         \/ \E ends \in BOOLEAN : ChangeUser(p, i, ends)
    \/ \E p \in Procs, s \in CheckedIds : LoadRead(p, s) \/ LoadPut(p, s)
    \/ \E p \in Procs : Invalidate(p)

Spec == Init /\ [][Next]_vars

-----------------------------------------------------------------------------
(* "The revoking instance invalidates its cache immediately": once a call  *)
(* on an instance has ended a session or changed the user, no entry of its *)
(* cache is older than that, also not one whose load raced the call ("gen  *)
(* changes on every invalidation so a load that raced one is not cached"). *)
NotOlderThanTold ==
    \A i \in Instances, s \in CheckedIds : cache[i][s] # None =>
        /\ s \in told[i].ended => cache[i][s].state.revoked # None
        /\ cache[i][s].state.version >= told[i].version

(* "Other instances converge within the TTL": an entry that still shows an *)
(* ended session as live runs out within CacheTTL of its end, but for a    *)
(* load that read the row before the end and stored it after.              *)
StaleWithinTTL ==
    \A i \in Instances, s \in CheckedIds :
        (/\ cache[i][s] # None /\ ~cache[i][s].late
         /\ cache[i][s].state.revoked = None /\ ended[s] # None)
        => cache[i][s].expires <= ended[s] + CacheTTL
=============================================================================
