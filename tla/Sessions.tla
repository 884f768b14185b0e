------------------------------ MODULE Sessions ------------------------------
(***************************************************************************)
(* The sessions of one user: login, refresh-token rotation, revocation and *)
(* the edits of the user that end sessions.                                *)
(* Modelled code: src/internal/app/auth (session.go, password.go, the end  *)
(* of Login), src/internal/domain/authsec, src/internal/adapter/postgres/  *)
(* identity, the user edits of app/useradmin and app/profile, and the      *)
(* triggers of migration 00023.  The session cache is module SessionCache. *)
(*                                                                         *)
(* A request judges what it read and writes later.  The statements of a    *)
(* refresh transaction hold their row locks until the commit and are one   *)
(* step.  A revocation is one SQL statement, whose token update works on   *)
(* the snapshot the statement began with.  Which factor a login passed,    *)
(* access tokens, audit records and the purge of old rows are left out.    *)
(* The row types are shared with the session cache.                        *)
(***************************************************************************)
EXTENDS Naturals

CONSTANTS
    Procs,        \* concurrent requests
    Instances,    \* API processes, each with its cache
    SessionIds, TokenIds, Passwords,
    Claims,       \* role, branch and team of a user
    IdleTTL, AbsoluteTTL, ReuseGrace, CacheTTL,
    MaxTime, MaxVersion, MaxFaults,   \* bounds on clock, user edits, failed statements
    None

Times    == 0 .. MaxTime
Instants == 0 .. (MaxTime + AbsoluteTTL)
Versions == 1 .. MaxVersion
MaybeAt  == Times \cup {None}

User == [pw: Passwords, claims: Claims, active: BOOLEAN, version: Versions]

(* The columns of a user that a request reads and writes back.             *)
Copy == [pw: Passwords, claims: Claims, active: BOOLEAN]

(* pw and late are history: the password that opened the session, and that *)
(* it was no longer the user's when the session was stored.                *)
Session == [absolute: Instants, idle: Instants, revoked: MaybeAt, pw: Passwords, late: BOOLEAN]

(* next is replaced_by; parent and asked are history: the token presented  *)
(* for this one, and when the request was judged.                          *)
Token == [family: SessionIds, expires: Instants, revoked: MaybeAt, rotated: BOOLEAN,
          next: TokenIds \cup {None}, parent: TokenIds \cup {None}, asked: Times]

(* What a request needs to know of its session (authsec.SessionState).     *)
State == [revoked: MaybeAt, version: Versions]

(* A cached state; late is history: the row had changed when it was stored. *)
Entry == [state: State, expires: 0 .. (MaxTime + CacheTTL), late: BOOLEAN]

ASSUME AuthAssumption ==
    /\ IdleTTL \in Nat /\ AbsoluteTTL \in Nat /\ ReuseGrace \in Nat /\ CacheTTL \in Nat
    /\ MaxTime \in Nat /\ MaxFaults \in Nat /\ MaxVersion \in Nat \ {0}
    /\ None \notin Nat \cup TokenIds \cup Instances
    /\ None \notin Copy \cup Session \cup Token \cup State \cup Entry

VARIABLES
    clock,
    user,         \* the users row: password, claims, is_active, token_version
    sess,         \* auth_sessions rows
    tok,          \* refresh_tokens rows
    req,          \* process -> its request
    faults

sessionVars == <<clock, user, sess, tok, req, faults>>

(* copy is the user a login or an edit read, tok and asked the token and   *)
(* instant of a refresh, sids and snap what a revocation will end.         *)
RequestOps ==
    {"idle", "login", "rotate", "grace", "again", "revoke", "revokeUser", "edit", "password"}
NoRequest == [op |-> "idle", tok |-> None, asked |-> 0, sids |-> {}, snap |-> {}, copy |-> None]
Request ==
    [op: RequestOps, tok: TokenIds \cup {None}, asked: Times, sids: SUBSET SessionIds,
     snap: SUBSET TokenIds, copy: Copy \cup {None}]

(* Type correctness of rows and requests, with the CHECK of auth_sessions: *)
(* idle_expires_at <= absolute_expires_at, so a session never outlives its *)
(* absolute limit however often it is refreshed.                           *)
SessionsTypeOK ==
    /\ clock \in Times
    /\ user \in User
    /\ sess \in [SessionIds -> Session \cup {None}]
    /\ \A s \in SessionIds : sess[s] # None => sess[s].idle <= sess[s].absolute
    /\ tok \in [TokenIds -> Token \cup {None}]
    /\ req \in [Procs -> Request]
    /\ faults \in 0 .. MaxFaults

SessionsInit ==
    /\ clock = 0
    /\ user \in [pw: Passwords, claims: Claims, active: {TRUE}, version: {1}]
    /\ sess = [s \in SessionIds |-> None]
    /\ tok = [t \in TokenIds |-> None]
    /\ req = [p \in Procs |-> NoRequest]
    /\ faults = 0

-----------------------------------------------------------------------------
(* The rules of domain/authsec.                                            *)
Active(s, at) == s.revoked = None /\ at < s.absolute /\ at < s.idle

SuccessorExpiry(at, absolute) ==
    IF at + IdleTTL < absolute THEN at + IdleTTL ELSE absolute

EvaluateRefresh(t, s, at) ==
    CASE t.revoked # None ->
           IF t.rotated /\ ReuseGrace > 0 /\ at < t.revoked + ReuseGrace /\ Active(s, at)
           THEN "grace" ELSE "reused"
      [] t.revoked = None /\ s.revoked # None -> "revoked"
      [] t.revoked = None /\ s.revoked = None ->
           IF t.expires <= at \/ s.absolute <= at \/ s.idle <= at THEN "expired" ELSE "rotate"

Current == [pw |-> user.pw, claims |-> user.claims, active |-> user.active]
Live(s) == sess[s] # None /\ sess[s].revoked = None
LiveTokens(set) == {t \in TokenIds : tok[t] # None /\ tok[t].family \in set /\ tok[t].revoked = None}

(* Sets revoked_at on the sessions and tokens among these that lack it.    *)
EndedSessions(set) ==
    [s \in SessionIds |->
       IF s \in set /\ Live(s) THEN [sess[s] EXCEPT !.revoked = clock] ELSE sess[s]]
EndedTokens(set) ==
    [t \in TokenIds |->
       IF t \in set /\ tok[t].revoked = None THEN [tok[t] EXCEPT !.revoked = clock] ELSE tok[t]]

NewSession(pw, late) ==
    [absolute |-> clock + AbsoluteTTL, idle |-> SuccessorExpiry(clock, clock + AbsoluteTTL),
     revoked |-> None, pw |-> pw, late |-> late]
NewToken(s, expires, parent, at) ==
    [family |-> s, expires |-> expires, revoked |-> None, rotated |-> FALSE,
     next |-> None, parent |-> parent, asked |-> at]
FirstToken(s) == NewToken(s, SuccessorExpiry(clock, clock + AbsoluteTTL), None, clock)

-----------------------------------------------------------------------------
(* Login: every factor succeeds against a copy of the user, then           *)
(* completeLogin stores session and first token in one transaction.        *)
Login(p) ==
    /\ req[p] = NoRequest
    /\ user.active
    /\ req' = [req EXCEPT ![p] = [NoRequest EXCEPT !.op = "login", !.copy = Current]]
    /\ UNCHANGED <<clock, user, sess, tok, faults>>

completeLogin(p, s, t) ==
    /\ req[p].op = "login"
    /\ sess[s] = None /\ tok[t] = None
    /\ sess' = [sess EXCEPT ![s] = NewSession(req[p].copy.pw, req[p].copy.pw # user.pw)]
    /\ tok' = [tok EXCEPT ![t] = FirstToken(s)]
    /\ req' = [req EXCEPT ![p] = NoRequest]
    /\ UNCHANGED <<clock, user, faults>>

StartRevoke(op, set) == [NoRequest EXCEPT !.op = op, !.sids = set, !.snap = LiveTokens(set)]

(* What a refresh goes on to do.  Reuse, expiry and an inactive user end   *)
(* the session.  The reads are one step: the commit checks them again.     *)
AfterVerdict(t) ==
    LET s == tok[t].family
        v == EvaluateRefresh(tok[t], sess[s], clock)
    IN  CASE v = "revoked" -> NoRequest
          [] v \in {"reused", "expired"} -> StartRevoke("revoke", {s})
          [] v \in {"rotate", "grace"} ->
               IF user.active THEN [NoRequest EXCEPT !.op = v, !.tok = t, !.asked = clock]
                              ELSE StartRevoke("revoke", {s})

Refresh(p, t) ==
    /\ req[p] = NoRequest
    /\ tok[t] # None
    /\ req' = [req EXCEPT ![p] = AfterVerdict(t)]
    /\ UNCHANGED <<clock, user, sess, tok, faults>>

(* errRefreshRaced: the evaluation again.  It cannot be raced twice, since *)
(* a revoked token is not rotated again.                                   *)
RefreshAgain(p) ==
    /\ req[p].op = "again"
    /\ req' = [req EXCEPT ![p] = AfterVerdict(req[p].tok)]
    /\ UNCHANGED <<clock, user, sess, tok, faults>>

(* Does not look whether another request rotated the token meanwhile.      *)
MarkRefreshRotatedUnguarded(t) == TRUE

MarkRefreshRotated(t) == tok[t].revoked = None

(* Touches a session whether or not it was revoked.                        *)
TouchSessionUnguarded(s) == TRUE

TouchSession(s) == Live(s)

(* One transaction: insert the successor, mark the old token unless it is  *)
(* in its grace window, touch the session.                                 *)
RefreshCommit(p, c) ==
    LET t == req[p].tok
        s == tok[t].family
        at == req[p].asked
        expires == SuccessorExpiry(at, sess[s].absolute)
    IN  /\ req[p].op \in {"rotate", "grace"}
        /\ tok[c] = None
        /\ req[p].op = "rotate" => MarkRefreshRotated(t)
        /\ TouchSession(s)
        /\ tok' = [tok EXCEPT
                     ![c] = NewToken(s, expires, t, at),
                     ![t] = IF req[p].op = "grace" THEN @
                            ELSE [@ EXCEPT !.revoked = at, !.rotated = TRUE, !.next = c]]
        /\ sess' = [sess EXCEPT ![s].idle = expires]
        /\ req' = [req EXCEPT ![p] = NoRequest]
        /\ UNCHANGED <<clock, user, faults>>

(* Rolled back: another request rotated the token, or the session ended.   *)
RefreshRaced(p) ==
    /\ req[p].op = "rotate"
    /\ ~MarkRefreshRotated(req[p].tok)
    /\ req' = [req EXCEPT ![p] = [NoRequest EXCEPT !.op = "again", !.tok = req[p].tok]]
    /\ UNCHANGED <<clock, user, sess, tok, faults>>

RefreshTooLate(p) ==
    /\ req[p].op \in {"rotate", "grace"}
    /\ req[p].op = "rotate" => MarkRefreshRotated(req[p].tok)
    /\ ~TouchSession(tok[req[p].tok].family)
    /\ req' = [req EXCEPT ![p] = NoRequest]
    /\ UNCHANGED <<clock, user, sess, tok, faults>>

-----------------------------------------------------------------------------
(* Logout, RevokeSession, RevokeOtherSessions and AdminRevokeSessions.     *)
(* The last two take the sessions that are active now; with none they      *)
(* change nothing.  revoked_at is the instant at which the statement takes *)
(* effect: rules only ask whether it is set.                               *)
Revoke(p, op, set) ==
    /\ req[p] = NoRequest
    /\ req' = [req EXCEPT ![p] = StartRevoke(op, set)]
    /\ UNCHANGED <<clock, user, sess, tok, faults>>

Logout(p, s) == sess[s] # None /\ Revoke(p, "revoke", {s})
RevokeSession(p, s) == sess[s] # None /\ Active(sess[s], clock) /\ Revoke(p, "revoke", {s})
RevokeUserSessions(p, keep) ==
    LET set == {s \in SessionIds \ keep : sess[s] # None /\ Active(sess[s], clock)}
    IN  set # {} /\ Revoke(p, "revokeUser", set)

(* The statement; its token update sees only the tokens of its snapshot    *)
(* and, for several sessions, only those of the sessions it has just ended. *)
RevokeStatement(p) ==
    /\ req[p].op \in {"revoke", "revokeUser"}
    /\ sess' = EndedSessions(req[p].sids)
    /\ tok' = EndedTokens({t \in req[p].snap : req[p].op = "revokeUser" => Live(tok[t].family)})
    /\ req' = [req EXCEPT ![p] = NoRequest]
    /\ UNCHANGED <<clock, user, faults>>

(* The statement fails; endSession ignores that, the others return it.     *)
RevokeFails(p) ==
    /\ req[p].op \in {"revoke", "revokeUser"}
    /\ faults < MaxFaults
    /\ faults' = faults + 1
    /\ req' = [req EXCEPT ![p] = NoRequest]
    /\ UNCHANGED <<clock, user, sess, tok>>

-----------------------------------------------------------------------------
(* User edits read the row without a lock and write every column back.     *)
StartEdit(p, op, copy) ==
    /\ req[p] = NoRequest
    /\ req' = [req EXCEPT ![p] = [NoRequest EXCEPT !.op = op, !.copy = copy]]
    /\ UNCHANGED <<clock, user, sess, tok, faults>>

(* useradmin.Update; profile.Update and ChangeEmail; ChangePassword.       *)
AdminUpdate(p, pw, claims, active) ==
    StartEdit(p, "edit", [pw |-> pw, claims |-> claims, active |-> active])
UpdateProfile(p) == user.active /\ StartEdit(p, "edit", Current)
ChangePassword(p, pw) == pw # user.pw /\ StartEdit(p, "password", [Current EXCEPT !.pw = pw])

(* revoke_refresh_tokens_on_credential_change.                             *)
EndsSessions(copy) == copy.pw # user.pw \/ (user.active /\ ~copy.active)

(* bump_user_token_version.                                                *)
BumpsVersion(copy) == copy.pw # user.pw \/ copy.claims # user.claims \/ copy.active # user.active

UpdateUser(copy) ==
    /\ BumpsVersion(copy) => user.version < MaxVersion
    /\ user' = [pw |-> copy.pw, claims |-> copy.claims, active |-> copy.active,
                 version |-> IF BumpsVersion(copy) THEN user.version + 1 ELSE user.version]

(* The rows after the triggers, which see all that is committed.           *)
SessionsAfter(copy) == IF EndsSessions(copy) THEN EndedSessions(SessionIds) ELSE sess
TokensAfter(copy) == IF EndsSessions(copy) THEN EndedTokens(LiveTokens(SessionIds)) ELSE tok

EditCommit(p) ==
    /\ req[p].op = "edit"
    /\ UpdateUser(req[p].copy)
    /\ sess' = SessionsAfter(req[p].copy)
    /\ tok' = TokensAfter(req[p].copy)
    /\ req' = [req EXCEPT ![p] = NoRequest]
    /\ UNCHANGED <<clock, faults>>

(* The same transaction opens a new session for the caller's device.       *)
PasswordCommit(p, s, t) ==
    /\ req[p].op = "password"
    /\ sess[s] = None /\ tok[t] = None
    /\ UpdateUser(req[p].copy)
    /\ sess' = [SessionsAfter(req[p].copy) EXCEPT ![s] = NewSession(req[p].copy.pw, FALSE)]
    /\ tok' = [TokensAfter(req[p].copy) EXCEPT ![t] = FirstToken(s)]
    /\ req' = [req EXCEPT ![p] = NoRequest]
    /\ UNCHANGED <<clock, faults>>

SessionsTick ==
    /\ clock < MaxTime
    /\ clock' = clock + 1
    /\ UNCHANGED <<user, sess, tok, req, faults>>

Begin(p) ==
    \/ Login(p)
    \/ \E t \in TokenIds : Refresh(p, t)
    \/ \E s \in SessionIds : Logout(p, s) \/ RevokeSession(p, s)
    \/ \E keep \in SUBSET SessionIds : RevokeUserSessions(p, keep)
    \/ \E pw \in Passwords, c \in Claims, a \in BOOLEAN : AdminUpdate(p, pw, c, a)
    \/ UpdateProfile(p)
    \/ \E pw \in Passwords : ChangePassword(p, pw)

Continue(p) ==
    \/ \E s \in SessionIds, t \in TokenIds : completeLogin(p, s, t) \/ PasswordCommit(p, s, t)
    \/ \E c \in TokenIds : RefreshCommit(p, c)
    \/ RefreshAgain(p) \/ RefreshRaced(p) \/ RefreshTooLate(p)
    \/ RevokeStatement(p) \/ RevokeFails(p)
    \/ EditCommit(p)

SessionsNext == SessionsTick \/ \E p \in Procs : Begin(p) \/ Continue(p)

SessionsSpec == SessionsInit /\ [][SessionsNext]_sessionVars

-----------------------------------------------------------------------------
(* "Tokens are single-use ... except inside the reuse grace window"        *)
(* (Service.Refresh): of the tokens issued for one token, one replaces it, *)
(* and the others were asked for within ReuseGrace of the rotation.        *)
SingleUse ==
    \A c \in TokenIds : (tok[c] # None /\ tok[c].parent # None) =>
        LET t == tok[tok[c].parent]
        IN  /\ t # None /\ t.rotated
            /\ t.next = c \/ (t.revoked <= tok[c].asked /\ tok[c].asked < t.revoked + ReuseGrace)

(* A session that has ended issues no more tokens, although a refresh in   *)
(* flight judged it live before (TouchSession in the same transaction).    *)
NoTokenAfterEnd ==
    [][\A s \in SessionIds, t \in TokenIds :
         (sess[s] # None /\ sess[s].revoked # None /\ tok[t] = None)
         => ~(tok'[t] # None /\ tok'[t].family = s)]_sessionVars

(* "The credential-change trigger ends every session" (ChangePassword):    *)
(* every live session was opened with the user's present password, but for *)
(* a login that was checked before the change and stored after it.         *)
OldPasswordSignedOut ==
    \A s \in SessionIds : Live(s) /\ ~sess[s].late => sess[s].pw = user.pw

(* Sessions are sound: idle_expires_at stays within the absolute limit     *)
(* (the CHECK of auth_sessions), a refresh token has one replacement, with *)
(* siblings only in the grace window (Service.Refresh), and a new password *)
(* ends what the old one opened (trigger of 00023).                        *)
SessionsSound == SessionsTypeOK /\ SingleUse /\ OldPasswordSignedOut
=============================================================================
