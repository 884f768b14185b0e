---------------------------- MODULE AccessRules -----------------------------
(***************************************************************************)
(* Who may see and do what: roles, scopes, the SQL filters they turn into, *)
(* the gate every request passes, where a user may be placed, and the      *)
(* settings of a branch.                                                   *)
(* Modelled code: src/internal/domain/access, src/internal/platform/auth   *)
(* (rbac.go, scope.go, signer.go), src/internal/adapter/postgres/pgscope,  *)
(* src/internal/adapter/http/middleware, the placement rules of            *)
(* src/internal/app/useradmin, domain/company/term.go, and                 *)
(* src/internal/app/adminconfig with its domain and repository.            *)
(*                                                                         *)
(* A question comes with an input and the state keeps both it and the      *)
(* answer.  A branch is a number, 0 is no branch; a company is a set of    *)
(* branches.  Permissions are abstracted to the four that differ by role   *)
(* and plan in different ways.                                             *)
(***************************************************************************)
EXTENDS Rows

CONSTANT ScopeBranches \* branches a scope or a record may be of

VARIABLES
    asked,             \* the last question and its answer
    reasons            \* lost_reason_codes of one branch: code -> id

accessVars == <<asked, reasons>>

LevelNone == 0
LevelOwn == 1
LevelTeam == 2
LevelBranch == 3
LevelCompany == 4
LevelGlobal == 5
Roles == {"gm", "finance", "agent", "admin", "manager", "employee", "operations"}
NoBranch == 0

-----------------------------------------------------------------------------
(* rbac.go and scope.go.                                                   *)
CanonicalRole(r) == IF r \in {"manager", "employee", "operations"} THEN "agent" ELSE r
ScopeLevelFor(r) == CASE CanonicalRole(r) = "gm" -> LevelCompany [] CanonicalRole(r) = "admin" -> LevelGlobal
                      [] CanonicalRole(r) = "finance" -> LevelBranch [] CanonicalRole(r) = "agent" -> LevelOwn
PermissionsFor(r) ==
    CASE CanonicalRole(r) = "gm"      -> {"users.write", "reports.read", "leads.write", "payments.write"}
      [] CanonicalRole(r) = "admin"   -> {"users.write", "companies.manage"}
      [] CanonicalRole(r) = "agent"   -> {"reports.read", "leads.write"}
      [] CanonicalRole(r) = "finance" -> {"reports.read", "payments.write"}
Permissions == {"users.write", "reports.read", "leads.write", "payments.write", "companies.manage"}

(* plan.go: an unknown plan counts as the smallest.                        *)
Allows(plan, p) ==
    p # "companies.manage" /\ (plan = "ultimate" \/ p \in {"users.write", "leads.write"}
                               \/ (plan = "premium" /\ p \in {"reports.read", "payments.write"}))
EffectiveHas(r, plan, p) == p \in PermissionsFor(r) /\ (CanonicalRole(r) # "admin" => Allows(plan, p))

(* domain/access/scope.go.  A scope: level, user, team, branch, the        *)
(* branches of its company.                                                *)
InCompany(s, b) == b \in s.branches
CanAccess(s, r) ==
    CASE s.level = LevelGlobal  -> TRUE
      [] s.level = LevelCompany -> InCompany(s, r.branch)
      [] s.level = LevelBranch  -> r.branch = s.branch
      [] s.level = LevelTeam    -> r.branch = s.branch /\ (r.owner = NoRow \/ r.owner = s.user \/ r.team = s.team)
      [] s.level = LevelOwn     -> r.branch = s.branch /\ r.owner = s.user
      [] OTHER                  -> FALSE
CanAccessBranch(s, b) ==
    CASE s.level = LevelGlobal -> TRUE [] s.level = LevelCompany -> InCompany(s, b)
      [] OTHER -> s.level > LevelNone /\ b = s.branch
CanAccessCompany(s, c) == s.level = LevelGlobal \/ (s.level > LevelNone /\ c # {} /\ s.branches = c)

(* ResolveBranch and WriteBranch: {} is a refusal, {0} is every branch.    *)
ResolveBranch(s, requested) ==
    CASE s.level = LevelNone    -> {}
      [] s.level = LevelGlobal  -> {requested}
      [] s.level = LevelCompany -> LET b == IF requested # NoBranch THEN requested ELSE s.branch
                                   IN  IF InCompany(s, b) THEN {b} ELSE {}
      [] OTHER -> IF requested \notin {NoBranch, s.branch} THEN {} ELSE {s.branch}
WriteBranch(s, requested) ==
    {IF b # NoBranch THEN b ELSE s.branch : b \in ResolveBranch(s, requested)} \ {NoBranch}
ResolveOwner(s, requested) ==
    LET o == IF requested = NoRow THEN s.user ELSE requested
    IN  IF s.level = LevelNone \/ (s.level = LevelOwn /\ o # s.user) THEN {} ELSE {o}

(* pgscope: the rows a list returns, and the branch an insert may name.    *)
OrUnassigned(lenient, r, pred) == pred \/ (lenient /\ r.owner = NoRow)
Listed(s, r, lenient) ==
    /\ s.level > LevelNone
    /\ s.level \in {LevelOwn, LevelTeam, LevelBranch} => r.branch = s.branch
    /\ s.level = LevelCompany => r.branch \in s.branches
    /\ s.level = LevelOwn => OrUnassigned(lenient, r, r.owner = s.user)
    /\ s.level = LevelTeam => OrUnassigned(lenient, r, r.owner # NoRow /\ (r.owner = s.user \/ r.team = s.team))
EnsureBranch(s, b) == CanAccessBranch(s, b)

(* The gate: Authenticate, Tenancy and RequirePermission, in this order.   *)
Authenticate(q) == IF ~q.token THEN "unauthorized" ELSE IF q.session = "ok" THEN "pass" ELSE q.session
GateTenancy(q) ==
    IF q.branch = NoBranch THEN IF ScopeLevelFor(q.role) = LevelGlobal THEN "pass" ELSE "not linked"
    ELSE IF q.workspace = "none" THEN "not linked"
    ELSE IF q.workspace = "suspended" /\ ScopeLevelFor(q.role) # LevelGlobal THEN "suspended"
    ELSE IF ScopeLevelFor(q.role) = LevelCompany /\ q.header # NoBranch /\ q.header \notin q.branches THEN "outside"
    ELSE "pass"
GateBranch(q) == IF ScopeLevelFor(q.role) = LevelCompany /\ q.header # NoBranch THEN q.header ELSE q.branch
RequirePermission(q) == IF EffectiveHas(q.role, q.plan, q.perm) THEN "pass" ELSE "missing permission"
Gate(q) == IF Authenticate(q) # "pass" THEN Authenticate(q)
           ELSE IF GateTenancy(q) # "pass" THEN GateTenancy(q) ELSE RequirePermission(q)

(* useradmin: where a caller may place an account.                         *)
PlatformOperator(s) == s.level = LevelGlobal /\ s.branches = {}
CheckPlacement(s, role, b) ==
    IF role = "admin" THEN s.level = LevelGlobal /\ b = NoBranch
    ELSE b # NoBranch /\ CanAccessBranch(s, b) /\ (role = "gm" => s.level >= LevelCompany)
CheckSelfEdit(s, id, active, role, was) == id = s.user => active /\ role = was
CreateAllowed(s, role, b) == (PlatformOperator(s) => role = "gm") /\ CheckPlacement(s, role, b)
VisibleUser(s, u) == CanAccessBranch(s, u.branch) /\ (PlatformOperator(s) => u.role = "gm")
UpdateAllowed(s, u, role, b) ==
    /\ VisibleUser(s, u)
    /\ u.role = "admin" => s.level = LevelGlobal
    /\ CheckSelfEdit(s, u.id, TRUE, role, u.role)
    /\ role # u.role => (PlatformOperator(s) => role = "gm")
    /\ (role # u.role \/ b # u.branch) => CheckPlacement(s, role, IF role = "admin" THEN NoBranch ELSE b)

(* term.go: a year, expiring in its last thirty days.                      *)
TermAt(start, now) ==
    LET end == start + 365 IN IF now >= end THEN "expired" ELSE IF end - now <= 30 THEN "expiring" ELSE "active"

(* signer.go: a token names its key; only the algorithm of that key passes.*)
KeyFor(kid, alg, keys) == IF kid \in DOMAIN keys THEN keys[kid] = alg ELSE FALSE
VerifyToken(t, keys, now, leeway) ==
    KeyFor(t.kid, t.alg, keys) /\ t.iss /\ t.aud /\ now < t.exp + leeway /\ t.iat <= now + leeway

(* merge.go: an enabled override replaces the delay, and the roles if it   *)
(* names any; a disabled one hides the rule.                               *)
MergeEscalation(defaults, overlays) ==
    [k \in {x \in DOMAIN defaults : x \in DOMAIN overlays => overlays[x].enabled} |->
        IF k \notin DOMAIN overlays THEN defaults[k]
        ELSE [after |-> overlays[k].after,
              roles |-> IF overlays[k].roles = {} THEN defaults[k].roles ELSE overlays[k].roles]]

(* AlertThresholds.Normalize: zeros of the SLA take the defaults; what     *)
(* remains must warn before it breaches.                                   *)
SLADefaults(t) == IF t.warn = 0 /\ t.breach = 0 THEN [warn |-> 75, breach |-> 100] ELSE t
NormalizeThresholds(t) ==
    LET n == SLADefaults(t)
    IN  {x \in {n} : x.warn \in 10 .. 100 /\ x.breach \in 50 .. 300 /\ x.warn < x.breach}

(* The note thread of a task is between its assignee and its creator; a    *)
(* task without a creator or assigned to its own has no counterpart, and a *)
(* closed one is read-only.                                                *)
NoteAccessFor(t, u) ==
    LET alone == t.creator \in {NoRow, t.assignee}
        part == u # NoRow /\ u \in {t.creator, t.assignee}
    IN  [read |-> part, post |-> part /\ ~alone /\ ~t.closed,
         to |-> IF ~part \/ alone THEN NoRow ELSE IF u = t.assignee THEN t.creator ELSE t.assignee]
NewNote(t, u) == IF NoteAccessFor(t, u).post THEN {[author |-> u, to |-> NoteAccessFor(t, u).to]} ELSE {}
(* What a reader is shown of the notes.                                    *)
NotesShown(t, u, notes) == IF NoteAccessFor(t, u).read THEN notes ELSE {}

-----------------------------------------------------------------------------
AccessInit == asked = Free /\ reasons = [c \in {"a", "b", "c"} |-> NoRow]

Scopes == [level : LevelNone .. LevelGlobal, user : {"me"}, team : {"mine"}, branch : ScopeBranches \cup {NoBranch},
           branches : SUBSET ScopeBranches]
Owners == {<<NoRow, NoRow>>, <<"me", "mine">>, <<"me", "other">>, <<"you", "mine">>, <<"you", "other">>}
Answer(a) == asked' = a

AskScope(s, b, o, requested) ==
    LET r == [branch |-> b, owner |-> o[1], team |-> o[2]]
    IN  Answer([op |-> "scope", s |-> s, r |-> r, access |-> CanAccess(s, r), branch |-> CanAccessBranch(s, b),
                strict |-> Listed(s, r, FALSE), lenient |-> Listed(s, r, TRUE),
                read |-> ResolveBranch(s, requested), write |-> WriteBranch(s, requested), owner |-> ResolveOwner(s, o[1])])

AskGate(q) == Answer([op |-> "gate", q |-> q, answer |-> Gate(q), branch |-> GateBranch(q)])

(* The caller's scope is the one its role gives; users.write is needed.    *)
CallerScope(role, b, cs) ==
    [level |-> ScopeLevelFor(role), user |-> "me", team |-> "mine", branch |-> b, branches |-> cs]
AskPlacement(role, b, cs, u, newRole, newBranch) ==
    /\ "users.write" \in PermissionsFor(role)
    /\ ScopeLevelFor(role) = LevelCompany => b \in cs
    /\ LET s == CallerScope(role, b, cs)
       IN  Answer([op |-> "placement", s |-> s, u |-> u, role |-> newRole, branch |-> newBranch,
                   create |-> CreateAllowed(s, newRole, newBranch), update |-> UpdateAllowed(s, u, newRole, newBranch)])

AskSettings(t, defaults, overlays) ==
    Answer([op |-> "settings", t |-> t, saved |-> NormalizeThresholds(t), defaults |-> defaults, overlays |-> overlays,
            rules |-> MergeEscalation(defaults, overlays)])

(* A note by one user, and what another is shown after the assignee may    *)
(* have changed.                                                           *)
AskNotes(t, u, now, reader) ==
    Answer([op |-> "notes", t |-> t, now |-> now, reader |-> reader, sent |-> NewNote(t, u),
            shown |-> NotesShown(now, reader, NewNote(t, u))])

AskToken(t, keys, now) == Answer([op |-> "token", t |-> t, keys |-> keys, now |-> now, ok |-> VerifyToken(t, keys, now, 1),
                                  term |-> TermAt(0, 365 * now)])

(* The reasons of a branch: UpsertLostReason is keyed by the code, so an   *)
(* edit that renames a reason to a new code fails on its id, and one that  *)
(* renames it to another's code rewrites that other one.                   *)
CreateLostReason(code, id) ==
    /\ \A c \in DOMAIN reasons : reasons[c] # id
    /\ reasons' = [reasons EXCEPT ![code] = IF @ = NoRow THEN id ELSE @]
    /\ UNCHANGED asked
UpdateLostReason(from, code) ==
    /\ reasons[from] # NoRow
    /\ code # from => reasons[code] # NoRow
    /\ UNCHANGED accessVars
DeleteLostReason(code) ==
    /\ reasons[code] # NoRow
    /\ reasons' = [reasons EXCEPT ![code] = NoRow]
    /\ UNCHANGED asked

AccessNext ==
    /\ asked = Free
    /\ \/ \E s \in Scopes, b \in ScopeBranches, o \in Owners, q \in ScopeBranches \cup {NoBranch} : AskScope(s, b, o, q)
       \/ \E tok \in BOOLEAN, ses \in {"ok", "stale"}, role \in {"gm", "finance", "admin"}, b \in {NoBranch, 1},
             ws \in {"none", "suspended", "ok"}, h \in {NoBranch, 1, 2}, plan \in {"standard", "premium", "ultimate"}, p \in Permissions :
           AskGate([token |-> tok, session |-> ses, role |-> role, branch |-> b, workspace |-> ws, header |-> h,
                    branches |-> {1}, plan |-> plan, perm |-> p])
       \/ \E role \in {"gm", "admin", "finance"}, b \in ScopeBranches \cup {NoBranch}, cs \in SUBSET ScopeBranches, id \in {"me", "you"},
             was, is \in {"gm", "finance", "agent", "admin"}, ub, nb \in ScopeBranches \cup {NoBranch} :
           AskPlacement(role, b, cs, [id |-> id, role |-> was, branch |-> ub], is, nb)
       \/ \E c, u, r \in {NoRow, "me", "you", "they"}, a, b \in {"me", "you", "they"}, closed \in BOOLEAN :
           AskNotes([creator |-> c, assignee |-> a, closed |-> closed], u, [creator |-> c, assignee |-> b, closed |-> closed], r)
       \/ \E w \in {0, 9, 75, 100}, br \in {0, 75, 100}, o \in {[x \in {} |-> 0]} \cup [{"k"} -> [enabled : BOOLEAN, after : {0, 5}, roles : {{}, {"r"}}]] :
           AskSettings([warn |-> w, breach |-> br], [k |-> [after |-> 9, roles |-> {"d"}], l |-> [after |-> 9, roles |-> {"d"}]], o)
       \/ \E kid \in {"new", "old", "gone"}, alg \in {"HS256", "none"}, iss, aud \in BOOLEAN, exp, iat, now \in 0 .. 2 :
           AskToken([kid |-> kid, alg |-> alg, iss |-> iss, aud |-> aud, exp |-> exp, iat |-> iat],
                    [new |-> "HS256", old |-> "HS256"], now)
    /\ UNCHANGED reasons

ReasonNext ==
    \/ \E c \in DOMAIN reasons, i \in {1, 2} : CreateLostReason(c, i)
    \/ \E c, d \in DOMAIN reasons : UpdateLostReason(c, d)
    \/ \E c \in DOMAIN reasons : DeleteLostReason(c)
-----------------------------------------------------------------------------
ASSUME AccessAssumption == NoRow \notin {"me", "you", "they"}

AccessTypeOK == asked.op \in {"free", "scope", "gate", "placement", "settings", "notes", "token"}

(* Lists and single reads agree: a row a list returns is one the scope may *)
(* open, and a row it may open is on the list that shows unassigned rows;  *)
(* neither leaves the branches of the scope (pgscope.Append, CanAccess).   *)
ListsMatchReads ==
    asked.op = "scope" =>
        /\ asked.strict => asked.access
        /\ asked.access => asked.lenient
        /\ (asked.lenient \/ asked.access) => asked.branch

(* What a write is told to use may be used: the branch WriteBranch names   *)
(* passes EnsureBranch, for every scope with a home branch in its company, *)
(* and an agent writes in no name but its own (WriteBranch, ResolveOwner). *)
WritesStayInside ==
    asked.op = "scope" =>
        /\ \A b \in asked.write : EnsureBranch(asked.s, b)
        /\ asked.s.level = LevelOwn => asked.owner \subseteq {asked.s.user}

(* Nobody hands out more than they have: a caller who may manage users     *)
(* never creates or turns an account into one with a wider scope than its  *)
(* own, nor moves one where it could not see it any more                   *)
(* (checkPlacement, Create, Update).                                       *)
NoEscalation ==
    asked.op = "placement" =>
        /\ asked.create => ScopeLevelFor(asked.role) <= asked.s.level /\ VisibleUser(asked.s, [branch |-> asked.branch, role |-> asked.role])
        /\ (asked.update /\ asked.role # asked.u.role) => ScopeLevelFor(asked.role) <= asked.s.level
        /\ (asked.update /\ asked.u.id = asked.s.user) => asked.role = asked.u.role

(* A handler runs only for a live session of an account whose company is   *)
(* not suspended, on a branch of that company, with a permission both role *)
(* and plan grant (Authenticate, Tenancy, RequirePermission).              *)
GateHolds ==
    (asked.op = "gate" /\ asked.answer = "pass") =>
        /\ asked.q.token /\ asked.q.session = "ok"
        /\ asked.q.perm \in PermissionsFor(asked.q.role)
        /\ asked.q.role # "admin" => /\ asked.branch \in asked.q.branches /\ asked.q.workspace = "ok"
                                     /\ Allows(asked.q.plan, asked.q.perm)

(* Saved thresholds warn before they breach; an override never invents a   *)
(* rule and never leaves one without roles (Normalize, MergeEscalation).   *)
SettingsHold ==
    asked.op = "settings" =>
        /\ \A x \in asked.saved : x.warn < x.breach
        /\ DOMAIN asked.rules \subseteq DOMAIN asked.defaults
        /\ \A k \in DOMAIN asked.rules : asked.rules[k].roles # {}

(* A note is a talk of two: whoever it goes to may answer it, and the      *)
(* answer comes back to its author; nobody outside the task as it stands   *)
(* now is shown one, not even its recipient after a reassignment           *)
(* (NoteAccessFor, Notes).                                                 *)
NotesBetweenTwo ==
    asked.op = "notes" =>
        /\ \A n \in asked.sent : NewNote(asked.t, n.to) = {[author |-> n.to, to |-> n.author]}
        /\ asked.shown # {} => asked.reader \in {asked.now.creator, asked.now.assignee} \ {NoRow}

(* The lost reasons of a branch have distinct codes and distinct ids.      *)
ReasonsDistinct == \A c, d \in DOMAIN reasons : (c # d /\ reasons[c] # NoRow) => reasons[c] # reasons[d]
=============================================================================
