------------------------------ MODULE Tenancy -------------------------------
(***************************************************************************)
(* The company a request works for: its row, its branches, the plan that   *)
(* limits it, the cache that every request resolves it through, its set-up *)
(* wizard and its requests for a larger plan.                              *)
(* Modelled code: src/internal/app/company, app/setup, app/planlimit,      *)
(* app/planupgrade, src/internal/domain/company, domain/setup, their       *)
(* repositories, and the Tenancy middleware of                             *)
(* src/internal/adapter/http/middleware/workspace.go.                      *)
(*                                                                         *)
(* One company.  Branch changes run under the company's advisory lock; the *)
(* platform's own edits of the row do not, and drop the cache before they  *)
(* commit.  Names, addresses and logos are left out.                       *)
(***************************************************************************)
EXTENDS Rows

CONSTANTS
    BranchIds,
    CapOf,             \* plan rank (1, 2, 3) -> branches and users it allows; 0 is no limit
    WorkspaceTTL,      \* ticks an entry of the workspace cache lives
    LastWsTick,        \* bound: the clock
    MaxStaff,          \* bound: users
    MaxWsEdits         \* bound: changes of the company

ASSUME TenancyAssumption ==
    /\ WorkspaceTTL \in Nat /\ LastWsTick \in Nat /\ MaxWsEdits \in Nat /\ MaxStaff \in Nat
    /\ CapOf \in [1 .. 3 -> Nat] /\ IsFiniteSet(Desks) /\ Desks # {}
    /\ BranchIds \subseteq Nat /\ IsFiniteSet(BranchIds) /\ BranchIds # {}
    /\ NoRow \notin {"main_center", "branch"}

VARIABLES
    company,           \* plan, is_active, whether the slug is retired, version of the row
    branches,          \* id -> kind
    staff,             \* user accounts of the company
    wcache,            \* the entry of the workspace cache
    companyLock,       \* who holds pg_advisory_xact_lock('company:...')
    tickets,           \* open upgrade requests, by target plan
    setup,             \* the company_setup row and the facts it is judged by
    wsTime, wsDesk,
    changedAt,         \* history: when company or branches last changed
    roomiest           \* history: the largest cap the company ever had

tenantVars == <<company, branches, staff, wcache, companyLock, tickets, wsTime, wsDesk, changedAt, roomiest>>
tenancyVars == <<company, branches, staff, wcache, companyLock, tickets, setup, wsTime, wsDesk, changedAt, roomiest>>

Plans == 1 .. 3
Nobody == [op |-> "nobody"]
Unlimited == Cardinality(BranchIds) + MaxStaff + 1     \* more than the bounds let in

(* plan.go.                                                                *)
Cap(plan) == IF CapOf[plan] = 0 THEN Unlimited ELSE CapOf[plan]
Refuse(plan, used) == used >= Cap(plan)
NextPlan(plan) == IF plan < 3 THEN {plan + 1} ELSE {}
CanUpgradeTo(from, to) == to \in Plans /\ to > from

(* WorkspaceOf: nothing for a deleted company.                             *)
Workspace == [version |-> company.version, ids |-> Present(branches), plan |-> company.plan]
CountUsage == Cardinality(Present(branches))

Work1(d, j) == wsDesk' = [wsDesk EXCEPT ![d] = j]
Changed == changedAt' = wsTime
Bump(c) == [c EXCEPT !.version = @ + 1]

-----------------------------------------------------------------------------
(* Register: the company, its main center and its GM in one transaction.   *)
TenancyInit ==
    /\ \E p \in Plans : company = [plan |-> p, active |-> TRUE, retired |-> FALSE, version |-> 0]
    /\ branches = [b \in BranchIds |-> IF \A x \in BranchIds : b <= x THEN "main_center" ELSE NoRow]
    /\ staff = 1 /\ wcache = NoRow /\ companyLock = Nobody /\ tickets = {}
    /\ setup = [company |-> FALSE, staffed |-> FALSE, aiSkipped |-> FALSE, channelsSkipped |-> FALSE,
                dismissed |-> FALSE, completed |-> FALSE, ai |-> FALSE, channels |-> FALSE]
    /\ wsTime = 0 /\ wsDesk = [d \in Desks |-> Free] /\ changedAt = 0 /\ roomiest = Cap(company.plan)

(* Workspace: a live entry is served; otherwise the rows are read and put  *)
(* with the expiry of the moment the request began.                        *)
LoadWorkspace(d) ==
    /\ wsDesk[d] = Free /\ company.active
    /\ (wcache # NoRow => wsTime >= wcache.expires)
    /\ Work1(d, [op |-> "load", ws |-> Workspace, expires |-> wsTime + WorkspaceTTL])
    /\ UNCHANGED <<company, branches, staff, wcache, companyLock, tickets, wsTime, changedAt, roomiest>>
PutExpiry(j) == j.expires
PutWorkspace(d) ==
    /\ wsDesk[d].op = "load"
    /\ wcache' = [ws |-> wsDesk[d].ws, expires |-> PutExpiry(wsDesk[d])]
    /\ Work1(d, Free)
    /\ UNCHANGED <<company, branches, staff, companyLock, tickets, wsTime, changedAt, roomiest>>

(* What Tenancy lets a GM work on: a branch of the entry, a live entry.    *)
Served == IF wcache = NoRow THEN {} ELSE IF wsTime < wcache.expires THEN wcache.ws.ids ELSE {}

(* SaveCompany, UpdatePlan and Delete of the platform: the row is read and *)
(* judged, then inside the transaction, Delete's under the company's lock, *)
(* the cache is dropped...                                                 *)
StartsEdit(d, op, plan) ==
    /\ wsDesk[d] = Free /\ company.active /\ company.version < MaxWsEdits
    /\ wcache' = NoRow
    /\ Work1(d, [op |-> op, plan |-> plan])
    /\ UNCHANGED <<company, branches, staff, tickets, wsTime, changedAt, roomiest>>
EditCompany(d, op, plan) == StartsEdit(d, op, plan) /\ UNCHANGED companyLock
DeleteTenant(d) ==
    /\ companyLock = Nobody
    /\ companyLock' = [op |-> "held", by |-> d]
    /\ StartsEdit(d, "delete", 1)

(* ...and then it commits.  Delete retires the slug; SaveCompany writes    *)
(* back the slug it read.                                                  *)
DeleteCompany == [company EXCEPT !.active = FALSE, !.retired = TRUE]
Written(j) ==
    IF j.op = "save" THEN [company EXCEPT !.retired = FALSE]
    ELSE IF j.op = "plan" THEN [company EXCEPT !.plan = j.plan]
    ELSE DeleteCompany
CommitCompany(d) ==
    /\ wsDesk[d].op \in {"save", "plan", "delete"}
    /\ company' = IF wsDesk[d].op = "delete" /\ ~company.active THEN company ELSE Bump(Written(wsDesk[d]))
    /\ Changed
    /\ companyLock' = IF wsDesk[d].op = "delete" THEN Nobody ELSE companyLock
    /\ roomiest' = IF wsDesk[d].op = "plan" /\ Cap(wsDesk[d].plan) > roomiest THEN Cap(wsDesk[d].plan) ELSE roomiest
    /\ Work1(d, Free)
    /\ UNCHANGED <<branches, staff, wcache, tickets, wsTime>>

(* CreateBranch: under the company's lock the plan and the usage are read, *)
(* and a new main center demotes the old one...                            *)
CreateBranchBegins(d, kind) ==
    /\ wsDesk[d] = Free /\ companyLock = Nobody /\ company.version < MaxWsEdits
    /\ ~Refuse(company.plan, CountUsage)
    /\ companyLock' = [op |-> "held", by |-> d]
    /\ Work1(d, [op |-> "branch", kind |-> kind])
    /\ UNCHANGED <<company, branches, staff, wcache, tickets, wsTime, changedAt, roomiest>>
DemoteNobody(rows, keep) == rows     \* a promotion that leaves the old main center
DemoteMainCenter(rows, keep) == [b \in BranchIds |-> IF b # keep /\ rows[b] = "main_center" THEN "branch" ELSE rows[b]]
CreateBranch(d) ==
    /\ wsDesk[d].op = "branch"
    /\ \E b \in Fresh(branches) :
        branches' = [(IF wsDesk[d].kind = "main_center" THEN DemoteMainCenter(branches, b) ELSE branches)
                        EXCEPT ![b] = wsDesk[d].kind]
    /\ company' = Bump(company) /\ Changed
    /\ companyLock' = Nobody
    /\ Work1(d, [op |-> "invalidate"])
    /\ UNCHANGED <<staff, wcache, tickets, wsTime, roomiest>>

(* UpdateBranch, also under the lock: the main center is not demoted, a    *)
(* branch may be promoted in its place.                                    *)
UpdateBranch(d, b, kind) ==
    /\ wsDesk[d] = Free /\ companyLock = Nobody /\ company.version < MaxWsEdits
    /\ branches[b] # NoRow
    /\ branches[b] = "main_center" => kind = "main_center"
    /\ branches' = [(IF kind = "main_center" THEN DemoteMainCenter(branches, b) ELSE branches) EXCEPT ![b] = kind]
    /\ company' = Bump(company) /\ Changed
    /\ Work1(d, [op |-> "invalidate"])
    /\ UNCHANGED <<staff, wcache, companyLock, tickets, wsTime, roomiest>>

(* Both drop the cache once they have committed.                           *)
InvalidateWorkspace(d) ==
    /\ wsDesk[d].op = "invalidate"
    /\ wcache' = NoRow
    /\ Work1(d, Free)
    /\ UNCHANGED <<company, branches, staff, companyLock, tickets, wsTime, changedAt, roomiest>>

(* A user is created: the guard counts without a lock, the row comes later.*)
GuardUsers(d) ==
    /\ wsDesk[d] = Free /\ ~Refuse(company.plan, staff)
    /\ staff < MaxStaff
    /\ Work1(d, [op |-> "user"])
    /\ UNCHANGED <<company, branches, staff, wcache, companyLock, tickets, wsTime, changedAt, roomiest>>
CreateUser(d) ==
    /\ wsDesk[d].op = "user"
    /\ staff' = staff + 1
    /\ Work1(d, Free)
    /\ UNCHANGED <<company, branches, wcache, companyLock, tickets, wsTime, changedAt, roomiest>>

(* planupgrade.Request: one open ticket per target, unless two overlap.    *)
RequestUpgrade(d, to) ==
    /\ wsDesk[d] = Free /\ CanUpgradeTo(company.plan, to) /\ to \notin tickets
    /\ Work1(d, [op |-> "upgrade", to |-> to])
    /\ UNCHANGED <<company, branches, staff, wcache, companyLock, tickets, wsTime, changedAt, roomiest>>
SubmitUpgrade(d) ==
    /\ wsDesk[d].op = "upgrade"
    /\ tickets' = tickets \cup {wsDesk[d].to}
    /\ Work1(d, Free)
    /\ UNCHANGED <<company, branches, staff, wcache, companyLock, wsTime, changedAt, roomiest>>

(* The process dies: the transaction rolls back and its lock is released.  *)
WorkspaceCrash(d) ==
    /\ wsDesk[d] # Free
    /\ Work1(d, Free)
    /\ wcache' = NoRow
    /\ companyLock' = IF companyLock # Nobody THEN IF companyLock.by = d THEN Nobody ELSE companyLock ELSE companyLock
    /\ UNCHANGED <<company, branches, staff, tickets, wsTime, changedAt, roomiest>>

WorkspaceTick ==
    /\ wsTime < LastWsTick
    /\ wsTime' = wsTime + 1
    /\ UNCHANGED <<company, branches, staff, wcache, companyLock, tickets, wsDesk, changedAt, roomiest>>

TenantNext ==
    /\ \/ \E d \in Desks :
            \/ LoadWorkspace(d) \/ PutWorkspace(d) \/ CommitCompany(d) \/ CreateBranch(d) \/ InvalidateWorkspace(d)
            \/ WorkspaceCrash(d)
            \/ EditCompany(d, "save", 1) \/ DeleteTenant(d)
            \/ \E p \in Plans : EditCompany(d, "plan", p)
            \/ \E k \in {"main_center", "branch"} : CreateBranchBegins(d, k) \/ \E b \in BranchIds : UpdateBranch(d, b, k)
       \/ WorkspaceTick
    /\ UNCHANGED setup

PlanNext ==
    /\ \E d \in Desks :
        \/ GuardUsers(d) \/ CreateUser(d) \/ SubmitUpgrade(d) \/ CommitCompany(d)
        \/ \E p \in Plans : EditCompany(d, "plan", p)
        \/ \E p \in NextPlan(company.plan) \cup {3} : RequestUpgrade(d, p)
    /\ UNCHANGED setup

-----------------------------------------------------------------------------
(* domain/setup: the status of a step.                                     *)
StepStatus(s, step) ==
    LET of(done, skipped) == IF done THEN "done" ELSE IF skipped THEN "skipped" ELSE "pending"
    IN  CASE step = "company"  -> of(s.company, FALSE)
          [] step = "staff"    -> of(s.staffed, FALSE)
          [] step = "ai"       -> of(s.ai, s.aiSkipped)
          [] step = "channels" -> of(s.channels, s.channelsSkipped)
SetupSteps == {"company", "staff", "ai", "channels"}
Required(s) == ~s.completed /\ ~s.dismissed

(* mutate runs every change under the set-up lock, on the state and the    *)
(* facts it reads there.                                                   *)
SaveProfile == setup' = [setup EXCEPT !.company = TRUE]
Advance(step, skip) ==
    /\ step = "company" => setup.company
    /\ (step = "ai" /\ ~setup.ai) => skip
    /\ (step = "channels" /\ ~setup.channels) => skip
    /\ setup' = [setup EXCEPT !.staffed = @ \/ step = "staff",
                              !.aiSkipped = @ \/ (step = "ai" /\ ~setup.ai),
                              !.channelsSkipped = @ \/ (step = "channels" /\ ~setup.channels)]
Complete ==
    /\ setup.company /\ ~setup.completed
    /\ setup' = [setup EXCEPT !.staffed = TRUE, !.aiSkipped = @ \/ ~setup.ai,
                              !.channelsSkipped = @ \/ ~setup.channels, !.completed = TRUE]
Dismiss == setup' = [setup EXCEPT !.dismissed = @ \/ ~setup.completed]
FactsChange == \E a, c \in BOOLEAN : setup' = [setup EXCEPT !.ai = a, !.channels = c]

SetupNext ==
    /\ \/ SaveProfile \/ Complete \/ Dismiss \/ FactsChange
       \/ \E step \in SetupSteps, skip \in BOOLEAN : Advance(step, skip)
    /\ UNCHANGED tenantVars
-----------------------------------------------------------------------------
TenancyTypeOK ==
    /\ company.plan \in Plans /\ \A b \in BranchIds : branches[b] \in {NoRow, "main_center", "branch"}
    /\ wcache # NoRow => wcache.ws.ids \subseteq BranchIds
    /\ setup.completed \in BOOLEAN /\ tickets \subseteq Plans

(* A company always has exactly one main center (CreateBranch,             *)
(* UpdateBranch, DemoteMainCenter).                                        *)
OneMainCenter == Cardinality({b \in BranchIds : branches[b] = "main_center"}) = 1

(* Branches never outgrow the roomiest plan the company had: the lock is   *)
(* held from the count to the insert.  Users are counted without one, and  *)
(* may pass it by the requests that overlapped (CreateBranch, Guard).      *)
WithinPlan ==
    /\ CountUsage <= roomiest
    /\ staff < roomiest + Cardinality(Desks)

(* A request is served a workspace that has changed for at most the time   *)
(* to live of the cache, a deleted company included (WorkspaceCache).      *)
WorkspaceFresh ==
    wcache # NoRow =>
        (wsTime < wcache.expires /\ wcache.ws.version # company.version => wsTime <= changedAt + WorkspaceTTL)

(* Once completed, the wizard has a saved profile and staff, asks for      *)
(* nothing more, and is never required again (Complete, Evaluate).         *)
SetupFinished ==
    [][setup.completed => /\ setup'.completed /\ ~Required(setup')
                          /\ \A step \in {"company", "staff"} : StepStatus(setup', step) = "done"]_setup
=============================================================================
