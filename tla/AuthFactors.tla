---------------------------- MODULE AuthFactors -----------------------------
(***************************************************************************)
(* Proving who signs in: password, lockout, and the second factor (TOTP    *)
(* and recovery codes) with its enrolment.                                 *)
(* Modelled code: src/internal/app/auth (service.go, mfa.go, lockout.go),  *)
(* src/internal/domain/authsec, src/internal/domain/totp, the users and    *)
(* mfa tables in src/internal/adapter/postgres/identity, and the user      *)
(* edits of app/useradmin and app/profile that write mfa_enabled back.     *)
(* What a session does after it is open is module Sessions.                *)
(*                                                                         *)
(* One user.  A request reads the security columns of the row, decides,    *)
(* and writes with statements of its own; only the activation of a secret  *)
(* runs in a transaction.  A code is named by the step it is valid for; a  *)
(* tick is one step, and the failure window is Window ticks.               *)
(***************************************************************************)
EXTENDS Rows

CONSTANTS
    MaxFailures,       \* failures that lock the account
    Window,            \* ticks a failure counts
    BaseLock, MaxLock, \* ticks of the first and of the longest lock
    ChallengeTTL,      \* ticks a challenge lives
    ChallengeTries,    \* guesses per challenge
    ChallengeIds,
    LastAuthTick,      \* bound: the clock
    MaxSecrets,        \* bound: TOTP secrets generated
    MaxCrashes         \* bound: requests that die

ASSUME FactorAssumption ==
    /\ MaxFailures \in Nat \ {0} /\ BaseLock \in Nat \ {0} /\ MaxLock \in Nat /\ MaxLock >= BaseLock
    /\ {Window, ChallengeTTL, ChallengeTries, MaxCrashes} \subseteq Nat
    /\ LastAuthTick \in Nat \ {0} /\ MaxSecrets \in Nat \ {0}
    /\ IsFiniteSet(Desks) /\ NoRow \notin Int

VARIABLES
    acct,              \* the security columns of the users row
    unusedCodes,       \* mfa_recovery_codes without used_at, by generation
    challenges,        \* mfa_challenges
    hits,              \* the failures of the e-mail in the rate limiter
    secretSeq,         \* secrets and code generations handed out
    atime,
    adesk,
    spent,             \* history: the factors accepted since the last (de)activation
    spentTwice,             \* history: one of them was accepted again
    guesses,           \* history: wrong answers since the counters were last cleared
    crashes,
    bare               \* history: a session was bare by the password alone though MFA was on or demanded

authVars == <<acct, unusedCodes, challenges, hits, secretSeq, atime, adesk, spent, spentTwice, guesses, crashes, bare>>
factorRows == <<unusedCodes, secretSeq, spent, spentTwice>>

MinA(a, b) == IF a < b THEN a ELSE b
MaxA(a, b) == IF a > b THEN a ELSE b
NoSecret == 0
LastSkew == 1
Steps == 1 .. LastAuthTick + LastSkew

-----------------------------------------------------------------------------
(* The policies of domain/authsec and domain/totp.                         *)
ShouldLock(failures) == failures >= MaxFailures
LockDuration(prior) == MinA(MaxLock, BaseLock * 2 ^ MinA(prior, MaxLock))
Locked(st) == st.until > atime
Verify(step, lastStep) == step \in atime - LastSkew .. atime + LastSkew /\ step > lastStep
MFAOn(st) == st.mfa /\ st.secret # NoSecret

(* The statements of the repository.                                       *)
ClearedCounters(a) == [a EXCEPT !.failed = 0, !.lockouts = 0, !.until = 0, !.lastFailed = NoRow]
RegisterLoginFailure(a) ==
    [a EXCEPT !.failed = IF a.lastFailed # NoRow THEN IF a.lastFailed < atime - Window THEN 1 ELSE @ + 1 ELSE 1,
              !.lastFailed = atime]
LockUser(a, until) == [a EXCEPT !.until = until, !.lockouts = MinA(@ + 1, MaxLock), !.failed = 0]
ActivateMFA(a, secret, step) == [a EXCEPT !.mfa = TRUE, !.secret = secret, !.pending = NoSecret, !.lastStep = step]
DeactivateMFA(a) == [a EXCEPT !.mfa = FALSE, !.secret = NoSecret, !.pending = NoSecret, !.lastStep = 0]

(* The limiter keeps the instants of the failures.                         *)
InWindow(h) == Cardinality({i \in DOMAIN h : h[i] > atime - Window})
Hit(h) == [i \in 1 .. MinA(Cardinality(DOMAIN h) + 1, MaxFailures) |-> IF i = 1 THEN atime ELSE h[i - 1]]
NoHits == [i \in {} |-> 0]

Work(d, j) == adesk' = [adesk EXCEPT ![d] = j]
Done(d) == Work(d, Free)

(* Spending a factor: AdvanceMFAStep and ConsumeRecoveryCode succeed only  *)
(* once per row version.                                                   *)
Spend(f) == spent' = spent \cup {f} /\ spentTwice' = (spentTwice \/ f \in spent)
NewEra == spent' = {} /\ UNCHANGED spentTwice

-----------------------------------------------------------------------------
AuthInit ==
    /\ \E on \in BOOLEAN, req \in BOOLEAN :
        acct = [mfa |-> on, secret |-> IF on THEN 1 ELSE NoSecret, pending |-> NoSecret, lastStep |-> 0,
                failed |-> 0, lastFailed |-> NoRow, lockouts |-> 0, until |-> 0, required |-> req]
    /\ unusedCodes = IF acct.mfa THEN {1} ELSE {}
    /\ challenges = [c \in ChallengeIds |-> NoRow]
    /\ hits = NoHits /\ secretSeq = 1 /\ atime = 1
    /\ adesk = [d \in Desks |-> Free] /\ spent = {} /\ spentTwice = FALSE
    /\ guesses = 0 /\ crashes = 0 /\ bare = FALSE

(* Every request begins by reading the row; a locked account is turned     *)
(* away before the password is looked at.                                  *)
LoadUser(d, op) ==
    /\ adesk[d] = Free
    /\ op = "login" => ~Locked(acct)
    /\ op \in {"enroll", "confirm"} => ~MFAOn(acct)
    /\ op \in {"disable", "regenerate"} => MFAOn(acct)
    /\ op = "disable" => ~acct.required
    /\ Work(d, [op |-> op, st |-> acct])
    /\ UNCHANGED <<acct, challenges, hits, atime, guesses, crashes, bare>> /\ UNCHANGED factorRows

(* registerFailure: the limiter, then the row; the larger count decides.   *)
RegisterFailure(d) ==
    LET a == RegisterLoginFailure(acct)
        stale == InWindow(hits) = 0 /\ a.failed = 1
    IN  /\ acct' = a
        /\ hits' = Hit(hits)
        /\ guesses' = IF stale THEN 1 ELSE guesses + 1
        /\ IF ShouldLock(MaxA(a.failed, InWindow(Hit(hits))))
           THEN Work(d, [op |-> "lock", until |-> atime + LockDuration(a.lockouts)]) ELSE Done(d)

(* Login with a wrong password.                                            *)
LoginWrong(d) ==
    /\ adesk[d].op = "login"
    /\ RegisterFailure(d)
    /\ UNCHANGED <<challenges, atime, crashes, bare>> /\ UNCHANGED factorRows

(* registerFailure's own update, of the row as it is then.                 *)
LockAccount(d) ==
    /\ adesk[d].op = "lock"
    /\ acct' = LockUser(acct, adesk[d].until)
    /\ hits' = NoHits /\ guesses' = 0
    /\ Done(d)
    /\ UNCHANGED <<challenges, atime, crashes, bare>> /\ UNCHANGED factorRows

(* completeLogin: clearFailures, and a session.                            *)
ClearFailures == acct' = ClearedCounters(acct) /\ hits' = NoHits /\ guesses' = 0
CompleteLogin(method, st) == ClearFailures /\ bare' = (bare \/ (method = "password" /\ (MFAOn(st) \/ st.required)))

(* Login with the right password: a challenge, an enrolment, or the        *)
(* session at once.  CreateChallenge drops the expired ones.               *)
LiveChallenges == [c \in ChallengeIds |-> IF challenges[c] # NoRow /\ challenges[c].expires < atime THEN NoRow ELSE challenges[c]]
NewChallenge(purpose) ==
    \E c \in Fresh(LiveChallenges) :
        challenges' = [LiveChallenges EXCEPT ![c] = [purpose |-> purpose, tries |-> 0, expires |-> atime + ChallengeTTL]]
LoginRight(d) ==
    /\ adesk[d].op = "login"
    /\ LET st == adesk[d].st
       IN  IF MFAOn(st) THEN NewChallenge("login") /\ UNCHANGED <<acct, hits, guesses, bare>>
           ELSE IF st.mfa \/ st.required THEN NewChallenge("enroll") /\ UNCHANGED <<acct, hits, guesses, bare>>
           ELSE CompleteLogin("password", st) /\ UNCHANGED challenges
    /\ Done(d)
    /\ UNCHANGED <<atime, crashes>> /\ UNCHANGED factorRows

(* VerifyMFA and SetupConfirm: AttemptChallenge counts the try in the same *)
(* statement that checks it; then the row is read.                         *)
AttemptChallenge(d, c) ==
    /\ adesk[d] = Free /\ challenges[c] # NoRow
    /\ challenges[c].expires > atime /\ challenges[c].tries < ChallengeTries
    /\ LET login == challenges[c].purpose = "login"
           refused == Locked(acct) \/ (login /\ ~MFAOn(acct))
       IN  /\ challenges' = IF refused THEN [challenges EXCEPT ![c] = NoRow] ELSE [challenges EXCEPT ![c].tries = @ + 1]
           /\ IF refused THEN UNCHANGED adesk
              ELSE Work(d, [op |-> IF login THEN "verify" ELSE "setup", st |-> acct, c |-> c,
                            last |-> challenges[c].tries + 1 >= ChallengeTries])
    /\ UNCHANGED <<acct, hits, atime, guesses, crashes, bare>> /\ UNCHANGED factorRows

(* A wrong code; the last try takes the challenge with it.                 *)
VerifyWrong(d) ==
    /\ adesk[d].op \in {"verify", "setup"}
    /\ challenges' = IF adesk[d].last THEN [challenges EXCEPT ![adesk[d].c] = NoRow] ELSE challenges
    /\ RegisterFailure(d)
    /\ UNCHANGED <<atime, crashes, bare>> /\ UNCHANGED factorRows

(* checkSecondFactor with a TOTP code or a recovery code; what follows     *)
(* waits for its answer.                                                   *)
After(op) == CASE op = "verify" -> "open" [] op = "disable" -> "deactivate" [] op = "regenerate" -> "replace"
(* The step is advanced by whoever comes, not only past the last one.      *)
AdvanceMFAStepAnyway(step) == acct' = [acct EXCEPT !.lastStep = step]
AdvanceMFAStep(step) == acct.lastStep < step /\ acct' = [acct EXCEPT !.lastStep = step]
CheckTOTP(d, step) ==
    /\ adesk[d].op \in {"verify", "disable", "regenerate"}
    /\ Verify(step, adesk[d].st.lastStep)
    /\ AdvanceMFAStep(step)
    /\ Spend(<<"totp", step>>)
    /\ Work(d, [adesk[d] EXCEPT !.op = After(adesk[d].op)])
    /\ UNCHANGED <<unusedCodes, challenges, hits, secretSeq, atime, guesses, crashes, bare>>
CheckRecovery(d, code) ==
    /\ adesk[d].op \in {"verify", "disable"}
    /\ code \in unusedCodes
    /\ unusedCodes' = unusedCodes \ {code}
    /\ Spend(<<"recovery", code>>)
    /\ Work(d, [adesk[d] EXCEPT !.op = After(adesk[d].op)])
    /\ UNCHANGED <<acct, challenges, hits, secretSeq, atime, guesses, crashes, bare>>

OpenSession(d) ==
    /\ adesk[d].op = "open"
    /\ challenges' = [challenges EXCEPT ![adesk[d].c] = NoRow]
    /\ CompleteLogin("factor", adesk[d].st)
    /\ Done(d)
    /\ UNCHANGED <<atime, crashes>> /\ UNCHANGED factorRows

(* startEnrollment replaces the pending secret.                            *)
StartEnrollment(d) ==
    /\ adesk[d].op = "enroll" /\ secretSeq < MaxSecrets
    /\ acct' = [acct EXCEPT !.pending = secretSeq + 1]
    /\ secretSeq' = secretSeq + 1
    /\ Done(d)
    /\ UNCHANGED <<unusedCodes, challenges, hits, atime, spent, spentTwice, guesses, crashes, bare>>

(* confirmEnrollment: the secret it read becomes the secret, with new      *)
(* recovery codes, in one transaction; a set-up also signs in.             *)
ConfirmEnrollment(d, step) ==
    /\ adesk[d].op \in {"confirm", "setup"}
    /\ adesk[d].st.pending # NoSecret
    /\ Verify(step, 0)
    /\ unusedCodes' = {adesk[d].st.pending}
    /\ NewEra
    /\ LET active == ActivateMFA(acct, adesk[d].st.pending, step)
       IN  IF adesk[d].op = "confirm" THEN acct' = active /\ UNCHANGED <<challenges, hits, guesses, bare>>
           ELSE /\ acct' = ClearedCounters(active) /\ hits' = NoHits /\ guesses' = 0
                /\ challenges' = [challenges EXCEPT ![adesk[d].c] = NoRow]
                /\ UNCHANGED bare
    /\ Done(d)
    /\ UNCHANGED <<secretSeq, atime, crashes>>

(* DisableMFA: the row, then the codes, in two statements.                 *)
Deactivate(d) ==
    /\ adesk[d].op = "deactivate"
    /\ acct' = DeactivateMFA(acct)
    /\ NewEra
    /\ Work(d, [op |-> "dropcodes"])
    /\ UNCHANGED <<unusedCodes, challenges, hits, secretSeq, atime, guesses, crashes, bare>>
DropCodes(d) ==
    /\ adesk[d].op = "dropcodes"
    /\ unusedCodes' = {}
    /\ Done(d)
    /\ UNCHANGED <<acct, challenges, hits, secretSeq, atime, spent, spentTwice, guesses, crashes, bare>>

(* RegenerateRecoveryCodes: the old ones go, then the new ones come.       *)
ReplaceRecoveryCodes(d) ==
    /\ adesk[d].op = "replace"
    /\ unusedCodes' = {}
    /\ Work(d, [op |-> "newcodes"])
    /\ UNCHANGED <<acct, challenges, hits, secretSeq, atime, spent, spentTwice, guesses, crashes, bare>>
InsertCodes(d) ==
    /\ adesk[d].op = "newcodes" /\ secretSeq < MaxSecrets
    /\ unusedCodes' = unusedCodes \cup {secretSeq + 1}
    /\ secretSeq' = secretSeq + 1
    /\ Done(d)
    /\ UNCHANGED <<acct, challenges, hits, atime, spent, spentTwice, guesses, crashes, bare>>

(* An edit of the user writes mfa_enabled as it read it, an administrator  *)
(* may set it.                                                             *)
EditUser(d, byAdmin, mfa) ==
    /\ adesk[d].op = "edit"
    /\ acct' = [acct EXCEPT !.mfa = IF byAdmin THEN mfa ELSE adesk[d].st.mfa]
    /\ Done(d)
    /\ UNCHANGED <<challenges, hits, atime, guesses, crashes, bare>> /\ UNCHANGED factorRows

Unlock ==
    /\ acct.until # 0 \/ acct.failed # 0
    /\ ClearFailures
    /\ UNCHANGED <<challenges, atime, adesk, crashes, bare>> /\ UNCHANGED factorRows

AuthCrash(d) ==
    /\ adesk[d] # Free /\ crashes < MaxCrashes
    /\ Done(d) /\ crashes' = crashes + 1
    /\ UNCHANGED <<acct, challenges, hits, atime, guesses, bare>> /\ UNCHANGED factorRows

AuthTick ==
    /\ atime < LastAuthTick
    /\ atime' = atime + 1
    /\ UNCHANGED <<acct, challenges, hits, adesk, guesses, crashes, bare>> /\ UNCHANGED factorRows

(* Guessing: wrong passwords and codes against the lockout.                *)
LockoutNext ==
    \/ \E d \in Desks : \/ LoadUser(d, "login") \/ LoginWrong(d) \/ LockAccount(d) \/ LoginRight(d)
                        \/ VerifyWrong(d) \/ AuthCrash(d)
                        \/ \E c \in ChallengeIds : AttemptChallenge(d, c)
    \/ Unlock \/ AuthTick

(* The second factor: enrolled, used, renewed and switched off.            *)
FactorNext ==
    \/ \E d \in Desks :
        \/ \E op \in {"login", "enroll", "confirm", "disable", "regenerate", "edit"} : LoadUser(d, op)
        \/ \E c \in ChallengeIds : AttemptChallenge(d, c)
        \/ \E s \in Steps : CheckTOTP(d, s) \/ ConfirmEnrollment(d, s)
        \/ \E c \in unusedCodes : CheckRecovery(d, c)
        \/ LoginRight(d) \/ OpenSession(d) \/ StartEnrollment(d) \/ Deactivate(d) \/ DropCodes(d)
        \/ ReplaceRecoveryCodes(d) \/ InsertCodes(d)
        \/ \E byAdmin, mfa \in BOOLEAN : EditUser(d, byAdmin, mfa)

AuthNext == LockoutNext \/ FactorNext

AuthSpec == AuthInit /\ [][AuthNext]_authVars

-----------------------------------------------------------------------------
(* Type correctness of the account, its codes and challenges: no lock ends *)
(* later than MaxLock from now, no failure lies ahead, and no challenge is *)
(* tried too often.                                                        *)
Account ==
    [mfa : BOOLEAN, secret : 0 .. MaxSecrets, pending : 0 .. MaxSecrets, lastStep : Nat, failed : Nat,
     lastFailed : Int \cup {NoRow}, lockouts : 0 .. MaxLock, until : Int, required : BOOLEAN]
Challenge == [purpose : {"login", "enroll"}, tries : 0 .. ChallengeTries, expires : Int]
AuthTypeOK ==
    /\ acct \in Account /\ acct.until <= atime + MaxLock
    /\ acct.lastFailed # NoRow => acct.lastFailed <= atime
    /\ unusedCodes \subseteq 1 .. secretSeq /\ secretSeq \in 1 .. MaxSecrets
    /\ challenges \in [ChallengeIds -> Challenge \cup {NoRow}]
    /\ atime \in 1 .. LastAuthTick
    /\ guesses \in Nat /\ crashes \in 0 .. MaxCrashes

(* Between one activation or deactivation and the next, a TOTP step or a   *)
(* recovery code proves identity at most once, however the requests that   *)
(* present it overlap (AdvanceMFAStep, ConsumeRecoveryCode).               *)
FactorSpentOnce == ~spentTwice

(* An account is locked after MaxFailures wrong answers; requests that had *)
(* read the row before the lock, or died before writing it, add one each   *)
(* (registerFailure, RegisterLoginFailure, LockUser).                      *)
GuessesBounded == guesses <= MaxFailures + Cardinality(Desks) - 1 + crashes

(* No session opens with the password alone when the request found MFA     *)
(* switched on or demanded by the role (Login, VerifyMFA, SetupConfirm).   *)
SecondFactorAsked == ~bare

(* Sign-in holds against a guesser and against overlapping requests: a     *)
(* code or a recovery code opens one session, the guesses an account or a  *)
(* challenge accepts are bounded, and no session opens past a required     *)
(* second factor (Login, VerifyMFA, SetupConfirm, DisableMFA).             *)
SignInHolds == AuthTypeOK /\ FactorSpentOnce /\ GuessesBounded /\ SecondFactorAsked
=============================================================================
