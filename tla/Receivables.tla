---------------------------- MODULE Receivables -----------------------------
(***************************************************************************)
(* What agencies owe: the credit account of one agency with the bookings   *)
(* sold through it, the nightly sweep that suspends it, and the letter     *)
(* asking it to confirm its balance.                                       *)
(* Modelled code: src/internal/app/finance (receivables.go, and the        *)
(* letters of recon.go), src/internal/domain/finance (agency.go,           *)
(* letter.go), src/internal/adapter/postgres/finance.                      *)
(*                                                                         *)
(* The agency row is locked for every change of it and for an assignment,  *)
(* which makes those one step; the sweep reads every exposure first and    *)
(* locks one agency after another.  A booking owes one unit.               *)
(***************************************************************************)
EXTENDS Rows

CONSTANTS
    AgencyBookings,    \* bookings that may be assigned
    AgencyLimits,      \* credit limits; 0 is no limit
    LetterTTL,         \* days a letter can be answered
    LastAgencyDay      \* bound: the last day

Letter == [status : {"sent", "confirmed", "disputed"}, expires : Nat]

ASSUME ReceivablesAssumption ==
    /\ AgencyLimits \subseteq Nat /\ 0 \in AgencyLimits /\ LetterTTL \in Nat /\ LastAgencyDay \in Nat
    /\ IsFiniteSet(AgencyBookings) /\ NoRow \notin Letter

VARIABLES
    agency,            \* the agencies row
    owes,              \* booking -> [sold through the agency, open, late]
    letter,            \* the reconciliation_letters row
    rday,              \* the day
    rjob,              \* desk -> what it holds between two steps
    answers            \* history: answers saved on the letter

agencyVars == <<agency, owes>>
letterVars == <<letter, answers, rday>>
receivablesVars == <<agencyVars, letterVars, rjob>>

AgencyStatuses == {"active", "suspended", "closed"}

(* Type correctness.                                                       *)
ReceivablesTypeOK ==
    /\ agency \in [status : AgencyStatuses, reason : {"", "manual", "overdue"}, limit : AgencyLimits, auto : BOOLEAN]
    /\ owes \in [AgencyBookings -> [sold : BOOLEAN, open : BOOLEAN, late : BOOLEAN]]
    /\ letter \in Letter \cup {NoRow}
    /\ rday \in 0 .. LastAgencyDay

-----------------------------------------------------------------------------
(* Exposures: what the open bookings of the agency owe, and how much of it *)
(* is past due beyond the grace days.                                      *)
OpenSold == {b \in AgencyBookings : owes[b].sold /\ owes[b].open}
Exposure == [outstanding |-> Cardinality(OpenSold), late |-> \E b \in OpenSold : owes[b].late]

CanSell(a, e, amount) == a.status = "active" /\ (a.limit > 0 => e.outstanding + amount <= a.limit)
ShouldSuspend(a, e) == a.status = "active" /\ a.auto /\ e.late

(* AssignBooking under the agency's lock; the exposure is read after it.   *)
AssignBooking(b) ==
    /\ ~owes[b].sold
    /\ CanSell(agency, Exposure, IF owes[b].open THEN 1 ELSE 0)
    /\ owes' = [owes EXCEPT ![b].sold = TRUE]
    /\ UNCHANGED <<agency, letterVars, rjob>>

UnassignBooking(b) ==
    /\ owes[b].sold
    /\ owes' = [owes EXCEPT ![b].sold = FALSE]
    /\ UNCHANGED <<agency, letterVars, rjob>>

UpdateAgency(limit, auto) ==
    /\ agency' = [agency EXCEPT !.limit = limit, !.auto = auto]
    /\ UNCHANGED <<owes, letterVars, rjob>>

(* Suspend and Reactivate refuse a closed account; closing is always       *)
(* possible.                                                               *)
SetStatus(s) ==
    /\ s # "closed" => agency.status # "closed"
    /\ agency' = [agency EXCEPT !.status = s, !.reason = IF s = "suspended" THEN "manual" ELSE ""]
    /\ UNCHANGED <<owes, letterVars, rjob>>

(* SweepOverdue: the exposures as read...                                  *)
SweepRead(d) ==
    /\ rjob[d] = Free
    /\ ShouldSuspend(agency, Exposure)
    /\ rjob' = [rjob EXCEPT ![d] = [op |-> "suspend", late |-> Exposure.late]]
    /\ UNCHANGED <<agencyVars, letterVars>>

(* ...then the agency is locked, and judged again by them.                 *)
SweepSuspend(d) ==
    /\ rjob[d].op = "suspend"
    /\ agency' = IF ShouldSuspend(agency, [late |-> rjob[d].late])
                 THEN [agency EXCEPT !.status = "suspended", !.reason = "overdue"] ELSE agency
    /\ rjob' = [rjob EXCEPT ![d] = Free]
    /\ UNCHANGED <<owes, letterVars>>

(* Around it: bookings fall due, are paid, or are cancelled.               *)
BookingTurns(b) ==
    /\ owes[b].open
    /\ \/ ~owes[b].late /\ owes' = [owes EXCEPT ![b].late = TRUE]
       \/ owes' = [owes EXCEPT ![b].open = FALSE]
    /\ UNCHANGED <<agency, letterVars, rjob>>

-----------------------------------------------------------------------------
StatusOn(l, day) == IF l.status = "sent" /\ day > l.expires THEN "expired" ELSE l.status

CreateLetter ==
    /\ letter = NoRow
    /\ letter' = [status |-> "sent", expires |-> rday + LetterTTL]
    /\ UNCHANGED <<answers, rday, agencyVars, rjob>>

(* RespondLetter reads the letter by its token and decides...              *)
LetterByToken(d, answer) ==
    /\ rjob[d] = Free
    /\ letter # NoRow
    /\ StatusOn(letter, rday) = "sent"
    /\ rjob' = [rjob EXCEPT ![d] = [op |-> "answer", to |-> answer]]
    /\ UNCHANGED <<agencyVars, letterVars>>

(* ...and saves the answer while the row is still 'sent'.                  *)
SaveLetterResponse(d) ==
    /\ rjob[d].op = "answer"
    /\ IF letter.status = "sent"
       THEN letter' = [letter EXCEPT !.status = rjob[d].to] /\ answers' = answers + 1
       ELSE UNCHANGED <<letter, answers>>
    /\ rjob' = [rjob EXCEPT ![d] = Free]
    /\ UNCHANGED <<rday, agencyVars>>

LetterDay ==
    /\ rday < LastAgencyDay
    /\ rday' = rday + 1
    /\ UNCHANGED <<letter, answers, agencyVars, rjob>>

ReceivablesCrash(d) ==
    /\ rjob[d] # Free
    /\ rjob' = [rjob EXCEPT ![d] = Free]
    /\ UNCHANGED <<agencyVars, letterVars>>

-----------------------------------------------------------------------------
(* CreateAgency: active, suspended automatically.                          *)
ReceivablesInit ==
    /\ agency = [status |-> "active", reason |-> "", limit |-> 0, auto |-> TRUE]
    /\ owes = [b \in AgencyBookings |-> [sold |-> FALSE, open |-> TRUE, late |-> FALSE]]
    /\ letter = NoRow /\ answers = 0 /\ rday = 0
    /\ rjob = [d \in Desks |-> Free]

AgencyNext ==
    \/ \E b \in AgencyBookings : AssignBooking(b) \/ UnassignBooking(b) \/ BookingTurns(b)
    \/ \E l \in AgencyLimits, auto \in BOOLEAN : UpdateAgency(l, auto)
    \/ \E s \in AgencyStatuses : SetStatus(s)
    \/ \E d \in Desks : SweepRead(d) \/ SweepSuspend(d)

LetterNext ==
    \/ CreateLetter \/ LetterDay
    \/ \E d \in Desks :
         \/ \E a \in {"confirmed", "disputed"} : LetterByToken(d, a)
         \/ SaveLetterResponse(d) \/ ReceivablesCrash(d)

-----------------------------------------------------------------------------
(* The credit limit holds at every sale: a booking joins the open ones of  *)
(* an active agency only within the limit in force, whatever else changes  *)
(* the agency at the same time (AssignBooking reads after its lock).       *)
SoldWithinLimit ==
    [][\A b \in AgencyBookings : ~owes[b].sold /\ owes'[b].sold =>
         /\ agency.status = "active"
         /\ agency.limit > 0 => Cardinality({x \in AgencyBookings : owes'[x].sold /\ owes'[x].open}) <= agency.limit
      ]_<<owes, agency>>

(* A closed agency is never opened again, by people or by the sweep, and   *)
(* the reason is there exactly while it is suspended.                      *)
ClosedForGood ==
    [][/\ agency.status = "closed" => agency'.status = "closed"
       /\ agency'.reason # "" <=> agency'.status = "suspended"]_agency

(* A letter is answered once: the first answer saved stands, whoever else  *)
(* had the page open (Letter.Respond, SaveLetterResponse).                 *)
AnsweredOnce == answers <= 1 /\ (letter # NoRow /\ letter.status # "sent" <=> answers = 1)
=============================================================================
