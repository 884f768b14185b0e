--------------------------- MODULE BookingDomain ---------------------------
(***************************************************************************)
(* The lifecycle rules of one booking, as pure operators: statuses, edges  *)
(* per actor, guards, the derived status and the effect of a transition.   *)
(* Modelled code: src/internal/domain/booking/lifecycle.go, which does no  *)
(* I/O, and the money helpers of src/internal/domain/booking/model.go.     *)
(*                                                                         *)
(* A bookings row is a record                                              *)
(*   [status, pax, total, collected, balance, hold, forced].               *)
(* hold is the option deadline or NoHold (SQL NULL); forced is the column  *)
(* ready_forced.  A reason is only known by what the guards ask of it:     *)
(* "blank", "brief" (shorter than MinOverrideReasonLen) or "full".         *)
(* customer_required is left out: CreateDraft refuses a booking without a  *)
(* customer and the column is never rewritten.                             *)
(***************************************************************************)
EXTENDS Integers

CONSTANT NoHold        \* hold_expires_at IS NULL
CONSTANT MaxHold       \* MaxHoldDuration, in clock units

ASSUME DomainAssumption == MaxHold \in Nat /\ NoHold \notin Int

Statuses == {"draft", "quoted", "option_hold", "confirmed", "partially_paid",
             "ready", "travelled", "completed", "cancelled"}

ConfirmedFamily == {"confirmed", "partially_paid", "ready"}

ConsumesSeat(s) ==
    s \in {"option_hold", "confirmed", "partially_paid", "ready", "travelled", "completed"}

IsConfirmedFamily(s) == s \in ConfirmedFamily

IsSold(s) == IsConfirmedFamily(s) \/ s \in {"travelled", "completed"}

Terminal(s) == s \in {"cancelled", "completed"}

Editable(s) == s \in {"draft", "quoted"}

-----------------------------------------------------------------------------
(* Edges: who may ask for which change of status, guards aside.            *)

Actors == {"user", "override", "system"}

UserEdges ==
         {"draft"}       \X {"quoted", "option_hold", "confirmed", "cancelled"}
    \cup {"quoted"}      \X {"draft", "option_hold", "confirmed", "cancelled"}
    \cup {"option_hold"} \X {"quoted", "confirmed", "cancelled"}
    \cup ConfirmedFamily \X {"cancelled"}
    \cup {<<"travelled", "completed">>}

OverrideOnlyEdges == {"confirmed", "partially_paid"} \X {"ready"}

(* An edge table that lacks one system edge.                               *)
SystemEdgesWithoutPartialTravel ==
         {<<"option_hold", "draft">>}
    \cup {e \in ConfirmedFamily \X (ConfirmedFamily \cup {"travelled"}) :
            e[1] # e[2] /\ e # <<"partially_paid", "travelled">>}

SystemEdges ==
         {<<"option_hold", "draft">>}
    \cup {e \in ConfirmedFamily \X (ConfirmedFamily \cup {"travelled"}) : e[1] # e[2]}

CanTransition(from, to, actor) ==
    \/ actor = "user"     /\ <<from, to>> \in UserEdges
    \/ actor = "override" /\ <<from, to>> \in UserEdges \cup OverrideOnlyEdges
    \/ actor = "system"   /\ <<from, to>> \in SystemEdges

-----------------------------------------------------------------------------
(* Money and the status implied by it.                                     *)

RecomputeBalance(b) ==
    [b EXCEPT !.balance = IF b.total > b.collected THEN b.total - b.collected ELSE 0]

(* A status derived from the money alone, as if readiness did not count.   *)
DeriveStatusIgnoringReadiness(collected, balance, readinessOK) ==
    IF balance <= 0 THEN "ready"
    ELSE IF collected > 0 THEN "partially_paid" ELSE "confirmed"

DeriveStatus(collected, balance, readinessOK) ==
    IF readinessOK /\ balance <= 0 THEN "ready"
    ELSE IF collected > 0 THEN "partially_paid" ELSE "confirmed"

DerivedStatus(b, readinessOK) ==
    IF b.forced THEN "ready" ELSE DeriveStatus(b.collected, b.balance, readinessOK)

SeatChangeFor(from, to) ==
    IF ~ConsumesSeat(from) /\ ConsumesSeat(to) THEN "acquire"
    ELSE IF ConsumesSeat(from) /\ ~ConsumesSeat(to) THEN "release" ELSE "none"

(* ReadinessFacts.OK: the override lifts the papers gate (checklist and     *)
(* documents), never the participant count.                                *)
ReadinessOK(participantsMissing, papersComplete, overrideActive) ==
    ~participantsMissing /\ (overrideActive \/ papersComplete)

-----------------------------------------------------------------------------
(* Guards and the transition itself.  A request is a record                *)
(*   [to, actor, reason, hold, now, facts], with facts =                   *)
(*   [found, open, room, reached, ready].                                  *)

Reasons == {"blank", "brief", "full"}

If(condition, guard) == IF condition THEN {guard} ELSE {}

HoldGuards(req) ==
    IF req.hold = NoHold THEN {"hold_expiry_required"}
    ELSE If(req.hold <= req.now, "hold_expiry_in_past")
         \cup If(req.hold - req.now > MaxHold, "hold_expiry_too_far")

SeatGuards(b, req) ==
    IF ~req.facts.found THEN {"departure_required"}
    ELSE IF SeatChangeFor(b.status, req.to) # "acquire" THEN {}
    ELSE IF ~req.facts.open THEN {"sales_closed"}
    ELSE If(~req.facts.room, "no_capacity")

SystemGuards(b, req) ==
    IF IsConfirmedFamily(req.to)
        THEN If(req.to # DerivedStatus(b, req.facts.ready), "status_not_derived")
    ELSE IF req.to = "travelled"
        THEN If(~req.facts.reached, "departure_not_reached")
    ELSE IF b.status = "option_hold" /\ req.to = "draft"
        THEN If(b.hold # NoHold /\ req.now < b.hold, "hold_not_expired")
    ELSE {}

ManualReadyGuards(b, req) ==
    IF req.to # "ready" THEN {}
    ELSE If(~req.facts.ready, "readiness_incomplete")
         \cup If(b.balance > 0, "balance_outstanding")

Guards(b, req) ==
         If(req.actor = "override" /\ req.reason # "full", "override_reason_too_short")
    \cup If(req.to = "cancelled" /\ req.reason = "blank", "reason_required")
    \cup (IF req.to = "option_hold" THEN HoldGuards(req) ELSE {})
    \cup (IF \/ req.to = "option_hold"
             \/ IsConfirmedFamily(req.to) /\ ~IsConfirmedFamily(b.status)
          THEN SeatGuards(b, req) ELSE {})
    \cup (IF req.actor = "system" THEN SystemGuards(b, req) ELSE ManualReadyGuards(b, req))

Bypassable == {"readiness_incomplete", "balance_outstanding"}

HardGuards(b, req) ==
    IF req.actor = "override" THEN Guards(b, req) \ Bypassable ELSE Guards(b, req)

(* Booking.Transition succeeds; otherwise it returns an error and changes  *)
(* nothing.                                                                *)
Admissible(b, req) ==
    /\ b.status # req.to
    /\ CanTransition(b.status, req.to, req.actor)
    /\ HardGuards(b, req) = {}

(* The row after a transition that forgets to clear ready_forced.          *)
ApplyTransitionKeepingForced(b, req) ==
    [b EXCEPT !.status = req.to,
              !.hold   = IF req.to = "option_hold" THEN req.hold ELSE NoHold,
              !.forced = (req.actor = "override" /\ req.to = "ready") \/ @]

ApplyTransition(b, req) ==
    [b EXCEPT !.status = req.to,
              !.hold   = IF req.to = "option_hold" THEN req.hold ELSE NoHold,
              !.forced = IF req.actor = "override" /\ req.to = "ready" THEN TRUE
                         ELSE IF ~IsConfirmedFamily(req.to) THEN FALSE ELSE @]

=============================================================================
