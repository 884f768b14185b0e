--------------------------- MODULE EventDelivery ---------------------------
(***************************************************************************)
(* What the outbox promises: at-least-once delivery.  An event recorded    *)
(* with a business change is stored until every subscribed handler has     *)
(* completed it; handlers may complete it more than once.                  *)
(* "Durable events arrive through the outbox dispatcher ...; every handler *)
(* is idempotent because both paths may redeliver"                         *)
(* (src/internal/app/automation/reactor.go).                               *)
(***************************************************************************)
CONSTANTS
    Events,      \* events that may be recorded
    Handlers     \* handlers subscribed to them

VARIABLES
    stored,      \* events kept for delivery
    completed    \* event -> handlers that completed it at least once

Init ==
    /\ stored = {}
    /\ completed = [e \in Events |-> {}]

Store(e) ==
    /\ e \notin stored /\ completed[e] = {}
    /\ stored' = stored \cup {e}
    /\ UNCHANGED completed

Handle(e) ==
    /\ e \in stored
    /\ \E hs \in SUBSET Handlers :
         completed' = [completed EXCEPT ![e] = @ \cup hs]
    /\ UNCHANGED stored

(* Only an event that every handler completed may be forgotten.            *)
Forget(e) ==
    /\ e \in stored
    /\ completed[e] = Handlers
    /\ stored' = stored \ {e}
    /\ UNCHANGED completed

Next == \E e \in Events : Store(e) \/ Handle(e) \/ Forget(e)

Spec == Init /\ [][Next]_<<stored, completed>>
=============================================================================
