-------------------------- MODULE MCSeatAllocation --------------------------
(***************************************************************************)
(* SeatAllocation for TLC: two parties of up to two travellers compete for *)
(* fewer seats than both need, with two transactions in flight.  Beside it *)
(* what a departure needs besides seats: the rooms, buses and fares of its *)
(* operation, the travellers' documents, and the alerts raised about it.   *)
(* They write disjoint tables, so a behaviour exercises one of them, which *)
(* part names.                                                             *)
(***************************************************************************)
EXTENDS SeatAllocation, Operations, Documents, Notifications, TLC

VARIABLE part

MCCapacities == {2, 3}
Symmetry == Permutations(Bookings) \cup Permutations(Txs)

Parts == {"seats", "rooms", "buses", "fares", "search", "documents", "notifications"}

(* Only the seats start in several ways.                                   *)
MCInit ==
    /\ part \in Parts
    /\ Init /\ OpsInit /\ DocInit /\ NoteInit
    /\ part # "seats" => dep = [total |-> 2, sold |-> 0, oversell |-> FALSE, open |-> TRUE] /\ \A b \in Bookings : pax[b] = 1

OperationStep ==
    \/ part = "rooms" /\ RoomNext
    \/ part = "buses" /\ BusNext
    \/ part = "fares" /\ FareNext
    \/ part = "search" /\ SearchNext

(* The seats never come to rest, so a deadlock of theirs is an error; the  *)
(* bounds of the others let them.                                          *)
MCNext ==
    \/ part = "seats" /\ Next /\ UNCHANGED <<part, opsVars, docVars, noteVars>>
    \/ OperationStep /\ UNCHANGED <<part, vars, docVars, noteVars>>
    \/ part = "documents" /\ DocNext /\ UNCHANGED <<part, vars, opsVars, noteVars>>
    \/ part = "notifications" /\ NoteNext /\ UNCHANGED <<part, vars, opsVars, docVars>>
    \/ part # "seats" /\ UNCHANGED <<part, vars, opsVars, docVars, noteVars>>

MCSpec == MCInit /\ [][MCNext]_<<part, vars, opsVars, docVars, noteVars>>

-----------------------------------------------------------------------------
(* What a group travels on holds: beds over a room's capacity come only    *)
(* from assignments that overlapped, the group list and a fare search      *)
(* answer from the rows, the fare cache keeps to its size and age (Assign, *)
(* GroupList, put); a document is approved after review and reminded of    *)
(* once (Approve, the expiry sweep); an alert is passed on as critical and *)
(* once, wherever a sweep dies, unless two runs listed it at the same time *)
(* (ProcessEscalations).                                                   *)
GroupHolds ==
    /\ part \in {"rooms", "buses", "fares", "search"} =>
         OpsTypeOK /\ OverrunsBounded /\ GroupListTrue /\ CacheHolds /\ SearchAnswers
    /\ part = "documents" => DocTypeOK /\ RemindedOnce /\ ApprovedWasReviewed
    /\ part = "notifications" => NotesTypeOK /\ EscalationIsCritical /\ EscalatedOncePerAlert
=============================================================================
