--------------------------- MODULE SeatAllocation ---------------------------
(***************************************************************************)
(* The seats of one departure under concurrent transactions.               *)
(* Modelled code: apply in src/internal/app/booking/transition.go with     *)
(* the locks and counts of src/internal/adapter/postgres/booking, and the  *)
(* departure operations of src/internal/app/tourpackage/service.go.        *)
(*                                                                         *)
(* Transactions run READ COMMITTED: a statement sees what is committed     *)
(* when it runs, plus the transaction's own writes; a row lock is held to  *)
(* the end of the transaction; an UPDATE waits for the lock of its row.    *)
(* A status is kept only as far as seats depend on it: "editable" (draft,  *)
(* quoted), "seated" (the statuses that consume seats) and "cancelled".    *)
(* Moves among seated statuses touch no seat and are left out.             *)
(* A seat is a pair <<booking, i>> with i <= pax_count, so that            *)
(* SUM(pax_count) is a cardinality.                                        *)
(***************************************************************************)
EXTENDS Integers, FiniteSets

CONSTANTS
    Bookings,     \* the bookings of the departure
    Txs,          \* concurrent transactions
    MaxPax,       \* largest pax_count
    Capacities,   \* values capacity_total may take
    None          \* no transaction holds the lock; no booking

ASSUME SeatAssumption ==
    /\ IsFiniteSet(Bookings)
    /\ MaxPax \in Nat \ {0}
    /\ Capacities \subseteq Nat
    /\ None \notin Txs
    /\ None \notin Bookings

VARIABLES
    status,       \* booking -> class of its committed status
    pax,          \* booking -> committed pax_count
    dep,          \* the committed departures row
    rowLock,      \* booking -> transaction holding its row FOR UPDATE, or None
    depLock,      \* transaction holding the departure row FOR UPDATE, or None
    tx,           \* transaction -> its progress and what it remembers
    excused       \* history: unlocked writes that moved seats or capacity

vars == <<status, pax, dep, rowLock, depLock, tx, excused>>

Classes == {"editable", "seated", "cancelled"}
Departure == [total: Capacities, sold: Nat, oversell: BOOLEAN, open: BOOLEAN]

HoldsRow == {"locked", "seats", "counted", "saved"}   \* FindForUpdate done
HoldsDep == {"seats", "counted", "saved"}             \* LockDeparture done
Phases   == {"idle", "edit", "pay", "departure", "recount"} \cup HoldsRow

Progress == [phase: Phases, b: Bookings \cup {None}, to: Classes,
             n: Nat, copy: Departure \cup {None}]

Started(phase, b, n, copy) ==
    [phase |-> phase, b |-> b, to |-> "editable", n |-> n, copy |-> copy]

Idle == Started("idle", None, 0, None)

(* Type correctness of the whole state.                                    *)
TypeOK ==
    /\ status \in [Bookings -> Classes]
    /\ pax \in [Bookings -> 1 .. MaxPax]
    /\ dep \in Departure
    /\ rowLock \in [Bookings -> Txs \cup {None}]
    /\ depLock \in Txs \cup {None}
    /\ tx \in [Txs -> Progress]
    /\ \A t \in Txs :
         /\ tx[t].phase \in HoldsRow \cup {"edit", "pay"} => tx[t].b \in Bookings
         /\ tx[t].phase = "departure" => tx[t].copy \in Departure
         /\ tx[t].phase = "pay" => tx[t].n \in 1 .. MaxPax
    /\ excused \subseteq {"late_edit", "capacity_edit"}

-----------------------------------------------------------------------------
(* CountConfirmedPaxByDeparture, over statuses st and party sizes px.      *)
Seats(st, px) ==
    {s \in Bookings \X (1 .. MaxPax) : st[s[1]] = "seated" /\ s[2] <= px[s[1]]}

Sold == Cardinality(Seats(status, pax))

(* The same count seen by transaction t once it has saved its status.      *)
SoldAfter(t) == Cardinality(Seats([status EXCEPT ![tx[t].b] = tx[t].to], pax))

(* SeatChangeFor, for the classes.                                         *)
MovesSeats(from, to) == (from = "seated") # (to = "seated")

CanMove(from, to) ==
    \/ from = "editable" /\ to \in {"seated", "cancelled"}
    \/ from = "seated"   /\ to \in {"editable", "cancelled"}

(* departureFacts: sales open, and room for the party or overselling.      *)
HasCapacity(count, party) == dep.oversell \/ count + party <= dep.total

Init ==
    /\ status = [b \in Bookings |-> "editable"]
    /\ pax \in [Bookings -> 1 .. MaxPax]
    /\ dep \in [total: Capacities, sold: {0}, oversell: BOOLEAN, open: BOOLEAN]
    /\ rowLock = [b \in Bookings |-> None]
    /\ depLock = None
    /\ tx = [t \in Txs |-> Idle]
    /\ excused = {}

-----------------------------------------------------------------------------
(* A change of status: FindForUpdate, LockDeparture, count, guards, save,  *)
(* recount, commit.                                                        *)

FindForUpdate(t, b) ==
    /\ tx[t] = Idle
    /\ rowLock[b] = None
    /\ rowLock' = [rowLock EXCEPT ![b] = t]
    /\ tx' = [tx EXCEPT ![t] = Started("locked", b, 0, None)]
    /\ UNCHANGED <<status, pax, dep, depLock, excused>>

(* A change that moves no seat needs no departure lock.                    *)
CommitUnseated(t) ==
    /\ tx[t].phase = "locked"
    /\ \E to \in Classes :
         /\ CanMove(status[tx[t].b], to)
         /\ ~MovesSeats(status[tx[t].b], to)
         /\ status' = [status EXCEPT ![tx[t].b] = to]
    /\ rowLock' = [rowLock EXCEPT ![tx[t].b] = None]
    /\ tx' = [tx EXCEPT ![t] = Idle]
    /\ UNCHANGED <<pax, dep, depLock, excused>>

(* Taking the departure without waiting for its lock.                      *)
LockDepartureUnserialized(t) ==
    /\ tx[t].phase = "locked"
    /\ \E to \in Classes :
         /\ CanMove(status[tx[t].b], to)
         /\ MovesSeats(status[tx[t].b], to)
         /\ tx' = [tx EXCEPT ![t] = [@ EXCEPT !.phase = "seats", !.to = to]]
    /\ depLock' = t
    /\ UNCHANGED <<status, pax, dep, rowLock, excused>>

LockDeparture(t) ==
    /\ tx[t].phase = "locked"
    /\ depLock = None
    /\ \E to \in Classes :
         /\ CanMove(status[tx[t].b], to)
         /\ MovesSeats(status[tx[t].b], to)
         /\ tx' = [tx EXCEPT ![t] = [@ EXCEPT !.phase = "seats", !.to = to]]
    /\ depLock' = t
    /\ UNCHANGED <<status, pax, dep, rowLock, excused>>

CountSold(t) ==
    /\ tx[t].phase = "seats"
    /\ tx' = [tx EXCEPT ![t] = [@ EXCEPT !.phase = "counted", !.n = Sold]]
    /\ UNCHANGED <<status, pax, dep, rowLock, depLock, excused>>

(* Keeping the count made before the status was saved.                     *)
SaveStatusWithoutRecount(t) ==
    /\ tx[t].phase = "counted"
    /\ tx[t].to = "seated" => dep.open /\ HasCapacity(tx[t].n, pax[tx[t].b])
    /\ tx' = [tx EXCEPT ![t] = [@ EXCEPT !.phase = "saved"]]
    /\ UNCHANGED <<status, pax, dep, rowLock, depLock, excused>>

(* Saving without looking at the sales flag.                               *)
SaveStatusIgnoringSales(t) ==
    /\ tx[t].phase = "counted"
    /\ tx[t].to = "seated" => HasCapacity(tx[t].n, pax[tx[t].b])
    /\ tx' = [tx EXCEPT ![t] = [@ EXCEPT !.phase = "saved", !.n = SoldAfter(t)]]
    /\ UNCHANGED <<status, pax, dep, rowLock, depLock, excused>>

(* The guards on an acquisition, SaveStatus and the second count; a failed *)
(* guard rolls the transaction back (Rollback).                            *)
SaveStatus(t) ==
    /\ tx[t].phase = "counted"
    /\ tx[t].to = "seated" => dep.open /\ HasCapacity(tx[t].n, pax[tx[t].b])
    /\ tx' = [tx EXCEPT ![t] = [@ EXCEPT !.phase = "saved", !.n = SoldAfter(t)]]
    /\ UNCHANGED <<status, pax, dep, rowLock, depLock, excused>>

(* UpdateDepartureCapacitySold, then commit.                               *)
CommitSeats(t) ==
    /\ tx[t].phase = "saved"
    /\ status' = [status EXCEPT ![tx[t].b] = tx[t].to]
    /\ dep' = [dep EXCEPT !.sold = tx[t].n]
    /\ rowLock' = [rowLock EXCEPT ![tx[t].b] = None]
    /\ depLock' = None
    /\ tx' = [tx EXCEPT ![t] = Idle]
    /\ UNCHANGED <<pax, excused>>

(* A failed guard, an error, a lost connection or a crash.                 *)
Rollback(t) ==
    /\ tx[t] # Idle
    /\ rowLock' = [b \in Bookings |-> IF rowLock[b] = t THEN None ELSE rowLock[b]]
    /\ depLock' = IF depLock = t THEN None ELSE depLock
    /\ tx' = [tx EXCEPT ![t] = Idle]
    /\ UNCHANGED <<status, pax, dep, excused>>

-----------------------------------------------------------------------------
(* Writers that read the booking without a lock.                           *)

(* Service.Update checks Editable on what it read.                         *)
UpdateRead(t, b) ==
    /\ tx[t] = Idle
    /\ status[b] = "editable"
    /\ tx' = [tx EXCEPT ![t] = Started("edit", b, 0, None)]
    /\ UNCHANGED <<status, pax, dep, rowLock, depLock, excused>>

(* recomputeBooking of a payment remembers pax_count with the row.         *)
PaymentRead(t, b) ==
    /\ tx[t] = Idle
    /\ tx' = [tx EXCEPT ![t] = Started("pay", b, pax[b], None)]
    /\ UNCHANGED <<status, pax, dep, rowLock, depLock, excused>>

(* Repository.Update waits for the row, then writes pax_count.             *)
WritePax(t, p) ==
    LET b == tx[t].b
    IN /\ rowLock[b] = None
       /\ pax' = [pax EXCEPT ![b] = p]
       /\ excused' = IF status[b] = "seated" /\ p # pax[b]
                     THEN excused \cup {"late_edit"} ELSE excused
       /\ tx' = [tx EXCEPT ![t] = Idle]
       /\ UNCHANGED <<status, dep, rowLock, depLock>>

(* Writing a party size nobody validated.                                  *)
UpdateCommitUnvalidated(t) == tx[t].phase = "edit" /\ \E p \in 0 .. MaxPax : WritePax(t, p)

UpdateCommit(t) == tx[t].phase = "edit" /\ \E p \in 1 .. MaxPax : WritePax(t, p)

PaymentCommit(t) == tx[t].phase = "pay" /\ WritePax(t, tx[t].n)

-----------------------------------------------------------------------------
(* Departure operations: read, check and write back without a lock.        *)

DepartureRead(t) ==
    /\ tx[t] = Idle
    /\ tx' = [tx EXCEPT ![t] = Started("departure", None, 0, dep)]
    /\ UNCHANGED <<status, pax, dep, rowLock, depLock, excused>>

(* UpdateDeparture, CloseSales and MarkFull write every column but         *)
(* capacity_sold from the copy; a new capacity is checked against the      *)
(* copy's capacity_sold and allow_oversell.                                *)
DepartureCommit(t) ==
    /\ tx[t].phase = "departure"
    /\ depLock = None
    /\ \E total \in Capacities, oversell, open \in BOOLEAN :
         LET copy == tx[t].copy
         IN /\ total = copy.total \/ total >= copy.sold \/ copy.oversell
            /\ dep' = [dep EXCEPT !.total = total, !.oversell = oversell, !.open = open]
            /\ excused' = IF total < dep.total \/ (dep.oversell /\ ~oversell)
                          THEN excused \cup {"capacity_edit"} ELSE excused
    /\ tx' = [tx EXCEPT ![t] = Idle]
    /\ UNCHANGED <<status, pax, rowLock, depLock>>

(* RecomputeCapacity counts without the departure lock.                    *)
RecountRead(t) ==
    /\ tx[t] = Idle
    /\ tx' = [tx EXCEPT ![t] = Started("recount", None, Sold, None)]
    /\ UNCHANGED <<status, pax, dep, rowLock, depLock, excused>>

RecountCommit(t) ==
    /\ tx[t].phase = "recount"
    /\ depLock = None
    /\ dep' = [dep EXCEPT !.sold = tx[t].n]
    /\ tx' = [tx EXCEPT ![t] = Idle]
    /\ UNCHANGED <<status, pax, rowLock, depLock, excused>>

-----------------------------------------------------------------------------
TxStep(t) ==
    \/ \E b \in Bookings : FindForUpdate(t, b) \/ UpdateRead(t, b) \/ PaymentRead(t, b)
    \/ CommitUnseated(t) \/ LockDeparture(t) \/ CountSold(t) \/ SaveStatus(t) \/ CommitSeats(t)
    \/ Rollback(t)
    \/ UpdateCommit(t) \/ PaymentCommit(t)
    \/ DepartureRead(t) \/ DepartureCommit(t) \/ RecountRead(t) \/ RecountCommit(t)

Next == \E t \in Txs : TxStep(t)

Spec == Init /\ [][Next]_vars

-----------------------------------------------------------------------------
(* The departure lock makes check-and-take atomic: however transactions    *)
(* interleave, the seats taken stay within capacity_total, unless the      *)
(* departure allows overselling, or an unlocked write changed the party of *)
(* a seated booking or lowered the capacity.                               *)
NoOversell == excused = {} /\ ~dep.oversell => Sold <= dep.total

(* Every step that changes the seats taken leaves capacity_sold equal to   *)
(* them, in the same commit: the count made after SaveStatus is still      *)
(* right when it is committed.                                             *)
CounterFollowsSeats == [][excused' = {} /\ Sold' # Sold => dep'.sold = Sold']_vars

(* A booking takes seats only while sales are open: a CloseSales cannot    *)
(* commit between the check of a confirm and its commit.                   *)
SeatsOnlyWhileOpen ==
    [][\A b \in Bookings :
         status[b] # "seated" /\ status'[b] = "seated" => dep.open]_vars

(* "departures.capacity_sold is recomputed from them under a FOR UPDATE    *)
(* lock on the departure" (README): then the counter is right whenever no  *)
(* transaction runs.  RecomputeCapacity counts before it locks, so this    *)
(* does not hold.                                                          *)
CounterRightWhenQuiet ==
    excused = {} /\ (\A t \in Txs : tx[t] = Idle) => dep.sold = Sold

=============================================================================
