------------------------ MODULE SeatAllocation_proof ------------------------
(***************************************************************************)
(* Proofs about SeatAllocation, for any number of bookings, transactions   *)
(* and seats, and about what else a departure needs: Operations, Documents *)
(* and Notifications, for any number of desks, rows and any of the limits. *)
(***************************************************************************)
EXTENDS MCSeatAllocation, FiniteSetTheorems, SequenceTheorems, WellFoundedInduction, TLAPS

-----------------------------------------------------------------------------
(* Counting seats.                                                         *)

(* The seats of a departure are finitely many, so SUM(pax_count) is a      *)
(* natural number.                                                         *)
LEMMA SeatsFinite ==
    ASSUME NEW st, NEW px
    PROVE  IsFiniteSet(Seats(st, px)) /\ Cardinality(Seats(st, px)) \in Nat
<1>1. IsFiniteSet(1 .. MaxPax)
    BY FS_Interval, SeatAssumption
<1>2. IsFiniteSet(Bookings \X (1 .. MaxPax))
    BY <1>1, FS_Product, SeatAssumption
<1>3. Seats(st, px) \in SUBSET (Bookings \X (1 .. MaxPax))
    BY DEF Seats
<1> QED
    BY <1>2, <1>3, FS_Subset, FS_CardinalityType

(* Seating a booking adds exactly its party to the count: the count after  *)
(* SaveStatus equals the count before plus pax_count.                      *)
LEMMA SeatingAddsParty ==
    ASSUME NEW st \in [Bookings -> Classes], NEW px \in [Bookings -> 1 .. MaxPax],
           NEW b \in Bookings, st[b] # "seated"
    PROVE  Cardinality(Seats([st EXCEPT ![b] = "seated"], px))
             = Cardinality(Seats(st, px)) + px[b]
<1> DEFINE own == {b} \X (1 .. px[b])
<1>1. px[b] \in 1 .. MaxPax /\ MaxPax \in Nat
    BY SeatAssumption
<1>2. Seats([st EXCEPT ![b] = "seated"], px) = Seats(st, px) \cup own
  <2>1. ASSUME NEW s \in Bookings \X (1 .. MaxPax)
        PROVE  s \in Seats([st EXCEPT ![b] = "seated"], px) <=> s \in Seats(st, px) \cup own
    <3>1. PICK c \in Bookings, i \in 1 .. MaxPax : s = <<c, i>>
        OBVIOUS
    <3>2. s[1] = c /\ s[2] = i
        BY <3>1
    <3>3. s \in own <=> c = b /\ i <= px[b]
        BY <3>1, <1>1
    <3>4. CASE c = b
        BY <3>2, <3>3, <3>4, <3>1 DEF Seats
    <3>5. CASE c # b
        BY <3>2, <3>3, <3>5, <3>1 DEF Seats
    <3> QED
        BY <3>4, <3>5
  <2>2. own \subseteq Bookings \X (1 .. MaxPax)
      BY <1>1
  <2>3. /\ Seats([st EXCEPT ![b] = "seated"], px) \subseteq Bookings \X (1 .. MaxPax)
        /\ Seats(st, px) \subseteq Bookings \X (1 .. MaxPax)
      BY DEF Seats
  <2> QED
      BY <2>1, <2>2, <2>3
<1>3. Seats(st, px) \cap own = {}
  <2>1. ASSUME NEW s \in own
        PROVE  s \notin Seats(st, px)
      BY <2>1 DEF Seats
  <2> QED
      BY <2>1
<1>4. IsFiniteSet(own) /\ Cardinality(own) = px[b]
  <2>1. IsFiniteSet(1 .. px[b]) /\ Cardinality(1 .. px[b]) = px[b]
      BY <1>1, FS_Interval
  <2>2. IsFiniteSet({b}) /\ Cardinality({b}) = 1
      BY FS_Singleton
  <2>3. IsFiniteSet(own) /\ Cardinality(own) = 1 * px[b]
      BY <2>1, <2>2, FS_Product
  <2> QED
      BY <2>3, <1>1
<1>5. Cardinality(Seats(st, px) \cup own)
        = Cardinality(Seats(st, px)) + Cardinality(own) - Cardinality(Seats(st, px) \cap own)
    BY <1>4, SeatsFinite, FS_Union
<1>6. Cardinality(Seats(st, px) \cap own) = 0
    BY <1>3, FS_EmptySet
<1>7. Cardinality(Seats(st, px)) \in Nat
    BY SeatsFinite
<1>8. Cardinality(Seats(st, px) \cup own) = Cardinality(Seats(st, px)) + px[b]
  <2> HIDE DEF own
  <2> QED
    BY <1>1, <1>4, <1>5, <1>6, <1>7
<1> QED
    BY <1>2, <1>8

(* Giving a booking's seats back never raises the count.                   *)
LEMMA ReleasingAddsNothing ==
    ASSUME NEW st \in [Bookings -> Classes], NEW px \in [Bookings -> 1 .. MaxPax],
           NEW b \in Bookings, NEW to \in Classes, to # "seated"
    PROVE  Cardinality(Seats([st EXCEPT ![b] = to], px)) <= Cardinality(Seats(st, px))
<1>1. Seats([st EXCEPT ![b] = to], px) \in SUBSET Seats(st, px)
    BY DEF Seats
<1> QED
    BY <1>1, SeatsFinite, FS_Subset

(* The party size of a booking without seats does not count.               *)
LEMMA UnseatedPartyDoesNotCount ==
    ASSUME NEW st \in [Bookings -> Classes], NEW px \in [Bookings -> 1 .. MaxPax],
           NEW b \in Bookings, st[b] # "seated", NEW p
    PROVE  Seats(st, [px EXCEPT ![b] = p]) = Seats(st, px)
<1>1. ASSUME NEW s \in Bookings \X (1 .. MaxPax)
      PROVE  s \in Seats(st, [px EXCEPT ![b] = p]) <=> s \in Seats(st, px)
    BY DEF Seats
<1> QED
    BY <1>1 DEF Seats

(* A status change outside the seated class moves no seat.                 *)
LEMMA UnseatedMoveKeepsSeats ==
    ASSUME NEW st \in [Bookings -> Classes], NEW px, NEW b \in Bookings,
           st[b] # "seated", NEW to \in Classes, to # "seated"
    PROVE  Seats([st EXCEPT ![b] = to], px) = Seats(st, px)
BY DEF Seats

-----------------------------------------------------------------------------
(* The inductive invariant.                                                *)

(* A transaction in a locked phase owns the locks of that phase.           *)
LockDiscipline ==
    \A t \in Txs :
      /\ tx[t].phase \in HoldsRow => rowLock[tx[t].b] = t
      /\ tx[t].phase \in HoldsDep => depLock = t

(* Under both locks the chosen move stays legal, and the counts a          *)
(* transaction remembers stay true, until it commits.                      *)
Remembers(t) ==
    LET b == tx[t].b
        to == tx[t].to
    IN /\ tx[t].phase \in HoldsDep => MovesSeats(status[b], to)
       /\ excused = {} /\ tx[t].phase = "counted" => tx[t].n = Sold
       /\ tx[t].phase = "saved" =>
            /\ to = "seated" => dep.open
            /\ excused = {} =>
                 /\ tx[t].n = SoldAfter(t)
                 /\ to = "seated" => dep.oversell \/ tx[t].n <= dep.total

RememberedCounts == \A t \in Txs : Remembers(t)

IInv == TypeOK /\ LockDiscipline /\ RememberedCounts /\ NoOversell

-----------------------------------------------------------------------------
(* The initial state satisfies the invariant: no seat is taken.            *)
LEMMA InitIInv == Init => IInv
<1> SUFFICES ASSUME Init PROVE IInv
    OBVIOUS
<1>1. TypeOK
    BY SeatAssumption DEF Init, TypeOK, Classes, Departure, Started, Idle, Progress, Phases, HoldsRow
<1>2. LockDiscipline /\ RememberedCounts
    BY DEF Init, LockDiscipline, RememberedCounts, Remembers, Started, Idle, HoldsRow, HoldsDep
<1>3. NoOversell
  <2>1. Seats(status, pax) = {}
      BY DEF Init, Seats
  <2>2. dep.total \in Nat
      BY <1>1, SeatAssumption DEF TypeOK, Departure
  <2> QED
      BY <2>1, <2>2, FS_EmptySet DEF NoOversell, Sold
<1> QED
    BY <1>1, <1>2, <1>3 DEF IInv

(* Every step keeps the types.                                             *)
LEMMA NextTypeOK == TypeOK /\ [Next]_vars => TypeOK'
<1> USE SeatAssumption
<1>1. CASE UNCHANGED vars
    BY <1>1 DEF TypeOK, vars
<1>2. ASSUME TypeOK, NEW t \in Txs, TxStep(t) PROVE TypeOK'
  <2> USE <1>2
  <2>1. ASSUME NEW b \in Bookings, FindForUpdate(t, b) PROVE TypeOK'
      BY <2>1 DEF TypeOK, FindForUpdate, Started, Idle, Progress, Phases, HoldsRow, Classes
  <2>2. ASSUME NEW b \in Bookings, UpdateRead(t, b) PROVE TypeOK'
      BY <2>2 DEF TypeOK, UpdateRead, Started, Idle, Progress, Phases, HoldsRow, Classes
  <2>3. ASSUME NEW b \in Bookings, PaymentRead(t, b) PROVE TypeOK'
    <3>1. pax[b] \in 1 .. MaxPax /\ pax[b] \in Nat
        BY DEF TypeOK
    <3>2. Started("pay", b, pax[b], None) \in Progress
        BY <3>1 DEF Started, Progress, Phases, Classes
    <3>3. tx' \in [Txs -> Progress]
        BY <2>3, <3>2 DEF TypeOK, PaymentRead
    <3> QED
        BY <2>3, <3>1, <3>3 DEF TypeOK, PaymentRead, Started, HoldsRow
  <2>4. CASE CommitUnseated(t)
      BY <2>4 DEF TypeOK, CommitUnseated, Started, Idle, Progress, Phases, HoldsRow, Classes
  <2>5. CASE LockDeparture(t)
    <3>1. PICK to \in Classes : tx' = [tx EXCEPT ![t] = [@ EXCEPT !.phase = "seats", !.to = to]]
        BY <2>5 DEF LockDeparture
    <3>2. [tx[t] EXCEPT !.phase = "seats", !.to = to] \in Progress
        BY DEF TypeOK, Progress, Phases, HoldsRow
    <3>3. tx' \in [Txs -> Progress]
        BY <3>1, <3>2 DEF TypeOK
    <3> QED
        BY <2>5, <3>1, <3>3 DEF TypeOK, LockDeparture, Progress, HoldsRow
  <2>6. CASE CountSold(t)
    <3>1. Sold \in Nat
        BY SeatsFinite DEF Sold
    <3>2. [tx[t] EXCEPT !.phase = "counted", !.n = Sold] \in Progress
        BY <3>1 DEF TypeOK, Progress, Phases, HoldsRow
    <3>3. tx' \in [Txs -> Progress]
        BY <2>6, <3>2 DEF TypeOK, CountSold
    <3> QED
        BY <2>6, <3>3 DEF TypeOK, CountSold, Progress, HoldsRow
  <2>7. CASE SaveStatus(t)
    <3>1. SoldAfter(t) \in Nat
        BY SeatsFinite DEF SoldAfter
    <3>2. [tx[t] EXCEPT !.phase = "saved", !.n = SoldAfter(t)] \in Progress
        BY <3>1 DEF TypeOK, Progress, Phases, HoldsRow
    <3>3. tx' \in [Txs -> Progress]
        BY <2>7, <3>2 DEF TypeOK, SaveStatus
    <3> QED
        BY <2>7, <3>3 DEF TypeOK, SaveStatus, Progress, HoldsRow
  <2>8. CASE CommitSeats(t)
      BY <2>8 DEF TypeOK, CommitSeats, Started, Idle, Progress, Phases, HoldsRow, Classes, Departure
  <2>9. CASE Rollback(t)
      BY <2>9 DEF TypeOK, Rollback, Started, Idle, Progress, Phases, HoldsRow, Classes
  <2>10. CASE UpdateCommit(t)
      BY <2>10 DEF TypeOK, UpdateCommit, WritePax, Started, Idle, Progress, Phases, HoldsRow, Classes
  <2>11. CASE PaymentCommit(t)
      BY <2>11 DEF TypeOK, PaymentCommit, WritePax, Started, Idle, Progress, Phases, HoldsRow, Classes
  <2>12. CASE DepartureRead(t)
      BY <2>12 DEF TypeOK, DepartureRead, Started, Idle, Progress, Phases, HoldsRow, Classes
  <2>13. CASE DepartureCommit(t)
    <3>1. dep' \in Departure /\ excused' \subseteq {"late_edit", "capacity_edit"}
        BY <2>13 DEF TypeOK, DepartureCommit, Departure
    <3>2. Idle \in Progress /\ Idle.phase = "idle"
        BY DEF Idle, Started, Progress, Phases, HoldsRow, Classes
    <3>3. tx' = [tx EXCEPT ![t] = Idle] /\ UNCHANGED <<status, pax, rowLock, depLock>>
        BY <2>13 DEF DepartureCommit
    <3> QED
        BY <3>1, <3>2, <3>3 DEF TypeOK, HoldsRow
  <2>14. CASE RecountRead(t)
      BY <2>14, SeatsFinite DEF TypeOK, RecountRead, Sold, Started, Idle, Progress, Phases, HoldsRow, Classes
  <2>15. CASE RecountCommit(t)
      BY <2>15 DEF TypeOK, RecountCommit, Started, Idle, Progress, Phases, HoldsRow, Classes, Departure
  <2> QED
      BY <2>1, <2>2, <2>3, <2>4, <2>5, <2>6, <2>7, <2>8, <2>9, <2>10, <2>11, <2>12,
         <2>13, <2>14, <2>15 DEF TxStep
<1> QED
    BY <1>1, <1>2 DEF Next

(* A transaction that moves among unlocked phases leaves the locks and the *)
(* other transactions alone.                                               *)
LEMMA UnlockedTxKeepsDiscipline ==
    ASSUME TypeOK, LockDiscipline, NEW t \in Txs, NEW r, r.phase \notin HoldsRow,
           tx' = [tx EXCEPT ![t] = r], UNCHANGED <<rowLock, depLock>>
    PROVE  LockDiscipline'
BY DEF TypeOK, LockDiscipline, HoldsRow, HoldsDep

(* Every step keeps the lock discipline: a lock is granted only when free  *)
(* and given up only by its owner.                                         *)
LEMMA NextLockDiscipline == TypeOK /\ LockDiscipline /\ [Next]_vars => LockDiscipline'
<1> USE SeatAssumption DEF HoldsRow, HoldsDep
<1>1. CASE UNCHANGED vars
    BY <1>1 DEF LockDiscipline, vars
<1>2. ASSUME TypeOK, LockDiscipline, NEW t \in Txs, TxStep(t) PROVE LockDiscipline'
  <2> USE <1>2
  <2>1. ASSUME NEW b \in Bookings, FindForUpdate(t, b) PROVE LockDiscipline'
      BY <2>1 DEF TypeOK, LockDiscipline, FindForUpdate, Started, Idle
  <2>2. ASSUME NEW b \in Bookings, UpdateRead(t, b) \/ PaymentRead(t, b)
        PROVE  LockDiscipline'
    <3>1. \E r : /\ r.phase \notin HoldsRow
                 /\ tx' = [tx EXCEPT ![t] = r]
                 /\ UNCHANGED <<rowLock, depLock>>
        BY <2>2 DEF UpdateRead, PaymentRead, Started, Idle
    <3> QED
        BY <3>1, UnlockedTxKeepsDiscipline
  <2>3. CASE CommitUnseated(t)
      BY <2>3 DEF TypeOK, LockDiscipline, CommitUnseated, Started, Idle
  <2>4. CASE LockDeparture(t)
      BY <2>4 DEF TypeOK, LockDiscipline, LockDeparture
  <2>5. CASE CountSold(t) \/ SaveStatus(t)
    <3>1. CASE CountSold(t)
        BY <3>1 DEF TypeOK, Progress, LockDiscipline, CountSold
    <3>2. CASE SaveStatus(t)
        BY <3>2 DEF TypeOK, Progress, LockDiscipline, SaveStatus
    <3> QED
        BY <2>5, <3>1, <3>2
  <2>6. CASE CommitSeats(t)
      BY <2>6 DEF TypeOK, LockDiscipline, CommitSeats, Started, Idle
  <2>7. CASE Rollback(t)
      BY <2>7 DEF TypeOK, LockDiscipline, Rollback, Started, Idle
  <2>8. CASE UpdateCommit(t) \/ PaymentCommit(t)
      BY <2>8 DEF TypeOK, LockDiscipline, UpdateCommit, PaymentCommit, WritePax, Started, Idle
  <2>9. CASE DepartureRead(t) \/ RecountRead(t)
    <3>1. \E r : /\ r.phase \notin HoldsRow
                 /\ tx' = [tx EXCEPT ![t] = r]
                 /\ UNCHANGED <<rowLock, depLock>>
        BY <2>9 DEF DepartureRead, RecountRead, Started, Idle
    <3> QED
        BY <3>1, UnlockedTxKeepsDiscipline
  <2>10. CASE DepartureCommit(t) \/ RecountCommit(t)
    <3>1. Idle.phase \notin HoldsRow /\ tx' = [tx EXCEPT ![t] = Idle]
          /\ UNCHANGED <<rowLock, depLock>>
        BY <2>10 DEF DepartureCommit, RecountCommit, Started, Idle
    <3> QED
        BY <3>1, UnlockedTxKeepsDiscipline
  <2> QED
      BY <2>1, <2>2, <2>3, <2>4, <2>5, <2>6, <2>7, <2>8, <2>9, <2>10 DEF TxStep
<1> QED
    BY <1>1, <1>2 DEF Next

-----------------------------------------------------------------------------
(* What a step does to the seats.                                          *)

(* As long as no unlocked write is excused, only a commit that holds the   *)
(* departure lock changes which seats are taken; and while a transaction   *)
(* holds a booking's row, nobody else changes that row.                    *)
LEMMA SeatsMoveOnlyAtCommit ==
    ASSUME TypeOK, NEW t \in Txs, TxStep(t), excused' = {}
    PROVE  /\ excused = {}
           /\ ~CommitSeats(t) => Seats(status', pax') = Seats(status, pax)
<1> USE SeatAssumption
<1>1. CASE UpdateCommit(t) \/ PaymentCommit(t)
  <2>1. PICK p \in 1 .. MaxPax : WritePax(t, p)
      BY <1>1 DEF TypeOK, UpdateCommit, PaymentCommit
  <2>2. tx[t].b \in Bookings
      BY <1>1 DEF TypeOK, UpdateCommit, PaymentCommit
  <2>3. CASE status[tx[t].b] = "seated"
    <3>1. p = pax[tx[t].b] /\ excused' = excused
        BY <2>1, <2>3 DEF WritePax
    <3>2. pax' = pax /\ status' = status
        BY <2>1, <2>2, <3>1 DEF WritePax, TypeOK
    <3> QED
        BY <3>1, <3>2
  <2>4. CASE status[tx[t].b] # "seated"
    <3>1. pax' = [pax EXCEPT ![tx[t].b] = p] /\ status' = status /\ excused' = excused
        BY <2>1, <2>4 DEF WritePax
    <3>2. status \in [Bookings -> Classes] /\ pax \in [Bookings -> 1 .. MaxPax]
        BY DEF TypeOK
    <3>3. Seats(status, [pax EXCEPT ![tx[t].b] = p]) = Seats(status, pax)
        BY <2>2, <2>4, <3>2, UnseatedPartyDoesNotCount
    <3> QED
        BY <3>1, <3>3
  <2> QED
      BY <2>3, <2>4
<1>2. CASE CommitUnseated(t)
  <2>1. tx[t].b \in Bookings
      BY <1>2 DEF TypeOK, CommitUnseated, HoldsRow
  <2>2. PICK to \in Classes : /\ CanMove(status[tx[t].b], to)
                              /\ ~MovesSeats(status[tx[t].b], to)
                              /\ status' = [status EXCEPT ![tx[t].b] = to]
      BY <1>2 DEF CommitUnseated
  <2>3. status[tx[t].b] # "seated" /\ to # "seated"
      BY <2>2 DEF CanMove, MovesSeats
  <2>4. Seats(status', pax) = Seats(status, pax)
      BY <2>1, <2>2, <2>3, UnseatedMoveKeepsSeats DEF TypeOK
  <2> QED
      BY <1>2, <2>4 DEF CommitUnseated
<1>3. CASE DepartureCommit(t)
  <2>1. UNCHANGED <<status, pax>> /\ excused = {}
      BY <1>3 DEF DepartureCommit
  <2> QED
      BY <2>1
<1>4. CASE CommitSeats(t)
    BY <1>4 DEF CommitSeats
<1>5. CASE \/ \E b \in Bookings : FindForUpdate(t, b) \/ UpdateRead(t, b) \/ PaymentRead(t, b)
           \/ LockDeparture(t) \/ CountSold(t) \/ SaveStatus(t) \/ Rollback(t)
           \/ DepartureRead(t) \/ RecountRead(t) \/ RecountCommit(t)
  <2>1. UNCHANGED <<status, pax, excused>>
      BY <1>5 DEF FindForUpdate, UpdateRead, PaymentRead, LockDeparture, CountSold,
                  SaveStatus, Rollback, DepartureRead, RecountRead, RecountCommit
  <2> QED
      BY <2>1
<1> QED
    BY <1>1, <1>2, <1>3, <1>4, <1>5 DEF TxStep

(* While one transaction holds the departure, a step of another leaves the *)
(* departure row and the held booking alone.                               *)
LEMMA HeldRowsAreStable ==
    ASSUME TypeOK, LockDiscipline, NEW t \in Txs, TxStep(t),
           NEW u \in Txs, u # t, tx[u].phase \in HoldsDep
    PROVE  /\ tx'[u] = tx[u]
           /\ dep' = dep
           /\ status'[tx[u].b] = status[tx[u].b]
           /\ pax'[tx[u].b] = pax[tx[u].b]
           /\ ~CommitSeats(t)
<1> USE SeatAssumption
<1>1. /\ depLock = u /\ depLock # None
      /\ tx[t].phase \notin HoldsDep
    BY DEF LockDiscipline
<1>2. tx[u].phase \in HoldsRow /\ tx[u].b \in Bookings /\ rowLock[tx[u].b] = u
    BY DEF TypeOK, LockDiscipline, HoldsRow, HoldsDep
<1>3. CASE UpdateCommit(t) \/ PaymentCommit(t)
  <2>1. PICK p \in 1 .. MaxPax : WritePax(t, p)
      BY <1>3 DEF TypeOK, UpdateCommit, PaymentCommit
  <2>2. tx[t].phase \in {"edit", "pay"}
      BY <1>3 DEF UpdateCommit, PaymentCommit
  <2>3. tx[t].b # tx[u].b
      BY <1>2, <2>1 DEF WritePax
  <2> QED
      BY <1>2, <2>1, <2>2, <2>3 DEF TypeOK, WritePax, CommitSeats
<1>4. CASE CommitUnseated(t)
  <2>1. tx[t].b # tx[u].b
      BY <1>2, <1>4 DEF LockDiscipline, CommitUnseated, HoldsRow
  <2>2. \E to \in Classes : status' = [status EXCEPT ![tx[t].b] = to]
      BY <1>4 DEF CommitUnseated
  <2> QED
      BY <1>2, <1>4, <2>1, <2>2 DEF TypeOK, CommitUnseated, CommitSeats
<1>5. CASE \/ \E b \in Bookings : FindForUpdate(t, b) \/ UpdateRead(t, b) \/ PaymentRead(t, b)
           \/ Rollback(t) \/ DepartureRead(t) \/ RecountRead(t)
  <2>1. /\ UNCHANGED <<status, pax, dep>>
        /\ \E r : tx' = [tx EXCEPT ![t] = r]
      BY <1>5 DEF FindForUpdate, UpdateRead, PaymentRead, Rollback, DepartureRead, RecountRead
  <2> QED
      BY <1>1, <2>1 DEF TypeOK, CommitSeats, HoldsDep
<1>6. ~(LockDeparture(t) \/ DepartureCommit(t) \/ RecountCommit(t))
    BY <1>1 DEF LockDeparture, DepartureCommit, RecountCommit
<1>7. ~(CountSold(t) \/ SaveStatus(t) \/ CommitSeats(t))
    BY <1>1 DEF CountSold, SaveStatus, CommitSeats, HoldsDep
<1> QED
    BY <1>3, <1>4, <1>5, <1>6, <1>7 DEF TxStep

-----------------------------------------------------------------------------
(* The count remembered by a transaction survives the steps of others.     *)
LEMMA OthersKeepCounts ==
    ASSUME IInv, TypeOK', NEW t \in Txs, TxStep(t), NEW u \in Txs, u # t
    PROVE  Remembers(u)'
<1> USE SeatAssumption
<1>1. TypeOK /\ LockDiscipline /\ Remembers(u)
    BY DEF IInv, RememberedCounts
<1>2. CASE tx[u].phase \in HoldsDep
  <2>1. /\ tx'[u] = tx[u] /\ dep' = dep /\ ~CommitSeats(t)
        /\ status'[tx[u].b] = status[tx[u].b] /\ pax'[tx[u].b] = pax[tx[u].b]
      BY <1>1, <1>2, HeldRowsAreStable
  <2>2. tx[u].b \in Bookings /\ tx[u].to \in Classes
      BY <1>1, <1>2 DEF TypeOK, HoldsRow, HoldsDep, Progress
  <2>3. ASSUME excused' = {}
        PROVE  excused = {} /\ Sold' = Sold /\ SoldAfter(u)' = SoldAfter(u)
    <3>1. excused = {} /\ Seats(status', pax') = Seats(status, pax)
        BY <1>1, <2>1, <2>3, SeatsMoveOnlyAtCommit
    <3>2. /\ status \in [Bookings -> Classes] /\ pax \in [Bookings -> 1 .. MaxPax]
          /\ status' \in [Bookings -> Classes] /\ pax' \in [Bookings -> 1 .. MaxPax]
        BY <1>1 DEF TypeOK
    <3> DEFINE before == Seats([status EXCEPT ![tx[u].b] = tx[u].to], pax)
               after  == Seats([status' EXCEPT ![tx[u].b] = tx[u].to], pax')
    <3>3. ASSUME NEW s \in Bookings \X (1 .. MaxPax)
          PROVE  s \in after <=> s \in before
      <4>1. s[1] \in Bookings
          OBVIOUS
      <4>2. CASE s[1] = tx[u].b
          BY <2>1, <2>2, <3>2, <4>2 DEF Seats
      <4>3. CASE s[1] # tx[u].b
        <5>1. s \in Seats(status', pax') <=> s \in Seats(status, pax)
            BY <3>1
        <5> QED
            BY <2>2, <3>2, <4>1, <4>3, <5>1 DEF Seats
      <4> QED
          BY <4>2, <4>3
    <3>4. after = before
        BY <3>3 DEF Seats
    <3> QED
        BY <2>1, <3>1, <3>4 DEF Sold, SoldAfter
  <2> QED
      BY <1>1, <2>1, <2>3 DEF Remembers
<1>3. CASE tx[u].phase \notin HoldsDep
  <2>1. tx'[u] = tx[u]
    <3>1. \E r : tx' = [tx EXCEPT ![t] = r]
        BY DEF TxStep, FindForUpdate, UpdateRead, PaymentRead, CommitUnseated, LockDeparture,
               CountSold, SaveStatus, CommitSeats, Rollback, UpdateCommit, PaymentCommit,
               WritePax, DepartureRead, DepartureCommit, RecountRead, RecountCommit
    <3> QED
        BY <1>1, <3>1 DEF TypeOK
  <2> QED
      BY <1>3, <2>1 DEF Remembers, HoldsDep
<1> QED
    BY <1>2, <1>3

(* A transaction's own steps establish what it remembers: the count, and   *)
(* then the guards checked against it.                                     *)
LEMMA OwnStepKeepsCounts ==
    ASSUME IInv, TypeOK', NEW t \in Txs, TxStep(t)
    PROVE  Remembers(t)'
<1> USE SeatAssumption
<1>1. TypeOK /\ LockDiscipline /\ Remembers(t)
    BY DEF IInv, RememberedCounts
<1>2. CASE LockDeparture(t)
  <2>1. PICK to \in Classes : /\ MovesSeats(status[tx[t].b], to)
                              /\ tx' = [tx EXCEPT ![t] = [@ EXCEPT !.phase = "seats", !.to = to]]
      BY <1>2 DEF LockDeparture
  <2>2. tx'[t].phase = "seats" /\ tx'[t].b = tx[t].b /\ tx'[t].to = to
      BY <1>1, <2>1 DEF TypeOK, Progress
  <2>3. status' = status
      BY <1>2 DEF LockDeparture
  <2> QED
      BY <2>1, <2>2, <2>3 DEF Remembers
<1>3. CASE CountSold(t)
  <2>1. /\ tx'[t].phase = "counted" /\ tx'[t].b = tx[t].b /\ tx'[t].to = tx[t].to
        /\ tx'[t].n = Sold
      BY <1>1, <1>3 DEF TypeOK, Progress, CountSold
  <2>2. UNCHANGED <<status, pax>> /\ tx[t].phase \in HoldsDep
      BY <1>3 DEF CountSold, HoldsDep
  <2>3. Sold' = Sold
      BY <2>2 DEF Sold
  <2> QED
      BY <1>1, <2>1, <2>2, <2>3 DEF Remembers
<1>4. CASE SaveStatus(t)
  <2>1. /\ tx'[t].phase = "saved" /\ tx'[t].b = tx[t].b /\ tx'[t].to = tx[t].to
        /\ tx'[t].n = SoldAfter(t)
      BY <1>1, <1>4 DEF TypeOK, Progress, SaveStatus
  <2>2. /\ UNCHANGED <<status, pax, dep, excused>>
        /\ tx[t].phase \in HoldsDep /\ tx[t].phase = "counted"
        /\ tx[t].to = "seated" => dep.open /\ HasCapacity(tx[t].n, pax[tx[t].b])
      BY <1>4 DEF SaveStatus, HoldsDep
  <2>3. SoldAfter(t)' = SoldAfter(t)
      BY <2>1, <2>2 DEF SoldAfter
  <2>4. MovesSeats(status[tx[t].b], tx[t].to)
      BY <1>1, <2>2 DEF Remembers
  <2>5. ASSUME excused = {}, tx[t].to = "seated"
        PROVE  dep.oversell \/ SoldAfter(t) <= dep.total
    <3>1. tx[t].n = Sold
        BY <1>1, <2>2, <2>5 DEF Remembers
    <3>2. tx[t].b \in Bookings /\ status[tx[t].b] # "seated"
        BY <1>1, <2>2, <2>4, <2>5 DEF TypeOK, HoldsRow, MovesSeats
    <3>3. Cardinality(Seats([status EXCEPT ![tx[t].b] = "seated"], pax))
            = Cardinality(Seats(status, pax)) + pax[tx[t].b]
        BY <1>1, <3>2, SeatingAddsParty DEF TypeOK
    <3>4. SoldAfter(t) = Sold + pax[tx[t].b]
        BY <2>5, <3>3 DEF SoldAfter, Sold
    <3> QED
        BY <2>2, <2>5, <3>1, <3>4 DEF HasCapacity
  <2> QED
      BY <2>1, <2>2, <2>3, <2>4, <2>5 DEF Remembers
<1>5. CASE ~(LockDeparture(t) \/ CountSold(t) \/ SaveStatus(t))
  <2>1. \E r : r.phase \notin HoldsDep /\ tx' = [tx EXCEPT ![t] = r]
    <3>1. CASE \E b \in Bookings : FindForUpdate(t, b) \/ UpdateRead(t, b) \/ PaymentRead(t, b)
        BY <3>1 DEF FindForUpdate, UpdateRead, PaymentRead, Started, HoldsDep
    <3>2. CASE DepartureRead(t) \/ RecountRead(t)
        BY <3>2 DEF DepartureRead, RecountRead, Started, HoldsDep
    <3>3. CASE \/ CommitUnseated(t) \/ CommitSeats(t) \/ Rollback(t) \/ UpdateCommit(t)
               \/ PaymentCommit(t) \/ DepartureCommit(t) \/ RecountCommit(t)
      <4>1. tx' = [tx EXCEPT ![t] = Idle]
          BY <3>3 DEF CommitUnseated, CommitSeats, Rollback, UpdateCommit, PaymentCommit,
                      WritePax, DepartureCommit, RecountCommit
      <4>2. Idle.phase \notin HoldsDep
          BY DEF Idle, Started, HoldsDep
      <4> QED
          BY <4>1, <4>2
    <3> QED
        BY <1>5, <3>1, <3>2, <3>3 DEF TxStep
  <2>2. tx'[t].phase \notin HoldsDep
      BY <1>1, <2>1 DEF TypeOK
  <2> QED
      BY <2>2 DEF Remembers, HoldsDep
<1> QED
    BY <1>2, <1>3, <1>4, <1>5

(* The seats taken stay within capacity: a commit takes what it checked.   *)
LEMMA StepNoOversell ==
    ASSUME IInv, TypeOK', NEW t \in Txs, TxStep(t)
    PROVE  NoOversell'
<1> USE SeatAssumption
<1>1. TypeOK /\ Remembers(t) /\ NoOversell
    BY DEF IInv, RememberedCounts
<1>2. /\ dep.total \in Nat /\ dep'.total \in Nat
      /\ Sold \in Nat /\ Sold' \in Nat
    BY <1>1, SeatsFinite DEF TypeOK, Departure, Sold
<1> SUFFICES ASSUME excused' = {}, ~dep'.oversell
             PROVE  Sold' <= dep'.total
    BY DEF NoOversell
<1>3. excused = {} /\ (~CommitSeats(t) => Sold' = Sold)
    BY <1>1, SeatsMoveOnlyAtCommit DEF Sold
<1>4. CASE CommitSeats(t)
  <2>1. /\ tx[t].phase = "saved" /\ tx[t].b \in Bookings /\ tx[t].to \in Classes
        /\ status' = [status EXCEPT ![tx[t].b] = tx[t].to] /\ pax' = pax
      BY <1>1, <1>4 DEF CommitSeats, TypeOK, HoldsRow, Progress
  <2>2. dep'.total = dep.total /\ dep'.oversell = dep.oversell
      BY <1>1, <1>4 DEF CommitSeats, TypeOK, Departure
  <2>3. Sold' = SoldAfter(t) /\ tx[t].n = SoldAfter(t)
      BY <1>1, <1>3, <2>1 DEF Sold, SoldAfter, Remembers
  <2>4. CASE tx[t].to = "seated"
      BY <1>1, <1>3, <2>1, <2>2, <2>3, <2>4 DEF Remembers
  <2>5. CASE tx[t].to # "seated"
    <3>1. SoldAfter(t) <= Sold
        BY <1>1, <2>1, <2>5, ReleasingAddsNothing DEF SoldAfter, Sold, TypeOK
    <3> QED
        BY <1>1, <1>2, <1>3, <2>2, <2>3, <3>1 DEF NoOversell
  <2> QED
      BY <2>4, <2>5
<1>5. CASE DepartureCommit(t)
  <2>1. dep'.total >= dep.total /\ ~dep.oversell
    <3>1. PICK total \in Capacities, oversell, open \in BOOLEAN :
            /\ dep' = [dep EXCEPT !.total = total, !.oversell = oversell, !.open = open]
            /\ excused' = IF total < dep.total \/ (dep.oversell /\ ~oversell)
                          THEN excused \cup {"capacity_edit"} ELSE excused
        BY <1>5 DEF DepartureCommit
    <3>2. ~(total < dep.total \/ (dep.oversell /\ ~oversell))
        BY <3>1
    <3>3. dep'.total = total /\ dep'.oversell = oversell
        BY <1>1, <3>1 DEF TypeOK, Departure
    <3> QED
        BY <1>2, <3>2, <3>3
  <2> QED
      BY <1>1, <1>2, <1>3, <1>4, <1>5, <2>1 DEF NoOversell
<1>6. CASE ~CommitSeats(t) /\ ~DepartureCommit(t)
  <2>1. dep'.total = dep.total /\ dep'.oversell = dep.oversell
      BY <1>1, <1>6 DEF TypeOK, Departure, TxStep, FindForUpdate, UpdateRead, PaymentRead,
             CommitUnseated, LockDeparture, CountSold, SaveStatus, Rollback, UpdateCommit,
             PaymentCommit, WritePax, DepartureRead, RecountRead, RecountCommit
  <2> QED
      BY <1>1, <1>3, <1>6, <2>1 DEF NoOversell
<1> QED
    BY <1>4, <1>5, <1>6

(* The invariant is inductive.                                             *)
LEMMA NextIInv == IInv /\ [Next]_vars => IInv'
<1> SUFFICES ASSUME IInv, [Next]_vars PROVE IInv'
    OBVIOUS
<1>1. TypeOK' /\ LockDiscipline'
    BY NextTypeOK, NextLockDiscipline DEF IInv
<1>2. CASE UNCHANGED vars
  <2>1. RememberedCounts' /\ NoOversell'
      BY <1>2 DEF IInv, RememberedCounts, Remembers, NoOversell, Sold, SoldAfter, vars
  <2> QED
      BY <1>1, <2>1 DEF IInv
<1>3. ASSUME NEW t \in Txs, TxStep(t) PROVE IInv'
  <2>1. \A u \in Txs : Remembers(u)'
      BY <1>1, <1>3, OthersKeepCounts, OwnStepKeepsCounts
  <2>2. NoOversell'
      BY <1>1, <1>3, StepNoOversell
  <2> QED
      BY <1>1, <2>1, <2>2 DEF IInv, RememberedCounts
<1> QED
    BY <1>2, <1>3 DEF Next

(* The inductive invariant holds in every reachable state.                 *)
THEOREM SeatInvariant == Spec => []IInv
BY InitIInv, NextIInv, PTL DEF Spec

(* TypeOK holds in every reachable state.                                  *)
THEOREM SeatTypeCorrect == Spec => []TypeOK
<1>1. IInv => TypeOK
    BY DEF IInv
<1> QED
    BY <1>1, SeatInvariant, PTL

(* Check-and-take under the departure lock never oversells, for any number *)
(* of bookings and concurrent transactions.                                *)
THEOREM SeatsNeverOversold == Spec => []NoOversell
<1>1. IInv => NoOversell
    BY DEF IInv
<1> QED
    BY <1>1, SeatInvariant, PTL

(* A step that changes the seats taken writes the true count into          *)
(* capacity_sold.                                                          *)
THEOREM CounterFollowsSeatsHolds == Spec => CounterFollowsSeats
<1>1. IInv /\ [Next]_vars => [excused' = {} /\ Sold' # Sold => dep'.sold = Sold']_vars
  <2> SUFFICES ASSUME IInv, NEW t \in Txs, TxStep(t), excused' = {}, Sold' # Sold
               PROVE  dep'.sold = Sold'
      BY DEF Next
  <2>1. TypeOK /\ Remembers(t)
      BY DEF IInv, RememberedCounts
  <2>2. excused = {} /\ CommitSeats(t)
      BY <2>1, SeatsMoveOnlyAtCommit DEF Sold
  <2>3. tx[t].n = SoldAfter(t)
      BY <2>1, <2>2 DEF Remembers, CommitSeats
  <2>4. Sold' = SoldAfter(t)
      BY <2>2 DEF CommitSeats, Sold, SoldAfter
  <2>5. dep'.sold = tx[t].n
      BY <2>1, <2>2 DEF CommitSeats, TypeOK, Departure
  <2> QED
      BY <2>3, <2>4, <2>5
<1> QED
    BY <1>1, SeatInvariant, PTL DEF Spec, CounterFollowsSeats

(* No booking takes seats on a departure whose sales are closed.           *)
THEOREM SeatsOnlyWhileOpenHolds == Spec => SeatsOnlyWhileOpen
<1>1. IInv /\ [Next]_vars =>
        [\A b \in Bookings : status[b] # "seated" /\ status'[b] = "seated" => dep.open]_vars
  <2> SUFFICES ASSUME IInv, NEW t \in Txs, TxStep(t),
                      NEW b \in Bookings, status[b] # "seated", status'[b] = "seated"
               PROVE  dep.open
      BY DEF Next
  <2>1. TypeOK /\ Remembers(t)
      BY DEF IInv, RememberedCounts
  <2>2. CASE CommitSeats(t)
      BY <2>1, <2>2 DEF TypeOK, Remembers, CommitSeats
  <2>3. CASE CommitUnseated(t)
    <3>1. PICK to \in Classes : /\ CanMove(status[tx[t].b], to)
                                /\ ~MovesSeats(status[tx[t].b], to)
                                /\ status' = [status EXCEPT ![tx[t].b] = to]
        BY <2>3 DEF CommitUnseated
    <3>2. to # "seated"
        BY <3>1 DEF CanMove, MovesSeats
    <3> QED
        BY <2>1, <3>1, <3>2 DEF TypeOK
  <2>4. CASE ~CommitSeats(t) /\ ~CommitUnseated(t)
    <3>1. status' = status
        BY <2>4 DEF TxStep, FindForUpdate, UpdateRead, PaymentRead, LockDeparture, CountSold,
               SaveStatus, Rollback, UpdateCommit, PaymentCommit, WritePax, DepartureRead,
               DepartureCommit, RecountRead, RecountCommit
    <3> QED
        BY <3>1
  <2> QED
      BY <2>2, <2>3, <2>4
<1> QED
    BY <1>1, SeatInvariant, PTL DEF Spec, SeatsOnlyWhileOpen

-----------------------------------------------------------------------------
(* The operations desk: rooms and beds, bus companies, fares and searches. *)
(* What a desk of the operations holds between its read and its write.     *)
OpsJob(j, table) ==
    \/ j = Free
    \/ j = [op |-> "assign", room |-> j.room, who |-> j.who] /\ j.room \in RoomIds /\ j.who \in Travellers
    \/ j = [op |-> "create", row |-> j.row] /\ j.row \in BusRow
    \/ j = [op |-> "update", id |-> j.id, row |-> j.row] /\ j.row \in BusRow /\ j.id \in BusIds /\ table[j.id] # NoRow
    \/ j = [op |-> "fares", key |-> j.key, asked |-> j.asked] /\ j.key \in CacheKeys

(* The requests that passed a limit's check and have not written yet.      *)
InBed(table, room) == {p \in Travellers : table[p] = room}
Assigning(desk, room) == {d \in Desks : desk[d].op = "assign" /\ desk[d].room = room}
Creating(desk) == {d \in Desks : desk[d].op = "create"}
BedsWithin(table, desk) ==
    \A room \in RoomIds : Cardinality(InBed(table, room)) + Cardinality(Assigning(desk, room)) <= MaxCapacity + Cardinality(Desks) - 1
BusesWithin(table, desk) ==
    Cardinality(Present(table)) + Cardinality(Creating(desk)) <= BusLimit + Cardinality(Desks) - 1

OpsInv ==
    /\ rooms \in [RoomIds -> 1 .. MaxCapacity \cup {NoRow}]
    /\ beds \in [Travellers -> RoomIds \cup {NoRow}] /\ cancelled \subseteq Travellers
    /\ \A p \in Travellers : beds[p] # NoRow => rooms[beds[p]] # NoRow
    /\ buses \in [BusIds -> BusRow \cup {NoRow}] /\ opsTick \in 0 .. LastOpsTick
    /\ opsDesk = [d \in Desks |-> opsDesk[d]] /\ \A d \in Desks : OpsJob(opsDesk[d], buses)
    /\ BedsWithin(beds, opsDesk) /\ BusesWithin(buses, opsDesk)
    /\ DOMAIN fareCache \subseteq CacheKeys /\ CacheHolds /\ SearchAnswers

-----------------------------------------------------------------------------
(* Counting.                                                               *)
LEMMA OpsFinite ==
    /\ Cardinality(Desks) \in Nat \ {0}
    /\ \A D \in SUBSET Desks : IsFiniteSet(D) /\ Cardinality(D) \in 0 .. Cardinality(Desks)
    /\ \A P \in SUBSET Travellers : IsFiniteSet(P) /\ Cardinality(P) \in Nat
    /\ \A B \in SUBSET BusIds : IsFiniteSet(B) /\ Cardinality(B) \in Nat
    /\ \A K \in SUBSET CacheKeys : IsFiniteSet(K) /\ Cardinality(K) \in Nat
  <1>1. Cardinality(Desks) \in Nat \ {0}
    BY OpsAssumption, FS_CardinalityType, FS_EmptySet
  <1>2. \A D \in SUBSET Desks : IsFiniteSet(D) /\ Cardinality(D) \in 0 .. Cardinality(Desks)
    BY <1>1, OpsAssumption, FS_Subset, FS_CardinalityType
  <1>3. \A P \in SUBSET Travellers : IsFiniteSet(P) /\ Cardinality(P) \in Nat
    BY OpsAssumption, FS_Subset, FS_CardinalityType
  <1>4. \A B \in SUBSET BusIds : IsFiniteSet(B) /\ Cardinality(B) \in Nat
    BY OpsAssumption, FS_Subset, FS_CardinalityType
  <1>5. IsFiniteSet(CacheKeys)
    <2>1. IsFiniteSet({"k1"})
      BY FS_Singleton
    <2>2. IsFiniteSet({"k1"} \cup {"k2"})
      BY <2>1, FS_AddElement
    <2>3. IsFiniteSet(({"k1"} \cup {"k2"}) \cup {"k3"})
      BY <2>2, FS_AddElement
    <2>4. CacheKeys = ({"k1"} \cup {"k2"}) \cup {"k3"}
      BY DEF CacheKeys
    <2>. QED  BY <2>3, <2>4
  <1>6. \A K \in SUBSET CacheKeys : IsFiniteSet(K) /\ Cardinality(K) \in Nat
    BY <1>5, FS_Subset, FS_CardinalityType
  <1>. QED  BY <1>1, <1>2, <1>3, <1>4, <1>6

(* A subset of the desks that loses one is smaller by one.                 *)
LEMMA SmallerByOne ==
    ASSUME NEW S, IsFiniteSet(S), NEW x \in S
    PROVE  Cardinality(S \ {x}) = Cardinality(S) - 1 /\ Cardinality(S) \in Nat \ {0}
  BY FS_RemoveElement, FS_CardinalityType, FS_EmptySet

LEMMA OpsInitHolds == OpsInit => OpsInv
  <1>. SUFFICES ASSUME OpsInit PROVE OpsInv
    OBVIOUS
  <1>1. /\ rooms \in [RoomIds -> 1 .. MaxCapacity \cup {NoRow}] /\ beds \in [Travellers -> RoomIds \cup {NoRow}]
        /\ buses \in [BusIds -> BusRow \cup {NoRow}] /\ cancelled \subseteq Travellers /\ opsTick \in 0 .. LastOpsTick
        /\ \A p \in Travellers : beds[p] = NoRow
    BY OpsAssumption DEF OpsInit
  <1>2. opsDesk = [d \in Desks |-> opsDesk[d]] /\ \A d \in Desks : opsDesk[d] = Free
    BY DEF OpsInit
  <1>3. Cardinality({}) = 0 /\ MaxCapacity \in Nat \ {0} /\ BusLimit \in Nat /\ CacheMax \in Nat \ {0}
    BY OpsAssumption, FS_EmptySet
  <1>4. BedsWithin(beds, opsDesk)
    <2>1. \A room \in RoomIds : InBed(beds, room) = {} /\ Assigning(opsDesk, room) = {}
      BY <1>1, <1>2, OpsAssumption DEF InBed, Assigning, Free
    <2>. QED  BY <1>3, <2>1, OpsFinite DEF BedsWithin
  <1>5. BusesWithin(buses, opsDesk)
    <2>1. Present(buses) = {} /\ Creating(opsDesk) = {}
      BY <1>2 DEF OpsInit, Present, Creating, Free
    <2>. QED  BY <1>3, <2>1, OpsFinite DEF BusesWithin
  <1>6. DOMAIN fareCache = {} /\ search.op = "free"
    BY DEF OpsInit, Free
  <1>7. CacheHolds /\ SearchAnswers
    BY <1>3, <1>6 DEF CacheHolds, SearchAnswers, SearchAnswer
  <1>. QED  BY <1>1, <1>2, <1>4, <1>5, <1>6, <1>7 DEF OpsInv, OpsJob

LEMMA OpsInvHolds == OpsInv => OpsTypeOK /\ OverrunsBounded /\ GroupListTrue /\ CacheHolds /\ SearchAnswers
  <1>. SUFFICES ASSUME OpsInv PROVE OpsTypeOK /\ OverrunsBounded /\ GroupListTrue /\ CacheHolds /\ SearchAnswers
    OBVIOUS
  <1>1. MaxCapacity + Cardinality(Desks) - 1 \in Int /\ BusLimit + Cardinality(Desks) - 1 \in Int
    BY OpsFinite, OpsAssumption
  <1>2. \A room \in RoomIds : AssignedTo(room) <= MaxCapacity + Cardinality(Desks) - 1
    <2>1. ASSUME NEW room \in RoomIds
          PROVE  AssignedTo(room) <= MaxCapacity + Cardinality(Desks) - 1
      <3>1. Cardinality(InBed(beds, room)) \in Nat /\ Cardinality(Assigning(opsDesk, room)) \in Nat
        <4>1. InBed(beds, room) \in SUBSET Travellers /\ Assigning(opsDesk, room) \in SUBSET Desks
          BY DEF InBed, Assigning
        <4>. QED  BY <4>1, OpsFinite
      <3>2. AssignedTo(room) = Cardinality(InBed(beds, room))
        BY DEF AssignedTo, InBed
      <3>3. Cardinality(InBed(beds, room)) + Cardinality(Assigning(opsDesk, room)) <= MaxCapacity + Cardinality(Desks) - 1
        BY DEF OpsInv, BedsWithin
      <3>. QED  BY <1>1, <3>1, <3>2, <3>3
    <2>. QED  BY <2>1
  <1>3. Cardinality(Present(buses)) <= BusLimit + Cardinality(Desks) - 1
    <2>1. Present(buses) \in SUBSET BusIds /\ Creating(opsDesk) \in SUBSET Desks
      BY DEF OpsInv, Present, Creating
    <2>2. Cardinality(Present(buses)) \in Nat /\ Cardinality(Creating(opsDesk)) \in Nat
      BY <2>1, OpsFinite
    <2>. QED  BY <1>1, <2>2 DEF OpsInv, BusesWithin
  <1>4. GroupListTrue
    BY DEF OpsInv, GroupListTrue, GroupList
  <1>5. Present(rooms) \subseteq RoomIds
    BY DEF OpsInv, Present
  <1>. QED  BY <1>2, <1>3, <1>4, <1>5 DEF OpsInv, OpsTypeOK, OverrunsBounded

-----------------------------------------------------------------------------
(* Desks.                                                                  *)
(* D without d: as many, or one less if d was among them.                  *)
Fewer(E, D, d) ==
    /\ Cardinality(D) \in Nat /\ Cardinality(E) \in Nat
    /\ Cardinality(E) = IF d \in D THEN Cardinality(D) - 1 ELSE Cardinality(D)
LEMMA OpsSmaller == \A D \in SUBSET Desks : \A d : Fewer(D \ {d}, D, d)
  <1>. SUFFICES ASSUME NEW D \in SUBSET Desks, NEW d PROVE Fewer(D \ {d}, D, d)
    OBVIOUS
  <1>1. IsFiniteSet(D) /\ Cardinality(D) \in Nat /\ Cardinality(D \ {d}) \in Nat
    BY OpsFinite
  <1>2. Cardinality(D \ {d}) = IF d \in D THEN Cardinality(D) - 1 ELSE Cardinality(D)
    BY <1>1, FS_RemoveElement
  <1>. QED  BY <1>1, <1>2 DEF Fewer

(* A desk that takes up another work leaves the others as they were, and   *)
(* who waits to write follows.                                             *)
LEMMA OpsDesk ==
    ASSUME OpsInv, NEW d \in Desks, NEW j, opsDesk' = [opsDesk EXCEPT ![d] = j]
    PROVE  /\ opsDesk' = [e \in Desks |-> opsDesk'[e]]
           /\ \A e \in Desks : opsDesk'[e] = IF e = d THEN j ELSE opsDesk[e]
           /\ \A room : j.op # "assign" \/ j.room # room =>
                 Fewer(Assigning(opsDesk', room), Assigning(opsDesk, room), d)
           /\ j.op # "create" => Fewer(Creating(opsDesk'), Creating(opsDesk), d)
  <1>1. opsDesk = [e \in Desks |-> opsDesk[e]]
    BY DEF OpsInv
  <1>2. opsDesk' = [e \in Desks |-> opsDesk'[e]] /\ \A e \in Desks : opsDesk'[e] = IF e = d THEN j ELSE opsDesk[e]
    BY <1>1
  <1>3. \A room : Assigning(opsDesk, room) \in SUBSET Desks
    BY DEF Assigning
  <1>4. Creating(opsDesk) \in SUBSET Desks
    BY DEF Creating
  <1>5. ASSUME NEW room, j.op # "assign" \/ j.room # room
        PROVE  Fewer(Assigning(opsDesk', room), Assigning(opsDesk, room), d)
    <2>1. Assigning(opsDesk', room) = Assigning(opsDesk, room) \ {d}
      BY <1>2, <1>5 DEF Assigning
    <2>. QED  BY <1>3, <2>1, OpsSmaller, Zenon
  <1>6. ASSUME j.op # "create"
        PROVE  Fewer(Creating(opsDesk'), Creating(opsDesk), d)
    <2>1. Creating(opsDesk') = Creating(opsDesk) \ {d}
      BY <1>2, <1>6 DEF Creating
    <2>. QED  BY <1>4, <2>1, OpsSmaller, Zenon
  <1>. QED  BY <1>2, <1>5, <1>6

(* A desk that takes up work which waits for no limit.                     *)
LEMMA FreeingKeeps ==
    ASSUME OpsInv, NEW d \in Desks, NEW j, opsDesk' = [opsDesk EXCEPT ![d] = j], j.op \notin {"assign", "create"}
    PROVE  BedsWithin(beds, opsDesk') /\ BusesWithin(buses, opsDesk')
  <1>1. /\ \A room : Fewer(Assigning(opsDesk', room), Assigning(opsDesk, room), d)
        /\ Fewer(Creating(opsDesk'), Creating(opsDesk), d)
    BY OpsDesk
  <1>2. MaxCapacity \in Nat /\ BusLimit \in Nat /\ Cardinality(Desks) \in Nat
    BY OpsFinite, OpsAssumption
  <1>3. BedsWithin(beds, opsDesk')
    <2>1. \A room : InBed(beds, room) \in SUBSET Travellers
      BY DEF InBed
    <2>2. \A room : Cardinality(InBed(beds, room)) \in Nat
      BY <2>1, OpsFinite
    <2>3. ASSUME NEW room \in RoomIds
          PROVE  Cardinality(InBed(beds, room)) + Cardinality(Assigning(opsDesk', room)) <= MaxCapacity + Cardinality(Desks) - 1
      <3>1. Cardinality(InBed(beds, room)) + Cardinality(Assigning(opsDesk, room)) <= MaxCapacity + Cardinality(Desks) - 1
        BY DEF OpsInv, BedsWithin
      <3>2. /\ Cardinality(Assigning(opsDesk', room)) \in Nat /\ Cardinality(Assigning(opsDesk, room)) \in Nat
            /\ Cardinality(Assigning(opsDesk', room)) <= Cardinality(Assigning(opsDesk, room))
        <4>1. Fewer(Assigning(opsDesk', room), Assigning(opsDesk, room), d)
          BY <1>1
        <4>. QED  BY <4>1 DEF Fewer
      <3>. QED  BY <1>2, <2>2, <3>1, <3>2
    <2>. QED  BY <2>3 DEF BedsWithin
  <1>4. BusesWithin(buses, opsDesk')
    <2>1. Present(buses) \in SUBSET BusIds
      BY DEF OpsInv, Present
    <2>2. Cardinality(Present(buses)) \in Nat
      BY <2>1, OpsFinite
    <2>3. BusesWithin(buses, opsDesk)
      BY DEF OpsInv
    <2>4. Cardinality(Creating(opsDesk')) \in Nat /\ Cardinality(Creating(opsDesk)) \in Nat
          /\ Cardinality(Creating(opsDesk')) <= Cardinality(Creating(opsDesk))
      BY <1>1 DEF Fewer
    <2>. QED  BY <1>2, <2>2, <2>3, <2>4 DEF BusesWithin
  <1>. QED  BY <1>3, <1>4

-----------------------------------------------------------------------------
(* Rooming.                                                                *)
LEMMA RoomTableKeeps ==
    ASSUME OpsInv, CreateRoom \/ UpdateRoom \/ BookingCancelled, UNCHANGED <<buses, fareCache, opsTick, search>>
    PROVE  OpsInv'
  <1>1. UNCHANGED <<beds, opsDesk>> /\ cancelled' \subseteq Travellers
    BY DEF CreateRoom, UpdateRoom, BookingCancelled, OpsInv
  <1>2. /\ rooms' \in [RoomIds -> 1 .. MaxCapacity \cup {NoRow}]
        /\ \A room \in RoomIds : rooms[room] # NoRow => rooms'[room] # NoRow
    <2>1. CASE CreateRoom \/ UpdateRoom
      <3>1. PICK id \in RoomIds : \E capacity \in 1 .. MaxCapacity : rooms' = [rooms EXCEPT ![id] = capacity]
        BY <2>1 DEF CreateRoom, UpdateRoom, InsertRoom, SetRoom, Fresh, Present, OpsInv
      <3>. QED  BY <3>1, OpsAssumption DEF OpsInv
    <2>2. CASE BookingCancelled
      BY <2>2 DEF BookingCancelled, OpsInv
    <2>. QED  BY <2>1, <2>2
  <1>3. \A p \in Travellers : beds[p] # NoRow => rooms'[beds[p]] # NoRow
    BY <1>2 DEF OpsInv
  <1>. QED  BY <1>1, <1>2, <1>3 DEF OpsInv, CacheHolds, SearchAnswers

(* A desk's bed table changes where nobody is put into a bed.              *)
LEMMA RemoveKeeps ==
    ASSUME OpsInv, DeleteRoom \/ Unassign, UNCHANGED <<buses, fareCache, opsTick, search>>
    PROVE  OpsInv'
  <1>1. UNCHANGED <<cancelled, opsDesk>>
    BY DEF DeleteRoom, Unassign
  <1>2. /\ rooms' \in [RoomIds -> 1 .. MaxCapacity \cup {NoRow}] /\ beds' \in [Travellers -> RoomIds \cup {NoRow}]
        /\ \A p \in Travellers : beds'[p] # NoRow => rooms'[beds'[p]] # NoRow /\ beds'[p] = beds[p]
    <2>1. CASE DeleteRoom
      <3>1. PICK id \in RoomIds : /\ rooms' = [rooms EXCEPT ![id] = NoRow]
                                  /\ beds' = [p \in Travellers |-> IF beds[p] = id THEN NoRow ELSE beds[p]]
        BY <2>1 DEF DeleteRoom, RemoveRoom, Present, OpsInv
      <3>. QED  BY <3>1 DEF OpsInv
    <2>2. CASE Unassign
      <3>1. PICK p \in Travellers : beds' = [beds EXCEPT ![p] = NoRow] /\ rooms' = rooms
        BY <2>2 DEF Unassign, RemoveBed
      <3>. QED  BY <3>1 DEF OpsInv
    <2>. QED  BY <2>1, <2>2
  <1>3. BedsWithin(beds', opsDesk)
    <2>1. ASSUME NEW room \in RoomIds
          PROVE  Cardinality(InBed(beds', room)) + Cardinality(Assigning(opsDesk, room)) <= MaxCapacity + Cardinality(Desks) - 1
      <3>1. InBed(beds', room) \in SUBSET InBed(beds, room) /\ InBed(beds, room) \in SUBSET Travellers
        BY <1>2, OpsAssumption DEF InBed
      <3>2. Cardinality(InBed(beds', room)) <= Cardinality(InBed(beds, room)) /\ Cardinality(InBed(beds, room)) \in Nat
            /\ Cardinality(InBed(beds', room)) \in Nat
        BY <3>1, OpsFinite, FS_Subset
      <3>3. Assigning(opsDesk, room) \in SUBSET Desks
        BY DEF Assigning
      <3>4. Cardinality(Assigning(opsDesk, room)) \in Nat /\ MaxCapacity + Cardinality(Desks) - 1 \in Int
        BY <3>3, OpsFinite, OpsAssumption
      <3>5. Cardinality(InBed(beds, room)) + Cardinality(Assigning(opsDesk, room)) <= MaxCapacity + Cardinality(Desks) - 1
        BY DEF OpsInv, BedsWithin
      <3>. QED  BY <3>2, <3>4, <3>5
    <2>. QED  BY <2>1 DEF BedsWithin
  <1>. QED  BY <1>1, <1>2, <1>3 DEF OpsInv, CacheHolds, SearchAnswers

LEMMA AssignReadKeeps ==
    ASSUME OpsInv, NEW d \in Desks, AssignRead(d), UNCHANGED <<buses, fareCache, opsTick, search>>
    PROVE  OpsInv'
  <1>1. PICK id \in Present(rooms), p \in Travellers :
          ~IsFull(id) /\ opsDesk' = [opsDesk EXCEPT ![d] = [op |-> "assign", room |-> id, who |-> p]]
    BY DEF AssignRead
  <1>2. UNCHANGED <<rooms, beds, cancelled>> /\ id \in RoomIds /\ rooms[id] \in 1 .. MaxCapacity
    BY <1>1 DEF AssignRead, Present, OpsInv
  <1>. DEFINE j == [op |-> "assign", room |-> id, who |-> p]
  <1>3. OpsJob(j, buses) /\ j.op = "assign" /\ j.room = id
    BY <1>2 DEF OpsJob
  <1>. HIDE DEF j
  <1>4. opsDesk' = [opsDesk EXCEPT ![d] = j]
    BY <1>1 DEF j
  <1>5. /\ opsDesk' = [e \in Desks |-> opsDesk'[e]]
        /\ \A e \in Desks : opsDesk'[e] = IF e = d THEN j ELSE opsDesk[e]
        /\ \A room : room # id => Fewer(Assigning(opsDesk', room), Assigning(opsDesk, room), d)
        /\ Fewer(Creating(opsDesk'), Creating(opsDesk), d)
    BY <1>3, <1>4, OpsDesk
  <1>6. MaxCapacity \in Nat /\ BusLimit \in Nat /\ Cardinality(Desks) \in Nat
    BY OpsFinite, OpsAssumption
  <1>7. BusesWithin(buses, opsDesk')
    <2>1. Present(buses) \in SUBSET BusIds /\ BusesWithin(buses, opsDesk)
      BY DEF OpsInv, Present
    <2>2. Cardinality(Present(buses)) \in Nat
      BY <2>1, OpsFinite
    <2>. QED  BY <1>5, <1>6, <2>1, <2>2 DEF BusesWithin, Fewer
  <1>8. BedsWithin(beds, opsDesk')
    <2>1. \A room : InBed(beds, room) \in SUBSET Travellers /\ Assigning(opsDesk', room) \in SUBSET Desks
      BY DEF InBed, Assigning
    <2>2. \A room : Cardinality(InBed(beds, room)) \in Nat /\ Cardinality(Assigning(opsDesk', room)) \in 0 .. Cardinality(Desks)
      BY <2>1, OpsFinite
    <2>3. Cardinality(InBed(beds, id)) < rooms[id]
      <3>1. AssignedTo(id) = Cardinality(InBed(beds, id))
        BY DEF AssignedTo, InBed
      <3>. QED  BY <1>1, <1>2, <2>2, <3>1 DEF IsFull
    <2>4. Cardinality(InBed(beds, id)) + Cardinality(Assigning(opsDesk', id)) <= MaxCapacity + Cardinality(Desks) - 1
      BY <1>2, <1>6, <2>2, <2>3
    <2>5. ASSUME NEW room \in RoomIds, room # id
          PROVE  Cardinality(InBed(beds, room)) + Cardinality(Assigning(opsDesk', room)) <= MaxCapacity + Cardinality(Desks) - 1
      <3>1. Cardinality(InBed(beds, room)) + Cardinality(Assigning(opsDesk, room)) <= MaxCapacity + Cardinality(Desks) - 1
        BY DEF OpsInv, BedsWithin
      <3>2. Cardinality(Assigning(opsDesk', room)) <= Cardinality(Assigning(opsDesk, room)) /\ Cardinality(Assigning(opsDesk, room)) \in Nat
        BY <1>5, <2>2, <2>5 DEF Fewer
      <3>. QED  BY <1>6, <2>2, <3>1, <3>2
    <2>. QED  BY <2>4, <2>5 DEF BedsWithin
  <1>. QED  BY <1>2, <1>3, <1>5, <1>7, <1>8 DEF OpsInv, CacheHolds, SearchAnswers

LEMMA AssignWriteKeeps ==
    ASSUME OpsInv, NEW d \in Desks, AssignWrite(d), UNCHANGED <<buses, fareCache, opsTick, search>>
    PROVE  OpsInv'
  <1>. DEFINE id == opsDesk[d].room
              p == opsDesk[d].who
  <1>1. opsDesk[d].op = "assign" /\ id \in RoomIds /\ p \in Travellers
    BY DEF AssignWrite, OpsInv, OpsJob, Free
  <1>2. UNCHANGED <<rooms, cancelled>> /\ opsDesk' = [opsDesk EXCEPT ![d] = Free]
        /\ ((beds' = [beds EXCEPT ![p] = id] /\ rooms[id] # NoRow) \/ beds' = beds)
    BY DEF AssignWrite, UpsertBed, ensureAssignable
  <1>3. /\ beds' \in [Travellers -> RoomIds \cup {NoRow}]
        /\ \A q \in Travellers : beds'[q] # NoRow => rooms[beds'[q]] # NoRow
        /\ \A q \in Travellers : beds'[q] # beds[q] => q = p /\ beds'[q] = id
    BY <1>1, <1>2 DEF OpsInv
  <1>4. OpsJob(Free, buses) /\ Free.op \notin {"assign", "create"}
    BY DEF OpsJob, Free
  <1>5. /\ opsDesk' = [e \in Desks |-> opsDesk'[e]]
        /\ \A e \in Desks : opsDesk'[e] = IF e = d THEN Free ELSE opsDesk[e]
        /\ \A room : Fewer(Assigning(opsDesk', room), Assigning(opsDesk, room), d)
        /\ BusesWithin(buses, opsDesk')
    BY <1>2, <1>4, OpsDesk, FreeingKeeps
  <1>6. BedsWithin(beds', opsDesk')
    <2>1. ASSUME NEW room \in RoomIds
          PROVE  Cardinality(InBed(beds', room)) + Cardinality(Assigning(opsDesk', room)) <= MaxCapacity + Cardinality(Desks) - 1
      <3>1. InBed(beds', room) \in SUBSET Travellers /\ InBed(beds, room) \in SUBSET Travellers
        BY DEF InBed
      <3>2. /\ IsFiniteSet(InBed(beds', room)) /\ Cardinality(InBed(beds', room)) \in Nat
            /\ IsFiniteSet(InBed(beds, room)) /\ Cardinality(InBed(beds, room)) \in Nat
        BY <3>1, OpsFinite
      <3>3. Cardinality(InBed(beds, room)) + Cardinality(Assigning(opsDesk, room)) <= MaxCapacity + Cardinality(Desks) - 1
            /\ MaxCapacity + Cardinality(Desks) - 1 \in Int
        BY OpsFinite, OpsAssumption DEF OpsInv, BedsWithin
      <3>4. CASE room = id
        <4>1. InBed(beds', room) \in SUBSET (InBed(beds, room) \cup {p})
          BY <1>3 DEF InBed
        <4>2. IsFiniteSet(InBed(beds, room) \cup {p}) /\ Cardinality(InBed(beds, room) \cup {p}) <= Cardinality(InBed(beds, room)) + 1
          BY <3>2, FS_AddElement
        <4>3. Cardinality(InBed(beds', room)) <= Cardinality(InBed(beds, room) \cup {p}) /\ Cardinality(InBed(beds, room) \cup {p}) \in Nat
          BY <4>1, <4>2, FS_Subset, FS_CardinalityType
        <4>4. d \in Assigning(opsDesk, room)
          BY <1>1, <3>4 DEF Assigning
        <4>. QED  BY <1>5, <3>2, <3>3, <4>2, <4>3, <4>4 DEF Fewer
      <3>5. CASE room # id
        <4>1. InBed(beds', room) \in SUBSET InBed(beds, room)
          BY <1>3, <3>5 DEF InBed
        <4>2. Cardinality(InBed(beds', room)) <= Cardinality(InBed(beds, room))
          BY <3>2, <4>1, FS_Subset
        <4>. QED  BY <1>5, <3>2, <3>3, <4>2 DEF Fewer
      <3>. QED  BY <3>4, <3>5
    <2>. QED  BY <2>1 DEF BedsWithin
  <1>. QED  BY <1>2, <1>3, <1>4, <1>5, <1>6 DEF OpsInv, CacheHolds, SearchAnswers

-----------------------------------------------------------------------------
(* Bus companies.                                                          *)
LEMMA Normalized ==
    ASSUME NEW in \in BusInputs, NEW c \in NormalizeBus(in)
    PROVE  c \in BusRow
  BY DEF NormalizeBus, BusInputs, BusRow

LEMMA BusReadKeeps ==
    ASSUME OpsInv, NEW d \in Desks, BusCreateRead(d) \/ BusUpdateRead(d), UNCHANGED <<rooms, beds, cancelled, fareCache, opsTick, search>>
    PROVE  OpsInv'
  <1>1. CASE BusCreateRead(d)
    <2>1. Cardinality(Present(buses)) < BusLimit /\ buses' = buses
      BY <1>1 DEF BusCreateRead
    <2>2. PICK in \in BusInputs : \E c \in NormalizeBus([in EXCEPT !.active = TRUE]) :
              opsDesk' = [opsDesk EXCEPT ![d] = [op |-> "create", row |-> c]]
      BY <1>1 DEF BusCreateRead
    <2>3. [in EXCEPT !.active = TRUE] \in BusInputs
      BY DEF BusInputs
    <2>4. PICK c \in BusRow : opsDesk' = [opsDesk EXCEPT ![d] = [op |-> "create", row |-> c]]
      BY <2>2, <2>3, Normalized
    <2>. DEFINE j == [op |-> "create", row |-> c]
    <2>5. OpsJob(j, buses) /\ j.op = "create"
      BY <2>4 DEF OpsJob
    <2>. HIDE DEF j
    <2>6. opsDesk' = [opsDesk EXCEPT ![d] = j]
      BY <2>4 DEF j
    <2>7. /\ opsDesk' = [e \in Desks |-> opsDesk'[e]]
          /\ \A e \in Desks : opsDesk'[e] = IF e = d THEN j ELSE opsDesk[e]
          /\ \A room : Fewer(Assigning(opsDesk', room), Assigning(opsDesk, room), d)
      BY <2>5, <2>6, OpsDesk
    <2>8. MaxCapacity \in Nat /\ BusLimit \in Nat /\ Cardinality(Desks) \in Nat
      BY OpsFinite, OpsAssumption
    <2>9. BedsWithin(beds, opsDesk')
      <3>1. ASSUME NEW room \in RoomIds
            PROVE  Cardinality(InBed(beds, room)) + Cardinality(Assigning(opsDesk', room)) <= MaxCapacity + Cardinality(Desks) - 1
        <4>1. Cardinality(InBed(beds, room)) + Cardinality(Assigning(opsDesk, room)) <= MaxCapacity + Cardinality(Desks) - 1
          BY DEF OpsInv, BedsWithin
        <4>2. /\ Cardinality(Assigning(opsDesk', room)) \in Nat /\ Cardinality(Assigning(opsDesk, room)) \in Nat
              /\ Cardinality(Assigning(opsDesk', room)) <= Cardinality(Assigning(opsDesk, room))
          BY <2>7 DEF Fewer
        <4>3. InBed(beds, room) \in SUBSET Travellers
          BY DEF InBed
        <4>4. Cardinality(InBed(beds, room)) \in Nat
          BY <4>3, OpsFinite
        <4>. QED  BY <2>8, <4>1, <4>2, <4>4
      <3>. QED  BY <3>1 DEF BedsWithin
    <2>10. BusesWithin(buses, opsDesk')
      <3>1. Present(buses) \in SUBSET BusIds /\ Creating(opsDesk') \in SUBSET Desks
        BY DEF OpsInv, Present, Creating
      <3>2. Cardinality(Present(buses)) \in Nat /\ Cardinality(Creating(opsDesk')) \in 0 .. Cardinality(Desks)
        BY <3>1, OpsFinite
      <3>. QED  BY <2>1, <2>8, <3>2 DEF BusesWithin
    <2>. QED  BY <2>1, <2>5, <2>7, <2>9, <2>10 DEF OpsInv, CacheHolds, SearchAnswers
  <1>2. CASE BusUpdateRead(d)
    <2>1. PICK id \in Present(buses), c \in BusRow :
              opsDesk' = [opsDesk EXCEPT ![d] = [op |-> "update", id |-> id, row |-> c]]
      BY <1>2, Normalized DEF BusUpdateRead
    <2>2. id \in BusIds /\ buses[id] # NoRow /\ buses' = buses
      BY <1>2 DEF Present, OpsInv, BusUpdateRead
    <2>. DEFINE j == [op |-> "update", id |-> id, row |-> c]
    <2>3. OpsJob(j, buses) /\ j.op \notin {"assign", "create"}
      BY <2>2 DEF OpsJob
    <2>. HIDE DEF j
    <2>4. opsDesk' = [opsDesk EXCEPT ![d] = j]
      BY <2>1 DEF j
    <2>5. /\ opsDesk' = [e \in Desks |-> opsDesk'[e]]
          /\ \A e \in Desks : opsDesk'[e] = IF e = d THEN j ELSE opsDesk[e]
          /\ BedsWithin(beds, opsDesk') /\ BusesWithin(buses, opsDesk')
      BY <2>3, <2>4, OpsDesk, FreeingKeeps
    <2>. QED  BY <2>2, <2>3, <2>5 DEF OpsInv, CacheHolds, SearchAnswers
  <1>. QED  BY <1>1, <1>2

LEMMA BusWriteKeeps ==
    ASSUME OpsInv, NEW d \in Desks, BusWrite(d), UNCHANGED <<rooms, beds, cancelled, fareCache, opsTick, search>>
    PROVE  OpsInv'
  <1>1. PICK id \in (IF opsDesk[d].op = "update" THEN {opsDesk[d].id} ELSE Fresh(buses)) : buses' = [buses EXCEPT ![id] = opsDesk[d].row]
    BY DEF BusWrite
  <1>2. opsDesk[d].op \in {"create", "update"} /\ opsDesk' = [opsDesk EXCEPT ![d] = Free]
    BY DEF BusWrite
  <1>3. /\ opsDesk[d].row \in BusRow /\ opsDesk[d].row # NoRow /\ id \in BusIds
        /\ opsDesk[d].op = "update" => buses[id] # NoRow
    <2>1. OpsJob(opsDesk[d], buses)
      BY DEF OpsInv
    <2>2. opsDesk[d].row \in BusRow /\ (opsDesk[d].op = "update" => opsDesk[d].id \in BusIds /\ buses[opsDesk[d].id] # NoRow)
      BY <1>2, <2>1 DEF OpsJob, Free
    <2>. QED  BY <1>1, <2>2, OpsAssumption DEF Fresh, OpsInv
  <1>4. /\ buses' \in [BusIds -> BusRow \cup {NoRow}]
        /\ \A i \in BusIds : buses[i] # NoRow => buses'[i] # NoRow
        /\ \A i \in BusIds : buses'[i] # NoRow => i = id \/ buses[i] # NoRow
    BY <1>1, <1>3 DEF OpsInv
  <1>5. OpsJob(Free, buses') /\ Free.op \notin {"assign", "create"} /\ \A j : OpsJob(j, buses) => OpsJob(j, buses')
    BY <1>4 DEF OpsJob, Free
  <1>6. /\ opsDesk' = [e \in Desks |-> opsDesk'[e]]
        /\ \A e \in Desks : opsDesk'[e] = IF e = d THEN Free ELSE opsDesk[e]
        /\ Fewer(Creating(opsDesk'), Creating(opsDesk), d)
        /\ BedsWithin(beds, opsDesk')
    BY <1>2, <1>5, OpsDesk, FreeingKeeps
  <1>7. BusesWithin(buses', opsDesk')
    <2>1. Present(buses) \in SUBSET BusIds /\ Present(buses') \in SUBSET BusIds
      BY <1>4 DEF OpsInv, Present
    <2>2. /\ IsFiniteSet(Present(buses)) /\ Cardinality(Present(buses)) \in Nat
          /\ IsFiniteSet(Present(buses')) /\ Cardinality(Present(buses')) \in Nat
      BY <2>1, OpsFinite
    <2>3. Cardinality(Present(buses)) + Cardinality(Creating(opsDesk)) <= BusLimit + Cardinality(Desks) - 1
          /\ BusLimit + Cardinality(Desks) - 1 \in Int
      BY OpsFinite, OpsAssumption DEF OpsInv, BusesWithin
    <2>4. CASE opsDesk[d].op = "update"
      <3>1. Present(buses') \in SUBSET Present(buses)
        BY <1>3, <1>4, <2>4 DEF Present, OpsInv
      <3>2. Cardinality(Present(buses')) <= Cardinality(Present(buses))
        BY <2>2, <3>1, FS_Subset
      <3>3. Cardinality(Creating(opsDesk')) \in Nat /\ Cardinality(Creating(opsDesk)) \in Nat
            /\ Cardinality(Creating(opsDesk')) <= Cardinality(Creating(opsDesk))
        BY <1>6 DEF Fewer
      <3>. QED  BY <2>2, <2>3, <3>2, <3>3 DEF BusesWithin
    <2>5. CASE opsDesk[d].op = "create"
      <3>1. Present(buses') \in SUBSET (Present(buses) \cup {id})
        BY <1>4 DEF Present, OpsInv
      <3>2. IsFiniteSet(Present(buses) \cup {id}) /\ Cardinality(Present(buses) \cup {id}) <= Cardinality(Present(buses)) + 1
        BY <2>2, FS_AddElement
      <3>3. Cardinality(Present(buses')) <= Cardinality(Present(buses) \cup {id}) /\ Cardinality(Present(buses) \cup {id}) \in Nat
        BY <3>1, <3>2, FS_Subset, FS_CardinalityType
      <3>4. d \in Creating(opsDesk)
        BY <2>5 DEF Creating
      <3>5. Cardinality(Creating(opsDesk')) \in Nat /\ Cardinality(Creating(opsDesk)) \in Nat
            /\ Cardinality(Creating(opsDesk')) = Cardinality(Creating(opsDesk)) - 1
        BY <1>6, <3>4 DEF Fewer
      <3>. QED  BY <2>2, <2>3, <3>2, <3>3, <3>5 DEF BusesWithin
    <2>. QED  BY <1>2, <2>4, <2>5
  <1>. QED  BY <1>4, <1>5, <1>6, <1>7 DEF OpsInv, CacheHolds, SearchAnswers

-----------------------------------------------------------------------------
(* The cache of fares.                                                     *)
LEMMA Evicted ==
    ASSUME NEW cache, DOMAIN cache \subseteq CacheKeys, Cardinality(DOMAIN cache) <= CacheMax, NEW now, NEW c \in Evict(cache, now)
    PROVE  DOMAIN c \subseteq CacheKeys /\ Cardinality(DOMAIN c) <= CacheMax - 1
  <1>. DEFINE alive == {k \in DOMAIN cache : Alive(cache[k], now)}
              oldest == {k \in alive : \A i \in alive : cache[k].stored <= cache[i].stored}
  <1>1. PICK kept \in (IF Cardinality(alive) >= CacheMax THEN {alive \ {k} : k \in oldest} ELSE {alive}) : c = [k \in kept |-> cache[k]]
    BY DEF Evict
  <1>2. DOMAIN c = kept
    BY <1>1
  <1>3. alive \in SUBSET CacheKeys /\ alive \in SUBSET DOMAIN cache /\ oldest \in SUBSET alive
    OBVIOUS
  <1>4. IsFiniteSet(alive) /\ Cardinality(alive) \in Nat /\ Cardinality(alive) <= CacheMax /\ CacheMax \in Nat \ {0}
    <2>1. IsFiniteSet(DOMAIN cache) /\ Cardinality(DOMAIN cache) \in Nat
      BY OpsFinite
    <2>2. Cardinality(alive) <= Cardinality(DOMAIN cache)
      BY <1>3, <2>1, FS_Subset
    <2>3. IsFiniteSet(alive) /\ Cardinality(alive) \in Nat
      BY <1>3, OpsFinite
    <2>. QED  BY <2>1, <2>2, <2>3, OpsAssumption
  <1>. HIDE DEF alive, oldest
  <1>5. CASE Cardinality(alive) >= CacheMax
    <2>1. PICK k \in oldest : kept = alive \ {k}
      BY <1>1, <1>5
    <2>2. Cardinality(alive \ {k}) = Cardinality(alive) - 1
      BY <1>3, <1>4, FS_RemoveElement
    <2>3. Cardinality(kept) = Cardinality(alive) - 1
      BY <2>1, <2>2, Zenon
    <2>. QED  BY <1>2, <1>3, <1>4, <2>1, <2>3
  <1>6. CASE ~(Cardinality(alive) >= CacheMax)
    <2>1. kept = alive
      BY <1>1, <1>6
    <2>. QED  BY <1>2, <1>3, <1>4, <1>6, <2>1
  <1>. QED  BY <1>5, <1>6

LEMMA CacheStaysSmall ==
    ASSUME NEW cache, DOMAIN cache \subseteq CacheKeys, Cardinality(DOMAIN cache) <= CacheMax, NEW key \in CacheKeys, NEW value, NEW now,
           NEW new \in CachePut(cache, key, value, now)
    PROVE  DOMAIN new \subseteq CacheKeys /\ Cardinality(DOMAIN new) <= CacheMax
  <1>1. PICK c \in (IF key \notin DOMAIN cache /\ Cardinality(DOMAIN cache) >= CacheMax THEN Evict(cache, now) ELSE {cache}) :
            new = [k \in DOMAIN c \cup {key} |-> IF k = key THEN [stored |-> now, value |-> value] ELSE c[k]]
    BY DEF CachePut
  <1>2. DOMAIN new = DOMAIN c \cup {key}
    BY <1>1
  <1>3. Cardinality(DOMAIN new) = Cardinality(DOMAIN c \cup {key})
    BY <1>2, Zenon
  <1>4. CacheMax \in Nat
    BY OpsAssumption
  <1>5. CASE key \notin DOMAIN cache /\ Cardinality(DOMAIN cache) >= CacheMax
    <2>1. DOMAIN c \subseteq CacheKeys /\ Cardinality(DOMAIN c) <= CacheMax - 1
      BY <1>1, <1>5, Evicted
    <2>2. IsFiniteSet(DOMAIN c) /\ Cardinality(DOMAIN c) \in Nat
      BY <2>1, OpsFinite
    <2>3. Cardinality(DOMAIN c \cup {key}) <= Cardinality(DOMAIN c) + 1 /\ Cardinality(DOMAIN c \cup {key}) \in Nat
      BY <2>2, FS_AddElement
    <2>. QED  BY <1>2, <1>3, <1>4, <2>1, <2>2, <2>3
  <1>6. CASE ~(key \notin DOMAIN cache /\ Cardinality(DOMAIN cache) >= CacheMax)
    <2>1. c = cache
      BY <1>1, <1>6
    <2>2. IsFiniteSet(DOMAIN cache) /\ Cardinality(DOMAIN cache) \in Nat
      BY OpsFinite
    <2>3. Cardinality(DOMAIN cache \cup {key}) = IF key \in DOMAIN cache THEN Cardinality(DOMAIN cache) ELSE Cardinality(DOMAIN cache) + 1
      BY <2>2, FS_AddElement
    <2>4. Cardinality(DOMAIN new) = Cardinality(DOMAIN cache \cup {key})
      BY <1>3, <2>1, Zenon
    <2>5. Cardinality(DOMAIN new) <= CacheMax
      BY <1>4, <1>6, <2>2, <2>3, <2>4
    <2>. QED  BY <1>2, <2>1, <2>5
  <1>. QED  BY <1>5, <1>6

LEMMA FaresKeep ==
    ASSUME OpsInv, FareNext
    PROVE  OpsInv'
  <1>1. UNCHANGED <<rooms, beds, cancelled, buses>>
    BY DEF FareNext
  <1>2. CASE OpsTick
    <2>1. opsTick' \in 0 .. LastOpsTick /\ UNCHANGED <<fareCache, opsDesk, search>>
      BY <1>2, OpsAssumption DEF OpsTick, OpsInv
    <2>. QED  BY <1>1, <2>1 DEF OpsInv, CacheHolds, SearchAnswers
  <1>3. CASE FaresServed
    <2>1. PICK key \in CacheKeys : /\ CacheGet(key, opsTick) # NoRow
                                   /\ search' = [op |-> "served", stored |-> fareCache[key].stored, at |-> opsTick]
      BY <1>3 DEF FaresServed
    <2>2. opsTick - fareCache[key].stored <= FareTTL
      BY <2>1 DEF CacheGet, Alive
    <2>3. SearchAnswer(search')
      BY <2>1 DEF SearchAnswer
    <2>4. UNCHANGED <<fareCache, opsTick, opsDesk>>
      BY <1>3 DEF FaresServed
    <2>5. CacheHolds'
      BY <2>1, <2>2, <2>4 DEF CacheHolds, OpsInv
    <2>. QED  BY <1>1, <2>3, <2>4, <2>5 DEF OpsInv, SearchAnswers
  <1>4. ASSUME NEW d \in Desks, FaresAsk(d)
        PROVE  OpsInv'
    <2>1. PICK key \in CacheKeys : opsDesk' = [opsDesk EXCEPT ![d] = [op |-> "fares", key |-> key, asked |-> opsTick]]
      BY <1>4 DEF FaresAsk
    <2>. DEFINE j == [op |-> "fares", key |-> key, asked |-> opsTick]
    <2>2. OpsJob(j, buses) /\ j.op \notin {"assign", "create"}
      BY DEF OpsJob
    <2>. HIDE DEF j
    <2>3. opsDesk' = [opsDesk EXCEPT ![d] = j]
      BY <2>1 DEF j
    <2>4. /\ opsDesk' = [e \in Desks |-> opsDesk'[e]]
          /\ \A e \in Desks : opsDesk'[e] = IF e = d THEN j ELSE opsDesk[e]
          /\ BedsWithin(beds, opsDesk') /\ BusesWithin(buses, opsDesk')
      BY <2>2, <2>3, OpsDesk, FreeingKeeps
    <2>5. UNCHANGED <<fareCache, opsTick, search>>
      BY <1>4 DEF FaresAsk
    <2>. QED  BY <1>1, <2>2, <2>4, <2>5 DEF OpsInv, CacheHolds, SearchAnswers
  <1>5. ASSUME NEW d \in Desks, FaresArrive(d) \/ FaresFail(d)
        PROVE  OpsInv'
    <2>1. opsDesk' = [opsDesk EXCEPT ![d] = Free] /\ UNCHANGED <<opsTick, search>> /\ opsDesk[d].op = "fares"
      BY <1>5 DEF FaresArrive, FaresFail
    <2>2. OpsJob(Free, buses) /\ Free.op \notin {"assign", "create"}
      BY DEF OpsJob, Free
    <2>3. /\ opsDesk' = [e \in Desks |-> opsDesk'[e]]
          /\ \A e \in Desks : opsDesk'[e] = IF e = d THEN Free ELSE opsDesk[e]
          /\ BedsWithin(beds, opsDesk') /\ BusesWithin(buses, opsDesk')
      BY <2>1, <2>2, OpsDesk, FreeingKeeps
    <2>4. DOMAIN fareCache' \subseteq CacheKeys /\ CacheHolds'
      <3>1. DOMAIN fareCache \subseteq CacheKeys /\ Cardinality(DOMAIN fareCache) <= CacheMax
        BY DEF OpsInv, CacheHolds
      <3>2. opsDesk[d].key \in CacheKeys
        BY <2>1 DEF OpsInv, OpsJob, Free
      <3>3. DOMAIN fareCache' \subseteq CacheKeys /\ Cardinality(DOMAIN fareCache') <= CacheMax
        BY <1>5, <3>1, <3>2, CacheStaysSmall DEF FaresArrive, FaresFail
      <3>. QED  BY <2>1, <3>3 DEF OpsInv, CacheHolds
    <2>. QED  BY <1>1, <2>1, <2>2, <2>3, <2>4 DEF OpsInv, SearchAnswers
  <1>. QED  BY <1>2, <1>3, <1>4, <1>5 DEF FareNext

-----------------------------------------------------------------------------
(* Search.                                                                 *)
LEMMA MonthsAsked ==
    ASSUME NEW day \in Int, NEW direct \in BOOLEAN, NEW at \in day - SearchWindow .. day + SearchWindow
    PROVE  \E q \in FareQueries(day, direct) : q.month = MonthOf(at) /\ q.direct
  <1>1. MonthOf(at) \in Months(day)
    <2>1. \A a, b \in Int : a <= b => a \div 5 \in Int /\ a \div 5 <= b \div 5
      OBVIOUS
    <2>2. at \in Int /\ day - SearchWindow <= at /\ at <= day + SearchWindow /\ day - SearchWindow \in Int /\ day + SearchWindow \in Int
      BY DEF SearchWindow
    <2>. QED  BY <2>1, <2>2 DEF Months, MonthOf
  <1>2. TRUE \in (IF direct THEN {TRUE} ELSE BOOLEAN)
    OBVIOUS
  <1>. DEFINE q == [month |-> MonthOf(at), direct |-> TRUE]
  <1>3. q \in FareQueries(day, direct)
    BY <1>1, <1>2 DEF FareQueries
  <1>. QED  BY <1>3

LEMMA Gathered ==
    ASSUME NEW c, NEW x, c = [err |-> "", fares |-> x]
    PROVE  c.err = "" /\ c.fares = x
  OBVIOUS

LEMMA CollectAnswers ==
    ASSUME NEW n \in 1 .. 3, NEW outcomes \in [1 .. n -> Outcomes]
    PROVE  /\ (\E i \in DOMAIN outcomes : outcomes[i].fares # {}) => "f1" \in Collect(outcomes).fares
           /\ Collect(outcomes).err # "" <=> \A i \in DOMAIN outcomes : outcomes[i].err # ""
  <1>. DEFINE failed == {i \in DOMAIN outcomes : outcomes[i].err # ""}
              got == UNION {outcomes[i].fares : i \in DOMAIN outcomes \ failed}
  <1>1. \A i \in 1 .. n : outcomes[i].fares # {} => i \notin failed /\ "f1" \in outcomes[i].fares
    BY DEF Outcomes
  <1>2. CASE failed # DOMAIN outcomes
    <2>1. Collect(outcomes) = [err |-> "", fares |-> got]
      BY <1>2 DEF Collect
    <2>2. ASSUME NEW i \in DOMAIN outcomes, outcomes[i].fares # {}
          PROVE  "f1" \in got
      <3>1. i \in DOMAIN outcomes \ failed /\ "f1" \in outcomes[i].fares
        BY <1>1, <2>2
      <3>. QED  BY <3>1, Zenon
    <2>3. Collect(outcomes).err = "" /\ Collect(outcomes).fares = got
      <3>. HIDE DEF got
      <3>. QED  BY <2>1, Gathered, Zenon
    <2>. QED  BY <1>2, <2>2, <2>3
  <1>3. CASE failed = DOMAIN outcomes
    <2>1. Collect(outcomes) = [err |-> IF outcomes[1].err = "rejected" THEN "not_configured" ELSE "unavailable", fares |-> {}]
      BY <1>3 DEF Collect
    <2>2. Collect(outcomes).err # ""
      BY <2>1
    <2>. QED  BY <1>1, <1>3, <2>2
  <1>. QED  BY <1>2, <1>3

(* A family of subsets of a finite set has a smallest member: what stands  *)
(* in for induction over the set.                                          *)
LEMMA Smallest ==
    ASSUME NEW S, IsFiniteSet(S), NEW F \in SUBSET (SUBSET S), F # {}
    PROVE  \E T \in F : \A U \in F : U \subseteq T => U = T
  <1>1. IsWellFoundedOn(StrictSubsetOrdering(S), FiniteSubsetsOf(S))
    BY FS_StrictSubsetOrderingWellFounded
  <1>2. F \subseteq FiniteSubsetsOf(S)
    BY FS_Subset DEF FiniteSubsetsOf
  <1>3. \E T \in F : \A U \in F : ~(<<U, T>> \in StrictSubsetOrdering(S))
    BY <1>1, <1>2, WFMin
  <1>. QED  BY <1>3 DEF StrictSubsetOrdering

LEMMA FaresFinite == IsFiniteSet(SearchFares)
  <1>. DEFINE number == [f \in SearchFares |-> 20 * f.day + f.price]
  <1>1. \A f \in SearchFares : /\ f = [day |-> f.day, price |-> f.price]
                                /\ f.day \in 1 .. 10 /\ f.price \in 0 .. 2
    BY DEF SearchFares
  <1>2. number \in [SearchFares -> 0 .. 300]
    BY <1>1
  <1>3. \A f, g \in SearchFares : number[f] = number[g] => f = g
    <2>1. ASSUME NEW f \in SearchFares, NEW g \in SearchFares, number[f] = number[g]
          PROVE  f.day = g.day /\ f.price = g.price
      BY <1>1, <2>1
    <2>. QED  BY <1>1, <2>1
  <1>4. number \in Injection(SearchFares, 0 .. 300)
    <2>. HIDE DEF number
    <2>. QED  BY <1>2, <1>3 DEF Injection, IsInjective
  <1>5. IsFiniteSet(0 .. 300)
    <2>1. 0 \in Int /\ 300 \in Int
      OBVIOUS
    <2>. QED  BY <2>1, FS_Interval, Zenon
  <1>. HIDE DEF number
  <1>. QED  BY <1>4, <1>5, FS_Injection

AnyFares == [day : Int, price : Int]
LEMMA FareOrder ==
    ASSUME NEW w \in Int, NEW f \in AnyFares, NEW g \in AnyFares, NEW h \in AnyFares
    PROVE  /\ Gap(f, w) \in Nat /\ ~Before(f, f, w)
           /\ Before(f, g, w) => ~Before(g, f, w)
           /\ Before(f, g, w) /\ ~Before(h, g, w) => Before(f, h, w)
           /\ ~Before(g, f, w) /\ ~Before(h, g, w) => ~Before(h, f, w)
  <1>1. Gap(f, w) \in Nat /\ Gap(g, w) \in Nat /\ Gap(h, w) \in Nat
    BY DEF Gap, AnyFares
  <1>2. f.price \in Int /\ g.price \in Int /\ h.price \in Int
    BY DEF AnyFares
  <1>. QED  BY <1>1, <1>2 DEF Before

(* A set of fares has one before which no other comes.                     *)
LEMMA FirstFare ==
    ASSUME NEW w \in Int, NEW S \in SUBSET AnyFares, IsFiniteSet(S), S # {}
    PROVE  \E f \in S : \A g \in S : ~Before(g, f, w)
  <1>. DEFINE Upto(f) == {g \in S : ~Before(f, g, w)}
              F == {Upto(f) : f \in S}
  <1>1. F \in SUBSET (SUBSET S) /\ F # {}
    OBVIOUS
  <1>. HIDE DEF F
  <1>2. PICK T \in F : \A U \in F : U \subseteq T => U = T
    BY <1>1, Smallest
  <1>3. PICK f \in S : T = Upto(f)
    BY DEF F
  <1>4. ASSUME NEW g \in S, Before(g, f, w)
        PROVE  FALSE
    <2>1. Upto(g) \in F
      BY DEF F
    <2>2. Upto(g) \subseteq T
      <3>. SUFFICES ASSUME NEW h \in S, ~Before(g, h, w), Before(f, h, w) PROVE FALSE
        BY <1>3
      <3>. QED  BY <1>4, FareOrder
    <2>3. f \in T /\ f \notin Upto(g)
      BY <1>3, <1>4, FareOrder
    <2>. QED  BY <1>2, <2>1, <2>2, <2>3
  <1>. QED  BY <1>4

(* The fares of a set in order: every finite set of them can be sorted.    *)
InOrder(s, w) == \A i, j \in DOMAIN s : i < j => ~Before(s[j], s[i], w)
LEMMA FaresSort ==
    ASSUME NEW w \in Int, NEW S \in SUBSET AnyFares, IsFiniteSet(S)
    PROVE  \E s \in SetToSeqs(S) : InOrder(s, w)
  <1>. DEFINE F == {T \in SUBSET S : ~\E s \in SetToSeqs(T) : InOrder(s, w)}
  <1>1. SUFFICES ASSUME F # {} PROVE FALSE
    OBVIOUS
  <1>2. F \in SUBSET (SUBSET S)
    OBVIOUS
  <1>3. PICK T \in F : \A U \in F : U \subseteq T => U = T
    <2>. HIDE DEF F
    <2>. QED  BY <1>1, <1>2, Smallest
  <1>4. T \in SUBSET AnyFares /\ IsFiniteSet(T) /\ Cardinality(T) \in Nat
    BY FS_Subset, FS_CardinalityType
  <1>5. CASE T = {}
    <2>. DEFINE s == [i \in 1 .. 0 |-> 0]
    <2>1. Cardinality(T) = 0
      BY <1>5, FS_EmptySet
    <2>2. s \in SetToSeqs(T) /\ InOrder(s, w)
      BY <2>1 DEF SetToSeqs, InOrder
    <2>. QED  BY <2>2
  <1>6. CASE T # {}
    <2>1. PICK f \in T : \A g \in T : ~Before(g, f, w)
      BY <1>4, <1>6, FirstFare
    <2>. DEFINE n == Cardinality(T)
                R == T \ {f}
    <2>2. R \in SUBSET S /\ R \subseteq T /\ R # T
      OBVIOUS
    <2>3. n \in Nat \ {0} /\ Cardinality(R) = n - 1
      BY <1>4, <1>6, FS_RemoveElement, FS_EmptySet
    <2>4. PICK s \in SetToSeqs(R) : InOrder(s, w)
      BY <1>3, <2>2
    <2>5. /\ s \in [1 .. n - 1 -> R] /\ \A i, j \in 1 .. n - 1 : i # j => s[i] # s[j]
          /\ \A i, j \in 1 .. n - 1 : i < j => ~Before(s[j], s[i], w)
      BY <2>3, <2>4 DEF SetToSeqs, InOrder
    <2>. DEFINE t == [i \in 1 .. n |-> IF i = 1 THEN f ELSE s[i - 1]]
    <2>. HIDE DEF n
    <2>6. \A i \in 1 .. n : i # 1 => i - 1 \in 1 .. n - 1
      BY <2>3
    <2>7. t \in [1 .. n -> T] /\ \A i, j \in 1 .. n : i # j => t[i] # t[j]
      <3>1. \A i \in 1 .. n : i # 1 => s[i - 1] \in R
        BY <2>5, <2>6
      <3>2. \A i, j \in 1 .. n : i # j /\ i # 1 /\ j # 1 => s[i - 1] # s[j - 1]
        BY <2>3, <2>5, <2>6
      <3>. QED  BY <3>1, <3>2
    <2>8. InOrder(t, w)
      <3>1. ASSUME NEW i \in 1 .. n, NEW j \in 1 .. n, i < j
            PROVE  ~Before(t[j], t[i], w)
        <4>1. j # 1 /\ t[j] = s[j - 1] /\ t[j] \in T
          BY <2>7, <3>1
        <4>2. CASE i = 1
          BY <2>1, <4>1, <4>2
        <4>3. CASE i # 1
          <5>1. i - 1 \in 1 .. n - 1 /\ j - 1 \in 1 .. n - 1 /\ i - 1 < j - 1
            BY <2>3, <2>6, <3>1, <4>1, <4>3
          <5>. QED  BY <2>5, <4>1, <4>3, <5>1
        <4>. QED  BY <4>2, <4>3
      <3>. QED  BY <3>1 DEF InOrder
    <2>9. t \in SetToSeqs(T)
      BY <2>7 DEF SetToSeqs, n
    <2>. QED  BY <2>8, <2>9
  <1>. QED  BY <1>5, <1>6

LEMMA FirstOf ==
    ASSUME NEW s, NEW S, NEW m \in Nat, \A i \in 1 .. m : s[i] \in S
    PROVE  Len(SubSeq(s, 1, m)) = m /\ SubSeq(s, 1, m) \in Seq(S) /\ \A i \in 1 .. m : SubSeq(s, 1, m)[i] = s[i]
  BY SubSeqProperties

(* Each field of the answers Rank marks.                                   *)
Marks(out, cut, C) == out = [i \in DOMAIN cut |-> [fare |-> cut[i], closest |-> i = 1, cheapest |-> i \in C]]

LEMMA MarkedFare ==
    ASSUME NEW out, NEW cut, NEW C,
           Marks(out, cut, C),
           NEW i \in DOMAIN cut
    PROVE  out[i].fare = cut[i]
  BY DEF Marks

LEMMA MarkedClosest ==
    ASSUME NEW out, NEW cut, NEW C,
           Marks(out, cut, C),
           NEW i \in DOMAIN cut
    PROVE  out[i].closest <=> i = 1
  BY Zenon DEF Marks

LEMMA MarkedCheapest ==
    ASSUME NEW out, NEW cut, NEW C,
           Marks(out, cut, C),
           NEW i \in DOMAIN cut
    PROVE  out[i].cheapest <=> i \in C
  BY Zenon DEF Marks

(* What Rank returns, for any finite set of fares and any day.             *)
LEMMA RankAnswers ==
    ASSUME NEW w \in Int, NEW fares \in SUBSET AnyFares, IsFiniteSet(fares), NEW out, out = Rank(fares, w)
    PROVE  LET shown == {out[i].fare : i \in DOMAIN out}
               near == {f \in fares : Gap(f, w) <= SearchWindow /\ f.price > 0}
           IN  /\ Len(out) = Min({FareLimit, Cardinality(near)})
               /\ \A f \in shown, g \in near \ shown : ~Before(g, f, w)
               /\ shown # {} => /\ Cardinality({i \in DOMAIN out : out[i].closest}) = 1
                                /\ \E i \in DOMAIN out : out[i].cheapest /\ \A f \in shown : out[i].fare.price <= f.price
  <1>. DEFINE near == {f \in fares : Gap(f, w) <= SearchWindow /\ f.price > 0}
              sorted == CHOOSE s \in SetToSeqs(near) : \A i, j \in DOMAIN s : i < j => ~Before(s[j], s[i], w)
              n == Cardinality(near)
              m == Min({FareLimit, n})
              cut == SubSeq(sorted, 1, Min({FareLimit, Len(sorted)}))
              cheapest == {i \in DOMAIN cut : \A j \in DOMAIN cut : cut[i].price < cut[j].price \/ (cut[i].price = cut[j].price /\ i <= j)}
              shown == {out[i].fare : i \in DOMAIN out}
  <1>1. out = [i \in DOMAIN cut |-> [fare |-> cut[i], closest |-> i = 1, cheapest |-> i \in cheapest]]
    BY DEF Rank
  <1>2. near \in SUBSET AnyFares /\ IsFiniteSet(near) /\ n \in Nat
    BY FS_Subset, FS_CardinalityType
  <1>. HIDE DEF near
  <1>3. /\ sorted \in [1 .. n -> near] /\ \A i, j \in 1 .. n : i # j => sorted[i] # sorted[j]
        /\ \A i, j \in 1 .. n : i < j => ~Before(sorted[j], sorted[i], w)
    <2>1. \E s \in SetToSeqs(near) : \A i, j \in DOMAIN s : i < j => ~Before(s[j], s[i], w)
      BY <1>2, FaresSort DEF InOrder
    <2>2. sorted \in SetToSeqs(near) /\ \A i, j \in DOMAIN sorted : i < j => ~Before(sorted[j], sorted[i], w)
      BY <2>1
    <2>. HIDE DEF sorted
    <2>. QED  BY <2>2 DEF SetToSeqs
  <1>. HIDE DEF sorted
  <1>4. Len(sorted) = n
    BY <1>2, <1>3
  <1>5. m \in 0 .. n /\ m <= 2 /\ (m < n => m = 2)
    <2>1. \A a \in {2, n} : a \in Nat
      BY <1>2
    <2>2. CASE n <= 2
      <3>1. n \in {2, n} /\ \A y \in {2, n} : n <= y
        BY <1>2, <2>2
      <3>2. m \in {2, n} /\ \A y \in {2, n} : m <= y
        BY <3>1 DEF Min, FareLimit
      <3>. QED  BY <1>2, <2>2, <3>2
    <2>3. CASE n > 2
      <3>1. 2 \in {2, n} /\ \A y \in {2, n} : 2 <= y
        BY <1>2, <2>3
      <3>2. m \in {2, n} /\ \A y \in {2, n} : m <= y
        BY <3>1 DEF Min, FareLimit
      <3>. QED  BY <1>2, <2>3, <3>2
    <2>. QED  BY <1>2, <2>2, <2>3
  <1>6. cut = SubSeq(sorted, 1, m)
    BY <1>4
  <1>. HIDE DEF m
  <1>7. DOMAIN cut = 1 .. m /\ \A i \in 1 .. m : cut[i] = sorted[i] /\ cut[i] \in near
    <2>1. m \in Nat /\ \A i \in 1 .. m : sorted[i] \in near
      BY <1>2, <1>3, <1>5
    <2>2. Len(cut) = m /\ cut \in Seq(near) /\ \A i \in 1 .. m : cut[i] = sorted[i]
      <3>. HIDE DEF cut
      <3>. QED  BY <1>6, <2>1, FirstOf
    <2>. HIDE DEF cut
    <2>. QED  BY <2>1, <2>2
  <1>. HIDE DEF cut
  <1>8. /\ DOMAIN out = 1 .. m
        /\ \A i \in 1 .. m : out[i].fare = sorted[i] /\ (out[i].closest <=> i = 1) /\ (out[i].cheapest <=> i \in cheapest)
    <2>. HIDE DEF cheapest
    <2>1. PICK c, C : c = cut /\ C = cheapest
      OBVIOUS
    <2>2. Marks(out, c, C) /\ DOMAIN out = DOMAIN cut
      <3>1. Marks(out, cut, cheapest)
        BY <1>1, Zenon DEF Marks
      <3>2. DOMAIN out = DOMAIN cut
        BY <1>1
      <3>. QED  BY <2>1, <3>1, <3>2, Zenon
    <2>3. DOMAIN out = DOMAIN c /\ DOMAIN c = 1 .. m
      BY <1>7, <2>1, <2>2, Zenon
    <2>4. ASSUME NEW i \in DOMAIN c
          PROVE  out[i].fare = c[i]
      BY <2>2, MarkedFare
    <2>5. ASSUME NEW i \in DOMAIN c
          PROVE  out[i].closest <=> i = 1
      BY <2>2, MarkedClosest
    <2>6. ASSUME NEW i \in DOMAIN c
          PROVE  out[i].cheapest <=> i \in C
      BY <2>2, MarkedCheapest, Zenon
    <2>7. \A i \in 1 .. m : c[i] = sorted[i]
      BY <1>7, <2>1
    <2>. QED  BY <2>1, <2>3, <2>4, <2>5, <2>6, <2>7, Zenon
  <1>9. Len(out) = m
    <2>. HIDE DEF cheapest
    <2>1. out = [i \in 1 .. m |-> out[i]] /\ m \in Nat
      BY <1>1, <1>2, <1>5, <1>7
    <2>. DEFINE X == {out[i] : i \in 1 .. m}
    <2>2. out \in [1 .. m -> X]
      BY <2>1
    <2>. HIDE DEF X
    <2>. QED  BY <2>1, <2>2
  <1>10. ASSUME NEW f \in shown, NEW g \in near \ shown
         PROVE  ~Before(g, f, w)
    <2>1. PICK i \in 1 .. m : f = sorted[i]
      BY <1>8, <1>10
    <2>2. \E j \in 1 .. n : g = sorted[j]
      <3>1. sorted \in Injection(1 .. n, near) /\ IsFiniteSet(near)
        BY <1>2, <1>3 DEF Injection, IsInjective
      <3>2. \A k \in Nat : Cardinality(1 .. k) = k
        BY FS_Interval
      <3>3. Cardinality(1 .. n) = Cardinality(near)
        BY <1>2, <3>2
      <3>4. sorted \in Surjection(1 .. n, near)
        <4>. HIDE DEF n
        <4>. QED  BY <3>1, <3>3, FS_Injection
      <3>. QED  BY <3>4 DEF Surjection
    <2>3. PICK j \in 1 .. n : g = sorted[j]
      BY <2>2
    <2>4. ~(j \in 1 .. m)
      BY <1>8, <1>10, <2>3
    <2>5. i < j /\ i \in 1 .. n
      BY <1>2, <1>5, <2>4
    <2>. QED  BY <1>3, <2>1, <2>3, <2>5
  <1>11. ASSUME shown # {}
         PROVE  /\ Cardinality({i \in DOMAIN out : out[i].closest}) = 1
                /\ \E i \in DOMAIN out : out[i].cheapest /\ \A f \in shown : out[i].fare.price <= f.price
    <2>1. m \in {1, 2}
      BY <1>5, <1>8, <1>11, <1>2
    <2>2. Cardinality({i \in DOMAIN out : out[i].closest}) = 1
      <3>1. {i \in DOMAIN out : out[i].closest} = {1}
        BY <1>8, <2>1
      <3>. QED  BY <3>1, FS_Singleton, Zenon
    <2>3. \A i \in 1 .. m : cut[i].price \in Int /\ cut[i] = out[i].fare
      BY <1>2, <1>7, <1>8 DEF AnyFares
    <2>4. \E i \in 1 .. m : i \in cheapest
      <3>1. CASE m = 1
        BY <1>7, <2>3, <3>1
      <3>2. CASE m = 2
        <4>1. 1 .. m = {1, 2} /\ cut[1].price \in Int /\ cut[2].price \in Int
          BY <2>3, <3>2
        <4>2. CASE cut[1].price <= cut[2].price
          <5>1. 1 \in cheapest
            BY <1>7, <4>1, <4>2
          <5>. QED  BY <4>1, <5>1
        <4>3. CASE cut[2].price < cut[1].price
          <5>1. 2 \in cheapest
            BY <1>7, <4>1, <4>3
          <5>. QED  BY <4>1, <5>1
        <4>. QED  BY <4>1, <4>2, <4>3
      <3>. QED  BY <2>1, <3>1, <3>2
    <2>5. PICK i \in 1 .. m : i \in cheapest
      BY <2>4
    <2>6. \A k \in 1 .. m : cut[i].price <= cut[k].price
      BY <1>7, <2>3, <2>5
    <2>7. \A f \in shown : \E k \in 1 .. m : f = cut[k]
      BY <1>8, <2>3
    <2>8. out[i].cheapest /\ \A f \in shown : out[i].fare.price <= f.price
      BY <1>8, <2>3, <2>5, <2>6, <2>7
    <2>. QED  BY <1>8, <2>2, <2>8
  <1>12. /\ Len(out) = m
         /\ \A f \in shown, g \in near \ shown : ~Before(g, f, w)
         /\ shown # {} => /\ Cardinality({i \in DOMAIN out : out[i].closest}) = 1
                          /\ \E i \in DOMAIN out : out[i].cheapest /\ \A f \in shown : out[i].fare.price <= f.price
    BY <1>9, <1>10, <1>11
  <1>. QED  BY <1>12, Zenon DEF near, m, n

LEMMA SearchKeeps ==
    ASSUME OpsInv, SearchNext
    PROVE  OpsInv'
  <1>1. UNCHANGED <<rooms, beds, cancelled, buses, fareCache, opsTick, opsDesk>> /\ SearchFlights
    BY DEF SearchNext
  <1>2. SearchAnswer(search') /\ search'.op # "served"
    <2>1. ASSUME NEW fares \in SUBSET SearchFares, Cardinality(fares) <= 3, NEW wanted \in {5, 6},
                 search' = [op |-> "rank", fares |-> fares, wanted |-> wanted, out |-> Rank(fares, wanted)]
          PROVE  SearchAnswer(search') /\ search'.op # "served"
      <3>1. fares \in SUBSET AnyFares /\ wanted \in Int
        BY DEF SearchFares, AnyFares
      <3>2. IsFiniteSet(fares)
        BY FaresFinite, FS_Subset
      <3>. DEFINE out == Rank(fares, wanted)
      <3>. HIDE DEF out
      <3>3. search' = [op |-> "rank", fares |-> fares, wanted |-> wanted, out |-> out]
        BY <2>1 DEF out
      <3>4. search'.op = "rank" /\ search'.fares = fares /\ search'.wanted = wanted /\ search'.out = out
        BY <3>3
      <3>5. LET shown == {search'.out[i].fare : i \in DOMAIN search'.out}
                near == {f \in search'.fares : Gap(f, search'.wanted) <= SearchWindow /\ f.price > 0}
            IN  /\ Len(search'.out) = Min({FareLimit, Cardinality(near)})
                /\ \A f \in shown, g \in near \ shown : ~Before(g, f, search'.wanted)
                /\ shown # {} => /\ Cardinality({i \in DOMAIN search'.out : search'.out[i].closest}) = 1
                                 /\ \E i \in DOMAIN search'.out : search'.out[i].cheapest /\ \A f \in shown : search'.out[i].fare.price <= f.price
        BY <3>1, <3>2, <3>4, RankAnswers, Zenon DEF out
      <3>. QED  BY <3>4, <3>5, Zenon DEF SearchAnswer
    <2>2. ASSUME NEW day \in 3 .. 12, NEW direct \in BOOLEAN, NEW adults, NEW infants, infants <= adults,
                 search' = [op |-> "months", day |-> day, seats |-> adults, laps |-> infants, direct |-> direct, out |-> FareQueries(day, direct)]
          PROVE  SearchAnswer(search') /\ search'.op # "served"
      <3>. DEFINE out == FareQueries(day, direct)
      <3>1. \A at \in day - SearchWindow .. day + SearchWindow : \E q \in out : q.month = MonthOf(at) /\ q.direct
        BY MonthsAsked
      <3>. HIDE DEF out
      <3>2. search' = [op |-> "months", day |-> day, seats |-> adults, laps |-> infants, direct |-> direct, out |-> out]
        BY <2>2 DEF out
      <3>3. search'.op = "months" /\ search'.day = day /\ search'.seats = adults /\ search'.laps = infants /\ search'.out = out
        BY <3>2
      <3>. QED  BY <2>2, <3>1, <3>3 DEF SearchAnswer
    <2>3. ASSUME NEW n \in 1 .. 3, NEW outcomes \in [1 .. n -> Outcomes],
                 search' = [op |-> "collect", outcomes |-> outcomes, out |-> Collect(outcomes)]
          PROVE  SearchAnswer(search') /\ search'.op # "served"
      <3>. DEFINE out == Collect(outcomes)
      <3>1. /\ (\E i \in DOMAIN outcomes : outcomes[i].fares # {}) => "f1" \in out.fares
            /\ out.err # "" <=> \A i \in DOMAIN outcomes : outcomes[i].err # ""
        BY CollectAnswers
      <3>. HIDE DEF out
      <3>2. search' = [op |-> "collect", outcomes |-> outcomes, out |-> out]
        BY <2>3 DEF out
      <3>3. search'.op = "collect" /\ search'.outcomes = outcomes /\ search'.out = out
        BY <3>2
      <3>. QED  BY <3>1, <3>3 DEF SearchAnswer
    <2>. QED  BY <1>1, <2>1, <2>2, <2>3 DEF SearchFlights, NormalizeQuery
  <1>. QED  BY <1>1, <1>2 DEF OpsInv, SearchAnswers, CacheHolds

LEMMA OpsInvNext == OpsInv /\ (RoomNext \/ BusNext \/ FareNext \/ SearchNext \/ UNCHANGED opsVars) => OpsInv'
  <1>1. CASE OpsInv /\ RoomNext
    BY <1>1, RoomTableKeeps, RemoveKeeps, AssignReadKeeps, AssignWriteKeeps DEF RoomNext
  <1>2. CASE OpsInv /\ BusNext
    BY <1>2, BusReadKeeps, BusWriteKeeps DEF BusNext
  <1>3. CASE OpsInv /\ UNCHANGED opsVars
    BY <1>3 DEF OpsInv, opsVars, SearchAnswers, CacheHolds
  <1>. QED  BY <1>1, <1>2, <1>3, FaresKeep, SearchKeeps

-----------------------------------------------------------------------------
(* The documents of the travellers.                                        *)
(* A row that was uploaded has its size, an approved one its review.       *)
DocRowHolds(x) ==
    /\ x.status \in {"uploaded", "submitted", "approved"} => x.sized
    /\ x.status = "approved" => x.reviewed
(* A copy of document i: a row that holds and continues the same version.  *)
CopyOf(x, i, table) ==
    /\ i \in DocIds /\ table[i] # NoRow /\ x \in DocRow /\ DocRowHolds(x)
    /\ x.replaces = table[i].replaces /\ x.version = table[i].version
(* What a desk holds between two steps.                                    *)
Writes(j, table) == j = [op |-> "write", i |-> j.i, copy |-> j.copy] /\ CopyOf(j.copy, j.i, table)
Sweeps(j, table) ==
    /\ j = [op |-> "sweep", day |-> j.day, list |-> j.list]
    /\ j.list = [i \in DOMAIN j.list |-> j.list[i]]
    /\ \A i \in DOMAIN j.list : CopyOf(j.list[i], i, table) /\ j.list[i].status \in {"uploaded", "submitted", "approved"}
DocJob(j, table) == j = Free \/ Writes(j, table) \/ Sweeps(j, table)

DocInv ==
    /\ DocTypeOK
    /\ \A i \in Present(docs) : DocRowHolds(docs[i])
    /\ djob = [d \in Desks |-> djob[d]] /\ \A d \in Desks : DocJob(djob[d], docs)
    /\ reminders \in [DocIds \X ReminderDays -> {0, 1}]
    /\ \A p \in DocIds \X ReminderDays : reminders[p] = 1 => p \in claimed

LEMMA DocInitHolds == DocInit => DocInv
  BY DocAssumption DEF DocInit, DocInv, DocTypeOK, Present, DocJob

(* A step that leaves the versions of the documents alone, and every row a *)
(* row that holds, leaves copies what they were.                           *)
DocsKept ==
    /\ docs' \in [DocIds -> DocRow \cup {NoRow}]
    /\ \A i \in DocIds : docs[i] # NoRow =>
         docs'[i] # NoRow /\ docs'[i].replaces = docs[i].replaces /\ docs'[i].version = docs[i].version
    /\ \A i \in DocIds : docs'[i] # NoRow => DocRowHolds(docs'[i])

LEMMA CopiesStay ==
    ASSUME DocInv, DocsKept, NEW x, NEW i, CopyOf(x, i, docs)
    PROVE  CopyOf(x, i, docs')
  BY DEF CopyOf, DocsKept, DocInv, DocTypeOK

LEMMA JobsStay ==
    ASSUME DocInv, DocsKept, NEW j, DocJob(j, docs)
    PROVE  DocJob(j, docs')
  <1>1. CASE j = Free
    BY <1>1 DEF DocJob
  <1>2. CASE Writes(j, docs)
    BY <1>2, CopiesStay DEF DocJob, Writes
  <1>3. CASE Sweeps(j, docs)
    <2>1. \A i \in DOMAIN j.list : CopyOf(j.list[i], i, docs')
      BY <1>3, CopiesStay DEF Sweeps
    <2>. QED  BY <1>3, <2>1 DEF DocJob, Sweeps
  <1>. QED  BY <1>1, <1>2, <1>3 DEF DocJob

(* One row rewritten by a copy of it.                                      *)
LEMMA CopyWritten ==
    ASSUME DocInv, NEW i \in DocIds, NEW x, CopyOf(x, i, docs), docs' = [docs EXCEPT ![i] = x]
    PROVE  /\ DocsKept
           /\ \A k \in Present(docs)' : docs'[k].replaces # NoRow =>
                docs'[k].replaces \in Present(docs)' /\ docs'[k].version = docs'[docs'[k].replaces].version + 1
  <1>1. docs \in [DocIds -> DocRow \cup {NoRow}] /\ x # NoRow
    BY DocRowAssumption DEF DocInv, DocTypeOK, CopyOf
  <1>2. \A k \in DocIds : docs'[k] = IF k = i THEN x ELSE docs[k]
    BY <1>1
  <1>3. DocsKept
    BY <1>1, <1>2 DEF DocsKept, CopyOf, DocInv, Present
  <1>4. Present(docs)' = Present(docs)
    BY <1>1, <1>2 DEF Present, CopyOf
  <1>5. ASSUME NEW k \in Present(docs)', docs'[k].replaces # NoRow
        PROVE  docs'[k].replaces \in Present(docs)' /\ docs'[k].version = docs'[docs'[k].replaces].version + 1
    <2>1. k \in Present(docs) /\ k \in DocIds /\ docs[k].replaces = docs'[k].replaces /\ docs[k].version = docs'[k].version
      BY <1>1, <1>3, <1>4, <1>5 DEF DocsKept, Present
    <2>2. docs[k].replaces \in Present(docs) /\ docs[k].version = docs[docs[k].replaces].version + 1
      BY <2>1, <1>5 DEF DocInv, DocTypeOK
    <2>3. docs'[docs[k].replaces].version = docs[docs[k].replaces].version
      BY <1>1, <1>3, <2>2 DEF DocsKept, Present
    <2>. QED  BY <1>4, <2>1, <2>2, <2>3
  <1>. QED  BY <1>3, <1>5

(* The changes of a copy give a copy or nothing.                           *)
LEMMA ChangesCopy ==
    ASSUME DocInv, NEW i, NEW x, CopyOf(x, i, docs)
    PROVE  /\ \A s \in {"submitted", "rejected", "expired"} : To(x, s) # NoRow => CopyOf(To(x, s), i, docs) /\ To(x, s).status = s
           /\ MarkUploaded(x) # NoRow => CopyOf(MarkUploaded(x), i, docs)
           /\ \A s \in {"approved", "rejected"} : Decided(x, s) # NoRow => CopyOf(Decided(x, s), i, docs)
           /\ \A k \in DocKinds : Classified(x, k) # NoRow => CopyOf(Classified(x, k), i, docs)
           /\ x.status \in {"uploaded", "submitted", "approved"} => CopyOf(MarkExpired(x), i, docs)
  <1>1. x \in DocRow /\ DocRowHolds(x)
    BY DEF CopyOf
  <1>2. \A s \in DocStatuses : To(x, s) # NoRow =>
          /\ s \in docTransitions[x.status] /\ To(x, s) = [x EXCEPT !.status = s]
    BY DEF To, DocCanTransition
  <1>3. \A s \in {"submitted", "rejected", "expired"} : To(x, s) # NoRow => DocRowHolds([x EXCEPT !.status = s])
    BY <1>1, <1>2 DEF DocRowHolds, DocRow, DocStatuses, docTransitions
  <1>4. \A s \in {"submitted", "rejected", "expired"} : To(x, s) # NoRow => CopyOf(To(x, s), i, docs) /\ To(x, s).status = s
    BY <1>1, <1>2, <1>3 DEF CopyOf, DocRow, DocStatuses
  <1>5. MarkUploaded(x) # NoRow => CopyOf(MarkUploaded(x), i, docs)
    BY <1>1 DEF MarkUploaded, CopyOf, DocRow, DocStatuses, DocRowHolds
  <1>6. \A s \in {"approved", "rejected"} : Decided(x, s) # NoRow => CopyOf(Decided(x, s), i, docs)
    <2>. SUFFICES ASSUME NEW s \in {"approved", "rejected"}, Decided(x, s) # NoRow
                  PROVE  CopyOf(Decided(x, s), i, docs)
      OBVIOUS
    <2>1. s \in docTransitions[x.status] /\ Decided(x, s) = [[x EXCEPT !.status = s] EXCEPT !.reviewed = TRUE]
      BY <1>2 DEF Decided, DocStatuses
    <2>2. s = "approved" => x.status = "submitted"
      BY <1>1, <2>1 DEF DocRow, DocStatuses, docTransitions
    <2>. QED  BY <1>1, <2>1, <2>2 DEF CopyOf, DocRow, DocStatuses, DocRowHolds
  <1>7. \A k \in DocKinds : Classified(x, k) # NoRow => CopyOf(Classified(x, k), i, docs)
    BY <1>1 DEF Classified, CopyOf, DocRow, DocRowHolds
  <1>8. x.status \in {"uploaded", "submitted", "approved"} => CopyOf(MarkExpired(x), i, docs)
    <2>. SUFFICES ASSUME x.status \in {"uploaded", "submitted", "approved"}
                  PROVE  CopyOf(MarkExpired(x), i, docs)
      OBVIOUS
    <2>1. MarkExpired(x) = To(x, "expired") /\ "expired" \in docTransitions[x.status]
      BY DEF MarkExpired, docTransitions, DocStatuses
    <2>2. To(x, "expired") = [x EXCEPT !.status = "expired"]
      BY <2>1 DEF To, DocCanTransition
    <2>3. [x EXCEPT !.status = "expired"] \in DocRow
      BY <1>1 DEF DocRow, DocStatuses
    <2>4. To(x, "expired") # NoRow
      BY <2>2, <2>3, DocRowAssumption
    <2>. QED  BY <1>4, <2>1, <2>4
  <1>. QED  BY <1>4, <1>5, <1>6, <1>7, <1>8

(* What every step below establishes of the desks and the reminders.       *)
LEMMA DocStep ==
    ASSUME DocInv, DocTypeOK', \A i \in Present(docs)' : DocRowHolds(docs'[i]),
           NEW d \in Desks, NEW j, djob' = [djob EXCEPT ![d] = j], DocsKept, DocJob(j, docs),
           UNCHANGED <<claimed, reminders>>
    PROVE  DocInv'
  <1>1. djob = [e \in Desks |-> djob[e]] /\ \A e \in Desks : DocJob(djob[e], docs)
    BY DEF DocInv
  <1>2. djob' = [e \in Desks |-> djob'[e]] /\ \A e \in Desks : djob'[e] = IF e = d THEN j ELSE djob[e]
    BY <1>1
  <1>3. \A e \in Desks : DocJob(djob'[e], docs')
    BY <1>1, <1>2, JobsStay
  <1>. QED  BY <1>2, <1>3 DEF DocInv

LEMMA DocsAlone ==
    ASSUME DocInv, docs' = docs
    PROVE  DocsKept /\ \A i \in Present(docs)' : DocRowHolds(docs'[i])
  BY DEF DocInv, DocTypeOK, DocsKept, Present

LEMMA OwnCopy ==
    ASSUME DocInv, NEW i \in Present(docs)
    PROVE  i \in DocIds /\ CopyOf(docs[i], i, docs)
  BY DEF DocInv, DocTypeOK, CopyOf, Present

LEMMA ChangeKeeps ==
    ASSUME DocInv, NEW d \in Desks, NEW i, NEW x, x # NoRow => CopyOf(x, i, docs), ChangeDocument(d, i, x)
    PROVE  DocInv'
  <1>1. docs' = docs /\ UNCHANGED <<required, today, claimed, reminders>> /\ x # NoRow
        /\ djob' = [djob EXCEPT ![d] = [op |-> "write", i |-> i, copy |-> x]]
        /\ docJobs < MaxDocJobs /\ docJobs' = docJobs + 1
    BY DEF ChangeDocument, BeginJob
  <1>2. DocTypeOK'
    BY <1>1, DocAssumption DEF DocInv, DocTypeOK, Present
  <1>3. DocsKept /\ \A k \in Present(docs)' : DocRowHolds(docs'[k])
    BY <1>1, DocsAlone
  <1>4. DocJob([op |-> "write", i |-> i, copy |-> x], docs)
    BY <1>1 DEF DocJob, Writes
  <1>. QED  BY <1>1, <1>2, <1>3, <1>4, DocStep

LEMMA SaveKeeps ==
    ASSUME DocInv, NEW d \in Desks, SaveTransition(d)
    PROVE  DocInv'
  <1>1. Writes(djob[d], docs)
    <2>1. DocJob(djob[d], docs) /\ djob[d].op = "write"
      BY DEF DocInv, SaveTransition
    <2>. QED  BY <2>1 DEF DocJob, Sweeps, Free
  <1>2. CopyOf(djob[d].copy, djob[d].i, docs) /\ djob[d].i \in DocIds
    BY <1>1 DEF Writes, CopyOf
  <1>3. DocTypeOK' /\ DocsKept
    <2>1. CASE docs' = docs
      BY <2>1, DocsAlone DEF SaveTransition, DocInv, DocTypeOK, Present
    <2>2. CASE docs' = [docs EXCEPT ![djob[d].i] = djob[d].copy]
      BY <1>2, <2>2, CopyWritten DEF SaveTransition, DocInv, DocTypeOK, DocsKept
    <2>. QED  BY <2>1, <2>2 DEF SaveTransition
  <1>4. \A k \in Present(docs)' : DocRowHolds(docs'[k])
    BY <1>3 DEF DocsKept, Present
  <1>5. djob' = [djob EXCEPT ![d] = Free] /\ UNCHANGED <<claimed, reminders>> /\ DocJob(Free, docs)
    BY DEF SaveTransition, DocJob
  <1>. QED  BY <1>3, <1>4, <1>5, DocStep

(* A new row, the first version or one after the version it replaces.      *)
LEMMA InsertKeeps ==
    ASSUME DocInv, NEW n \in Fresh(docs), NEW x \in DocRow, DocRowHolds(x), docs' = [docs EXCEPT ![n] = x],
           x.replaces # NoRow => x.replaces \in Present(docs) /\ x.version = docs[x.replaces].version + 1,
           UNCHANGED <<required, today, claimed, djob, reminders, docJobs>>
    PROVE  DocInv'
  <1>1. docs \in [DocIds -> DocRow \cup {NoRow}] /\ x # NoRow /\ n \in DocIds /\ docs[n] = NoRow
    BY DocRowAssumption DEF DocInv, DocTypeOK, Fresh
  <1>2. \A k \in DocIds : docs'[k] = IF k = n THEN x ELSE docs[k]
    BY <1>1
  <1>3. DocsKept
    BY <1>1, <1>2 DEF DocsKept, DocInv, Present
  <1>4. Present(docs)' = Present(docs) \cup {n} /\ n \notin Present(docs) /\ Present(docs) \subseteq DocIds
    BY <1>1, <1>2 DEF Present
  <1>5. ASSUME NEW k \in Present(docs)', docs'[k].replaces # NoRow
        PROVE  docs'[k].replaces \in Present(docs)' /\ docs'[k].version = docs'[docs'[k].replaces].version + 1
    <2>1. docs'[k].replaces \in Present(docs) /\ docs'[k].version = docs[docs'[k].replaces].version + 1
      <3>1. CASE k = n
        BY <1>2, <1>1, <1>5, <3>1
      <3>2. CASE k # n
        <4>1. k \in Present(docs) /\ docs'[k] = docs[k]
          BY <1>2, <1>4, <3>2
        <4>. QED  BY <1>5, <4>1 DEF DocInv, DocTypeOK
      <3>. QED  BY <3>1, <3>2
    <2>. QED  BY <1>2, <1>4, <2>1
  <1>6. DocTypeOK'
    BY <1>3, <1>5 DEF DocTypeOK, DocInv, DocsKept
  <1>7. \A d \in Desks : DocJob(djob[d], docs')
    BY <1>3, JobsStay DEF DocInv
  <1>. QED  BY <1>3, <1>6, <1>7 DEF DocInv, DocsKept, Present

LEMMA NewDocumentsKeep ==
    ASSUME DocInv,
           \/ \E k \in DocKinds, exp \in Expiries : PresignUpload(k, exp)
           \/ \E i \in Present(docs) : Replace(i)
    PROVE  DocInv'
  <1>1. CASE \E k \in DocKinds, exp \in Expiries : PresignUpload(k, exp)
    <2>1. PICK k \in DocKinds, exp \in Expiries : PresignUpload(k, exp)
      BY <1>1
    <2>2. NewDocument(k, exp) \in DocRow /\ DocRowHolds(NewDocument(k, exp)) /\ NewDocument(k, exp).replaces = NoRow
      BY DEF NewDocument, DocRow, DocStatuses, DocRowHolds
    <2>3. PICK n \in Fresh(docs) : docs' = [docs EXCEPT ![n] = NewDocument(k, exp)]
      BY <2>1 DEF PresignUpload
    <2>. QED  BY <2>1, <2>2, <2>3, InsertKeeps DEF PresignUpload
  <1>2. CASE \E i \in Present(docs) : Replace(i)
    <2>1. PICK i \in Present(docs) : Replace(i)
      BY <1>2
    <2>2. docs[i] \in DocRow /\ i \in DocIds
      BY <2>1, OwnCopy DEF CopyOf
    <2>3. /\ NewReplacement(i) \in DocRow /\ DocRowHolds(NewReplacement(i))
          /\ NewReplacement(i).replaces = i /\ NewReplacement(i).version = docs[i].version + 1
      <3>1. docs[i].kind \in DocKinds /\ docs[i].expires \in Expiries /\ docs[i].version \in Nat
        BY <2>2 DEF DocRow
      <3>2. PICK n : n = NewReplacement(i)
        OBVIOUS
      <3>3. /\ n \in DocRow /\ n.status = "pending" /\ n.replaces = i
            /\ n.version = docs[i].version + 1
        <4>1. \A k \in DocKinds, e \in Expiries, v \in Nat : [NewDocument(k, e) EXCEPT !.replaces = i, !.version = v] \in DocRow
          BY <2>2 DEF NewDocument, DocRow, DocStatuses
        <4>2. docs[i].version + 1 \in Nat
          BY <3>1
        <4>3. n \in DocRow
          BY <3>1, <3>2, <4>1, <4>2 DEF NewReplacement
        <4>. QED  BY <3>2, <4>3 DEF NewReplacement, NewDocument
      <3>. QED  BY <3>2, <3>3 DEF DocRowHolds
    <2>4. PICK n \in Fresh(docs) : docs' = [docs EXCEPT ![n] = NewReplacement(i)]
      BY <2>1 DEF Replace
    <2>. QED  BY <2>1, <2>3, <2>4, InsertKeeps DEF Replace
  <1>. QED  BY <1>1, <1>2

LEMMA ListKeeps ==
    ASSUME DocInv, NEW d \in Desks, ListForExpiry(d)
    PROVE  DocInv'
  <1>. DEFINE j == [op |-> "sweep", day |-> today, list |-> [i \in ListExpiring |-> docs[i]]]
  <1>1. docs' = docs /\ UNCHANGED <<required, today, claimed, reminders>>
        /\ djob' = [djob EXCEPT ![d] = j] /\ docJobs < MaxDocJobs /\ docJobs' = docJobs + 1
    BY DEF ListForExpiry, BeginJob
  <1>2. DocTypeOK'
    BY <1>1, DocAssumption DEF DocInv, DocTypeOK, Present
  <1>3. DocsKept /\ \A k \in Present(docs)' : DocRowHolds(docs'[k])
    BY <1>1, DocsAlone
  <1>4. DocJob(j, docs)
    <2>1. \A i \in ListExpiring : CopyOf(docs[i], i, docs) /\ docs[i].status \in {"uploaded", "submitted", "approved"}
      BY OwnCopy DEF ListExpiring
    <2>. QED  BY <2>1 DEF DocJob, Sweeps
  <1>. QED  BY <1>1, <1>2, <1>3, <1>4, DocStep

(* A listed document leaves the list of its sweep.                         *)
LEMMA UnlistedHolds ==
    ASSUME DocInv, NEW d \in Desks, djob[d].op = "sweep", NEW i \in DOMAIN djob[d].list, Unlisted(d, i)
    PROVE  \E j : djob' = [djob EXCEPT ![d] = j] /\ DocJob(j, docs)
  <1>1. Sweeps(djob[d], docs)
    BY DEF DocInv, DocJob, Writes, Free
  <1>. DEFINE rest == [djob[d] EXCEPT !.list = Rest(djob[d].list, i)]
  <1>2. djob = [e \in Desks |-> djob[e]]
    BY DEF DocInv
  <1>3. djob' = [djob EXCEPT ![d] = IF DOMAIN djob[d].list = {i} THEN Free ELSE rest]
    BY DEF Unlisted
  <1>4. Sweeps(rest, docs)
    BY <1>1 DEF Sweeps, Rest
  <1>. QED  BY <1>3, <1>4 DEF DocJob

LEMMA ExpireKeeps ==
    ASSUME DocInv, NEW d \in Desks, djob[d].op = "sweep", NEW i \in DOMAIN djob[d].list, Expire(d, i)
    PROVE  DocInv'
  <1>1. Sweeps(djob[d], docs)
    BY DEF DocInv, DocJob, Writes, Free
  <1>2. CopyOf(djob[d].list[i], i, docs) /\ djob[d].list[i].status \in {"uploaded", "submitted", "approved"} /\ i \in DocIds
    BY <1>1 DEF Sweeps, CopyOf
  <1>3. CopyOf(MarkExpired(djob[d].list[i]), i, docs)
    BY <1>2, ChangesCopy
  <1>4. docs' = [docs EXCEPT ![i] = MarkExpired(djob[d].list[i])]
        /\ UNCHANGED <<required, today, claimed, reminders, docJobs>> /\ Unlisted(d, i)
    BY DEF Expire
  <1>5. DocTypeOK' /\ DocsKept
    BY <1>2, <1>3, <1>4, CopyWritten DEF DocInv, DocTypeOK, DocsKept
  <1>6. \A k \in Present(docs)' : DocRowHolds(docs'[k])
    BY <1>5 DEF DocsKept, Present
  <1>7. PICK j : djob' = [djob EXCEPT ![d] = j] /\ DocJob(j, docs)
    BY <1>4, UnlistedHolds
  <1>. QED  BY <1>4, <1>5, <1>6, <1>7, DocStep

(* The slot is claimed with the reminder, so no slot is reminded of twice. *)
LEMMA RemindKeeps ==
    ASSUME DocInv, NEW d \in Desks, djob[d].op = "sweep", NEW i \in DOMAIN djob[d].list, RemindExpiry(d, i)
    PROVE  DocInv'
  <1>1. Sweeps(djob[d], docs)
    BY DEF DocInv, DocJob, Writes, Free
  <1>2. i \in DocIds
    BY <1>1 DEF Sweeps, CopyOf
  <1>3. docs' = docs /\ UNCHANGED <<required, today, docJobs>> /\ Unlisted(d, i)
    BY DEF RemindExpiry
  <1>4. DocTypeOK' /\ DocsKept /\ \A k \in Present(docs)' : DocRowHolds(docs'[k])
    BY <1>3, DocsAlone DEF DocInv, DocTypeOK, Present
  <1>5. PICK j : djob' = [djob EXCEPT ![d] = j] /\ DocJob(j, docs)
    BY <1>3, UnlistedHolds
  <1>6. djob' = [e \in Desks |-> djob'[e]] /\ \A e \in Desks : DocJob(djob'[e], docs')
    <2>1. djob = [e \in Desks |-> djob[e]] /\ \A e \in Desks : DocJob(djob[e], docs)
      BY DEF DocInv
    <2>2. djob' = [e \in Desks |-> djob'[e]] /\ \A e \in Desks : djob'[e] = IF e = d THEN j ELSE djob[e]
      BY <2>1, <1>5
    <2>. QED  BY <1>4, <1>5, <2>1, <2>2, JobsStay
  <1>7. /\ reminders' \in [DocIds \X ReminderDays -> {0, 1}]
        /\ \A p \in DocIds \X ReminderDays : reminders'[p] = 1 => p \in claimed'
    <2>1. CASE UNCHANGED <<claimed, reminders>>
      BY <2>1 DEF DocInv
    <2>2. CASE ~UNCHANGED <<claimed, reminders>>
      <3>1. PICK s \in ReminderDays : /\ <<i, s>> \notin claimed /\ claimed' = claimed \cup {<<i, s>>}
                                      /\ reminders' = [reminders EXCEPT ![<<i, s>>] = @ + 1]
        BY <2>2 DEF RemindExpiry, ReminderSlots
      <3>2. <<i, s>> \in DocIds \X ReminderDays /\ reminders \in [DocIds \X ReminderDays -> {0, 1}]
        BY <1>2 DEF DocInv
      <3>3. reminders[<<i, s>>] = 0
        BY <3>1, <3>2 DEF DocInv
      <3>4. \A p \in DocIds \X ReminderDays : reminders'[p] = IF p = <<i, s>> THEN 1 ELSE reminders[p]
        BY <3>1, <3>2, <3>3
      <3>5. reminders' \in [DocIds \X ReminderDays -> {0, 1}]
        BY <3>1, <3>2, <3>3
      <3>. QED  BY <3>1, <3>4, <3>5 DEF DocInv
    <2>. QED  BY <2>1, <2>2
  <1>. QED  BY <1>4, <1>6, <1>7 DEF DocInv

LEMMA DocInvNext == DocInv /\ (DocNext \/ UNCHANGED docVars) => DocInv'
  <1>1. CASE DocInv /\ UNCHANGED docVars
    <2>1. \A j : DocJob(j, docs') <=> DocJob(j, docs)
      BY <1>1 DEF docVars, DocJob, Writes, Sweeps, CopyOf
    <2>. QED  BY <1>1, <2>1 DEF docVars, DocInv, DocTypeOK, Present
  <1>2. ASSUME DocInv, NEW d \in Desks, NEW i \in Present(docs),
               \/ CompleteUpload(d, i) \/ Submit(d, i)
               \/ \E k \in DocKinds : Classify(d, i, k)
               \/ \E s \in {"approved", "rejected"} : Review(d, i, s)
        PROVE  DocInv'
    BY <1>2, OwnCopy, ChangesCopy, ChangeKeeps DEF CompleteUpload, Submit, Classify, Review
  <1>3. ASSUME DocInv, NEW d \in Desks, StopSweep(d)
        PROVE  DocInv'
    <2>1. UNCHANGED <<docs, required, today, claimed, reminders, docJobs>> /\ djob' = [djob EXCEPT ![d] = Free]
      BY <1>3 DEF StopSweep
    <2>2. DocTypeOK' /\ DocJob(Free, docs)
      BY <2>1, <1>3 DEF DocInv, DocTypeOK, Present, DocJob
    <2>. QED  BY <1>3, <2>1, <2>2, DocsAlone, DocStep
  <1>4. ASSUME DocInv, NextDay \/ \E ks \in SUBSET DocKinds : UpsertPolicy(ks)
        PROVE  DocInv'
    <2>1. UNCHANGED <<docs, claimed, djob, reminders, docJobs>>
      BY <1>4 DEF NextDay, UpsertPolicy
    <2>2. \A j : DocJob(j, docs') <=> DocJob(j, docs)
      BY <2>1 DEF DocJob, Writes, Sweeps, CopyOf
    <2>3. DocTypeOK'
      BY <1>4, <2>1, DocAssumption DEF NextDay, UpsertPolicy, DocInv, DocTypeOK, Present
    <2>. QED  BY <1>4, <2>1, <2>2, <2>3 DEF DocInv, Present
  <1>. QED  BY <1>1, <1>2, <1>3, <1>4, SaveKeeps, NewDocumentsKeep, ListKeeps, ExpireKeeps, RemindKeeps DEF DocNext

LEMMA DocInvHolds == DocInv => DocTypeOK /\ RemindedOnce /\ ApprovedWasReviewed
  BY DEF DocInv, RemindedOnce, ApprovedWasReviewed, ListApprovedBySubjects, DocRowHolds

-----------------------------------------------------------------------------
(* Notifications and their escalation.                                     *)
(* A copy of a row: what it counts was reported, and if it carries an      *)
(* escalation it is critical.                                              *)
NoteCopy(x, id, table, seen) ==
    /\ id \in NoteIds /\ table[id] # NoRow /\ x \in NoteRow
    /\ x.from # NoRow => x.severity = Critical
    /\ x.count <= seen[id]
NoteAlerts == [to : NoteUsers, key : NoteKinds \X {"branch", "e1"}, kind : NoteKinds, severity : 1 .. 3,
               from : NoteIds \cup {NoRow}]
NoteAlert(in) == in \in NoteAlerts /\ (in.from # NoRow => in.severity = Critical)
(* An emission between its read and its write found an open row or none.   *)
Emission(e, table, seen) ==
    /\ e = [in |-> e.in, id |-> e.id, copy |-> e.copy] /\ NoteAlert(e.in)
    /\ e.id # NoRow => NoteCopy(e.copy, e.id, table, seen) /\ e.copy.status = "open"
Copies(left, table, seen) ==
    left = [i \in DOMAIN left |-> left[i]] /\ \A i \in DOMAIN left : NoteCopy(left[i], i, table, seen)
(* A request holds an emission or copies that close rows; a run of the     *)
(* sweep holds copies of rows that were open, and its place among them.    *)
NoteRequestJob(j, table, seen) ==
    \/ j = Free
    \/ j = [op |-> "emit", e |-> j.e] /\ Emission(j.e, table, seen)
    \/ /\ j = [op |-> "write", left |-> j.left] /\ Copies(j.left, table, seen)
       /\ \A i \in DOMAIN j.left : j.left[i].status # "open"
NoteSweepJob(j, table, seen) ==
    /\ Copies(j.left, table, seen) /\ \A i \in DOMAIN j.left : j.left[i].status = "open"
    /\ \/ j = [op |-> "listed", left |-> j.left]
       \/ j = [op |-> "told", left |-> j.left, in |-> j.in] /\ NoteAlert(j.in) /\ j.in.from \in NoteIds
       \/ j = [op |-> "tell", left |-> j.left, e |-> j.e] /\ Emission(j.e, table, seen) /\ j.e.in.from \in NoteIds
NoteJob(j, table, seen) == NoteRequestJob(j, table, seen) \/ NoteSweepJob(j, table, seen)

(* A row that may still be taken for the first time since an alert was     *)
(* folded into it: it is open, or a run that was not overtaken lists it.   *)
SweepOf(j) == j.op \in {"listed", "told", "tell"}
Watched(jobs, over, id) == \E d \in Desks : SweepOf(jobs[d]) /\ id \in DOMAIN jobs[d].left /\ id \notin over[d]
RowOpen(table, id) == table[id] # NoRow /\ table[id].status = "open"
OnceEach(jobs, over, table, seen, taken) ==
    \A id \in NoteIds : /\ taken[id] <= seen[id]
                        /\ Watched(jobs, over, id) \/ RowOpen(table, id) => taken[id] < seen[id]
OvertakenFits(jobs, over) ==
    /\ over \in [Desks -> SUBSET NoteIds]
    /\ \A d \in Desks : over[d] \subseteq (IF SweepOf(jobs[d]) THEN DOMAIN jobs[d].left ELSE {})

NoteInv ==
    /\ notes \in [NoteIds -> NoteRow \cup {NoRow}] /\ noteTick \in 0 .. LastNoteTick
    /\ reported \in [NoteIds -> Nat] /\ escalations \in [NoteIds -> Nat]
    /\ \A id \in NoteIds : notes[id] # NoRow => NoteCopy(notes[id], id, notes, reported)
    /\ noteDesk = [d \in Desks |-> noteDesk[d]] /\ \A d \in Desks : NoteJob(noteDesk[d], notes, reported)
    /\ OvertakenFits(noteDesk, overtaken)
    /\ OnceEach(noteDesk, overtaken, notes, reported, escalations)

LEMMA NoteInitHolds == NoteInit => NoteInv
  <1>. SUFFICES ASSUME NoteInit PROVE NoteInv
    OBVIOUS
  <1>1. notes \in [NoteIds -> NoteRow \cup {NoRow}] /\ noteTick \in 0 .. LastNoteTick
        /\ reported \in [NoteIds -> Nat] /\ escalations \in [NoteIds -> Nat] /\ \A id \in NoteIds : notes[id] = NoRow
    BY NoteAssumption DEF NoteInit
  <1>2. \A id \in NoteIds : escalations[id] = 0 /\ reported[id] = 0
    BY DEF NoteInit
  <1>3. noteDesk = [d \in Desks |-> noteDesk[d]] /\ \A d \in Desks : noteDesk[d] = Free
    BY DEF NoteInit
  <1>4. OvertakenFits(noteDesk, overtaken)
    BY DEF NoteInit, OvertakenFits
  <1>5. OnceEach(noteDesk, overtaken, notes, reported, escalations)
    BY <1>1, <1>2, <1>3 DEF OnceEach, Watched, RowOpen, SweepOf, Free
  <1>. QED  BY <1>1, <1>3, <1>4, <1>5 DEF NoteInv, NoteJob, NoteRequestJob

LEMMA NoteInvHolds == NoteInv => NotesTypeOK /\ EscalationIsCritical /\ EscalatedOncePerAlert
  <1>. SUFFICES ASSUME NoteInv PROVE NotesTypeOK /\ EscalationIsCritical /\ EscalatedOncePerAlert
    OBVIOUS
  <1>1. \A d \in Desks : overtaken[d] \subseteq (IF Sweeping(d) THEN DOMAIN noteDesk[d].left ELSE {})
    BY DEF NoteInv, OvertakenFits, SweepOf, Sweeping
  <1>2. \A id \in NoteIds : escalations[id] <= reported[id]
    BY DEF NoteInv, OnceEach
  <1>. QED  BY <1>1, <1>2 DEF NoteInv, NotesTypeOK, EscalationIsCritical, IsEscalation, Present, EscalatedOncePerAlert, NoteCopy

-----------------------------------------------------------------------------
(* Rows that stay and counts that only grow leave copies what they were.   *)
NotesGrow(table, seen, table2, seen2) ==
    /\ seen \in [NoteIds -> Nat] /\ seen2 \in [NoteIds -> Nat]
    /\ \A id \in NoteIds : (table[id] # NoRow => table2[id] # NoRow) /\ seen[id] <= seen2[id]

LEMMA NoteCopiesStay ==
    ASSUME NEW table, NEW seen, NEW table2, NEW seen2, NotesGrow(table, seen, table2, seen2)
    PROVE  /\ \A x, id : NoteCopy(x, id, table, seen) => NoteCopy(x, id, table2, seen2)
           /\ \A e : Emission(e, table, seen) => Emission(e, table2, seen2)
           /\ \A left : Copies(left, table, seen) => Copies(left, table2, seen2)
           /\ \A j : NoteJob(j, table, seen) => NoteJob(j, table2, seen2)
  <1>1. \A x, id : NoteCopy(x, id, table, seen) => NoteCopy(x, id, table2, seen2)
    BY DEF NotesGrow, NoteCopy, NoteRow
  <1>2. \A e : Emission(e, table, seen) => Emission(e, table2, seen2)
    BY <1>1 DEF Emission
  <1>3. \A left : Copies(left, table, seen) => Copies(left, table2, seen2)
    BY <1>1 DEF Copies
  <1>4. \A j : NoteRequestJob(j, table, seen) => NoteRequestJob(j, table2, seen2)
    BY <1>2, <1>3 DEF NoteRequestJob
  <1>5. \A j : NoteSweepJob(j, table, seen) => NoteSweepJob(j, table2, seen2)
    BY <1>2, <1>3 DEF NoteSweepJob
  <1>6. \A j : NoteJob(j, table, seen) => NoteJob(j, table2, seen2)
    BY <1>4, <1>5 DEF NoteJob
  <1>. QED  BY <1>1, <1>2, <1>3, <1>6

(* One row written, by a desk or by the sweep: the invariant follows from  *)
(* what the row is, what the others hold and the count of escalations.     *)
LEMMA NoteWritten ==
    ASSUME NoteInv, NEW id \in NoteIds, NEW x, NEW n \in Nat, notes' = [notes EXCEPT ![id] = x], x # NoRow,
           reported' = [reported EXCEPT ![id] = n], n >= reported[id], NoteCopy(x, id, notes', reported')
    PROVE  /\ notes' \in [NoteIds -> NoteRow \cup {NoRow}] /\ reported' \in [NoteIds -> Nat]
           /\ NotesGrow(notes, reported, notes', reported')
           /\ \A k \in NoteIds : notes'[k] # NoRow => NoteCopy(notes'[k], k, notes', reported')
           /\ \A k \in NoteIds : k # id => notes'[k] = notes[k] /\ reported'[k] = reported[k]
           /\ notes'[id] = x /\ reported'[id] = n
  <1>1. notes \in [NoteIds -> NoteRow \cup {NoRow}] /\ reported \in [NoteIds -> Nat] /\ x \in NoteRow
    BY DEF NoteInv, NoteCopy
  <1>2. /\ \A k \in NoteIds : k # id => notes'[k] = notes[k] /\ reported'[k] = reported[k]
        /\ notes'[id] = x /\ reported'[id] = n
    BY <1>1
  <1>3. notes' \in [NoteIds -> NoteRow \cup {NoRow}] /\ reported' \in [NoteIds -> Nat]
    BY <1>1
  <1>4. NotesGrow(notes, reported, notes', reported')
    BY <1>1, <1>2, <1>3 DEF NotesGrow
  <1>5. \A k \in NoteIds : notes'[k] # NoRow => NoteCopy(notes'[k], k, notes', reported')
    BY <1>2, <1>4, NoteCopiesStay DEF NoteInv
  <1>. QED  BY <1>2, <1>3, <1>4, <1>5

(* What EmitWrite does to the row of an emission.                          *)
LEMMA EmissionWritten ==
    ASSUME NoteInv, NEW e, Emission(e, notes, reported), EmitWrite(e)
    PROVE  \E id, x : /\ id \in NoteIds /\ notes' = [notes EXCEPT ![id] = x] /\ x # NoRow /\ x.status = "open"
                                  /\ reported' = [reported EXCEPT ![id] = reported[id] + 1]
                                  /\ NoteCopy(x, id, notes', reported')
  <1>. DEFINE bumped == [BumpOccurrence(e.copy, e.in.severity) EXCEPT !.from = e.in.from]
  <1>1. e.in \in NoteAlerts /\ (e.in.from # NoRow => e.in.severity = Critical)
    BY DEF Emission, NoteAlert
  <1>2. PICK id \in (IF e.id # NoRow THEN {e.id} ELSE Fresh(notes)) :
            /\ notes' = [notes EXCEPT ![id] = IF e.id # NoRow THEN bumped ELSE NewNote(e.in)]
            /\ reported' = [reported EXCEPT ![id] = @ + 1]
    BY DEF EmitWrite, Update
  <1>3. id \in NoteIds
    BY <1>2 DEF Emission, NoteCopy, Fresh, NoteInv
  <1>4. reported[id] \in Nat /\ reported'[id] = reported[id] + 1
    BY <1>2, <1>3 DEF NoteInv
  <1>5. CASE e.id # NoRow
    <2>1. e.copy \in NoteRow /\ e.copy.count <= reported[id] /\ e.copy.status = "open" /\ id = e.id
      BY <1>2, <1>5 DEF Emission, NoteCopy
    <2>2. bumped \in NoteRow /\ bumped.status = "open" /\ bumped.count = e.copy.count + 1 /\ bumped.from = e.in.from
          /\ (e.in.severity = Critical => bumped.severity = Critical)
      <3>1. e.in.severity \in 1 .. 3 /\ e.copy.severity \in 1 .. 3 /\ e.copy.count \in Nat \ {0} /\ e.in.from \in NoteIds \cup {NoRow}
        BY <1>1, <2>1 DEF NoteAlerts, NoteRow
      <3>2. PICK b : b = BumpOccurrence(e.copy, e.in.severity)
        OBVIOUS
      <3>3. /\ b \in NoteRow /\ b.status = "open" /\ b.count = e.copy.count + 1
            /\ e.in.severity = 3 => b.severity = 3
        <4>1. b.status = "open" /\ b.count = e.copy.count + 1 /\ (e.in.severity = 3 => b.severity = 3)
          BY <2>1, <3>1, <3>2 DEF BumpOccurrence, NoteRow
        <4>. DEFINE v == IF e.in.severity >= e.copy.severity THEN e.in.severity ELSE e.copy.severity
                    c == e.copy.count + 1
        <4>2. b = [e.copy EXCEPT !.count = c, !.severity = v] /\ v \in 1 .. 3 /\ c \in Nat \ {0}
          BY <3>1, <3>2 DEF BumpOccurrence
        <4>. HIDE DEF v, c
        <4>3. \A m \in Nat \ {0}, w \in 1 .. 3 : [e.copy EXCEPT !.count = m, !.severity = w] \in NoteRow
          BY <2>1 DEF NoteRow
        <4>. QED  BY <3>1, <4>1, <4>2, <4>3
      <3>4. bumped = [b EXCEPT !.from = e.in.from]
        BY <3>2
      <3>. QED  BY <3>1, <3>3, <3>4 DEF NoteRow, Critical
    <2>3. bumped # NoRow /\ notes'[id] = bumped
      BY <1>2, <1>3, <1>5, <2>2, NoteAssumption DEF NoteInv
    <2>4. NoteCopy(bumped, id, notes', reported')
      BY <1>1, <1>3, <1>4, <2>1, <2>2, <2>3 DEF NoteCopy, NoteRow
    <2>. QED  BY <1>2, <1>3, <1>5, <2>2, <2>3, <2>4
  <1>6. CASE e.id = NoRow
    <2>1. NewNote(e.in) \in NoteRow /\ NewNote(e.in).status = "open" /\ NewNote(e.in).count = 1
          /\ NewNote(e.in).from = e.in.from /\ NewNote(e.in).severity = e.in.severity
      BY <1>1 DEF NewNote, NoteRow, NoteAlerts, NoteInv
    <2>2. NewNote(e.in) # NoRow /\ notes'[id] = NewNote(e.in)
      BY <1>2, <1>3, <1>6, <2>1, NoteAssumption DEF NoteInv
    <2>3. NoteCopy(NewNote(e.in), id, notes', reported')
      BY <1>1, <1>3, <1>4, <2>1, <2>2 DEF NoteCopy
    <2>. QED  BY <1>2, <1>3, <1>6, <2>1, <2>2, <2>3
  <1>. QED  BY <1>5, <1>6

LEMMA Found ==
    ASSUME NoteInv, NEW in, NoteAlert(in), NEW e \in EmitRead(in)
    PROVE  Emission(e, notes, reported) /\ e.in = in
  <1>1. CASE FindOpenByGroup(in.to, in.key) = {}
    BY <1>1 DEF EmitRead, Emission
  <1>2. CASE FindOpenByGroup(in.to, in.key) # {}
    <2>1. PICK id \in FindOpenByGroup(in.to, in.key) : e = [in |-> in, id |-> id, copy |-> notes[id]]
      BY <1>2 DEF EmitRead
    <2>2. id \in NoteIds /\ notes[id] # NoRow /\ notes[id].status = "open"
      BY <2>1 DEF FindOpenByGroup, Present, NoteInv
    <2>. QED  BY <2>1, <2>2 DEF Emission, NoteInv
  <1>. QED  BY <1>1, <1>2

-----------------------------------------------------------------------------
(* A step that writes no row: a run may still be the first to take only    *)
(* what was open or was its own before.                                    *)
LEMMA DeskTakes ==
    ASSUME NoteInv, NEW d \in Desks, NEW j, NoteJob(j, notes, reported), noteDesk' = [noteDesk EXCEPT ![d] = j],
           UNCHANGED <<notes, noteTick, reported, escalations>>,
           NEW o \in SUBSET NoteIds, overtaken' = [overtaken EXCEPT ![d] = o],
           o \subseteq (IF SweepOf(j) THEN DOMAIN j.left ELSE {}),
           \A id \in NoteIds : SweepOf(j) /\ id \in DOMAIN j.left /\ id \notin o
                                 => Watched(noteDesk, overtaken, id) \/ RowOpen(notes, id)
    PROVE  NoteInv'
  <1>1. /\ noteDesk' = [c \in Desks |-> noteDesk'[c]] /\ noteDesk'[d] = j /\ \A c \in Desks \ {d} : noteDesk'[c] = noteDesk[c]
        /\ overtaken' \in [Desks -> SUBSET NoteIds] /\ overtaken'[d] = o /\ \A c \in Desks \ {d} : overtaken'[c] = overtaken[c]
    BY DEF NoteInv, OvertakenFits
  <1>2. OvertakenFits(noteDesk', overtaken')
    BY <1>1 DEF NoteInv, OvertakenFits
  <1>3. \A id \in NoteIds : Watched(noteDesk', overtaken', id) => Watched(noteDesk, overtaken, id) \/ RowOpen(notes, id)
    BY <1>1 DEF Watched
  <1>4. OnceEach(noteDesk', overtaken', notes', reported', escalations')
    BY <1>3 DEF NoteInv, OnceEach
  <1>5. \A c \in Desks : NoteJob(noteDesk'[c], notes', reported')
    BY <1>1 DEF NoteInv
  <1>. QED  BY <1>1, <1>2, <1>4, <1>5 DEF NoteInv

(* A desk that works on nothing, or ends what it did, lists nothing.       *)
LEMMA RequestTakes ==
    ASSUME NoteInv, NEW d \in Desks, noteDesk[d] = Free, NEW j, NoteRequestJob(j, notes, reported),
           noteDesk' = [noteDesk EXCEPT ![d] = j], UNCHANGED <<notes, overtaken, noteTick, reported, escalations>>
    PROVE  NoteInv'
  <1>1. overtaken[d] = {} /\ overtaken \in [Desks -> SUBSET NoteIds]
    BY DEF NoteInv, OvertakenFits, SweepOf, Free
  <1>2. overtaken' = [overtaken EXCEPT ![d] = {}]
    BY <1>1
  <1>3. ~SweepOf(j)
    BY DEF NoteRequestJob, SweepOf, Free
  <1>. QED  BY <1>2, <1>3, DeskTakes DEF NoteJob

LEMMA EmitKeeps ==
    ASSUME NoteInv, NEW d \in Desks, Emit(d)
    PROVE  NoteInv'
  <1>1. PICK in \in Emitted : \E e \in EmitRead(in) : noteDesk' = [noteDesk EXCEPT ![d] = [op |-> "emit", e |-> e]]
    BY DEF Emit
  <1>2. PICK e \in EmitRead(in) : noteDesk' = [noteDesk EXCEPT ![d] = [op |-> "emit", e |-> e]]
    BY <1>1
  <1>3. NoteAlert(in)
    <2>1. in.kind \in NoteKinds /\ in.to \in NoteUsers /\ in.from = NoRow /\ in.severity \in 1 .. 3
          /\ in.key \in NoteKinds \X {"branch", "e1"} /\ in = [to |-> in.to, kind |-> in.kind, key |-> in.key, severity |-> in.severity, from |-> in.from]
      BY <1>1 DEF Emitted, OnSLABreached, OnBookingConfirmed, Alert, BuildGroupKey, MatchRule, DefaultRules, NoteKinds, NoteUsers, Owner, Manager
    <2>2. in \in NoteAlerts
      BY <2>1 DEF NoteAlerts
    <2>. QED  BY <2>1, <2>2 DEF NoteAlert
  <1>4. NoteRequestJob([op |-> "emit", e |-> e], notes, reported)
    BY <1>2, <1>3, Found DEF NoteRequestJob
  <1>. QED  BY <1>2, <1>4, RequestTakes DEF Emit

(* Copies a desk takes to close rows.                                      *)
LEMMA ClosedCopy ==
    ASSUME NoteInv, NEW id \in Present(notes)
    PROVE  /\ id \in NoteIds /\ NoteCopy(Resolve(notes[id]), id, notes, reported) /\ Resolve(notes[id]).status # "open"
           /\ \A x \in Acknowledge(notes[id]) : NoteCopy(x, id, notes, reported) /\ x.status = "acknowledged"
           /\ notes[id].status # "resolved" => \E x : Acknowledge(notes[id]) = {x}
  <1>1. id \in NoteIds /\ notes[id] # NoRow /\ NoteCopy(notes[id], id, notes, reported)
    BY DEF Present, NoteInv
  <1>2. notes[id] \in NoteRow
    BY <1>1 DEF NoteCopy
  <1>3. NoteCopy(Resolve(notes[id]), id, notes, reported) /\ Resolve(notes[id]).status # "open"
    BY <1>1, <1>2 DEF NoteCopy, Resolve, NoteRow
  <1>4. \A x \in Acknowledge(notes[id]) : NoteCopy(x, id, notes, reported) /\ x.status = "acknowledged"
    BY <1>1, <1>2 DEF NoteCopy, Acknowledge, NoteRow
  <1>5. notes[id].status # "resolved" => Acknowledge(notes[id]) = {[notes[id] EXCEPT !.status = "acknowledged"]}
    BY DEF Acknowledge
  <1>. QED  BY <1>1, <1>3, <1>4, <1>5

LEMMA MutateKeeps ==
    ASSUME NoteInv, NEW d \in Desks, Mutate(d)
    PROVE  NoteInv'
  <1>1. PICK id \in Present(notes) : \E copy \in Acknowledge(notes[id]) \cup {Resolve(notes[id])} :
            noteDesk' = [noteDesk EXCEPT ![d] = [op |-> "write", left |-> [i \in {id} |-> copy]]]
    BY DEF Mutate
  <1>2. PICK copy \in Acknowledge(notes[id]) \cup {Resolve(notes[id])} :
            noteDesk' = [noteDesk EXCEPT ![d] = [op |-> "write", left |-> [i \in {id} |-> copy]]]
    BY <1>1
  <1>3. NoteCopy(copy, id, notes, reported) /\ copy.status # "open"
    BY <1>1, <1>2, ClosedCopy
  <1>4. NoteRequestJob([op |-> "write", left |-> [i \in {id} |-> copy]], notes, reported)
    BY <1>3 DEF NoteRequestJob, Copies
  <1>. QED  BY <1>2, <1>4, RequestTakes DEF Mutate

LEMMA AcknowledgeAllKeeps ==
    ASSUME NoteInv, NEW d \in Desks, AcknowledgeAll(d)
    PROVE  NoteInv'
  <1>1. PICK user \in NoteUsers : \E page \in ListOpen(user) :
            noteDesk' = [noteDesk EXCEPT ![d] = [op |-> "write", left |-> [i \in page |-> CHOOSE n \in Acknowledge(notes[i]) : TRUE]]]
    BY DEF AcknowledgeAll
  <1>2. PICK page \in ListOpen(user) :
            noteDesk' = [noteDesk EXCEPT ![d] = [op |-> "write", left |-> [i \in page |-> CHOOSE n \in Acknowledge(notes[i]) : TRUE]]]
    BY <1>1
  <1>. DEFINE acked(i) == CHOOSE n \in Acknowledge(notes[i]) : TRUE
  <1>3. ASSUME NEW i \in page
        PROVE  NoteCopy(acked(i), i, notes, reported) /\ acked(i).status # "open"
    <2>1. i \in Present(notes) /\ notes[i].status = "open"
      BY <1>2, <1>3 DEF ListOpen, OpenOf
    <2>2. acked(i) \in Acknowledge(notes[i])
      BY <2>1, ClosedCopy
    <2>. HIDE DEF acked
    <2>. QED  BY <2>1, <2>2, ClosedCopy
  <1>. HIDE DEF acked
  <1>4. NoteRequestJob([op |-> "write", left |-> [i \in page |-> acked(i)]], notes, reported)
    BY <1>3 DEF NoteRequestJob, Copies
  <1>5. noteDesk' = [noteDesk EXCEPT ![d] = [op |-> "write", left |-> [i \in page |-> acked(i)]]]
    BY <1>2 DEF acked
  <1>. QED  BY <1>4, <1>5, RequestTakes DEF AcknowledgeAll

(* A row written with an alert folded in, or closed: a row that opens has  *)
(* one alert more that was not passed on yet.                              *)
LEMMA DeskWrites ==
    ASSUME NoteInv, NEW d \in Desks, NEW j, NEW id \in NoteIds, NEW x, NEW n \in Nat,
           notes' = [notes EXCEPT ![id] = x], x # NoRow, reported' = [reported EXCEPT ![id] = n], n >= reported[id],
           NoteCopy(x, id, notes', reported'), x.status = "open" => n > reported[id],
           noteDesk' = [noteDesk EXCEPT ![d] = j], UNCHANGED <<overtaken, noteTick, escalations>>,
           NotesGrow(notes, reported, notes', reported') => NoteJob(j, notes', reported'),
           SweepOf(j) <=> SweepOf(noteDesk[d]), SweepOf(j) => j.left = noteDesk[d].left
    PROVE  NoteInv'
  <1>1. /\ notes' \in [NoteIds -> NoteRow \cup {NoRow}] /\ reported' \in [NoteIds -> Nat]
        /\ NotesGrow(notes, reported, notes', reported')
        /\ \A k \in NoteIds : notes'[k] # NoRow => NoteCopy(notes'[k], k, notes', reported')
        /\ \A k \in NoteIds : k # id => notes'[k] = notes[k] /\ reported'[k] = reported[k]
        /\ notes'[id] = x /\ reported'[id] = n
    BY NoteWritten
  <1>2. noteDesk' = [c \in Desks |-> noteDesk'[c]] /\ noteDesk'[d] = j /\ \A c \in Desks \ {d} : noteDesk'[c] = noteDesk[c]
    BY DEF NoteInv
  <1>3. \A c \in Desks : NoteJob(noteDesk'[c], notes', reported')
    BY <1>1, <1>2, NoteCopiesStay DEF NoteInv
  <1>4. \A c \in Desks : (SweepOf(noteDesk'[c]) <=> SweepOf(noteDesk[c])) /\ (SweepOf(noteDesk'[c]) => noteDesk'[c].left = noteDesk[c].left)
    BY <1>2
  <1>5. OvertakenFits(noteDesk', overtaken')
    BY <1>4 DEF NoteInv, OvertakenFits
  <1>6. \A k \in NoteIds : Watched(noteDesk', overtaken', k) => Watched(noteDesk, overtaken, k)
    BY <1>4 DEF Watched
  <1>7. OnceEach(noteDesk', overtaken', notes', reported', escalations')
    <2>. SUFFICES ASSUME NEW k \in NoteIds
         PROVE  /\ escalations[k] <= reported'[k]
                /\ Watched(noteDesk', overtaken', k) \/ RowOpen(notes', k) => escalations[k] < reported'[k]
      BY DEF OnceEach
    <2>1. /\ escalations[k] \in Nat /\ reported[k] \in Nat /\ reported'[k] \in Nat /\ escalations[k] <= reported[k]
          /\ reported[k] <= reported'[k]
          /\ Watched(noteDesk, overtaken, k) \/ RowOpen(notes, k) => escalations[k] < reported[k]
      BY <1>1 DEF NoteInv, OnceEach, NotesGrow
    <2>2. RowOpen(notes', k) => RowOpen(notes, k) \/ reported[k] < reported'[k]
      BY <1>1 DEF RowOpen
    <2>3. CASE Watched(noteDesk, overtaken, k) \/ RowOpen(notes, k) \/ reported[k] < reported'[k]
      <3>1. escalations[k] < reported'[k]
        BY <2>1, <2>3
      <3>. QED  BY <2>1, <3>1
    <2>4. CASE ~(Watched(noteDesk, overtaken, k) \/ RowOpen(notes, k) \/ reported[k] < reported'[k])
      <3>1. ~Watched(noteDesk', overtaken', k) /\ ~RowOpen(notes', k)
        BY <1>6, <2>2, <2>4, Zenon
      <3>2. escalations[k] <= reported'[k]
        BY <2>1
      <3>. QED  BY <3>1, <3>2, Zenon
    <2>. QED  BY <2>3, <2>4
  <1>. QED  BY <1>1, <1>2, <1>3, <1>5, <1>7 DEF NoteInv

LEMMA EmitCommitKeeps ==
    ASSUME NoteInv, NEW d \in Desks, EmitCommit(d)
    PROVE  NoteInv'
  <1>1. Emission(noteDesk[d].e, notes, reported) /\ noteDesk[d].op = "emit"
    <2>1. NoteJob(noteDesk[d], notes, reported) /\ noteDesk[d].op = "emit"
      BY DEF NoteInv, EmitCommit
    <2>. QED  BY <2>1 DEF NoteJob, NoteRequestJob, NoteSweepJob, Free
  <1>2. PICK id, x : /\ id \in NoteIds /\ notes' = [notes EXCEPT ![id] = x] /\ x # NoRow /\ x.status = "open"
                                 /\ reported' = [reported EXCEPT ![id] = reported[id] + 1]
                                 /\ NoteCopy(x, id, notes', reported')
    BY <1>1, EmissionWritten DEF EmitCommit
  <1>3. reported[id] + 1 \in Nat /\ reported[id] + 1 > reported[id] /\ reported[id] + 1 >= reported[id]
    BY <1>2 DEF NoteInv
  <1>4. NoteJob(Free, notes', reported') /\ ~SweepOf(Free) /\ ~SweepOf(noteDesk[d])
    BY <1>1 DEF NoteJob, NoteRequestJob, SweepOf, Free
  <1>5. noteDesk' = [noteDesk EXCEPT ![d] = Free] /\ UNCHANGED <<overtaken, noteTick, escalations>>
    BY DEF EmitCommit
  <1>. QED  BY <1>2, <1>3, <1>4, <1>5, DeskWrites

LEMMA WriteNotesKeeps ==
    ASSUME NoteInv, NEW d \in Desks, WriteNotes(d)
    PROVE  NoteInv'
  <1>1. noteDesk[d] = [op |-> "write", left |-> noteDesk[d].left] /\ Copies(noteDesk[d].left, notes, reported)
        /\ \A i \in DOMAIN noteDesk[d].left : noteDesk[d].left[i].status # "open"
    <2>1. NoteJob(noteDesk[d], notes, reported) /\ noteDesk[d].op = "write"
      BY DEF NoteInv, WriteNotes
    <2>. QED  BY <2>1 DEF NoteJob, NoteRequestJob, NoteSweepJob, Free
  <1>2. PICK id \in DOMAIN noteDesk[d].left :
          /\ notes' = [notes EXCEPT ![id] = noteDesk[d].left[id]]
          /\ noteDesk' = [noteDesk EXCEPT ![d] =
                IF DOMAIN noteDesk[d].left \ {id} = {} THEN Free
                ELSE [noteDesk[d] EXCEPT !.left = [i \in DOMAIN noteDesk[d].left \ {id} |-> noteDesk[d].left[i]]]]
    BY DEF WriteNotes, Update
  <1>. DEFINE x == noteDesk[d].left[id]
              rest == DOMAIN noteDesk[d].left \ {id}
              left == [i \in rest |-> noteDesk[d].left[i]]
              j == IF rest = {} THEN Free ELSE [op |-> "write", left |-> left]
  <1>3. id \in NoteIds /\ x.status # "open" /\ x \in NoteRow /\ NoteCopy(x, id, notes, reported)
    BY <1>1, <1>2 DEF Copies, NoteCopy
  <1>4. UNCHANGED <<overtaken, noteTick, reported, escalations>> /\ x # NoRow /\ reported[id] \in Nat
        /\ reported' = [reported EXCEPT ![id] = reported[id]]
    BY <1>3, NoteAssumption DEF WriteNotes, NoteInv
  <1>5. notes'[id] = x /\ NoteCopy(x, id, notes', reported')
    BY <1>2, <1>3, <1>4 DEF NoteInv, NoteCopy
  <1>6. noteDesk' = [noteDesk EXCEPT ![d] = j]
    <2>1. [noteDesk[d] EXCEPT !.left = left] = [op |-> "write", left |-> left]
      BY <1>1
    <2>. QED  BY <1>2, <2>1
  <1>7. NotesGrow(notes, reported, notes', reported') => NoteJob(j, notes', reported')
    <2>. SUFFICES ASSUME NotesGrow(notes, reported, notes', reported') PROVE NoteRequestJob(j, notes', reported')
      BY DEF NoteJob
    <2>1. Copies(noteDesk[d].left, notes', reported')
      BY <1>1, NoteCopiesStay
    <2>2. Copies(left, notes', reported') /\ \A i \in DOMAIN left : left[i].status # "open"
      BY <1>1, <2>1 DEF Copies
    <2>. HIDE DEF left
    <2>. QED  BY <2>2 DEF NoteRequestJob
  <1>8. ~SweepOf(j) /\ ~SweepOf(noteDesk[d])
    BY <1>1 DEF SweepOf, Free
  <1>9. notes' = [notes EXCEPT ![id] = x]
    BY <1>2
  <1>10. reported[id] >= reported[id] /\ (x.status = "open" => reported[id] > reported[id])
    BY <1>3, <1>4
  <1>11. UNCHANGED <<overtaken, noteTick, escalations>>
    BY <1>4
  <1>. HIDE DEF x, j, left, rest
  <1>. QED  BY <1>3, <1>4, <1>5, <1>6, <1>7, <1>8, <1>9, <1>10, <1>11, DeskWrites

-----------------------------------------------------------------------------
(* The sweep.  What a run of it holds.                                     *)
LEMMA SweepHolds ==
    ASSUME NoteInv, NEW d \in Desks, Sweeping(d)
    PROVE  /\ NoteSweepJob(noteDesk[d], notes, reported) /\ SweepOf(noteDesk[d])
           /\ DOMAIN noteDesk[d].left \subseteq NoteIds
           /\ overtaken[d] \subseteq DOMAIN noteDesk[d].left /\ overtaken \in [Desks -> SUBSET NoteIds]
  <1>1. SweepOf(noteDesk[d]) /\ NoteJob(noteDesk[d], notes, reported)
    BY DEF Sweeping, SweepOf, NoteInv
  <1>2. NoteSweepJob(noteDesk[d], notes, reported)
    BY <1>1 DEF NoteJob, NoteRequestJob, SweepOf, Free
  <1>. QED  BY <1>1, <1>2 DEF NoteSweepJob, Copies, NoteCopy, NoteInv, OvertakenFits

LEMMA SweepListKeeps ==
    ASSUME NoteInv, NEW d \in Desks, SweepList(d)
    PROVE  NoteInv'
  <1>. DEFINE left == [id \in ListEscalationCandidates(noteTick) |-> notes[id]]
              j == [op |-> "listed", left |-> left]
  <1>1. noteDesk' = [noteDesk EXCEPT ![d] = j] /\ noteDesk[d] = Free
    BY DEF SweepList
  <1>2. \A id \in DOMAIN left : id \in NoteIds /\ left[id] = notes[id] /\ notes[id] # NoRow /\ notes[id].status = "open"
    BY DEF ListEscalationCandidates, Present, NoteInv
  <1>3. Copies(left, notes, reported)
    BY <1>2 DEF Copies, NoteInv
  <1>. HIDE DEF left
  <1>4. NoteJob(j, notes, reported) /\ j.left = left
    BY <1>2, <1>3 DEF NoteJob, NoteSweepJob
  <1>5. overtaken' = [overtaken EXCEPT ![d] = {}]
    BY <1>1 DEF SweepList, NoteInv, OvertakenFits, SweepOf, Free
  <1>6. \A id \in NoteIds : id \in DOMAIN j.left => RowOpen(notes, id)
    BY <1>2, <1>4 DEF RowOpen
  <1>7. UNCHANGED <<notes, noteTick, reported, escalations>>
    BY DEF SweepList
  <1>. HIDE DEF j
  <1>. QED  BY <1>1, <1>4, <1>5, <1>6, <1>7, DeskTakes

LEMMA SweepFindKeeps ==
    ASSUME NoteInv, NEW d \in Desks, SweepFind(d)
    PROVE  NoteInv'
  <1>. DEFINE job == noteDesk[d]
  <1>1. /\ NoteSweepJob(job, notes, reported) /\ job.op = "told"
        /\ overtaken[d] \subseteq DOMAIN job.left /\ overtaken \in [Desks -> SUBSET NoteIds] /\ SweepOf(job)
    BY SweepHolds DEF SweepFind, Sweeping
  <1>2. /\ NoteAlert(job.in) /\ job.in.from \in NoteIds
        /\ Copies(job.left, notes, reported) /\ \A i \in DOMAIN job.left : job.left[i].status = "open"
    BY <1>1 DEF NoteSweepJob
  <1>3. PICK e \in EmitRead(job.in) : noteDesk' = [noteDesk EXCEPT ![d] = [op |-> "tell", left |-> job.left, e |-> e]]
    BY DEF SweepFind
  <1>4. Emission(e, notes, reported) /\ e.in = job.in
    BY <1>2, <1>3, Found
  <1>. DEFINE j == [op |-> "tell", left |-> job.left, e |-> e]
  <1>5. NoteJob(j, notes, reported) /\ SweepOf(j) /\ j.left = job.left
    BY <1>2, <1>4 DEF NoteJob, NoteSweepJob, SweepOf
  <1>6. noteDesk' = [noteDesk EXCEPT ![d] = j] /\ UNCHANGED <<notes, noteTick, reported, escalations>>
        /\ overtaken' = [overtaken EXCEPT ![d] = overtaken[d]]
    BY <1>1, <1>3 DEF SweepFind
  <1>. HIDE DEF j
  <1>7. \A id \in NoteIds : id \in DOMAIN j.left /\ id \notin overtaken[d] => Watched(noteDesk, overtaken, id)
    BY <1>1, <1>5 DEF Watched
  <1>8. overtaken[d] \in SUBSET NoteIds /\ overtaken[d] \subseteq (IF SweepOf(j) THEN DOMAIN j.left ELSE {})
    BY <1>1, <1>5
  <1>. QED  BY <1>5, <1>6, <1>7, <1>8, DeskTakes

LEMMA SweepTellFailsKeeps ==
    ASSUME NoteInv, NEW d \in Desks, SweepTellFails(d)
    PROVE  NoteInv'
  <1>. DEFINE job == noteDesk[d]
  <1>1. /\ NoteSweepJob(job, notes, reported)
        /\ overtaken[d] \subseteq DOMAIN job.left /\ overtaken \in [Desks -> SUBSET NoteIds] /\ SweepOf(job)
    BY SweepHolds DEF SweepTellFails, Sweeping
  <1>. DEFINE j == [op |-> "listed", left |-> job.left]
  <1>2. NoteJob(j, notes, reported) /\ SweepOf(j) /\ j.left = job.left
    BY <1>1 DEF NoteJob, NoteSweepJob, SweepOf
  <1>3. noteDesk' = [noteDesk EXCEPT ![d] = j] /\ UNCHANGED <<notes, noteTick, reported, escalations>>
        /\ overtaken' = [overtaken EXCEPT ![d] = overtaken[d]]
    BY <1>1 DEF SweepTellFails
  <1>. HIDE DEF j
  <1>4. \A id \in NoteIds : id \in DOMAIN j.left /\ id \notin overtaken[d] => Watched(noteDesk, overtaken, id)
    BY <1>1, <1>2 DEF Watched
  <1>5. overtaken[d] \in SUBSET NoteIds /\ overtaken[d] \subseteq (IF SweepOf(j) THEN DOMAIN j.left ELSE {})
    BY <1>1, <1>2
  <1>. QED  BY <1>2, <1>3, <1>4, <1>5, DeskTakes

LEMMA SweepStops ==
    ASSUME NoteInv, NEW d \in Desks, SweepEnd(d) \/ SweepCrash(d)
    PROVE  NoteInv'
  <1>1. noteDesk' = [noteDesk EXCEPT ![d] = Free] /\ UNCHANGED <<notes, noteTick, reported, escalations>>
    BY DEF SweepEnd, SweepCrash
  <1>2. overtaken' = [overtaken EXCEPT ![d] = {}]
    <2>1. CASE SweepCrash(d)
      BY <2>1 DEF SweepCrash
    <2>2. CASE SweepEnd(d)
      <3>1. overtaken[d] = {} /\ overtaken \in [Desks -> SUBSET NoteIds] /\ overtaken' = overtaken
        BY <2>2, SweepHolds DEF SweepEnd, Sweeping
      <3>. QED  BY <3>1
    <2>. QED  BY <2>1, <2>2
  <1>3. NoteJob(Free, notes, reported) /\ ~SweepOf(Free)
    BY DEF NoteJob, NoteRequestJob, SweepOf, Free
  <1>. QED  BY <1>1, <1>2, <1>3, DeskTakes

(* The rest of a list when one of its rows is done.                        *)
LEMMA RestOfList ==
    ASSUME NEW left, NEW table, NEW seen, Copies(left, table, seen), \A i \in DOMAIN left : left[i].status = "open",
           NEW id, NEW rest, rest = [i \in DOMAIN left \ {id} |-> left[i]]
    PROVE  Copies(rest, table, seen) /\ DOMAIN rest = DOMAIN left \ {id} /\ \A i \in DOMAIN rest : rest[i].status = "open"
  BY DEF Copies

LEMMA SweepItemKeeps ==
    ASSUME NoteInv, NEW d \in Desks, SweepItem(d)
    PROVE  NoteInv'
  <1>. DEFINE job == noteDesk[d]
  <1>1. /\ Copies(job.left, notes, reported) /\ \A i \in DOMAIN job.left : job.left[i].status = "open"
        /\ overtaken[d] \subseteq DOMAIN job.left /\ overtaken \in [Desks -> SUBSET NoteIds] /\ SweepOf(job)
    BY SweepHolds DEF SweepItem, Sweeping, NoteSweepJob
  <1>2. PICK id \in DOMAIN job.left :
          LET copy == job.left[id]
              rest == [i \in DOMAIN job.left \ {id} |-> job.left[i]]
          IN  IF Due(MatchRule(copy.kind), copy.at, noteTick)
              THEN \E acked \in Acknowledge(copy) :
                      /\ Update(id, acked)
                      /\ noteDesk' = [noteDesk EXCEPT ![d] =
                            [op |-> "told", left |-> rest, in |-> Alert(Manager, copy.kind, "e1", Critical, id)]]
                      /\ Taken(d, id)
              ELSE /\ noteDesk' = [noteDesk EXCEPT ![d] = [op |-> "listed", left |-> rest]]
                   /\ overtaken' = [overtaken EXCEPT ![d] = @ \ {id}]
                   /\ UNCHANGED <<notes, escalations>>
    BY DEF SweepItem
  <1>3. UNCHANGED <<noteTick, reported>>
    BY DEF SweepItem
  <1>. DEFINE copy == job.left[id]
              rest == [i \in DOMAIN job.left \ {id} |-> job.left[i]]
  <1>4. id \in NoteIds /\ copy \in NoteRow /\ copy.status = "open" /\ NoteCopy(copy, id, notes, reported)
    BY <1>1, <1>2 DEF Copies, NoteCopy
  <1>5. Copies(rest, notes, reported) /\ DOMAIN rest = DOMAIN job.left \ {id} /\ \A i \in DOMAIN rest : rest[i].status = "open"
    BY <1>1, RestOfList
  <1>6. CASE ~Due(MatchRule(copy.kind), copy.at, noteTick)
    <2>. DEFINE j == [op |-> "listed", left |-> rest]
                o == overtaken[d] \ {id}
    <2>1. noteDesk' = [noteDesk EXCEPT ![d] = j] /\ overtaken' = [overtaken EXCEPT ![d] = o] /\ UNCHANGED <<notes, escalations>>
      BY <1>2, <1>6
    <2>. HIDE DEF rest
    <2>2. NoteJob(j, notes, reported) /\ SweepOf(j) /\ j.left = rest
      BY <1>5 DEF NoteJob, NoteSweepJob, SweepOf
    <2>3. o \in SUBSET NoteIds /\ o \subseteq (IF SweepOf(j) THEN DOMAIN j.left ELSE {})
      BY <1>1, <1>5, <2>2
    <2>4. \A k \in NoteIds : k \in DOMAIN j.left /\ k \notin o => Watched(noteDesk, overtaken, k)
      BY <1>1, <1>5, <2>2 DEF Watched
    <2>. HIDE DEF j, o
    <2>. QED  BY <1>3, <2>1, <2>2, <2>3, <2>4, DeskTakes
  <1>7. CASE Due(MatchRule(copy.kind), copy.at, noteTick)
    <2>. DEFINE x == [copy EXCEPT !.status = "acknowledged"]
                in == Alert(Manager, copy.kind, "e1", Critical, id)
                j == [op |-> "told", left |-> rest, in |-> in]
    <2>1. notes' = [notes EXCEPT ![id] = x] /\ noteDesk' = [noteDesk EXCEPT ![d] = j] /\ Taken(d, id)
      BY <1>2, <1>7 DEF Update, Acknowledge
    <2>. HIDE DEF rest
    <2>2. x \in NoteRow /\ x.status = "acknowledged" /\ x.count = copy.count /\ x.from = copy.from /\ x.severity = copy.severity
      BY <1>4 DEF NoteRow
    <2>3. x # NoRow /\ notes'[id] = x /\ NoteCopy(x, id, notes', reported')
      BY <1>3, <1>4, <2>1, <2>2, NoteAssumption DEF NoteCopy, NoteInv
    <2>4. reported[id] \in Nat /\ reported' = [reported EXCEPT ![id] = reported[id]]
      BY <1>3, <1>4 DEF NoteInv
    <2>5. /\ notes' \in [NoteIds -> NoteRow \cup {NoRow}] /\ reported' \in [NoteIds -> Nat]
          /\ NotesGrow(notes, reported, notes', reported')
          /\ \A k \in NoteIds : notes'[k] # NoRow => NoteCopy(notes'[k], k, notes', reported')
          /\ \A k \in NoteIds : k # id => notes'[k] = notes[k] /\ reported'[k] = reported[k]
          /\ notes'[id] = x /\ reported'[id] = reported[id]
      <3>1. reported[id] >= reported[id]
        BY <2>4
      <3>. HIDE DEF x
      <3>. QED  BY <1>4, <2>1, <2>3, <2>4, <3>1, NoteWritten
    <2>6. NoteAlert(in) /\ in.from = id
      <3>1. copy.kind \in NoteKinds
        BY <1>4 DEF NoteRow
      <3>2. BuildGroupKey(copy.kind, "e1") \in NoteKinds \X {"branch", "e1"}
        BY <3>1 DEF BuildGroupKey
      <3>. QED  BY <1>4, <3>1, <3>2 DEF Alert, NoteAlert, NoteAlerts, NoteUsers, Critical
    <2>. HIDE DEF in
    <2>7. NoteJob(j, notes', reported') /\ SweepOf(j) /\ j.left = rest
      <3>1. Copies(rest, notes', reported')
        BY <1>5, <2>5, NoteCopiesStay
      <3>. QED  BY <1>4, <1>5, <2>6, <3>1 DEF NoteJob, NoteSweepJob, SweepOf
    <2>. HIDE DEF j
    <2>8. noteDesk' = [c \in Desks |-> noteDesk'[c]] /\ noteDesk'[d] = j /\ \A c \in Desks \ {d} : noteDesk'[c] = noteDesk[c]
      BY <2>1 DEF NoteInv
    <2>9. \A c \in Desks : NoteJob(noteDesk'[c], notes', reported')
      BY <2>5, <2>7, <2>8, NoteCopiesStay DEF NoteInv
    <2>10. overtaken' = [c \in Desks |-> IF c = d THEN overtaken[c] \ {id}
                            ELSE overtaken[c] \cup (IF Sweeping(c) THEN {id} \cap DOMAIN noteDesk[c].left ELSE {})]
      BY <2>1 DEF Taken
    <2>11. OvertakenFits(noteDesk', overtaken')
      <3>1. overtaken' \in [Desks -> SUBSET NoteIds]
        BY <1>1, <1>4, <2>10
      <3>2. ASSUME NEW c \in Desks
            PROVE  overtaken'[c] \subseteq (IF SweepOf(noteDesk'[c]) THEN DOMAIN noteDesk'[c].left ELSE {})
        <4>1. CASE c = d
          BY <1>1, <1>5, <2>7, <2>8, <2>10, <4>1
        <4>2. CASE c # d
          <5>1. overtaken[c] \subseteq (IF SweepOf(noteDesk[c]) THEN DOMAIN noteDesk[c].left ELSE {})
            BY DEF NoteInv, OvertakenFits
          <5>2. overtaken'[c] = overtaken[c] \cup (IF Sweeping(c) THEN {id} \cap DOMAIN noteDesk[c].left ELSE {})
            BY <2>10, <4>2
          <5>. QED  BY <2>8, <4>2, <5>1, <5>2 DEF Sweeping, SweepOf
        <4>. QED  BY <4>1, <4>2
      <3>. QED  BY <3>1, <3>2 DEF OvertakenFits
    <2>12. ~Watched(noteDesk', overtaken', id) /\ ~RowOpen(notes', id)
      <3>1. ~RowOpen(notes', id)
        BY <2>2, <2>5 DEF RowOpen
      <3>2. ASSUME NEW c \in Desks, SweepOf(noteDesk'[c]), id \in DOMAIN noteDesk'[c].left, id \notin overtaken'[c]
            PROVE  FALSE
        <4>1. c # d
          BY <1>5, <2>7, <2>8, <3>2
        <4>2. Sweeping(c) /\ id \in DOMAIN noteDesk[c].left
          BY <2>8, <3>2, <4>1 DEF Sweeping, SweepOf
        <4>. QED  BY <2>10, <3>2, <4>1, <4>2
      <3>. QED  BY <3>1, <3>2 DEF Watched
    <2>13. \A k \in NoteIds \ {id} : Watched(noteDesk', overtaken', k) => Watched(noteDesk, overtaken, k)
      <3>. SUFFICES ASSUME NEW k \in NoteIds \ {id}, NEW c \in Desks,
                           SweepOf(noteDesk'[c]), k \in DOMAIN noteDesk'[c].left, k \notin overtaken'[c]
           PROVE  SweepOf(noteDesk[c]) /\ k \in DOMAIN noteDesk[c].left /\ k \notin overtaken[c]
        BY DEF Watched
      <3>1. CASE c = d
        BY <1>1, <1>5, <2>7, <2>8, <2>10, <3>1
      <3>2. CASE c # d
        BY <2>8, <2>10, <3>2
      <3>. QED  BY <3>1, <3>2
    <2>14. /\ escalations' \in [NoteIds -> Nat] /\ \A k \in NoteIds \ {id} : escalations'[k] = escalations[k]
           /\ escalations'[id] = (IF id \in overtaken[d] THEN escalations[id] ELSE escalations[id] + 1)
      <3>1. escalations' = [escalations EXCEPT ![id] = IF id \in overtaken[d] THEN @ ELSE @ + 1]
        BY <2>1 DEF Taken
      <3>. QED  BY <1>4, <3>1 DEF NoteInv
    <2>15. id \notin overtaken[d] => Watched(noteDesk, overtaken, id)
      BY <1>1, <1>2 DEF Watched
    <2>16. OnceEach(noteDesk', overtaken', notes', reported', escalations')
      <3>. SUFFICES ASSUME NEW k \in NoteIds
           PROVE  /\ escalations'[k] <= reported'[k]
                  /\ Watched(noteDesk', overtaken', k) \/ RowOpen(notes', k) => escalations'[k] < reported'[k]
        BY DEF OnceEach
      <3>1. /\ escalations[k] \in Nat /\ reported[k] \in Nat /\ escalations[k] <= reported[k] /\ reported'[k] = reported[k]
            /\ Watched(noteDesk, overtaken, k) \/ RowOpen(notes, k) => escalations[k] < reported[k]
        BY <1>3 DEF NoteInv, OnceEach
      <3>2. CASE k = id
        BY <2>12, <2>14, <2>15, <3>1, <3>2
      <3>3. CASE k # id
        <4>1. RowOpen(notes', k) <=> RowOpen(notes, k)
          BY <2>5, <3>3 DEF RowOpen
        <4>. QED  BY <2>13, <2>14, <3>1, <3>3, <4>1
      <3>. QED  BY <3>2, <3>3
    <2>. QED  BY <1>3, <2>5, <2>8, <2>9, <2>11, <2>14, <2>16 DEF NoteInv
  <1>. QED  BY <1>6, <1>7

LEMMA SweepWriteKeeps ==
    ASSUME NoteInv, NEW d \in Desks, SweepWrite(d)
    PROVE  NoteInv'
  <1>. DEFINE job == noteDesk[d]
  <1>1. NoteSweepJob(job, notes, reported) /\ job.op = "tell" /\ SweepOf(job)
    BY SweepHolds DEF SweepWrite, Sweeping
  <1>2. /\ Emission(job.e, notes, reported)
        /\ Copies(job.left, notes, reported) /\ \A i \in DOMAIN job.left : job.left[i].status = "open"
    BY <1>1 DEF NoteSweepJob
  <1>3. PICK id, x : /\ id \in NoteIds /\ notes' = [notes EXCEPT ![id] = x] /\ x # NoRow /\ x.status = "open"
                                 /\ reported' = [reported EXCEPT ![id] = reported[id] + 1]
                                 /\ NoteCopy(x, id, notes', reported')
    BY <1>2, EmissionWritten DEF SweepWrite
  <1>4. reported[id] + 1 \in Nat /\ reported[id] + 1 > reported[id] /\ reported[id] + 1 >= reported[id]
    BY <1>3 DEF NoteInv
  <1>. DEFINE j == [op |-> "listed", left |-> job.left]
  <1>5. noteDesk' = [noteDesk EXCEPT ![d] = j] /\ UNCHANGED <<overtaken, noteTick, escalations>>
    BY DEF SweepWrite
  <1>6. SweepOf(j) /\ j.left = job.left
    BY DEF SweepOf
  <1>7. NotesGrow(notes, reported, notes', reported') => NoteJob(j, notes', reported')
    BY <1>2, NoteCopiesStay DEF NoteJob, NoteSweepJob
  <1>. HIDE DEF j
  <1>. QED  BY <1>1, <1>3, <1>4, <1>5, <1>6, <1>7, DeskWrites

LEMMA NoteInvNext == NoteInv /\ (NoteNext \/ UNCHANGED noteVars) => NoteInv'
  <1>1. CASE NoteInv /\ UNCHANGED noteVars
    BY <1>1 DEF noteVars, NoteInv
  <1>2. CASE NoteInv /\ NoteTick
    BY <1>2, NoteAssumption DEF NoteTick, NoteInv
  <1>. QED  BY <1>1, <1>2, EmitKeeps, EmitCommitKeeps, MutateKeeps, AcknowledgeAllKeeps, WriteNotesKeeps,
               SweepListKeeps, SweepItemKeeps, SweepFindKeeps, SweepWriteKeeps, SweepTellFailsKeeps, SweepStops DEF NoteNext, NoteRequest, NoteSweep

-----------------------------------------------------------------------------
(* The services of the instance together: every step is a step of one of   *)
(* them and leaves the tables of the others alone, whatever part says.     *)
GroupInv == OpsInv /\ DocInv /\ NoteInv

LEMMA GroupInit == MCInit => GroupInv
  BY OpsInitHolds, DocInitHolds, NoteInitHolds DEF MCInit, GroupInv

LEMMA GroupNext == GroupInv /\ [MCNext]_<<part, vars, opsVars, docVars, noteVars>> => GroupInv'
  <1>. SUFFICES ASSUME GroupInv, [MCNext]_<<part, vars, opsVars, docVars, noteVars>> PROVE GroupInv'
    OBVIOUS
  <1>1. /\ RoomNext \/ BusNext \/ FareNext \/ SearchNext \/ UNCHANGED opsVars
        /\ DocNext \/ UNCHANGED docVars
        /\ NoteNext \/ UNCHANGED noteVars
    BY DEF MCNext, OperationStep
  <1>. QED  BY <1>1, OpsInvNext, DocInvNext, NoteInvNext DEF GroupInv

(* What a group travels on holds, for any number of desks, travellers,     *)
(* rooms, companies, documents and alerts: beds and bus companies run over *)
(* their limit only by requests that overlapped, the fare cache keeps to   *)
(* its size, a document is approved after review and reminded of once, an  *)
(* alert is escalated as critical and once, but for a run of the sweep that*)
(* listed its row before another run took it.                              *)
THEOREM GroupHoldsAlways == MCSpec => []GroupHolds
  <1>1. GroupInv => GroupHolds
    BY OpsInvHolds, DocInvHolds, NoteInvHolds DEF GroupInv, GroupHolds
  <1>. QED  BY <1>1, GroupInit, GroupNext, PTL DEF MCSpec
=============================================================================
