--------------------------- MODULE Records_proof ----------------------------
(***************************************************************************)
(* Lemmas about the desks that keep the records of a branch: the contracts *)
(* of its hotels, its customers and leads, imports, the assistant and the  *)
(* back office, each with the invariant that its actions keep, for any     *)
(* number of desks and rows and any of the limits.  MCWorkspace_proof puts *)
(* them together.                                                          *)
(***************************************************************************)
EXTENDS Leads, Customers, Assistant, Imports, BackOffice, Hotels,
        FiniteSetTheorems, SequenceTheorems, WellFoundedInduction, TLAPS

(* A family of subsets of a finite set has a smallest member: what stands  *)
(* in for induction over the set.                                          *)
LEMMA Smallest ==
    ASSUME NEW S, IsFiniteSet(S), NEW F \in SUBSET (SUBSET S), F # {}
    PROVE  \E T \in F : \A U \in F : U \subseteq T => U = T
  <1>1. IsWellFoundedOn(StrictSubsetOrdering(S), FiniteSubsetsOf(S))
    BY FS_StrictSubsetOrderingWellFounded
  <1>2. F \subseteq FiniteSubsetsOf(S)
    BY FS_Subset DEF FiniteSubsetsOf
  <1>3. \E T \in F : \A U \in F : ~(<<U, T>> \in StrictSubsetOrdering(S))
    BY <1>1, <1>2, WFMin
  <1>. QED  BY <1>3 DEF StrictSubsetOrdering

-----------------------------------------------------------------------------
(* Hotel contracts: copies read under the hotel's lock.                    *)
(* A transaction works on copies that are the rows themselves, since only  *)
(* one has the hotel's row locked.                                         *)
AllotRow == [span : Spans, type : RoomTypes, kind : {"guaranteed", "on_request"}, rooms : Nat, release : Nat, sold : Nat]
StopRow == [span : {<<1, 1>>}, type : RoomTypes \cup {""}]
SeasonRow == [span : Spans, type : RoomTypes]
HotelOps == {"hotel", "season", "drop season", "allot", "adjust", "drop allot", "stop", "drop stop", "sheet"}
HotelJob(t, h, ss, as, st) ==
    /\ t = [op |-> t.op, in |-> t.in, hotel |-> h, seasons |-> ss, allots |-> as, stops |-> st]
    /\ t.op \in HotelOps
    /\ t.op = "hotel" => t.in.types \in SUBSET RoomTypes /\ t.in.active \in BOOLEAN
    /\ t.op = "season" => t.in.id \in SeasonIds /\ t.in.span \in Spans /\ t.in.type \in RoomTypes
    /\ t.op = "drop season" => t.in.id \in SeasonIds
    /\ t.op = "allot" => /\ t.in.span \in Spans /\ t.in.type \in RoomTypes /\ t.in.kind \in {"guaranteed", "on_request"}
                         /\ t.in.rooms \in Nat /\ t.in.release \in Nat
    /\ t.op = "adjust" => t.in.delta \in Int
    /\ t.op = "sheet" => t.in.types \in SUBSET RoomTypes

HotelTables ==
    /\ hotel \in [types : SUBSET RoomTypes, active : BOOLEAN]
    /\ seasons \in [SeasonIds -> {NoRow} \cup SeasonRow]
    /\ allots \in [{1} -> {NoRow} \cup AllotRow]
    /\ stops \in [{1} -> {NoRow} \cup StopRow]
    /\ sheet \in SUBSET RoomTypes
    /\ hotelDay \in HotelDays
HotelDesks(jobs, h, ss, as, st) ==
    /\ jobs = [d \in Desks |-> jobs[d]]
    /\ \A d, e \in Desks : jobs[d] # Free /\ jobs[e] # Free => d = e
    /\ \A d \in Desks : jobs[d] # Free => HotelJob(jobs[d], h, ss, as, st)
HotelInv ==
    /\ HotelTables
    /\ HotelDesks(hotelTx, hotel, seasons, allots, stops)
    /\ ContractCoherent

Coherent(h, ss, as, st) ==
    /\ \A i, j \in Present(ss) : i # j => ~SeasonOverlaps(ss[i].span, ss[j].span)
    /\ EnsureStillOffered(h.types, ss, as, st)

LEMMA Begun ==
    ASSUME NEW req \in OfferRequest \cup SellRequests \cup StockRequests, NEW h, NEW ss, NEW as, NEW st
    PROVE  HotelJob([op |-> req.op, in |-> req, hotel |-> h, seasons |-> ss, allots |-> as, stops |-> st], h, ss, as, st)
  <1>. DEFINE t == [op |-> req.op, in |-> req, hotel |-> h, seasons |-> ss, allots |-> as, stops |-> st]
  <1>1. t = [op |-> t.op, in |-> t.in, hotel |-> h, seasons |-> ss, allots |-> as, stops |-> st] /\ t.op = req.op /\ t.in = req
    OBVIOUS
  <1>. HIDE DEF t
  <1>2. SUFFICES HotelJob(t, h, ss, as, st)
    BY DEF t
  <1>3. CASE req \in OfferRequest
    BY <1>1, <1>3 DEF OfferRequest, HotelJob, HotelOps
  <1>4. CASE req \in SellRequests
    BY <1>1, <1>4 DEF SellRequests, HotelJob, HotelOps
  <1>5. CASE req \in StockRequests
    <2>1. CASE req.op = "allot"
      <3>1. req.span \in {<<1, LastHotelDay>>, <<LastHotelDay, LastHotelDay>>} /\ req.type \in RoomTypes
            /\ req.kind \in {"guaranteed", "on_request"} /\ req.rooms \in {1, 2} /\ req.release \in {1}
        BY <1>5, <2>1 DEF StockRequests
      <3>2. req.span \in Spans
        BY <3>1, HotelAssumption DEF Spans, HotelDays
      <3>3. req.rooms \in Nat /\ req.release \in Nat
        BY <3>1
      <3>. QED  BY <1>1, <2>1, <3>1, <3>2, <3>3 DEF HotelJob, HotelOps
    <2>2. CASE req \in [op : {"adjust"}, delta : {1, 0 - 1}]
      <3>1. req.op = "adjust" /\ req.delta \in {1, 0 - 1}
        BY <2>2
      <3>2. req.delta \in Int
        BY <3>1
      <3>. QED  BY <1>1, <3>1, <3>2 DEF HotelJob, HotelOps
    <2>3. CASE req \in [op : {"drop allot"}]
      BY <1>1, <2>3 DEF HotelJob, HotelOps
    <2>4. CASE req \in [op : {"sheet"}, types : SUBSET RoomTypes]
      BY <1>1, <2>4 DEF HotelJob, HotelOps
    <2>. QED  BY <1>5, <2>1, <2>2, <2>3, <2>4 DEF StockRequests
  <1>. QED  BY <1>3, <1>4, <1>5

(* A commit closes the only transaction there is.                          *)
LEMMA Committed ==
    ASSUME NEW jobs, NEW d \in Desks, NEW h, NEW ss, NEW as, NEW st, HotelDesks(jobs, h, ss, as, st), jobs[d] # Free,
           NEW h2, NEW ss2, NEW as2, NEW st2
    PROVE  HotelDesks([jobs EXCEPT ![d] = Free], h2, ss2, as2, st2)
  <1>. DEFINE jobs2 == [jobs EXCEPT ![d] = Free]
  <1>1. jobs2 = [e \in Desks |-> jobs2[e]] /\ \A e \in Desks : jobs2[e] = IF e = d THEN Free ELSE jobs[e]
    BY DEF HotelDesks
  <1>2. \A e \in Desks : jobs2[e] = Free
    BY <1>1 DEF HotelDesks
  <1>. HIDE DEF jobs2
  <1>3. HotelDesks(jobs2, h2, ss2, as2, st2)
    BY <1>1, <1>2 DEF HotelDesks
  <1>. QED  BY <1>3 DEF jobs2

LEMMA HotelInitHolds == HotelInit => HotelInv
  <1>. SUFFICES ASSUME HotelInit PROVE HotelInv
    OBVIOUS
  <1>1. HotelTables
    BY HotelAssumption DEF HotelInit, HotelTables, HotelDays
  <1>2. HotelDesks(hotelTx, hotel, seasons, allots, stops)
    BY DEF HotelInit, HotelDesks
  <1>3. Present(seasons) = {} /\ Present(allots) = {} /\ Present(stops) = {}
    BY DEF HotelInit, Present
  <1>4. ContractCoherent
    BY <1>3 DEF ContractCoherent, EnsureStillOffered
  <1>. QED  BY <1>1, <1>2, <1>4 DEF HotelInv

LEMMA OverlapsBothWays ==
    ASSUME NEW p \in Spans, NEW q \in Spans
    PROVE  SeasonOverlaps(p, q) <=> SeasonOverlaps(q, p)
  BY DEF SeasonOverlaps

LEMMA Copies ==
    ASSUME NEW t, NEW h, NEW ss, NEW as, NEW st, HotelJob(t, h, ss, as, st)
    PROVE  t.hotel = h /\ t.seasons = ss /\ t.allots = as /\ t.stops = st
  <1>. DEFINE r == [op |-> t.op, in |-> t.in, hotel |-> h, seasons |-> ss, allots |-> as, stops |-> st]
  <1>1. r.hotel = h /\ r.seasons = ss /\ r.allots = as /\ r.stops = st
    OBVIOUS
  <1>2. t = r
    BY Zenon DEF HotelJob
  <1>. HIDE DEF r
  <1>. QED  BY <1>1, <1>2

LEMMA Quoted ==
    ASSUME NEW h, NEW req, NEW today, Quote(h, req, today)
    PROVE  UNCHANGED <<hotel, seasons, allots, stops, sheet, hotelDay, hotelTx>>
  BY DEF Quote, hotelRows

LEMMA HotelStays == HotelInv /\ UNCHANGED <<hotel, seasons, allots, stops, sheet, hotelDay, hotelTx>> => HotelInv'
  BY DEF HotelInv, HotelTables, HotelDesks, HotelJob, ContractCoherent, EnsureStillOffered, Present

(* What a transaction leaves of the allotment.                             *)
LEMMA SavedAllotment ==
    ASSUME HotelInv, NEW d \in Desks, SaveAllotment(d, hotelTx[d])
    PROVE  \E a \in AllotRow : /\ allots' = [allots EXCEPT ![1] = a] /\ a.type \in hotel.types /\ a.sold <= a.rooms
                               /\ a.sold = IF allots[1] = NoRow THEN 0 ELSE allots[1].sold
  <1>. DEFINE t == hotelTx[d]
              sold == IF t.allots[1] = NoRow THEN 0 ELSE t.allots[1].sold
              row == [span |-> t.in.span, type |-> t.in.type, kind |-> t.in.kind, rooms |-> t.in.rooms,
                      release |-> t.in.release, sold |-> sold]
  <1>1. t.op = "allot" /\ \E a \in NormalizeAllotment(row, t.hotel.types) : allots' = [allots EXCEPT ![1] = a]
    BY DEF SaveAllotment
  <1>2. HotelJob(t, hotel, seasons, allots, stops)
    BY <1>1 DEF HotelInv, HotelDesks, Free
  <1>3. t.hotel = hotel /\ t.allots = allots /\ t.in.span \in Spans /\ t.in.type \in RoomTypes
        /\ t.in.kind \in {"guaranteed", "on_request"} /\ t.in.rooms \in Nat /\ t.in.release \in Nat
    BY <1>1, <1>2 DEF HotelJob
  <1>4. sold \in Nat /\ sold = IF allots[1] = NoRow THEN 0 ELSE allots[1].sold
    BY <1>3 DEF HotelInv, HotelTables, AllotRow
  <1>. HIDE DEF sold
  <1>5. row \in AllotRow /\ row.sold = sold
    BY <1>3, <1>4 DEF AllotRow
  <1>. HIDE DEF t, row
  <1>6. PICK a \in NormalizeAllotment(row, hotel.types) : allots' = [allots EXCEPT ![1] = a]
    BY <1>1, <1>3
  <1>7. row.type \in hotel.types /\ row.sold \in 0 .. row.rooms /\ a = (IF row.kind = "on_request" THEN [row EXCEPT !.release = 0] ELSE row)
    BY <1>6 DEF NormalizeAllotment
  <1>8. a \in AllotRow /\ a.type = row.type /\ a.sold = row.sold /\ a.rooms = row.rooms
    BY <1>5, <1>7 DEF AllotRow
  <1>9. row.sold \in Nat /\ row.rooms \in Nat
    BY <1>5 DEF AllotRow
  <1>10. a.sold <= a.rooms
    BY <1>7, <1>8, <1>9
  <1>. QED  BY <1>4, <1>5, <1>6, <1>7, <1>8, <1>10

LEMMA AdjustedAllotment ==
    ASSUME HotelInv, NEW d \in Desks, AdjustAllotment(d, hotelTx[d])
    PROVE  \E a \in AllotRow : /\ allots' = [allots EXCEPT ![1] = a] /\ a.type = allots[1].type /\ allots[1] # NoRow /\ a.sold <= a.rooms
                               /\ a.sold > allots[1].sold => Available(allots[1], hotelDay) > 0
  <1>. DEFINE t == hotelTx[d]
              delta == t.in.delta
              row == allots[1]
  <1>1. t.op = "adjust" /\ t.allots[1] # NoRow /\ (delta > 0 => Available(t.allots[1], hotelDay) >= delta)
        /\ \E a \in AdjustSold(t.allots[1], delta) : allots' = [allots EXCEPT ![1] = a]
    BY DEF AdjustAllotment
  <1>2. HotelJob(t, hotel, seasons, allots, stops)
    BY <1>1 DEF HotelInv, HotelDesks, Free
  <1>3. t.allots = allots /\ delta \in Int
    BY <1>1, <1>2 DEF HotelJob
  <1>4. row \in AllotRow /\ row # NoRow
    BY <1>1, <1>3 DEF HotelInv, HotelTables
  <1>. HIDE DEF t, delta, row
  <1>5. PICK a \in AdjustSold(row, delta) : allots' = [allots EXCEPT ![1] = a]
    BY <1>1, <1>3 DEF row
  <1>6. a = [row EXCEPT !.sold = row.sold + delta] /\ a.sold \in 0 .. row.rooms
    BY <1>5 DEF AdjustSold
  <1>7. row.sold \in Nat /\ row.rooms \in Nat /\ a.sold = row.sold + delta /\ a.type = row.type /\ a.rooms = row.rooms
    BY <1>4, <1>6 DEF AllotRow
  <1>8. a.sold \in Nat
    BY <1>6, <1>7
  <1>9. a \in AllotRow
    BY <1>4, <1>6, <1>7, <1>8 DEF AllotRow
  <1>10. a.sold > row.sold => delta > 0
    BY <1>3, <1>7
  <1>11. Available(row, hotelDay) \in Int
    BY <1>4 DEF Available, AllotRow
  <1>12. delta > 0 => Available(row, hotelDay) > 0
    <2>1. delta > 0 => Available(row, hotelDay) >= delta
      BY <1>1, <1>3 DEF row
    <2>. QED  BY <1>3, <1>11, <2>1
  <1>13. a.sold <= a.rooms
    BY <1>6, <1>7
  <1>. QED  BY <1>4, <1>5, <1>7, <1>9, <1>10, <1>12, <1>13 DEF row

LEMMA HotelInvNext == HotelInv /\ (SellNext \/ StockNext \/ QuoteNext) => HotelInv'
  <1>. SUFFICES ASSUME HotelInv, SellNext \/ StockNext \/ QuoteNext PROVE HotelInv'
    OBVIOUS
  <1>0. HotelTables /\ HotelDesks(hotelTx, hotel, seasons, allots, stops) /\ ContractCoherent
    BY DEF HotelInv
  <1>01. \A d \in Desks : hotelTx[d] # Free => HotelJob(hotelTx[d], hotel, seasons, allots, stops)
    BY <1>0 DEF HotelDesks
  <1>02. Free.op = "free"
    BY DEF Free
  <1>1. ASSUME NEW d \in Desks, NEW req \in OfferRequest \cup SellRequests \cup StockRequests, FindHotelForUpdate(d, req)
        PROVE  HotelInv'
    <2>. DEFINE t == [op |-> req.op, in |-> req, hotel |-> hotel, seasons |-> seasons, allots |-> allots, stops |-> stops]
    <2>1. hotelTx' = [hotelTx EXCEPT ![d] = t] /\ \A e \in Desks : hotelTx[e] = Free
      BY <1>1 DEF FindHotelForUpdate
    <2>2. UNCHANGED <<hotel, seasons, allots, stops, sheet, hotelDay>>
      BY <1>1 DEF FindHotelForUpdate, hotelRows
    <2>3. HotelJob(t, hotel, seasons, allots, stops)
      BY Begun
    <2>. HIDE DEF t
    <2>4. hotelTx' = [e \in Desks |-> IF e = d THEN t ELSE Free]
      BY <1>0, <2>1 DEF HotelDesks
    <2>5. HotelDesks(hotelTx', hotel', seasons', allots', stops')
      BY <2>2, <2>3, <2>4 DEF HotelDesks
    <2>6. HotelTables' /\ ContractCoherent'
      BY <1>0, <2>2 DEF HotelTables, ContractCoherent, Present, EnsureStillOffered
    <2>. QED  BY <2>5, <2>6 DEF HotelInv
  <1>2. ASSUME NEW d \in Desks, hotelTx[d] # Free, TxDone(d)
        PROVE  HotelDesks(hotelTx, hotel, seasons, allots, stops)' /\ hotelDay' = hotelDay
    <2>1. HotelDesks([hotelTx EXCEPT ![d] = Free], hotel', seasons', allots', stops')
      BY <1>0, <1>2, Committed
    <2>. QED  BY <1>2, <2>1 DEF TxDone
  <1>3. ASSUME NEW d \in Desks, UpdateHotel(d, hotelTx[d])
        PROVE  HotelInv'
    <2>1. hotelTx[d].op = "hotel" /\ hotelTx[d] # Free /\ TxDone(d) /\ UNCHANGED <<seasons, allots, stops, sheet>>
      BY <1>3, <1>02 DEF UpdateHotel
    <2>2. HotelJob(hotelTx[d], hotel, seasons, allots, stops)
      BY <1>01, <2>1
    <2>3. hotel' = [types |-> hotelTx[d].in.types, active |-> hotelTx[d].in.active]
          /\ EnsureStillOffered(hotelTx[d].in.types, hotelTx[d].seasons, hotelTx[d].allots, hotelTx[d].stops)
      BY <1>3 DEF UpdateHotel
    <2>4. hotelTx[d].seasons = seasons /\ hotelTx[d].allots = allots /\ hotelTx[d].stops = stops
          /\ hotelTx[d].in.types \in SUBSET RoomTypes /\ hotelTx[d].in.active \in BOOLEAN
      BY <2>1, <2>2 DEF HotelJob
    <2>5. hotel' \in [types : SUBSET RoomTypes, active : BOOLEAN] /\ hotel'.types = hotelTx[d].in.types
      BY <2>3, <2>4
    <2>6. ContractCoherent'
      BY <1>0, <2>1, <2>3, <2>4, <2>5 DEF ContractCoherent, EnsureStillOffered, Present
    <2>7. HotelDesks(hotelTx, hotel, seasons, allots, stops)' /\ hotelDay' = hotelDay
      BY <1>2, <2>1
    <2>. QED  BY <1>0, <2>1, <2>5, <2>6, <2>7 DEF HotelInv, HotelTables
  <1>4. ASSUME NEW d \in Desks, SaveSeason(d, hotelTx[d])
        PROVE  HotelInv'
    <2>. DEFINE t == hotelTx[d]
                row == [span |-> t.in.span, type |-> t.in.type]
    <2>1. t.op = "season" /\ t # Free /\ TxDone(d) /\ UNCHANGED <<hotel, allots, stops, sheet>>
          /\ NormalizeSeason(t.in, t.hotel.types) /\ EnsureNoOverlap(t.in.id, t.in.span, t.seasons)
          /\ seasons' = [seasons EXCEPT ![t.in.id] = row]
      BY <1>4, <1>02 DEF SaveSeason
    <2>2. HotelJob(t, hotel, seasons, allots, stops)
      BY <1>01, <2>1
    <2>3. t.in.id \in SeasonIds /\ t.in.span \in Spans /\ t.in.type \in RoomTypes /\ t.hotel = hotel /\ t.seasons = seasons
      BY <2>1, <2>2 DEF HotelJob
    <2>4. row \in SeasonRow /\ row.span = t.in.span /\ row.type = t.in.type
      BY <2>3 DEF SeasonRow
    <2>5. t.in.type \in hotel.types /\ \A j \in Present(seasons) \ {t.in.id} : ~SeasonOverlaps(t.in.span, seasons[j].span)
      BY <2>1, <2>3 DEF NormalizeSeason, EnsureNoOverlap
    <2>. DEFINE id == t.in.id
    <2>6. id \in SeasonIds /\ seasons' = [seasons EXCEPT ![id] = row]
      BY <2>1, <2>3
    <2>. HIDE DEF t, row, id
    <2>7. seasons' \in [SeasonIds -> {NoRow} \cup SeasonRow] /\ Present(seasons') \subseteq Present(seasons) \cup {id}
          /\ seasons'[id] = row /\ \A j \in SeasonIds \ {id} : seasons'[j] = seasons[j]
      BY <1>0, <2>4, <2>6 DEF HotelTables, Present
    <2>8. \A j \in Present(seasons) : j \in SeasonIds /\ seasons[j].span \in Spans
      BY <1>0 DEF HotelTables, Present, SeasonRow
    <2>9. \A j \in Present(seasons) \ {id} : ~SeasonOverlaps(row.span, seasons[j].span) /\ ~SeasonOverlaps(seasons[j].span, row.span)
      BY <2>3, <2>4, <2>5, <2>8, OverlapsBothWays DEF id
    <2>10. ContractCoherent'
      <3>1. \A i, j \in Present(seasons') : i # j => ~SeasonOverlaps(seasons'[i].span, seasons'[j].span)
        BY <1>0, <2>7, <2>8, <2>9 DEF ContractCoherent
      <3>2. \A i \in Present(seasons') : seasons'[i].type \in hotel.types
        BY <1>0, <2>4, <2>5, <2>7, <2>8 DEF ContractCoherent, EnsureStillOffered
      <3>. QED  BY <1>0, <2>1, <3>1, <3>2 DEF ContractCoherent, EnsureStillOffered
    <2>11. HotelDesks(hotelTx, hotel, seasons, allots, stops)' /\ hotelDay' = hotelDay
      BY <1>2, <2>1 DEF t
    <2>. QED  BY <1>0, <2>1, <2>7, <2>10, <2>11 DEF HotelInv, HotelTables
  <1>5. ASSUME NEW d \in Desks, DeleteSeason(d, hotelTx[d])
        PROVE  HotelInv'
    <2>1. hotelTx[d].op = "drop season" /\ hotelTx[d] # Free /\ TxDone(d) /\ UNCHANGED <<hotel, allots, stops, sheet>>
          /\ seasons' = [seasons EXCEPT ![hotelTx[d].in.id] = NoRow]
      BY <1>5, <1>02 DEF DeleteSeason
    <2>2. seasons' \in [SeasonIds -> {NoRow} \cup SeasonRow] /\ Present(seasons') \subseteq Present(seasons)
          /\ \A j \in Present(seasons') : seasons'[j] = seasons[j]
      BY <1>0, <2>1 DEF HotelTables, Present
    <2>3. ContractCoherent'
      BY <1>0, <2>1, <2>2 DEF ContractCoherent, EnsureStillOffered
    <2>4. HotelDesks(hotelTx, hotel, seasons, allots, stops)' /\ hotelDay' = hotelDay
      BY <1>2, <2>1
    <2>. QED  BY <1>0, <2>1, <2>2, <2>3, <2>4 DEF HotelInv, HotelTables
  <1>6. ASSUME NEW d \in Desks, hotelTx[d] # Free, TxDone(d), UNCHANGED <<hotel, seasons, stops, sheet>>,
               allots' \in [{1} -> {NoRow} \cup AllotRow],
               allots'[1] # NoRow => allots'[1].type \in hotel.types
        PROVE  HotelInv'
    <2>1. ContractCoherent'
      <3>1. \A i \in Present(allots') : allots'[i].type \in hotel.types
        BY <1>6 DEF Present
      <3>. QED  BY <1>0, <1>6, <3>1 DEF ContractCoherent, EnsureStillOffered
    <2>2. HotelDesks(hotelTx, hotel, seasons, allots, stops)' /\ hotelDay' = hotelDay
      BY <1>2, <1>6
    <2>. QED  BY <1>0, <1>6, <2>1, <2>2 DEF HotelInv, HotelTables
  <1>7. ASSUME NEW d \in Desks, SaveAllotment(d, hotelTx[d])
        PROVE  HotelInv'
    <2>1. PICK a \in AllotRow : allots' = [allots EXCEPT ![1] = a] /\ a.type \in hotel.types
      BY <1>7, SavedAllotment DEF HotelInv
    <2>2. hotelTx[d] # Free /\ TxDone(d) /\ UNCHANGED <<hotel, seasons, stops, sheet>>
      BY <1>7, <1>02 DEF SaveAllotment
    <2>3. allots' \in [{1} -> {NoRow} \cup AllotRow] /\ allots'[1] = a
      BY <1>0, <2>1 DEF HotelTables
    <2>. QED  BY <1>6, <2>1, <2>2, <2>3
  <1>8. ASSUME NEW d \in Desks, AdjustAllotment(d, hotelTx[d])
        PROVE  HotelInv'
    <2>1. PICK a \in AllotRow : allots' = [allots EXCEPT ![1] = a] /\ a.type = allots[1].type /\ allots[1] # NoRow
      BY <1>8, AdjustedAllotment DEF HotelInv
    <2>2. hotelTx[d] # Free /\ TxDone(d) /\ UNCHANGED <<hotel, seasons, stops, sheet>>
      BY <1>8, <1>02 DEF AdjustAllotment
    <2>3. allots' \in [{1} -> {NoRow} \cup AllotRow] /\ allots'[1] = a
      BY <1>0, <2>1 DEF HotelTables
    <2>4. allots[1].type \in hotel.types
      BY <1>0, <2>1 DEF ContractCoherent, EnsureStillOffered, Present, HotelTables
    <2>. QED  BY <1>6, <2>1, <2>2, <2>3, <2>4
  <1>9. ASSUME NEW d \in Desks, DeleteAllotment(d, hotelTx[d])
        PROVE  HotelInv'
    <2>1. hotelTx[d] # Free /\ TxDone(d) /\ UNCHANGED <<hotel, seasons, stops, sheet>> /\ allots' = [allots EXCEPT ![1] = NoRow]
      BY <1>9, <1>02 DEF DeleteAllotment
    <2>2. allots' \in [{1} -> {NoRow} \cup AllotRow] /\ allots'[1] = NoRow
      BY <1>0, <2>1 DEF HotelTables
    <2>. QED  BY <1>6, <2>1, <2>2
  <1>10. ASSUME NEW d \in Desks, hotelTx[d] # Free, TxDone(d), UNCHANGED <<hotel, seasons, allots, sheet>>,
                stops' \in [{1} -> {NoRow} \cup StopRow],
                stops'[1] # NoRow => stops'[1].type = "" \/ stops'[1].type \in hotel.types
         PROVE  HotelInv'
    <2>1. ContractCoherent'
      <3>1. \A i \in Present(stops') : stops'[i].type = "" \/ stops'[i].type \in hotel.types
        BY <1>10 DEF Present
      <3>. QED  BY <1>0, <1>10, <3>1 DEF ContractCoherent, EnsureStillOffered
    <2>2. HotelDesks(hotelTx, hotel, seasons, allots, stops)' /\ hotelDay' = hotelDay
      BY <1>2, <1>10
    <2>. QED  BY <1>0, <1>10, <2>1, <2>2 DEF HotelInv, HotelTables
  <1>11. ASSUME NEW d \in Desks, NEW type \in RoomTypes \cup {""}, CreateStopSale(d, hotelTx[d], type)
         PROVE  HotelInv'
    <2>1. hotelTx[d] # Free /\ TxDone(d) /\ UNCHANGED <<hotel, seasons, allots, sheet>>
          /\ (type = "" \/ type \in hotelTx[d].hotel.types) /\ stops' = [stops EXCEPT ![1] = [span |-> <<1, 1>>, type |-> type]]
      BY <1>11, <1>02 DEF CreateStopSale
    <2>2. hotelTx[d].hotel = hotel
      BY <1>01, <2>1, Copies
    <2>3. stops' \in [{1} -> {NoRow} \cup StopRow] /\ stops'[1].type = type
      BY <1>0, <2>1 DEF HotelTables, StopRow
    <2>. QED  BY <1>10, <2>1, <2>2, <2>3
  <1>12. ASSUME NEW d \in Desks, DeleteStopSale(d, hotelTx[d])
         PROVE  HotelInv'
    <2>1. hotelTx[d] # Free /\ TxDone(d) /\ UNCHANGED <<hotel, seasons, allots, sheet>> /\ stops' = [stops EXCEPT ![1] = NoRow]
      BY <1>12, <1>02 DEF DeleteStopSale
    <2>2. stops' \in [{1} -> {NoRow} \cup StopRow] /\ stops'[1] = NoRow
      BY <1>0, <2>1 DEF HotelTables
    <2>. QED  BY <1>10, <2>1, <2>2
  <1>13. ASSUME NEW d \in Desks, hotelTx[d] # Free, TxDone(d), UNCHANGED <<hotel, seasons, allots, stops>>, sheet' \in SUBSET RoomTypes
         PROVE  HotelInv'
    <2>1. ContractCoherent'
      BY <1>0, <1>13 DEF ContractCoherent, EnsureStillOffered, Present
    <2>2. HotelDesks(hotelTx, hotel, seasons, allots, stops)' /\ hotelDay' = hotelDay
      BY <1>2, <1>13
    <2>. QED  BY <1>0, <1>13, <2>1, <2>2 DEF HotelInv, HotelTables
  <1>14. ASSUME NEW d \in Desks, ReplaceMonthlyRates(d, hotelTx[d])
         PROVE  HotelInv'
    <2>1. hotelTx[d].op = "sheet" /\ hotelTx[d] # Free /\ TxDone(d) /\ UNCHANGED <<hotel, seasons, allots, stops>>
          /\ sheet' = hotelTx[d].in.types
      BY <1>14, <1>02 DEF ReplaceMonthlyRates, NormalizeYearSheet
    <2>2. sheet' \in SUBSET RoomTypes
      BY <1>01, <2>1 DEF HotelJob
    <2>. QED  BY <1>13, <2>1, <2>2
  <1>15. ASSUME NEW d \in Desks, HotelRollback(d)
         PROVE  HotelInv'
    <2>1. hotelTx[d] # Free /\ TxDone(d) /\ UNCHANGED <<hotel, seasons, allots, stops, sheet>>
      BY <1>15 DEF HotelRollback, hotelRows
    <2>2. sheet' \in SUBSET RoomTypes
      BY <1>0, <2>1 DEF HotelTables
    <2>. QED  BY <1>13, <2>1, <2>2
  <1>16. ASSUME HotelDayPasses
         PROVE  HotelInv'
    <2>1. hotelDay' = hotelDay + 1 /\ hotelDay < LastHotelDay /\ UNCHANGED <<hotel, seasons, allots, stops, sheet, hotelTx>>
      BY <1>16 DEF HotelDayPasses, hotelRows
    <2>2. hotelDay' \in HotelDays
      BY <1>0, <2>1, HotelAssumption DEF HotelTables, HotelDays
    <2>3. HotelTables'
      BY <1>0, <2>1, <2>2 DEF HotelTables
    <2>4. HotelDesks(hotelTx, hotel, seasons, allots, stops)' /\ ContractCoherent'
      BY <1>0, <2>1 DEF HotelDesks, HotelJob, ContractCoherent, EnsureStillOffered, Present
    <2>. QED  BY <2>3, <2>4 DEF HotelInv
  <1>17. ASSUME QuoteNext
         PROVE  HotelInv'
    <2>1. UNCHANGED <<hotel, seasons, allots, stops, sheet, hotelDay, hotelTx>>
      <3>1. PICK h \in QuoteContracts, req \in QuoteRequests, today \in {0, 1, 2} : Quote(h, req, today)
        BY <1>17, Zenon DEF QuoteNext
      <3>. QED  BY <3>1, Quoted
    <2>. QED  BY <2>1, HotelStays
  <1>18. CASE SellNext
    BY <1>1, <1>3, <1>4, <1>5, <1>11, <1>12, <1>15, <1>18, Zenon DEF SellNext
  <1>19. CASE StockNext
    <2>1. \A req \in {r \in OfferRequest : r.active} \cup StockRequests : req \in OfferRequest \cup SellRequests \cup StockRequests
      OBVIOUS
    <2>. QED  BY <1>1, <1>3, <1>7, <1>8, <1>9, <1>14, <1>15, <1>16, <1>19, <2>1, Zenon DEF StockNext
  <1>. QED  BY <1>17, <1>18, <1>19

(* Rooms leave the stock, and an allotment the table, only as it allows.   *)
StockKept ==
    \A i \in DOMAIN allots : allots[i] # NoRow =>
        /\ (allots'[i] # NoRow /\ allots'[i].sold > allots[i].sold) => AllotStatus(allots[i], hotelDay) = "open"
        /\ allots'[i] = NoRow => (allots[i].sold = 0 \/ AllotStatus(allots[i], hotelDay) = "expired")

(* What a step does to the allotment: nothing, or one of three.            *)
LEMMA StockStep ==
    ASSUME SellNext \/ StockNext \/ QuoteNext \/ UNCHANGED hotelVars
    PROVE  \/ UNCHANGED allots
           \/ \E d \in Desks : SaveAllotment(d, hotelTx[d]) \/ AdjustAllotment(d, hotelTx[d]) \/ DeleteAllotment(d, hotelTx[d])
  <1>1. CASE SellNext
    <2>1. ASSUME NEW d \in Desks, NEW req, FindHotelForUpdate(d, req) PROVE UNCHANGED allots
      BY <2>1 DEF FindHotelForUpdate, hotelRows
    <2>2. ASSUME NEW d \in Desks, NEW t, NEW type,
                 UpdateHotel(d, t) \/ SaveSeason(d, t) \/ DeleteSeason(d, t) \/ CreateStopSale(d, t, type) \/ DeleteStopSale(d, t)
          PROVE  UNCHANGED allots
      BY <2>2 DEF UpdateHotel, SaveSeason, DeleteSeason, CreateStopSale, DeleteStopSale
    <2>3. ASSUME NEW d \in Desks, HotelRollback(d) PROVE UNCHANGED allots
      BY <2>3 DEF HotelRollback, hotelRows
    <2>. QED  BY <1>1, <2>1, <2>2, <2>3, Zenon DEF SellNext
  <1>2. CASE StockNext
    <2>1. ASSUME NEW d \in Desks, NEW req, FindHotelForUpdate(d, req) PROVE UNCHANGED allots
      BY <2>1 DEF FindHotelForUpdate, hotelRows
    <2>2. ASSUME NEW d \in Desks, NEW t, UpdateHotel(d, t) \/ ReplaceMonthlyRates(d, t) PROVE UNCHANGED allots
      BY <2>2 DEF UpdateHotel, ReplaceMonthlyRates
    <2>3. ASSUME NEW d \in Desks, HotelRollback(d) PROVE UNCHANGED allots
      BY <2>3 DEF HotelRollback, hotelRows
    <2>4. HotelDayPasses => UNCHANGED allots
      BY DEF HotelDayPasses, hotelRows
    <2>. QED  BY <1>2, <2>1, <2>2, <2>3, <2>4, Zenon DEF StockNext
  <1>3. CASE QuoteNext
    <2>1. PICK h \in QuoteContracts, req \in QuoteRequests, today \in {0, 1, 2} : Quote(h, req, today)
      BY <1>3, Zenon DEF QuoteNext
    <2>. QED  BY <2>1, Quoted
  <1>4. CASE UNCHANGED hotelVars
    BY <1>4 DEF hotelVars, hotelRows
  <1>. QED  BY <1>1, <1>2, <1>3, <1>4

LEMMA StockKeptNext == HotelInv /\ (SellNext \/ StockNext \/ QuoteNext \/ UNCHANGED hotelVars) => StockKept
  <1>. SUFFICES ASSUME HotelInv, SellNext \/ StockNext \/ QuoteNext \/ UNCHANGED hotelVars PROVE StockKept
    OBVIOUS
  <1>0. allots \in [{1} -> {NoRow} \cup AllotRow] /\ NoRow \notin AllotRow
    BY HotelAssumption DEF HotelInv, HotelTables, AllotRow
  <1>1. ASSUME UNCHANGED allots
        PROVE  StockKept
    BY <1>0, <1>1 DEF StockKept, AllotRow
  <1>2. ASSUME NEW d \in Desks, SaveAllotment(d, hotelTx[d])
        PROVE  StockKept
    <2>1. PICK a \in AllotRow : allots' = [allots EXCEPT ![1] = a] /\ a.sold = IF allots[1] = NoRow THEN 0 ELSE allots[1].sold
      BY <1>2, SavedAllotment
    <2>2. allots'[1] = a /\ a # NoRow
      BY <1>0, <2>1
    <2>3. allots[1] # NoRow => ~(a.sold > allots[1].sold)
      BY <1>0, <2>1 DEF AllotRow
    <2>. QED  BY <1>0, <2>2, <2>3 DEF StockKept
  <1>3. ASSUME NEW d \in Desks, AdjustAllotment(d, hotelTx[d])
        PROVE  StockKept
    <2>1. PICK a \in AllotRow : /\ allots' = [allots EXCEPT ![1] = a]
                                /\ a.sold > allots[1].sold => Available(allots[1], hotelDay) > 0
      BY <1>3, AdjustedAllotment
    <2>2. allots'[1] = a /\ a # NoRow
      BY <1>0, <2>1
    <2>3. a.sold > allots[1].sold => AllotStatus(allots[1], hotelDay) = "open"
      BY <2>1 DEF Available
    <2>. QED  BY <1>0, <2>2, <2>3 DEF StockKept
  <1>4. ASSUME NEW d \in Desks, DeleteAllotment(d, hotelTx[d])
        PROVE  StockKept
    <2>1. /\ hotelTx[d].op = "drop allot" /\ allots' = [allots EXCEPT ![1] = NoRow]
          /\ hotelTx[d].allots[1].sold > 0 => AllotStatus(hotelTx[d].allots[1], hotelDay) = "expired"
      BY <1>4 DEF DeleteAllotment
    <2>2. hotelTx[d].allots = allots
      <3>0. Free.op = "free" /\ hotelTx[d].op = "drop allot"
        BY <2>1 DEF Free
      <3>1. hotelTx[d] # Free
        BY <3>0
      <3>2. HotelJob(hotelTx[d], hotel, seasons, allots, stops)
        BY <3>1 DEF HotelInv, HotelDesks
      <3>. QED  BY <3>2, Copies
    <2>3. allots'[1] = NoRow
      BY <1>0, <2>1
    <2>4. allots[1] # NoRow => allots[1].sold = 0 \/ AllotStatus(allots[1], hotelDay) = "expired"
      <3>. DEFINE row == hotelTx[d].allots[1]
      <3>0. row = allots[1]
        BY <2>2
      <3>01. row.sold > 0 => AllotStatus(row, hotelDay) = "expired"
        BY <2>1
      <3>. HIDE DEF row
      <3>1. allots[1].sold > 0 => AllotStatus(allots[1], hotelDay) = "expired"
        BY <3>0, <3>01
      <3>2. allots[1] # NoRow => allots[1].sold \in Nat
        BY <1>0 DEF AllotRow
      <3>. QED  BY <3>1, <3>2
    <2>. QED  BY <1>0, <2>3, <2>4 DEF StockKept
  <1>5. CASE UNCHANGED allots
    BY <1>1, <1>5
  <1>. QED  BY <1>2, <1>3, <1>4, <1>5, StockStep

(* No allotment is sold beyond its rooms.                                  *)
NoOversold == \A i \in Present(allots) : allots[i].sold <= allots[i].rooms

LEMMA NoOversoldNext ==
    HotelInv /\ NoOversold /\ (SellNext \/ StockNext \/ QuoteNext \/ UNCHANGED hotelVars) => NoOversold'
  <1>. SUFFICES ASSUME HotelInv, NoOversold, SellNext \/ StockNext \/ QuoteNext \/ UNCHANGED hotelVars PROVE NoOversold'
    OBVIOUS
  <1>0. allots \in [{1} -> {NoRow} \cup AllotRow]
    BY DEF HotelInv, HotelTables
  <1>1. CASE UNCHANGED allots
    BY <1>1 DEF NoOversold, Present
  <1>2. ASSUME NEW d \in Desks, SaveAllotment(d, hotelTx[d]) \/ AdjustAllotment(d, hotelTx[d])
        PROVE  NoOversold'
    <2>1. PICK a \in AllotRow : allots' = [allots EXCEPT ![1] = a] /\ a.sold <= a.rooms
      BY <1>2, SavedAllotment, AdjustedAllotment
    <2>. QED  BY <1>0, <2>1 DEF NoOversold, Present
  <1>3. ASSUME NEW d \in Desks, DeleteAllotment(d, hotelTx[d])
        PROVE  NoOversold'
    <2>1. allots' = [allots EXCEPT ![1] = NoRow]
      BY <1>3 DEF DeleteAllotment
    <2>. QED  BY <1>0, <2>1 DEF NoOversold, Present
  <1>. QED  BY <1>1, <1>2, <1>3, StockStep

LEMMA HotelTyped == HotelInv /\ NoOversold => HotelTypeOK
  <1>. SUFFICES ASSUME HotelInv, NoOversold PROVE HotelTypeOK
    OBVIOUS
  <1>1. HotelTables /\ HotelDesks(hotelTx, hotel, seasons, allots, stops)
    BY DEF HotelInv
  <1>2. hotel.types \subseteq RoomTypes /\ hotel.active \in BOOLEAN /\ sheet \subseteq RoomTypes /\ hotelDay \in HotelDays
    BY <1>1 DEF HotelTables
  <1>3. \A i \in Present(seasons) : seasons[i].span \in Spans /\ seasons[i].type \in RoomTypes
    BY <1>1 DEF HotelTables, Present, SeasonRow
  <1>4. \A i \in Present(allots) : allots[i].span \in Spans /\ allots[i].sold \in 0 .. allots[i].rooms
    <2>. SUFFICES ASSUME NEW i \in Present(allots) PROVE allots[i].span \in Spans /\ allots[i].sold \in 0 .. allots[i].rooms
      OBVIOUS
    <2>1. allots[i] \in AllotRow
      BY <1>1 DEF HotelTables, Present
    <2>2. allots[i].span \in Spans /\ allots[i].sold \in Nat /\ allots[i].rooms \in Nat /\ allots[i].sold <= allots[i].rooms
      BY <2>1 DEF AllotRow, NoOversold
    <2>. QED  BY <2>2
  <1>5. \A d \in Desks : hotelTx[d].op \in {"free"} \cup HotelOps
    <2>. SUFFICES ASSUME NEW d \in Desks PROVE hotelTx[d].op \in {"free"} \cup HotelOps
      OBVIOUS
    <2>1. CASE hotelTx[d] = Free
      BY <2>1 DEF Free
    <2>2. CASE hotelTx[d] # Free
      BY <1>1, <2>2 DEF HotelDesks, HotelJob
    <2>. QED  BY <2>1, <2>2
  <1>. QED  BY <1>2, <1>3, <1>4, <1>5 DEF HotelTypeOK, HotelOps

-----------------------------------------------------------------------------
(* The registry: rows a desk has read and is about to write.               *)
(* A row once there stays one, and what a desk is about to write is the    *)
(* row of somebody there was when it read.                                 *)
CustRowShape(r) == {"merged", "anon"} \subseteq DOMAIN r
CustJob(table, t) ==
    /\ t.op \in {"update", "reseal"} => t.id \in CustIds /\ CustRowShape(table[t.id])
    /\ t.op = "merge" => t.from \in CustIds /\ t.to \in CustIds /\ CustRowShape(table[t.from])
CustInv ==
    /\ custs = [i \in CustIds |-> custs[i]]
    /\ \A i \in CustIds : custs[i] # NoRow => CustRowShape(custs[i])
    /\ custDesk = [d \in Desks |-> custDesk[d]]
    /\ \A d \in Desks : CustJob(custs, custDesk[d])
StaysGone(old, new) == (old.merged # NoRow => new.merged # NoRow) /\ (old.anon => new.anon)
GoneKept == \A i \in Present(custs) : /\ custs[i].merged # NoRow => custs'[i].merged # NoRow
                                      /\ custs[i].anon => custs'[i].anon

LEMMA CustInitHolds == CustomersInit => CustInv
  <1>. SUFFICES ASSUME CustomersInit PROVE CustInv
    OBVIOUS
  <1>1. custs = [i \in CustIds |-> NoRow] /\ custDesk = [d \in Desks |-> Free]
    BY DEF CustomersInit
  <1>2. CustJob(custs, Free)
    BY DEF CustJob, Free
  <1>. QED  BY <1>1, <1>2 DEF CustInv

LEMMA CustStays == CustInv /\ UNCHANGED <<custs, custDesk>> => CustInv' /\ GoneKept
  BY DEF CustInv, GoneKept

(* One row is written, as one that undoes nothing, and the desks read      *)
(* nothing new.                                                            *)
LEMMA OneRowWritten ==
    ASSUME CustInv, NEW id \in CustIds, NEW row, CustRowShape(row), custs' = [custs EXCEPT ![id] = row],
           custs[id] # NoRow => StaysGone(custs[id], row),
           \A d \in Desks : custDesk'[d] \in {custDesk[d], Free}, custDesk' = [d \in Desks |-> custDesk'[d]]
    PROVE  CustInv' /\ GoneKept
  <1>1. custs' = [i \in CustIds |-> IF i = id THEN row ELSE custs[i]]
    BY DEF CustInv
  <1>. HIDE DEF CustRowShape
  <1>2. \A i \in CustIds : CustRowShape(custs[i]) => CustRowShape(custs'[i])
    BY <1>1
  <1>3. \A d \in Desks : CustJob(custs', custDesk'[d])
    <2>. SUFFICES ASSUME NEW d \in Desks PROVE CustJob(custs', custDesk'[d])
      OBVIOUS
    <2>1. CASE custDesk'[d] = Free
      BY <2>1 DEF Free, CustJob
    <2>2. CASE custDesk'[d] = custDesk[d]
      <3>1. CustJob(custs, custDesk[d])
        BY DEF CustInv
      <3>. QED  BY <1>2, <2>2, <3>1 DEF CustJob
    <2>. QED  BY <2>1, <2>2
  <1>4. CustInv'
    <2>1. custs' = [i \in CustIds |-> custs'[i]]
      BY <1>1
    <2>2. \A i \in CustIds : custs'[i] # NoRow => CustRowShape(custs'[i])
      BY <1>1 DEF CustInv
    <2>. QED  BY <1>3, <2>1, <2>2 DEF CustInv
  <1>5. GoneKept
    BY <1>1 DEF GoneKept, StaysGone, Present, CustInv
  <1>. QED  BY <1>4, <1>5

(* A desk reads somebody who is there.                                     *)
LEMMA OneCustRead ==
    ASSUME CustInv, NEW d \in Desks, NEW t, CustJob(custs, t), custDesk' = [custDesk EXCEPT ![d] = t], UNCHANGED custs
    PROVE  CustInv' /\ GoneKept
  <1>1. custDesk' = [e \in Desks |-> IF e = d THEN t ELSE custDesk[e]]
    BY DEF CustInv
  <1>2. \A e \in Desks : CustJob(custs, custDesk'[e])
    BY <1>1 DEF CustInv
  <1>3. CustInv'
    BY <1>1, <1>2 DEF CustInv
  <1>. QED  BY <1>3 DEF GoneKept

LEMMA DeskDone ==
    ASSUME CustInv, NEW d \in Desks, custDesk' = [custDesk EXCEPT ![d] = Free]
    PROVE  (\A e \in Desks : custDesk'[e] \in {custDesk[e], Free}) /\ custDesk' = [e \in Desks |-> custDesk'[e]]
  BY DEF CustInv

LEMMA CustCreated ==
    ASSUME CustInv, NEW names, NEW passports, CreateCustomer(names, passports)
    PROVE  CustInv' /\ GoneKept
  <1>1. PICK id \in Fresh(custs), name \in names, p \in passports \ {"none", "masked"} :
            custs' = [custs EXCEPT ![id] = NewCustomer(name, SealPassport(p))]
    BY DEF CreateCustomer, InsertCustomer
  <1>2. id \in CustIds /\ custs[id] = NoRow
    BY <1>1 DEF Fresh, CustInv
  <1>3. CustRowShape(NewCustomer(name, SealPassport(p)))
    BY DEF NewCustomer, CustRowShape
  <1>4. UNCHANGED custDesk
    BY DEF CreateCustomer
  <1>5. (\A d \in Desks : custDesk'[d] \in {custDesk[d], Free}) /\ custDesk' = [d \in Desks |-> custDesk'[d]]
    BY <1>4 DEF CustInv
  <1>. QED  BY <1>1, <1>2, <1>3, <1>5, OneRowWritten

LEMMA CustLegacy ==
    ASSUME CustInv, LegacyCustomer
    PROVE  CustInv' /\ GoneKept
  <1>. DEFINE PlainPassport(p) == [legacy |-> p, key |-> 0, value |-> "", hash |-> ""]
  <1>1. PICK id \in Fresh(custs), p \in {"P1", "p 1"} :
            custs' = [custs EXCEPT ![id] = NewCustomer("ann", PlainPassport(p))]
    BY DEF LegacyCustomer, InsertCustomer
  <1>2. id \in CustIds /\ custs[id] = NoRow
    BY <1>1 DEF Fresh, CustInv
  <1>3. CustRowShape(NewCustomer("ann", PlainPassport(p)))
    BY DEF NewCustomer, CustRowShape
  <1>4. UNCHANGED custDesk
    BY DEF LegacyCustomer
  <1>5. (\A d \in Desks : custDesk'[d] \in {custDesk[d], Free}) /\ custDesk' = [d \in Desks |-> custDesk'[d]]
    BY <1>4 DEF CustInv
  <1>. QED  BY <1>1, <1>2, <1>3, <1>5, OneRowWritten

LEMMA CustUpdateRead ==
    ASSUME CustInv, NEW d \in Desks, NEW names, NEW passports, UpdateCustomerRead(d, names, passports)
    PROVE  CustInv' /\ GoneKept
  <1>0. UNCHANGED custs
    BY DEF UpdateCustomerRead
  <1>1. PICK id \in CustIds, name \in names, p \in passports : \E row \in FindCustomer(id) :
            /\ row.merged = NoRow
            /\ custDesk' = [custDesk EXCEPT ![d] = [op |-> "update", id |-> id, name |-> name, active |-> row.active, anon |-> row.anon,
                                                    passport |-> PassportUpdate(OpenPassport(row.pass), p)]]
    BY Zenon DEF UpdateCustomerRead
  <1>2. PICK row \in FindCustomer(id) :
            /\ row.merged = NoRow
            /\ custDesk' = [custDesk EXCEPT ![d] = [op |-> "update", id |-> id, name |-> name, active |-> row.active, anon |-> row.anon,
                                                    passport |-> PassportUpdate(OpenPassport(row.pass), p)]]
    BY <1>1
  <1>. DEFINE t == [op |-> "update", id |-> id, name |-> name, active |-> row.active, anon |-> row.anon,
                    passport |-> PassportUpdate(OpenPassport(row.pass), p)]
  <1>3. t.op = "update" /\ t.id = id /\ custDesk' = [custDesk EXCEPT ![d] = t]
    BY <1>2
  <1>4. CustRowShape(custs[id])
    BY <1>2 DEF FindCustomer, CustInv
  <1>. HIDE DEF t
  <1>5. CustJob(custs, t)
    BY <1>3, <1>4 DEF CustJob
  <1>. QED  BY <1>0, <1>3, <1>5, OneCustRead

LEMMA CustUpdateWrite ==
    ASSUME CustInv, NEW d \in Desks, UpdateCustomerWrite(d)
    PROVE  CustInv' /\ GoneKept
  <1>. DEFINE t == custDesk[d]
  <1>1. t.id \in CustIds /\ CustRowShape(custs[t.id])
    BY DEF UpdateCustomerWrite, CustInv, CustJob
  <1>2. /\ custs' = [custs EXCEPT ![t.id] = [custs[t.id] EXCEPT !.name = t.name, !.active = t.active, !.pass = SealPassport(t.passport)]]
        /\ custDesk' = [custDesk EXCEPT ![d] = Free]
    BY DEF UpdateCustomerWrite, InsertCustomer
  <1>. DEFINE old == custs[t.id]
              id == t.id
              stored == SealPassport(t.passport)
              row == [old EXCEPT !.name = t.name, !.active = t.active, !.pass = stored]
  <1>3. CustRowShape(row) /\ StaysGone(old, row)
    <2>1. \A n, a, p : CustRowShape([old EXCEPT !.name = n, !.active = a, !.pass = p])
                       /\ StaysGone(old, [old EXCEPT !.name = n, !.active = a, !.pass = p])
      <3>1. CustRowShape(old)
        BY <1>1
      <3>. HIDE DEF old
      <3>. QED  BY <3>1 DEF CustRowShape, StaysGone
    <2>. QED  BY <2>1
  <1>4. custs' = [custs EXCEPT ![id] = row] /\ id \in CustIds /\ old = custs[id]
    BY <1>1, <1>2
  <1>. HIDE DEF row, old, id
  <1>. QED  BY <1>2, <1>3, <1>4, DeskDone, OneRowWritten

LEMMA CustMergeRead ==
    ASSUME CustInv, NEW d \in Desks, MergeRead(d)
    PROVE  CustInv' /\ GoneKept
  <1>0. UNCHANGED custs
    BY DEF MergeRead
  <1>1. PICK from, to \in Present(custs) : custDesk' = [custDesk EXCEPT ![d] = [op |-> "merge", from |-> from, to |-> to]]
    BY DEF MergeRead
  <1>. DEFINE t == [op |-> "merge", from |-> from, to |-> to]
  <1>3. t.op = "merge" /\ t.from = from /\ t.to = to /\ custDesk' = [custDesk EXCEPT ![d] = t]
    BY <1>1
  <1>4. from \in CustIds /\ to \in CustIds /\ CustRowShape(custs[from])
    BY DEF Present, CustInv
  <1>. HIDE DEF t
  <1>5. CustJob(custs, t)
    BY <1>3, <1>4 DEF CustJob
  <1>. QED  BY <1>0, <1>3, <1>5, OneCustRead

(* What a merge leaves alone when a link of it is refused is all of it.    *)
LEMMA CustUnwritten ==
    ASSUME CustInv, NEW d \in Desks, custDesk' = [custDesk EXCEPT ![d] = Free], UNCHANGED custs
    PROVE  CustInv' /\ GoneKept
  <1>1. CustJob(custs, Free)
    BY DEF CustJob, Free
  <1>. QED  BY <1>1, OneCustRead

LEMMA CustMergeWrite ==
    ASSUME CustInv, NEW d \in Desks, MergeWrite(d)
    PROVE  CustInv' /\ GoneKept
  <1>. DEFINE from == custDesk[d].from
              to == custDesk[d].to
              old == custs[from]
              row == [old EXCEPT !.merged = to, !.active = FALSE]
  <1>1. from \in CustIds /\ to \in CustIds /\ CustRowShape(old)
    BY DEF MergeWrite, CustInv, CustJob
  <1>2. custDesk' = [custDesk EXCEPT ![d] = Free]
    BY DEF MergeWrite
  <1>3. CustRowShape(row) /\ StaysGone(old, row)
    <2>. HIDE DEF to, old
    <2>1. to # NoRow
      BY <1>1, CustomersAssumption
    <2>. QED  BY <1>1, <2>1 DEF CustRowShape, StaysGone
  <1>4. MarkMerged(from, to) \/ UNCHANGED custs
    BY DEF MergeWrite
  <1>5. CASE MarkMerged(from, to)
    <2>1. custs' = [custs EXCEPT ![from] = row]
      <3>1. custs = [i \in CustIds |-> custs[i]]
        BY DEF CustInv
      <3>2. custs' = [i \in CustIds |-> IF i = from THEN row ELSE custs[i]]
        BY <1>5, <3>1 DEF MarkMerged
      <3>. HIDE DEF row
      <3>. QED  BY <3>1, <3>2
    <2>2. old = custs[from]
      OBVIOUS
    <2>. HIDE DEF row, old, from
    <2>. QED  BY <1>1, <1>2, <1>3, <2>1, <2>2, DeskDone, OneRowWritten
  <1>. QED  BY <1>2, <1>4, <1>5, CustUnwritten

LEMMA CustAnonymized ==
    ASSUME CustInv, Anonymize
    PROVE  CustInv' /\ GoneKept
  <1>1. PICK id \in CustIds : custs[id] # NoRow /\ custs' = [custs EXCEPT ![id] = Erased(custs[id])]
    BY DEF Anonymize, AnonymizeRows, InsertCustomer, FindCustomer
  <1>. DEFINE old == custs[id]
              row == Erased(old)
  <1>2. CustRowShape(old)
    BY <1>1 DEF CustInv
  <1>3. CustRowShape(row) /\ StaysGone(old, row)
    <2>. HIDE DEF old
    <2>. QED  BY <1>2 DEF CustRowShape, StaysGone, Erased
  <1>4. custs' = [custs EXCEPT ![id] = row] /\ old = custs[id]
    BY <1>1
  <1>5. UNCHANGED custDesk
    BY DEF Anonymize
  <1>6. (\A d \in Desks : custDesk'[d] \in {custDesk[d], Free}) /\ custDesk' = [d \in Desks |-> custDesk'[d]]
    BY <1>5 DEF CustInv
  <1>. HIDE DEF row, old
  <1>. QED  BY <1>3, <1>4, <1>6, OneRowWritten

LEMMA CustResealRead ==
    ASSUME CustInv, NEW d \in Desks, ResealRead(d)
    PROVE  CustInv' /\ GoneKept
  <1>0. UNCHANGED custs
    BY DEF ResealRead
  <1>1. PICK id \in Present(custs) : custDesk' = [custDesk EXCEPT ![d] = [op |-> "reseal", id |-> id, was |-> custs[id].pass]]
    BY DEF ResealRead
  <1>. DEFINE t == [op |-> "reseal", id |-> id, was |-> custs[id].pass]
  <1>3. t.op = "reseal" /\ t.id = id /\ custDesk' = [custDesk EXCEPT ![d] = t]
    BY <1>1
  <1>4. id \in CustIds /\ CustRowShape(custs[id])
    BY DEF Present, CustInv
  <1>. HIDE DEF t
  <1>5. CustJob(custs, t)
    BY <1>3, <1>4 DEF CustJob
  <1>. QED  BY <1>0, <1>3, <1>5, OneCustRead

LEMMA CustResealWrite ==
    ASSUME CustInv, NEW d \in Desks, ResealWrite(d)
    PROVE  CustInv' /\ GoneKept
  <1>. DEFINE id == custDesk[d].id
              old == custs[id]
              row == [old EXCEPT !.pass = SealPassport(OpenPassport(custDesk[d].was))]
  <1>1. id \in CustIds /\ CustRowShape(old)
    BY DEF ResealWrite, CustInv, CustJob
  <1>2. custDesk' = [custDesk EXCEPT ![d] = Free]
    BY DEF ResealWrite
  <1>3. CustRowShape(row) /\ StaysGone(old, row)
    <2>1. \A p : CustRowShape([old EXCEPT !.pass = p]) /\ StaysGone(old, [old EXCEPT !.pass = p])
      <3>. HIDE DEF old
      <3>. QED  BY <1>1 DEF CustRowShape, StaysGone
    <2>. QED  BY <2>1
  <1>4. custs' = [custs EXCEPT ![id] = row] \/ UNCHANGED custs
    BY DEF ResealWrite, InsertCustomer
  <1>5. old = custs[id]
    OBVIOUS
  <1>. HIDE DEF row, old, id
  <1>6. CASE custs' = [custs EXCEPT ![id] = row]
    BY <1>1, <1>2, <1>3, <1>5, <1>6, DeskDone, OneRowWritten
  <1>. QED  BY <1>2, <1>4, <1>6, CustUnwritten

LEMMA CustInvNext == CustInv /\ (RegistryNext \/ SealingNext \/ AskRegistry) => CustInv' /\ GoneKept
  <1>. SUFFICES ASSUME CustInv, RegistryNext \/ SealingNext \/ AskRegistry PROVE CustInv' /\ GoneKept
    OBVIOUS
  <1>1. ASSUME LinkCompanion \/ UnlinkCompanion \/ OpenBooking \/ CloseBooking \/ RotateKey \/ AskRegistry
        PROVE  UNCHANGED <<custs, custDesk>>
    BY <1>1 DEF LinkCompanion, UnlinkCompanion, OpenBooking, CloseBooking, RotateKey, AskRegistry, registryVars
  <1>2. CASE RegistryNext
    BY <1>1, <1>2, CustStays, CustCreated, CustAnonymized, CustUpdateRead, CustUpdateWrite, CustMergeRead, CustMergeWrite, Zenon
    DEF RegistryNext
  <1>3. CASE SealingNext
    BY <1>1, <1>3, CustStays, CustCreated, CustLegacy, CustAnonymized, CustUpdateRead, CustUpdateWrite, CustResealRead, CustResealWrite, Zenon
    DEF SealingNext
  <1>4. CASE AskRegistry
    BY <1>1, <1>4, CustStays
  <1>. QED  BY <1>2, <1>3, <1>4

-----------------------------------------------------------------------------
(* The assistant and its breaker.                                          *)
(* Only a question that was refused by nothing, the breaker included, is   *)
(* sent to the provider.                                                   *)
AskInv ==
    /\ aiTick \in Nat /\ aiUntil \in Nat
    /\ aiDesk = [d \in Desks |-> aiDesk[d]]
    /\ \A d \in Desks : "op" \in DOMAIN aiDesk[d]
Shielded == \A d \in Desks : (aiDesk[d].op # "call" /\ aiDesk'[d].op = "call") => aiTick >= aiUntil

LEMMA AskInitHolds == AssistantInit => AskInv
  BY DEF AssistantInit, AskInv, Free

LEMMA AskStays == AskInv /\ UNCHANGED <<aiTick, aiUntil, aiDesk>> => AskInv' /\ Shielded
  BY DEF AskInv, Shielded

(* A desk goes on to something that is no call, or to one with the breaker *)
(* closed.                                                                 *)
LEMMA OneAsks ==
    ASSUME AskInv, NEW d \in Desks, NEW what, "op" \in DOMAIN what, Go(d, what),
           what.op = "call" => ~(aiTick < aiUntil),
           aiTick' \in Nat, aiUntil' \in Nat
    PROVE  AskInv' /\ Shielded
  <1>1. aiDesk' = [e \in Desks |-> IF e = d THEN what ELSE aiDesk[e]]
    BY DEF Go, AskInv
  <1>2. AskInv'
    BY <1>1 DEF AskInv
  <1>3. aiUntil \in Nat /\ aiTick \in Nat
    BY DEF AskInv
  <1>. QED  BY <1>1, <1>2, <1>3 DEF Shielded

LEMMA AskInvNext == AskInv /\ (ChatNext \/ SettingsNext) => AskInv' /\ Shielded
  <1>. SUFFICES ASSUME AskInv, ChatNext \/ SettingsNext PROVE AskInv' /\ Shielded
    OBVIOUS
  <1>0. /\ aiTick \in Nat /\ aiUntil \in Nat
        /\ \A d \in Desks : "op" \in DOMAIN aiDesk[d]
    BY DEF AskInv
  <1>1. ASSUME NEW d \in Desks, AskBegin(d)
        PROVE  AskInv' /\ Shielded
    <2>0. UNCHANGED <<aiTick, aiUntil>>
      BY <1>1 DEF AskBegin
    <2>1. PICK id \in Askable, perms \in {{"ai.read"}, Perms} :
              \/ UNCHANGED aiDesk
              \/ Go(d, [op |-> "decide", id |-> id, perms |-> perms, used |-> Used(AiDay),
                        conf |-> IF MemoAlive THEN aiMemo.value ELSE resolve, fresh |-> ~MemoAlive])
      BY <1>1 DEF AskBegin
    <2>. DEFINE what == [op |-> "decide", id |-> id, perms |-> perms, used |-> Used(AiDay),
                         conf |-> IF MemoAlive THEN aiMemo.value ELSE resolve, fresh |-> ~MemoAlive]
    <2>2. "op" \in DOMAIN what /\ what.op = "decide"
      OBVIOUS
    <2>3. UNCHANGED aiDesk \/ Go(d, what)
      BY <2>1
    <2>. HIDE DEF what
    <2>. QED  BY <2>0, <2>2, <2>3, <1>0, OneAsks, AskStays
  <1>2. ASSUME NEW d \in Desks, AskDecide(d)
        PROVE  AskInv' /\ Shielded
    <2>1. UNCHANGED <<aiTick, aiUntil>>
      BY <1>2 DEF AskDecide
    <2>. DEFINE what == [op |-> "call", id |-> aiDesk[d].id, perms |-> aiDesk[d].perms]
    <2>2. "op" \in DOMAIN what /\ what.op = "call" /\ "op" \in DOMAIN Free /\ Free.op = "free"
      BY DEF Free
    <2>3. Go(d, Free) \/ (Go(d, what) /\ ~BreakerOpen)
      BY <1>2 DEF AskDecide
    <2>. HIDE DEF what
    <2>4. CASE Go(d, Free)
      BY <2>1, <2>2, <2>4, <1>0, OneAsks
    <2>5. CASE Go(d, what) /\ ~BreakerOpen
      BY <2>1, <2>2, <2>5, <1>0, OneAsks DEF BreakerOpen
    <2>. QED  BY <2>3, <2>4, <2>5
  <1>3. ASSUME NEW d \in Desks, AskCall(d)
        PROVE  AskInv' /\ Shielded
    <2>. DEFINE what == [aiDesk[d] EXCEPT !.op = "model"]
    <2>1. "op" \in DOMAIN what /\ what.op = "model"
      BY <1>0
    <2>2. Go(d, what) /\ UNCHANGED <<aiTick, aiUntil>>
      BY <1>3 DEF AskCall
    <2>. HIDE DEF what
    <2>. QED  BY <2>1, <2>2, <1>0, OneAsks
  <1>4. ASSUME NEW d \in Desks, Go(d, Free), aiTick' \in Nat, aiUntil' \in Nat
        PROVE  AskInv' /\ Shielded
    <2>1. "op" \in DOMAIN Free /\ Free.op = "free"
      BY DEF Free
    <2>. QED  BY <1>4, <2>1, OneAsks
  <1>5. ASSUME NEW d \in Desks, AskReply(d) \/ SettingsWrite(d)
        PROVE  AskInv' /\ Shielded
    BY <1>0, <1>4, <1>5 DEF AskReply, SettingsWrite
  <1>6. ASSUME NEW d \in Desks, AskFails(d)
        PROVE  AskInv' /\ Shielded
    <2>1. Go(d, Free) /\ aiTick' = aiTick /\ aiUntil' = aiTick + Cooldown
      BY <1>6 DEF AskFails, Trip
    <2>. QED  BY <2>1, <1>0, <1>4, AssistantAssumption
  <1>7. ASSUME NEW d \in Desks, DisableRead(d)
        PROVE  AskInv' /\ Shielded
    <2>. DEFINE what == [op |-> "setup", row |-> [GetSettings EXCEPT !.enabled = FALSE]]
    <2>1. "op" \in DOMAIN what /\ what.op = "setup"
      OBVIOUS
    <2>2. Go(d, what) /\ UNCHANGED <<aiTick, aiUntil>>
      BY <1>7 DEF DisableRead
    <2>. HIDE DEF what
    <2>. QED  BY <2>1, <2>2, <1>0, OneAsks
  <1>8. CASE AiTick
    BY <1>0, <1>8 DEF AiTick, AskInv, Shielded
  <1>9. ASSUME NEW d \in Desks, SetupRead(d)
        PROVE  AskInv' /\ Shielded
    <2>0. UNCHANGED <<aiTick, aiUntil>>
      BY <1>9 DEF SetupRead
    <2>1. PICK op, row : op \in {"verify", "setup"} /\ Go(d, [op |-> op, row |-> row])
      BY <1>9 DEF SetupRead
    <2>. DEFINE what == [op |-> op, row |-> row]
    <2>2. "op" \in DOMAIN what /\ what.op # "call" /\ Go(d, what)
      BY <2>1
    <2>. HIDE DEF what
    <2>. QED  BY <2>0, <2>2, <1>0, OneAsks
  <1>10. ASSUME NEW d \in Desks, VerifyKey(d)
         PROVE  AskInv' /\ Shielded
    <2>. DEFINE what == [aiDesk[d] EXCEPT !.op = "setup"]
    <2>1. "op" \in DOMAIN what /\ what.op = "setup"
      BY <1>0
    <2>2. Go(d, what) \/ Go(d, Free)
      BY <1>10 DEF VerifyKey
    <2>3. UNCHANGED <<aiTick, aiUntil>>
      BY <1>10 DEF VerifyKey
    <2>. HIDE DEF what
    <2>. QED  BY <2>1, <2>2, <2>3, <1>0, <1>4, OneAsks
  <1>. QED  BY <1>1, <1>2, <1>3, <1>5, <1>6, <1>7, <1>8, <1>9, <1>10, Zenon DEF ChatNext, SettingsNext

-----------------------------------------------------------------------------
(* Leads: what a desk has read, and what it may still write.               *)
(* What a desk holds of the lead.  A copy to be written is consistent and, *)
(* unless a stale one was written, has a booking only if it is won; a walk *)
(* at its end and a link behind it found the lead won.                     *)
WalkRest == {<<>>, <<"won">>, <<"paid", "won">>}
EditJob == [op : {"edit"}, seen : LeadRow, copy : LeadRow]
StageJob == [op : {"stage"}, seen : LeadRow, copy : LeadRow, path : {<<>>, <<"won">>}, then : BOOLEAN]
DeleteJob == [op : {"delete"}, seen : LeadRow]
WalkJob == [op : {"walk"}, path : WalkRest]
LinkJob == [op : {"link"}, booking : Nat]

RowConsistent(l) == (l.reason <=> l.stage = "lost") /\ (l.noFollowUp => IsOpen(l))
CopyFits(copy, made, raced) ==
    /\ RowConsistent(copy) /\ ~copy.deleted /\ copy.booking \in 0 .. made
    /\ raced \/ (copy.booking # 0 => copy.stage = "won")
LeadJob(j, made, stage, raced) ==
    \/ j = Free
    \/ j \in EditJob /\ CopyFits(j.copy, made, raced) /\ j.copy.stage = j.seen.stage
    \/ /\ j \in StageJob /\ CopyFits(j.copy, made, raced) /\ CanTransition(j.seen.stage, j.copy.stage)
       /\ (j.then /\ j.path = <<>>) => j.copy.stage = "won"
    \/ j \in DeleteJob /\ j.seen.booking = 0
    \/ j \in WalkJob /\ (j.path = <<>> => raced \/ stage = "won")
    \/ j \in LinkJob /\ j.booking \in 1 .. made /\ (raced \/ stage = "won")

LeadJobs(jobs, made, stage, raced) ==
    jobs = [d \in Desks |-> jobs[d]] /\ \A d \in Desks : LeadJob(jobs[d], made, stage, raced)

LeadInv ==
    /\ LeadTypeOK /\ leadRaced \in BOOLEAN /\ trail # <<>>
    /\ LeadRowConsistent /\ HistoryMatchesStage /\ TasksFollowDeletion
    /\ LeadJobs(ljob, drafts, lead.stage, leadRaced)

LEMMA LeadInitHolds == LeadInit => LeadInv
  <1>. SUFFICES ASSUME LeadInit PROVE LeadInv
    OBVIOUS
  <1>1. PICK s \in {"new", "qualified", "proposal"} :
            /\ lead = [stage |-> s, reason |-> FALSE, noFollowUp |-> FALSE, details |-> "created", booking |-> 0, deleted |-> FALSE]
            /\ trail = <<s>>
    BY DEF LeadInit
  <1>2. trail \in Seq(AllStages) /\ trail # <<>> /\ trail[Len(trail)] = s
    BY <1>1 DEF AllStages
  <1>3. LeadTypeOK /\ lead.stage = s /\ ~lead.reason /\ ~lead.noFollowUp /\ lead.booking = 0 /\ ~lead.deleted
    BY <1>1, <1>2, LeadAssumption DEF LeadInit, LeadTypeOK, LeadRow, AllStages
  <1>. QED  BY <1>1, <1>2, <1>3 DEF LeadInit, LeadInv, LeadRowConsistent, HistoryMatchesStage, TasksFollowDeletion, LeadJobs, LeadJob

LEMMA LeadStays == LeadInv /\ UNCHANGED leadVars => LeadInv'
  BY DEF LeadInv, leadVars, LeadTypeOK, LeadRowConsistent, IsOpen, HistoryMatchesStage, TasksFollowDeletion

(* What a desk holds stays right while bookings are added and the stage is *)
(* not moved away from won without a race.                                 *)
LEMMA LeadJobKept ==
    ASSUME NEW j, NEW made \in Nat, NEW more \in Nat, more >= made, NEW stage, NEW after, NEW raced \in BOOLEAN, NEW now \in BOOLEAN,
           LeadJob(j, made, stage, raced), raced => now, stage = "won" => now \/ after = "won"
    PROVE  LeadJob(j, more, after, now)
  <1>1. ASSUME NEW copy \in LeadRow, CopyFits(copy, made, raced) PROVE CopyFits(copy, more, now)
    BY <1>1 DEF CopyFits, LeadRow
  <1>2. CASE j \in EditJob /\ CopyFits(j.copy, made, raced) /\ j.copy.stage = j.seen.stage
    <2>1. j.copy \in LeadRow
      BY <1>2 DEF EditJob
    <2>. QED  BY <1>1, <1>2, <2>1 DEF LeadJob
  <1>3. CASE /\ j \in StageJob /\ CopyFits(j.copy, made, raced) /\ CanTransition(j.seen.stage, j.copy.stage)
             /\ (j.then /\ j.path = <<>>) => j.copy.stage = "won"
    <2>1. j.copy \in LeadRow
      BY <1>3 DEF StageJob
    <2>. QED  BY <1>1, <1>3, <2>1 DEF LeadJob
  <1>4. CASE j \in LinkJob /\ j.booking \in 1 .. made /\ (raced \/ stage = "won")
    BY <1>4 DEF LeadJob
  <1>5. CASE j = Free \/ (j \in DeleteJob /\ j.seen.booking = 0) \/ (j \in WalkJob /\ (j.path = <<>> => raced \/ stage = "won"))
    BY <1>5 DEF LeadJob
  <1>. QED  BY <1>2, <1>3, <1>4, <1>5 DEF LeadJob

(* One desk goes on, the others keep what they hold.                       *)
LEMMA OneLeadDesk ==
    ASSUME NEW jobs, NEW d \in Desks, NEW t, NEW made \in Nat, NEW more \in Nat, more >= made, NEW stage, NEW after,
           NEW raced \in BOOLEAN, NEW now \in BOOLEAN, LeadJobs(jobs, made, stage, raced),
           raced => now, stage = "won" => now \/ after = "won", LeadJob(t, more, after, now)
    PROVE  LeadJobs([jobs EXCEPT ![d] = t], more, after, now)
  <1>. DEFINE new == [jobs EXCEPT ![d] = t]
  <1>1. new = [e \in Desks |-> IF e = d THEN t ELSE jobs[e]]
    BY DEF LeadJobs
  <1>2. \A e \in Desks : LeadJob(jobs[e], more, after, now)
    BY LeadJobKept DEF LeadJobs
  <1>3. \A e \in Desks : LeadJob(new[e], more, after, now)
    BY <1>1, <1>2
  <1>. QED  BY <1>1, <1>3 DEF LeadJobs

(* A desk reads the lead, or gives up: the row and its history stay.       *)
LEMMA LeadDeskOnly ==
    ASSUME LeadInv, NEW d \in Desks, NEW t, LeadJob(t, drafts, lead.stage, leadRaced), ljob' = [ljob EXCEPT ![d] = t],
           UNCHANGED <<lead, trail, follow, drafts, leadRaced>>, begun' \in 0 .. MaxLeadEdits
    PROVE  LeadInv'
  <1>1. LeadJobs([ljob EXCEPT ![d] = t], drafts, lead.stage, leadRaced)
    <2>1. \A e \in Desks : LeadJob([ljob EXCEPT ![d] = t][e], drafts, lead.stage, leadRaced)
      BY DEF LeadInv, LeadJobs
    <2>. QED  BY <2>1 DEF LeadInv, LeadJobs
  <1>. QED  BY <1>1 DEF LeadInv, LeadTypeOK, LeadRowConsistent, IsOpen, HistoryMatchesStage, TasksFollowDeletion

LEMMA LeadFound ==
    ASSUME LeadInv, NEW d \in Desks, NEW t, FindLead(d, t), LeadJob(t, drafts, lead.stage, leadRaced)
    PROVE  LeadInv'
  <1>1. begun' \in 0 .. MaxLeadEdits
    BY LeadAssumption DEF FindLead, LeadInv, LeadTypeOK
  <1>. QED  BY <1>1, LeadDeskOnly DEF FindLead

(* The row of a lead that is there.                                        *)
LEMMA LeadRead ==
    ASSUME LeadInv, ~lead.deleted
    PROVE  lead \in LeadRow /\ CopyFits(lead, drafts, leadRaced)
  BY DEF LeadInv, LeadTypeOK, CopyFits, RowConsistent, LeadRowConsistent, HistoryMatchesStage

(* What an edit leaves of the row.                                         *)
LEMMA LeadEdited ==
    ASSUME LeadInv, ~lead.deleted
    PROVE  /\ \A t \in {"reassigned", "edited"} : LET c == [lead EXCEPT !.details = t]
                                                  IN  c \in LeadRow /\ CopyFits(c, drafts, leadRaced) /\ c.stage = lead.stage
           /\ \A b \in BOOLEAN : IsOpen(lead) => LET c == [lead EXCEPT !.noFollowUp = b]
                                                  IN  c \in LeadRow /\ CopyFits(c, drafts, leadRaced) /\ c.stage = lead.stage
           /\ \A n \in 1 .. drafts : (leadRaced \/ lead.stage = "won") =>
                LET c == [lead EXCEPT !.booking = n] IN c \in LeadRow /\ CopyFits(c, drafts, leadRaced) /\ c.stage = lead.stage
  <1>. lead \in LeadRow /\ CopyFits(lead, drafts, leadRaced) /\ drafts \in Nat
    BY LeadRead DEF LeadInv, LeadTypeOK
  <1>1. ASSUME NEW t \in {"reassigned", "edited"}
        PROVE  LET c == [lead EXCEPT !.details = t] IN c \in LeadRow /\ CopyFits(c, drafts, leadRaced) /\ c.stage = lead.stage
    BY DEF LeadRow, CopyFits, RowConsistent, IsOpen
  <1>2. ASSUME NEW b \in BOOLEAN, IsOpen(lead)
        PROVE  LET c == [lead EXCEPT !.noFollowUp = b] IN c \in LeadRow /\ CopyFits(c, drafts, leadRaced) /\ c.stage = lead.stage
    BY <1>2 DEF LeadRow, CopyFits, RowConsistent, IsOpen
  <1>3. ASSUME NEW n \in 1 .. drafts, leadRaced \/ lead.stage = "won"
        PROVE  LET c == [lead EXCEPT !.booking = n] IN c \in LeadRow /\ CopyFits(c, drafts, leadRaced) /\ c.stage = lead.stage
    BY <1>3 DEF LeadRow, CopyFits, RowConsistent, IsOpen
  <1>. QED  BY <1>1, <1>2, <1>3

LEMMA LeadStaged ==
    ASSUME LeadInv, ~lead.deleted, NEW to \in AllStages, CanTransition(lead.stage, to)
    PROVE  LET c == Staged(lead, to) IN c \in LeadRow /\ CopyFits(c, drafts, leadRaced) /\ c.stage = to
  <1>. lead \in LeadRow /\ CopyFits(lead, drafts, leadRaced)
    BY LeadRead
  <1>1. lead.stage # "won"
    BY DEF CanTransition, allowedTransitions, AllStages
  <1>. QED  BY <1>1 DEF Staged, LeadRow, CopyFits, RowConsistent, IsOpen

LEMMA Reads ==
    ASSUME LeadInv, NEW d \in Desks,
           \/ \E to \in AllStages : ChangeStage(d, to)
           \/ AssignLead(d) \/ UpdateDetails(d) \/ (\E b \in BOOLEAN : SetNoFollowUp(d, b)) \/ DeleteLead(d) \/ Convert(d)
    PROVE  LeadInv'
  <1>1. ASSUME NEW to \in AllStages, ChangeStage(d, to) PROVE LeadInv'
    <2>. DEFINE t == [op |-> "stage", seen |-> lead, copy |-> Staged(lead, to), path |-> <<>>, then |-> FALSE]
    <2>1. FindLead(d, t) /\ CanTransition(lead.stage, to) /\ ~lead.deleted
      BY <1>1 DEF ChangeStage, FindLead
    <2>2. LeadJob(t, drafts, lead.stage, leadRaced)
      <3>1. lead \in LeadRow /\ Staged(lead, to) \in LeadRow /\ CopyFits(Staged(lead, to), drafts, leadRaced) /\ Staged(lead, to).stage = to
        BY <2>1, LeadStaged, LeadRead
      <3>. HIDE DEF Staged
      <3>. QED  BY <2>1, <3>1 DEF LeadJob, StageJob
    <2>. HIDE DEF t
    <2>. QED  BY <2>1, <2>2, LeadFound
  <1>2. ASSUME NEW c, c \in LeadRow, CopyFits(c, drafts, leadRaced), c.stage = lead.stage, ~lead.deleted,
               FindLead(d, [op |-> "edit", seen |-> lead, copy |-> c])
        PROVE  LeadInv'
    <2>. DEFINE t == [op |-> "edit", seen |-> lead, copy |-> c]
    <2>1. LeadJob(t, drafts, lead.stage, leadRaced)
      BY <1>2, LeadRead DEF LeadJob, EditJob
    <2>. QED  BY <1>2, <2>1, LeadFound
  <1>3. CASE AssignLead(d) \/ UpdateDetails(d)
    <2>1. ~lead.deleted
      BY <1>3 DEF AssignLead, UpdateDetails, FindLead
    <2>. QED  BY <1>2, <1>3, <2>1, LeadEdited DEF AssignLead, UpdateDetails
  <1>4. ASSUME NEW b \in BOOLEAN, SetNoFollowUp(d, b) PROVE LeadInv'
    <2>1. ~lead.deleted /\ IsOpen(lead)
      BY <1>4 DEF SetNoFollowUp, FindLead
    <2>. QED  BY <1>2, <1>4, <2>1, LeadEdited DEF SetNoFollowUp
  <1>5. CASE DeleteLead(d)
    <2>. DEFINE t == [op |-> "delete", seen |-> lead]
    <2>1. lead.booking = 0 /\ FindLead(d, t)
      BY <1>5 DEF DeleteLead
    <2>2. LeadJob(t, drafts, lead.stage, leadRaced)
      BY <2>1 DEF LeadJob, DeleteJob, LeadInv, LeadTypeOK
    <2>. QED  BY <2>1, <2>2, LeadFound
  <1>6. CASE Convert(d)
    <2>. DEFINE t == [op |-> "walk", path |-> ConversionPath(lead.stage)]
    <2>1. lead.stage \in Convertible /\ FindLead(d, t)
      BY <1>6 DEF Convert
    <2>2. LeadJob(t, drafts, lead.stage, leadRaced)
      <3>1. ConversionPath(lead.stage) \in WalkRest /\ (ConversionPath(lead.stage) = <<>> => lead.stage = "won")
        BY <2>1 DEF Convertible, ConversionPath, WalkRest
      <3>. HIDE DEF ConversionPath
      <3>. QED  BY <3>1 DEF LeadJob, WalkJob
    <2>. QED  BY <2>1, <2>2, LeadFound
  <1>. QED  BY <1>1, <1>3, <1>4, <1>5, <1>6

(* The walk of a conversion.                                               *)
LEMMA Walks ==
    ASSUME LeadInv, NEW d \in Desks, ConvertStage(d) \/ CreateDraftFromLead(d) \/ ConvertLink(d) \/ AbortLead(d)
    PROVE  LeadInv'
  <1>0. LeadJob(ljob[d], drafts, lead.stage, leadRaced) /\ begun \in 0 .. MaxLeadEdits /\ drafts \in Nat /\ leadRaced \in BOOLEAN
        /\ ljob = [e \in Desks |-> ljob[e]]
    BY DEF LeadInv, LeadJobs, LeadTypeOK
  <1>1. LeadJob(Free, drafts, lead.stage, leadRaced)
    BY DEF LeadJob
  <1>2. CASE AbortLead(d)
    BY <1>0, <1>1, <1>2, LeadDeskOnly DEF AbortLead
  <1>3. CASE ConvertStage(d)
    <2>1. ljob[d] \in WalkJob /\ ljob[d].path # <<>>
      BY <1>0, <1>3 DEF ConvertStage, LeadJob, Free, EditJob, StageJob, DeleteJob, LinkJob
    <2>2. ljob[d].path \in {<<"won">>, <<"paid", "won">>}
      BY <2>1 DEF WalkJob, WalkRest
    <2>. DEFINE to == Head(ljob[d].path)
                rest == Tail(ljob[d].path)
                t == [op |-> "stage", seen |-> lead, copy |-> Staged(lead, to), path |-> rest, then |-> TRUE]
    <2>3. to \in AllStages /\ rest \in {<<>>, <<"won">>} /\ (rest = <<>> => to = "won")
      <3>1. CASE ljob[d].path = <<"won">>
        BY <3>1 DEF AllStages
      <3>2. CASE ljob[d].path = <<"paid", "won">>
        <4>1. Head(<<"paid", "won">>) = "paid" /\ Tail(<<"paid", "won">>) = <<"won">>
          OBVIOUS
        <4>. QED  BY <3>2, <4>1 DEF AllStages
      <3>. QED  BY <2>2, <3>1, <3>2
    <2>4. CASE ~lead.deleted /\ CanTransition(lead.stage, to)
      <3>1. ljob' = [ljob EXCEPT ![d] = t]
        BY <1>3, <2>4 DEF ConvertStage
      <3>2. LeadJob(t, drafts, lead.stage, leadRaced)
        <4>1. lead \in LeadRow /\ Staged(lead, to) \in LeadRow /\ CopyFits(Staged(lead, to), drafts, leadRaced) /\ Staged(lead, to).stage = to
          BY <2>3, <2>4, LeadStaged, LeadRead
        <4>. HIDE DEF to, rest
        <4>2. \A c : (c \in LeadRow /\ CopyFits(c, drafts, leadRaced) /\ c.stage = to) =>
                 LeadJob([op |-> "stage", seen |-> lead, copy |-> c, path |-> rest, then |-> TRUE], drafts, lead.stage, leadRaced)
          BY <2>3, <2>4, <4>1 DEF LeadJob, StageJob
        <4>. QED  BY <4>1, <4>2
      <3>. HIDE DEF t
      <3>. QED  BY <1>0, <1>3, <3>1, <3>2, LeadDeskOnly DEF ConvertStage
    <2>5. CASE ~(~lead.deleted /\ CanTransition(lead.stage, to))
      <3>1. ljob' = [ljob EXCEPT ![d] = Free]
        BY <1>3, <2>5 DEF ConvertStage
      <3>. QED  BY <1>0, <1>1, <1>3, <3>1, LeadDeskOnly DEF ConvertStage
    <2>. QED  BY <2>4, <2>5
  <1>4. CASE ConvertLink(d)
    <2>1. ljob[d] \in LinkJob /\ ljob[d].booking \in 1 .. drafts /\ (leadRaced \/ lead.stage = "won")
      BY <1>0, <1>4 DEF ConvertLink, LeadJob, Free, EditJob, StageJob, DeleteJob, WalkJob
    <2>. DEFINE c == [lead EXCEPT !.booking = ljob[d].booking]
                t == [op |-> "edit", seen |-> lead, copy |-> c]
    <2>2. CASE ~lead.deleted
      <3>1. ljob' = [ljob EXCEPT ![d] = t]
        BY <1>4, <2>2 DEF ConvertLink
      <3>2. c \in LeadRow /\ CopyFits(c, drafts, leadRaced) /\ c.stage = lead.stage /\ lead \in LeadRow
        BY <2>1, <2>2, LeadEdited, LeadRead
      <3>3. LeadJob(t, drafts, lead.stage, leadRaced)
        <4>. HIDE DEF c
        <4>. QED  BY <3>2 DEF LeadJob, EditJob
      <3>. HIDE DEF t
      <3>. QED  BY <1>0, <1>4, <3>1, <3>3, LeadDeskOnly DEF ConvertLink
    <2>3. CASE lead.deleted
      <3>1. ljob' = [ljob EXCEPT ![d] = Free]
        BY <1>4, <2>3 DEF ConvertLink
      <3>. QED  BY <1>0, <1>1, <1>4, <3>1, LeadDeskOnly DEF ConvertLink
    <2>. QED  BY <2>2, <2>3
  <1>5. CASE CreateDraftFromLead(d)
    <2>1. ljob[d] \in WalkJob /\ (leadRaced \/ lead.stage = "won")
      BY <1>0, <1>5 DEF CreateDraftFromLead, LeadJob, Free, EditJob, StageJob, DeleteJob, LinkJob
    <2>. DEFINE t == [op |-> "link", booking |-> drafts + 1]
    <2>2. LeadJob(t, drafts + 1, lead.stage, leadRaced)
      BY <1>0, <2>1 DEF LeadJob, LinkJob
    <2>3. ljob' = [ljob EXCEPT ![d] = t] /\ drafts' = drafts + 1 /\ UNCHANGED <<lead, trail, follow, begun, leadRaced>>
      BY <1>5 DEF CreateDraftFromLead
    <2>. HIDE DEF t
    <2>4. LeadJobs([ljob EXCEPT ![d] = t], drafts + 1, lead.stage, leadRaced)
      BY <1>0, <2>2, OneLeadDesk DEF LeadInv
    <2>5. lead.booking \in 0 .. drafts'
      BY <1>0, <2>3 DEF LeadInv, LeadTypeOK
    <2>. QED  BY <1>0, <2>3, <2>4, <2>5 DEF LeadInv, LeadTypeOK, LeadRowConsistent, IsOpen, HistoryMatchesStage, TasksFollowDeletion
  <1>. QED  BY <1>2, <1>3, <1>4, <1>5

(* The writes.  Only a copy of the row as it is leaves history and stage   *)
(* agreeing; that of a closed stage is none that moves it.                 *)
LEMMA CopyWritten ==
    ASSUME LeadInv, NEW seen \in LeadRow, NEW copy \in LeadRow, CopyFits(copy, drafts, leadRaced), UpdateLead(seen, copy),
           UNCHANGED <<follow, drafts, begun>>
    PROVE  /\ lead' \in LeadRow /\ lead'.booking \in 0 .. drafts' /\ leadRaced' \in BOOLEAN
           /\ LeadRowConsistent' /\ TasksFollowDeletion'
           /\ leadRaced' \/ (lead'.booking # 0 => lead'.stage = "won" /\ ~lead'.deleted)
           /\ leadRaced => leadRaced'
           /\ ~leadRaced' => lead = seen
  BY DEF LeadInv, UpdateLead, CopyFits, RowConsistent, LeadRowConsistent, IsOpen, TasksFollowDeletion

LEMMA Writes ==
    ASSUME LeadInv, NEW d \in Desks, WriteLead(d) \/ WriteStage(d) \/ WriteDelete(d)
    PROVE  LeadInv'
  <1>0. /\ LeadJob(ljob[d], drafts, lead.stage, leadRaced) /\ drafts \in Nat /\ leadRaced \in BOOLEAN
        /\ trail \in Seq(AllStages) /\ begun \in 0 .. MaxLeadEdits /\ trail # <<>> /\ lead \in LeadRow /\ lead.booking \in 0 .. drafts
        /\ follow \in {"open", "done", "cancelled", "lead_deleted"}
        /\ LeadJobs(ljob, drafts, lead.stage, leadRaced)
    BY DEF LeadInv, LeadJobs, LeadTypeOK
  <1>1. CASE WriteLead(d)
    <2>1. ljob[d] \in EditJob /\ CopyFits(ljob[d].copy, drafts, leadRaced) /\ ljob[d].copy.stage = ljob[d].seen.stage
      BY <1>0, <1>1 DEF WriteLead, LeadJob, Free, StageJob, DeleteJob, WalkJob, LinkJob
    <2>2. ljob[d].seen \in LeadRow /\ ljob[d].copy \in LeadRow /\ UpdateLead(ljob[d].seen, ljob[d].copy)
          /\ UNCHANGED <<trail, follow, drafts, begun>> /\ ljob' = [ljob EXCEPT ![d] = Free]
      BY <1>1, <2>1 DEF WriteLead, EditJob
    <2>3. /\ lead' \in LeadRow /\ lead'.booking \in 0 .. drafts' /\ leadRaced' \in BOOLEAN
          /\ LeadRowConsistent' /\ TasksFollowDeletion'
          /\ leadRaced' \/ (lead'.booking # 0 => lead'.stage = "won" /\ ~lead'.deleted)
          /\ leadRaced => leadRaced'
          /\ ~leadRaced' => lead = ljob[d].seen
      BY <2>1, <2>2, CopyWritten
    <2>4. lead' = ljob[d].copy
      BY <2>2 DEF UpdateLead
    <2>5. LeadJobs([ljob EXCEPT ![d] = Free], drafts, lead'.stage, leadRaced')
      <3>1. LeadJob(Free, drafts, lead'.stage, leadRaced')
        BY DEF LeadJob
      <3>2. lead.stage = "won" => leadRaced' \/ lead'.stage = "won"
        BY <2>1, <2>3, <2>4
      <3>3. drafts >= drafts
        BY <1>0
      <3>. QED  BY <1>0, <2>3, <3>1, <3>2, <3>3, OneLeadDesk
    <2>6. HistoryMatchesStage'
      BY <2>1, <2>2, <2>3, <2>4 DEF LeadInv, HistoryMatchesStage
    <2>. QED  BY <1>0, <2>2, <2>3, <2>5, <2>6 DEF LeadInv, LeadTypeOK
  <1>2. CASE WriteStage(d)
    <2>1. /\ ljob[d] \in StageJob /\ CopyFits(ljob[d].copy, drafts, leadRaced) /\ CanTransition(ljob[d].seen.stage, ljob[d].copy.stage)
          /\ (ljob[d].then /\ ljob[d].path = <<>>) => ljob[d].copy.stage = "won"
      BY <1>0, <1>2 DEF WriteStage, LeadJob, Free, EditJob, DeleteJob, WalkJob, LinkJob
    <2>. DEFINE t == IF ljob[d].then THEN [op |-> "walk", path |-> ljob[d].path] ELSE Free
    <2>2. ljob[d].seen \in LeadRow /\ ljob[d].copy \in LeadRow /\ UpdateLead(ljob[d].seen, ljob[d].copy)
          /\ UNCHANGED <<follow, drafts, begun>> /\ ljob' = [ljob EXCEPT ![d] = t] /\ trail' = Append(trail, ljob[d].copy.stage)
          /\ ljob[d].path \in {<<>>, <<"won">>}
      BY <1>2, <2>1 DEF WriteStage, StageJob, AppendStageHistory
    <2>3. /\ lead' \in LeadRow /\ lead'.booking \in 0 .. drafts' /\ leadRaced' \in BOOLEAN
          /\ LeadRowConsistent' /\ TasksFollowDeletion'
          /\ leadRaced' \/ (lead'.booking # 0 => lead'.stage = "won" /\ ~lead'.deleted)
          /\ leadRaced => leadRaced'
          /\ ~leadRaced' => lead = ljob[d].seen
      BY <2>1, <2>2, CopyWritten
    <2>4. lead' = ljob[d].copy
      BY <2>2 DEF UpdateLead
    <2>5. LeadJobs([ljob EXCEPT ![d] = t], drafts, lead'.stage, leadRaced')
      <3>1. LeadJob(t, drafts, lead'.stage, leadRaced')
        BY <2>1, <2>2, <2>4 DEF LeadJob, WalkJob, WalkRest
      <3>2. lead.stage = "won" => leadRaced' \/ lead'.stage = "won"
        <4>1. ljob[d].seen.stage # "won"
          BY <2>1 DEF CanTransition, allowedTransitions, AllStages
        <4>. QED  BY <2>3, <4>1
      <3>3. drafts >= drafts
        BY <1>0
      <3>. HIDE DEF t
      <3>. QED  BY <1>0, <2>3, <3>1, <3>2, <3>3, OneLeadDesk
    <2>6. ljob[d].copy.stage \in AllStages
      BY <2>2 DEF LeadRow
    <2>7. trail' \in Seq(AllStages) /\ trail' # <<>> /\ trail'[Len(trail')] = lead'.stage
      BY <1>0, <2>2, <2>4, <2>6
    <2>8. HistoryMatchesStage'
      BY <2>3, <2>7 DEF HistoryMatchesStage
    <2>. HIDE DEF t
    <2>. QED  BY <1>0, <2>2, <2>3, <2>5, <2>7, <2>8 DEF LeadInv, LeadTypeOK
  <1>3. CASE WriteDelete(d)
    <2>1. ljob[d] \in DeleteJob /\ ljob[d].seen.booking = 0
      BY <1>0, <1>3 DEF WriteDelete, LeadJob, Free, EditJob, StageJob, WalkJob, LinkJob
    <2>2. /\ lead' = [lead EXCEPT !.deleted = TRUE] /\ ~lead.deleted
          /\ follow' = IF follow = "open" THEN "lead_deleted" ELSE follow
          /\ leadRaced' = (leadRaced \/ lead.booking # 0)
          /\ ljob' = [ljob EXCEPT ![d] = Free] /\ UNCHANGED <<trail, drafts, begun>>
      BY <1>3, <2>1 DEF WriteDelete, SoftDelete
    <2>3. lead' \in LeadRow /\ lead'.stage = lead.stage /\ lead'.booking = lead.booking /\ lead'.deleted
          /\ lead'.reason = lead.reason /\ lead'.noFollowUp = lead.noFollowUp
      BY <1>0, <2>2 DEF LeadRow
    <2>4. LeadJobs([ljob EXCEPT ![d] = Free], drafts, lead'.stage, leadRaced')
      <3>1. LeadJob(Free, drafts, lead'.stage, leadRaced')
        BY DEF LeadJob
      <3>2. drafts >= drafts /\ leadRaced' \in BOOLEAN /\ (leadRaced => leadRaced')
        BY <1>0, <2>2
      <3>. QED  BY <1>0, <2>3, <3>1, <3>2, OneLeadDesk
    <2>5. LeadRowConsistent' /\ HistoryMatchesStage' /\ TasksFollowDeletion'
      BY <1>0, <2>2, <2>3 DEF LeadInv, LeadRowConsistent, IsOpen, HistoryMatchesStage, TasksFollowDeletion
    <2>. QED  BY <1>0, <2>2, <2>3, <2>4, <2>5 DEF LeadInv, LeadTypeOK
  <1>. QED  BY <1>1, <1>2, <1>3

LEMMA Restored ==
    ASSUME LeadInv, NEW d \in Desks, RestoreLead(d)
    PROVE  LeadInv'
  <1>0. /\ LeadJobs(ljob, drafts, lead.stage, leadRaced) /\ begun \in 0 .. MaxLeadEdits /\ lead \in LeadRow /\ lead.booking \in 0 .. drafts
        /\ follow \in {"open", "done", "cancelled", "lead_deleted"}
    BY DEF LeadInv, LeadTypeOK
  <1>1. /\ lead.deleted /\ lead' = [lead EXCEPT !.deleted = FALSE]
        /\ follow' = IF follow = "lead_deleted" THEN "open" ELSE follow
        /\ begun' = begun + 1 /\ begun < MaxLeadEdits /\ UNCHANGED <<trail, drafts, ljob, leadRaced>>
    BY DEF RestoreLead, RestoreRow
  <1>2. lead' \in LeadRow /\ lead'.stage = lead.stage /\ lead'.booking = lead.booking /\ ~lead'.deleted
        /\ lead'.reason = lead.reason /\ lead'.noFollowUp = lead.noFollowUp
    BY <1>0, <1>1 DEF LeadRow
  <1>3. LeadRowConsistent' /\ HistoryMatchesStage' /\ TasksFollowDeletion'
    BY <1>0, <1>1, <1>2 DEF LeadInv, LeadRowConsistent, IsOpen, HistoryMatchesStage, TasksFollowDeletion
  <1>4. begun' \in 0 .. MaxLeadEdits
    BY <1>0, <1>1, LeadAssumption
  <1>. QED  BY <1>0, <1>1, <1>2, <1>3, <1>4 DEF LeadInv, LeadTypeOK

LEMMA LeadInvNext == LeadInv /\ LeadNext => LeadInv'
  <1>. SUFFICES ASSUME LeadInv, LeadNext PROVE LeadInv'
    OBVIOUS
  <1>1. ASSUME NEW s \in {"done", "cancelled"}, CloseFollow(s) PROVE LeadInv'
    BY <1>1 DEF CloseFollow, LeadInv, LeadTypeOK, LeadRowConsistent, IsOpen, HistoryMatchesStage, TasksFollowDeletion
  <1>. QED  BY <1>1, Reads, Walks, Writes, Restored, Zenon DEF LeadNext

-----------------------------------------------------------------------------
(* The registry: passports, merges, erasures and companions.               *)
(* What the registry keeps of a customer: the passport written last, under *)
(* a key there has been, and nothing of an erased one but what was written *)
(* after the erasure.                                                      *)
PassFits(pass, plain, key) ==
    /\ pass.key \in 0 .. key
    /\ pass.legacy # "" => pass.key = 0 /\ pass.hash = "" /\ NormalizePassport(pass.legacy) = plain
    /\ pass.legacy = "" => pass.value = plain /\ pass.hash = plain /\ (pass.key = 0 <=> plain = "")
RowFits(row, plain, edited, late, key) ==
    /\ row \in CustRow /\ PassFits(row.pass, plain, key)
    /\ row.anon => /\ ~edited => row.name = Placeholder /\ row.pass.legacy = "" /\ row.pass.key = 0
                   /\ ~late => ~row.active \/ row.merged # NoRow

(* What a desk has read of rows that are there.                            *)
EditRead(t, table, late) ==
    /\ t.op = "update" => /\ t.id \in CustIds /\ table[t.id] \in CustRow /\ t.name \in CustNames /\ t.active \in BOOLEAN
                          /\ t.anon \in BOOLEAN /\ t.passport \in Passports \cup {"p 1"}
                          /\ t.anon => ~t.active \/ t.id \in late
    /\ t.op = "merge" => /\ t.from \in CustIds /\ t.to \in CustIds /\ t.from # t.to
                         /\ table[t.from] \in CustRow /\ table[t.to] \in CustRow
    /\ t.op = "reseal" => /\ t.id \in CustIds /\ table[t.id] \in CustRow
                          /\ t.was \in StoredPassport /\ (t.was.legacy # "" \/ t.was.key # 0)
    /\ t.op \in {"free", "update", "merge", "reseal"}

(* Following the merges leaves every set of customers.                     *)
MergesEnd(table) == \A S \in (SUBSET Present(table)) \ {{}} : \E i \in S : table[i].merged \notin S

RowsFit(table, seen, key) ==
    /\ table = [i \in CustIds |-> table[i]]
    /\ \A i \in CustIds : table[i] # NoRow => RowFits(table[i], seen.passport[i], i \in seen.edited, i \in seen.late, key)
    /\ ~seen.crossed => MergesEnd(table)
EditsRead(desk, table, late) ==
    desk = [d \in Desks |-> desk[d]] /\ \A d \in Desks : EditRead(desk[d], table, late)
SeenFits(seen) ==
    seen \in [passport : [CustIds -> Passports], edited : SUBSET CustIds, late : SUBSET CustIds, merged : SUBSET CustIds, crossed : BOOLEAN]

RegInv ==
    /\ RowsFit(custs, custSeen, activeKey) /\ SeenFits(custSeen)
    /\ EditsRead(custDesk, custs, custSeen.late)
    /\ companions \subseteq CustIds \X CustIds /\ CompanionsMutual
    /\ custBookings \in [{1} -> [cust : CustIds \cup {NoRow}, closed : BOOLEAN]]
    /\ custWork \in 0 .. MaxCustWork /\ activeKey \in 1 .. LastKey
    /\ custAnswer.op \in {"free", "names", "mask", "national", "secrets"}

LEMMA RegInitHolds == CustomersInit => RegInv
  <1>. SUFFICES ASSUME CustomersInit PROVE RegInv
    OBVIOUS
  <1>1. /\ custs = [i \in CustIds |-> NoRow] /\ companions = {} /\ custBookings = [b \in {1} |-> [cust |-> NoRow, closed |-> FALSE]]
        /\ custWork = 0 /\ activeKey = 1 /\ custDesk = [d \in Desks |-> Free] /\ custAnswer = Free
        /\ custSeen = [passport |-> [i \in CustIds |-> ""], edited |-> {}, late |-> {}, merged |-> {}, crossed |-> FALSE]
    BY DEF CustomersInit
  <1>2. SeenFits(custSeen)
    BY <1>1 DEF SeenFits, Passports
  <1>3. RowsFit(custs, custSeen, activeKey)
    <2>1. Present(custs) = {}
      BY <1>1 DEF Present
    <2>. QED  BY <1>1, <2>1 DEF RowsFit, MergesEnd
  <1>4. EditsRead(custDesk, custs, custSeen.late)
    BY <1>1 DEF EditsRead, EditRead, Free
  <1>5. CompanionsMutual
    BY <1>1 DEF CompanionsMutual
  <1>6. custBookings \in [{1} -> [cust : CustIds \cup {NoRow}, closed : BOOLEAN]]
    BY <1>1
  <1>7. custWork \in 0 .. MaxCustWork /\ activeKey \in 1 .. LastKey
    <2>1. custWork = 0 /\ activeKey = 1
      BY <1>1
    <2>. QED  BY <2>1, CustomersAssumption
  <1>9. companions \subseteq CustIds \X CustIds
    BY <1>1
  <1>8. custAnswer.op = "free"
    BY <1>1 DEF Free
  <1>. QED  BY <1>2, <1>3, <1>4, <1>5, <1>6, <1>7, <1>8, <1>9 DEF RegInv

LEMMA RegStays == RegInv /\ UNCHANGED customerVars => RegInv'
  BY DEF RegInv, customerVars, registryVars, CompanionsMutual

-----------------------------------------------------------------------------
(* What sealing and opening keep.                                          *)
LEMMA KeyRange ==
    ASSUME NEW n \in Nat, NEW k \in 1 .. n
    PROVE  k \in Nat /\ k # 0 /\ k \in 0 .. k /\ 0 \in 0 .. k
  OBVIOUS

LEMMA Sealed ==
    ASSUME NEW p \in Passports \cup {"p 1"}, activeKey \in 1 .. LastKey, LastKey \in Nat
    PROVE  SealPassport(p) \in StoredPassport /\ PassFits(SealPassport(p), NormalizePassport(p), activeKey)
  <1>. DEFINE n == NormalizePassport(p)
  <1>1. n \in Passports
    BY DEF NormalizePassport, Passports
  <1>2. SealPassport(p) = [legacy |-> "", key |-> IF n = "" THEN 0 ELSE activeKey, value |-> n, hash |-> n]
    BY DEF SealPassport
  <1>. HIDE DEF n
  <1>3. \A x \in Passports : LET s == [legacy |-> "", key |-> IF x = "" THEN 0 ELSE activeKey, value |-> x, hash |-> x]
                             IN  s \in StoredPassport /\ PassFits(s, x, activeKey)
    <2>1. \A x \in Passports, k \in Nat :
            (k \in 0 .. activeKey /\ (k = 0 <=> x = "")) =>
              LET s == [legacy |-> "", key |-> k, value |-> x, hash |-> x] IN s \in StoredPassport /\ PassFits(s, x, activeKey)
      BY DEF StoredPassport, PassFits
    <2>. SUFFICES ASSUME NEW x \in Passports
         PROVE  LET s == [legacy |-> "", key |-> IF x = "" THEN 0 ELSE activeKey, value |-> x, hash |-> x]
                IN  s \in StoredPassport /\ PassFits(s, x, activeKey)
      OBVIOUS
    <2>0. activeKey \in Nat /\ activeKey # 0 /\ activeKey \in 0 .. activeKey /\ 0 \in 0 .. activeKey
      BY KeyRange
    <2>2. CASE x = ""
      BY <2>0, <2>1, <2>2
    <2>3. CASE x # ""
      BY <2>0, <2>1, <2>3
    <2>. QED  BY <2>2, <2>3
  <1>. QED  BY <1>1, <1>2, <1>3 DEF n

LEMMA Opened ==
    ASSUME NEW pass \in StoredPassport, NEW plain \in Passports, NEW key, PassFits(pass, plain, key)
    PROVE  OpenPassport(pass) \in Passports \cup {"p 1"} /\ NormalizePassport(OpenPassport(pass)) = plain
  <1>1. CASE pass.legacy # ""
    BY <1>1 DEF OpenPassport, PassFits, StoredPassport, Passports
  <1>2. CASE pass.legacy = "" /\ pass.key = 0
    BY <1>2 DEF OpenPassport, PassFits, StoredPassport, Passports, NormalizePassport
  <1>3. CASE pass.legacy = "" /\ pass.key # 0
    BY <1>3 DEF OpenPassport, PassFits, StoredPassport, Passports, NormalizePassport
  <1>. QED  BY <1>1, <1>2, <1>3

LEMMA PassportTyped ==
    ASSUME NEW kept \in Passports \cup {"p 1"}, NEW p \in PassportInputs
    PROVE  PassportUpdate(kept, p) \in Passports \cup {"p 1"}
  BY DEF PassportUpdate, PassportInputs, IsMaskedPassport, NormalizePassport, Passports

(* What the invariant says is what the run checks.                         *)
LEMMA RegInvHolds ==
    RegInv => CustomersTypeOK /\ PassportKept /\ MergedStaysHidden /\ ErasedStaysErased /\ CompanionsMutual
  <1>. SUFFICES ASSUME RegInv
       PROVE  CustomersTypeOK /\ PassportKept /\ MergedStaysHidden /\ ErasedStaysErased /\ CompanionsMutual
    OBVIOUS
  <1>0. DOMAIN custs = CustIds
    BY DEF RegInv, RowsFit
  <1>1. \A i \in Present(custs) : i \in CustIds /\ custs[i] \in CustRow /\ custSeen.passport[i] \in Passports
                                  /\ RowFits(custs[i], custSeen.passport[i], i \in custSeen.edited, i \in custSeen.late, activeKey)
    BY <1>0 DEF RegInv, RowsFit, SeenFits, Present, RowFits
  <1>2. \A i \in Present(custs) : custs[i].pass \in StoredPassport /\ PassFits(custs[i].pass, custSeen.passport[i], activeKey)
    BY <1>1 DEF RowFits, CustRow
  <1>3. CustomersTypeOK
    <2>1. \A i \in Present(custs) : custs[i].pass.key \in 0 .. activeKey
      BY <1>2 DEF PassFits
    <2>2. \A i \in Present(custs) : custs[i] \in CustRow /\ custs[i].pass.key <= activeKey
      BY <1>1, <2>1 DEF RegInv
    <2>3. \A d \in Desks : custDesk[d].op \in {"free", "update", "merge", "reseal"}
      BY DEF RegInv, EditsRead, EditRead
    <2>4. \A b \in DOMAIN custBookings : custBookings[b].cust \in CustIds \cup {NoRow}
      BY DEF RegInv
    <2>. QED  BY <2>1, <2>2, <2>3, <2>4 DEF RegInv, CustomersTypeOK
  <1>4. PassportKept
    <2>. SUFFICES ASSUME NEW i \in Present(custs)
         PROVE  /\ NormalizePassport(OpenPassport(custs[i].pass)) = custSeen.passport[i]
                /\ (custSeen.passport[i] # "" /\ Searchable(i)) => i \in FindByPassport(custSeen.passport[i])
      BY DEF PassportKept
    <2>1. NormalizePassport(OpenPassport(custs[i].pass)) = custSeen.passport[i]
      BY <1>1, <1>2, Opened
    <2>2. NormalizePassport(custSeen.passport[i]) = custSeen.passport[i]
      BY <1>1 DEF NormalizePassport, Passports
    <2>3. custs[i].pass.hash = custSeen.passport[i] \/ NormalizePassport(custs[i].pass.legacy) = custSeen.passport[i]
      BY <1>2 DEF PassFits
    <2>. QED  BY <1>1, <2>1, <2>2, <2>3 DEF FindByPassport, HashPassport
  <1>5. ErasedStaysErased
    <2>. SUFFICES ASSUME NEW i \in Present(custs), custs[i].anon
         PROVE  /\ i \notin custSeen.edited => (custs[i].name = Placeholder /\ OpenPassport(custs[i].pass) = "" /\ custs[i].pass.hash = "")
                /\ i \notin custSeen.late => i \notin SearchCustomers(FALSE)
      BY DEF ErasedStaysErased
    <2>1. i \notin custSeen.edited => custs[i].name = Placeholder /\ custs[i].pass.legacy = "" /\ custs[i].pass.key = 0
      BY <1>1 DEF RowFits
    <2>2. i \notin custSeen.late => ~Searchable(i)
      BY <1>1 DEF RowFits, Searchable
    <2>3. (custs[i].pass.legacy = "" /\ custs[i].pass.key = 0) => OpenPassport(custs[i].pass) = "" /\ custs[i].pass.hash = ""
      BY <1>2 DEF PassFits, OpenPassport
    <2>. QED  BY <2>1, <2>2, <2>3 DEF SearchCustomers
  <1>6. MergedStaysHidden
    <2>1. \A i \in Present(custs) : custs[i].merged # NoRow => ~Searchable(i)
      BY DEF Searchable
    <2>2. \A i \in Present(custs) : custs[i].merged # NoRow =>
            \A name \in CustNames, p \in Passports : i \notin SearchCustomers(FALSE) \cup FindDuplicates(name, p)
      BY <2>1 DEF SearchCustomers, FindDuplicates, FindByPassport, FindNameCandidates
    <2>. QED  BY <2>2 DEF MergedStaysHidden, RegInv, RowsFit, MergesEnd
  <1>. QED  BY <1>3, <1>4, <1>5, <1>6 DEF RegInv

-----------------------------------------------------------------------------
(* A step of the registry.  What a desk has read stays read: rows remain,  *)
(* and late edits are not forgotten.                                       *)
LEMMA ReadKept ==
    ASSUME NEW t, NEW table, NEW after, NEW late, NEW later, EditRead(t, table, late), late \subseteq later,
           \A i \in CustIds : table[i] \in CustRow => after[i] \in CustRow
    PROVE  EditRead(t, after, later)
  BY DEF EditRead

LEMMA OneEditDesk ==
    ASSUME NEW d \in Desks, NEW t, NEW desk, NEW table, NEW after, NEW late, NEW later, EditsRead(desk, table, late),
           late \subseteq later, \A i \in CustIds : table[i] \in CustRow => after[i] \in CustRow, EditRead(t, after, later)
    PROVE  EditsRead([desk EXCEPT ![d] = t], after, later)
  <1>. DEFINE new == [desk EXCEPT ![d] = t]
  <1>1. new = [e \in Desks |-> IF e = d THEN t ELSE desk[e]]
    BY DEF EditsRead
  <1>2. \A e \in Desks : EditRead(desk[e], after, later)
    BY ReadKept DEF EditsRead
  <1>. QED  BY <1>1, <1>2 DEF EditsRead

LEMMA FreeRead ==
    ASSUME NEW table, NEW late
    PROVE  EditRead(Free, table, late)
  BY DEF EditRead, Free

(* One row is written that fits, and its merge is the old one.             *)
LEMMA RegRowWritten ==
    ASSUME NEW table, NEW seen, NEW after, NEW key, RowsFit(table, seen, key), SeenFits(seen), NEW id \in CustIds, NEW row,
           RowFits(row, after.passport[id], id \in after.edited, id \in after.late, key),
           \A i \in CustIds \ {id} : after.passport[i] = seen.passport[i] /\ (i \in after.edited <=> i \in seen.edited)
                                     /\ (i \in after.late <=> i \in seen.late),
           ~after.crossed => ~seen.crossed,
           row.merged = IF table[id] = NoRow THEN NoRow ELSE table[id].merged
    PROVE  /\ RowsFit([table EXCEPT ![id] = row], after, key)
           /\ \A i \in CustIds : table[i] \in CustRow => [table EXCEPT ![id] = row][i] \in CustRow
  <1>. DEFINE new == [table EXCEPT ![id] = row]
  <1>1. new = [i \in CustIds |-> IF i = id THEN row ELSE table[i]]
    BY DEF RowsFit
  <1>2. \A i \in CustIds : new[i] # NoRow => RowFits(new[i], after.passport[i], i \in after.edited, i \in after.late, key)
    BY <1>1 DEF RowsFit
  <1>3. ASSUME ~after.crossed PROVE MergesEnd(new)
    <2>. SUFFICES ASSUME NEW S \in SUBSET Present(new), S # {} PROVE \E i \in S : new[i].merged \notin S
      BY DEF MergesEnd
    <2>0. S \subseteq CustIds
      BY <1>1 DEF Present
    <2>1. CASE id \in S /\ table[id] = NoRow
      <3>1. new[id].merged = NoRow
        BY <1>1, <2>1
      <3>. QED  BY <2>0, <2>1, <3>1, CustomersAssumption
    <2>2. CASE ~(id \in S /\ table[id] = NoRow)
      <3>1. S \subseteq Present(table)
        BY <1>1, <2>0, <2>2 DEF Present, RowsFit
      <3>2. PICK i \in S : table[i].merged \notin S
        BY <1>3, <3>1 DEF RowsFit, MergesEnd
      <3>3. new[i].merged = table[i].merged
        BY <1>1, <2>0, <2>2
      <3>. QED  BY <3>2, <3>3
    <2>. QED  BY <2>1, <2>2
  <1>4. \A i \in CustIds : table[i] \in CustRow => new[i] \in CustRow
    BY <1>1 DEF RowFits
  <1>5. new = [i \in CustIds |-> new[i]]
    BY <1>1
  <1>. HIDE DEF new
  <1>6. RowsFit(new, after, key)
    BY <1>2, <1>3, <1>5 DEF RowsFit
  <1>. QED  BY <1>4, <1>6 DEF new

(* The other tables of the registry, when a step leaves companions alone.  *)
LEMMA RegRow ==
    ASSUME RegInv, NEW id \in CustIds, NEW row, custs' = [custs EXCEPT ![id] = row],
           RowFits(row, custSeen'.passport[id], id \in custSeen'.edited, id \in custSeen'.late, activeKey),
           \A i \in CustIds \ {id} : /\ custSeen'.passport[i] = custSeen.passport[i]
                                     /\ i \in custSeen'.edited <=> i \in custSeen.edited
                                     /\ i \in custSeen'.late <=> i \in custSeen.late,
           custSeen'.crossed = custSeen.crossed, custSeen'.merged = custSeen.merged, custSeen.late \subseteq custSeen'.late,
           SeenFits(custSeen'), row.merged = IF custs[id] = NoRow THEN NoRow ELSE custs[id].merged,
           custDesk' = custDesk \/ (\E d \in Desks : custDesk' = [custDesk EXCEPT ![d] = Free]),
           custWork' \in 0 .. MaxCustWork, companions' \subseteq companions, CompanionsMutual',
           UNCHANGED <<custBookings, activeKey, custAnswer>>
    PROVE  RegInv'
  <1>0. RowsFit(custs, custSeen, activeKey) /\ SeenFits(custSeen) /\ EditsRead(custDesk, custs, custSeen.late)
    BY DEF RegInv
  <1>1. /\ RowsFit([custs EXCEPT ![id] = row], custSeen', activeKey)
        /\ \A i \in CustIds : custs[i] \in CustRow => [custs EXCEPT ![id] = row][i] \in CustRow
    <2>1. \A i \in CustIds \ {id} : /\ custSeen'.passport[i] = custSeen.passport[i] /\ (i \in custSeen'.edited <=> i \in custSeen.edited)
                                    /\ (i \in custSeen'.late <=> i \in custSeen.late)
      OBVIOUS
    <2>2. ~custSeen'.crossed => ~custSeen.crossed
      OBVIOUS
    <2>. HIDE DEF RegInv
    <2>. QED  BY <1>0, <2>1, <2>2, RegRowWritten, Zenon
  <1>2. RowsFit(custs', custSeen', activeKey) /\ \A i \in CustIds : custs[i] \in CustRow => custs'[i] \in CustRow
    BY <1>1
  <1>3. EditsRead(custDesk', custs', custSeen'.late)
    <2>1. CASE custDesk' = custDesk
      <3>1. \A d \in Desks : EditRead(custDesk[d], custs', custSeen'.late)
        BY <1>0, <1>2, ReadKept DEF EditsRead
      <3>. QED  BY <1>0, <2>1, <3>1 DEF EditsRead
    <2>2. ASSUME NEW d \in Desks, custDesk' = [custDesk EXCEPT ![d] = Free] PROVE EditsRead(custDesk', custs', custSeen'.late)
      BY <1>0, <1>2, <2>2, FreeRead, OneEditDesk
    <2>. QED  BY <2>1, <2>2
  <1>. QED  BY <1>2, <1>3 DEF RegInv

(* A desk reads, or what it wrote was refused.                             *)
LEMMA RegRead ==
    ASSUME RegInv, NEW d \in Desks, NEW t, EditRead(t, custs, custSeen.late), custDesk' = [custDesk EXCEPT ![d] = t],
           custWork' \in 0 .. MaxCustWork, UNCHANGED <<custs, companions, custBookings, activeKey, custSeen, custAnswer>>
    PROVE  RegInv'
  <1>1. EditsRead([custDesk EXCEPT ![d] = t], custs, custSeen.late)
    BY OneEditDesk DEF RegInv
  <1>. QED  BY <1>1 DEF RegInv, CompanionsMutual

LEMMA RegWork ==
    ASSUME RegInv
    PROVE  (CustWork \/ UNCHANGED custWork) => custWork' \in 0 .. MaxCustWork
  BY CustomersAssumption DEF RegInv, CustWork

(* What was written of a passport, and of edits to erased rows.            *)
LEMMA SeenWritten ==
    ASSUME NEW seen, SeenFits(seen), NEW id \in CustIds, NEW p \in Passports
    PROVE  LET s == [seen EXCEPT !.passport[id] = p]
           IN  /\ SeenFits(s) /\ s.passport[id] = p /\ \A i \in CustIds \ {id} : s.passport[i] = seen.passport[i]
               /\ s.edited = seen.edited /\ s.late = seen.late /\ s.merged = seen.merged /\ s.crossed = seen.crossed
  BY DEF SeenFits

LEMMA Created ==
    ASSUME RegInv, NEW id \in Fresh(custs), NEW name \in CustNames, NEW stored \in StoredPassport, NEW p \in Passports,
           PassFits(stored, p, activeKey), custs' = [custs EXCEPT ![id] = NewCustomer(name, stored)],
           custSeen' = [custSeen EXCEPT !.passport[id] = p], CustWork,
           UNCHANGED <<companions, custBookings, activeKey, custDesk, custAnswer>>
    PROVE  RegInv'
  <1>. DEFINE row == NewCustomer(name, stored)
  <1>1. id \in CustIds /\ custs[id] = NoRow
    BY DEF Fresh, RegInv, RowsFit
  <1>2. row \in CustRow /\ ~row.anon /\ row.pass = stored /\ row.merged = NoRow
    BY DEF NewCustomer, CustRow
  <1>3. /\ SeenFits(custSeen') /\ custSeen'.passport[id] = p /\ \A i \in CustIds \ {id} : custSeen'.passport[i] = custSeen.passport[i]
        /\ custSeen'.edited = custSeen.edited /\ custSeen'.late = custSeen.late /\ custSeen'.merged = custSeen.merged
        /\ custSeen'.crossed = custSeen.crossed
    BY <1>1, SeenWritten DEF RegInv
  <1>. HIDE DEF row
  <1>4. RowFits(row, custSeen'.passport[id], id \in custSeen'.edited, id \in custSeen'.late, activeKey)
    BY <1>2, <1>3 DEF RowFits
  <1>5. custs' = [custs EXCEPT ![id] = row]
    BY DEF row
  <1>6. CompanionsMutual' /\ custWork' \in 0 .. MaxCustWork
    BY <1>3, RegWork DEF RegInv, CompanionsMutual
  <1>7. /\ row.merged = IF custs[id] = NoRow THEN NoRow ELSE custs[id].merged
        /\ \A i \in CustIds \ {id} : /\ custSeen'.passport[i] = custSeen.passport[i]
                                     /\ i \in custSeen'.edited <=> i \in custSeen.edited
                                     /\ i \in custSeen'.late <=> i \in custSeen.late
        /\ custSeen.late \subseteq custSeen'.late /\ companions' \subseteq companions
        /\ (custDesk' = custDesk \/ (\E d \in Desks : custDesk' = [custDesk EXCEPT ![d] = Free]))
    BY <1>1, <1>2, <1>3
  <1>. QED  BY <1>1, <1>3, <1>4, <1>5, <1>6, <1>7, RegRow

LEMMA RegCreates ==
    ASSUME RegInv, NEW names \in SUBSET CustNames, NEW passports \in SUBSET PassportInputs, UNCHANGED custAnswer,
           CreateCustomer(names, passports) \/ LegacyCustomer
    PROVE  RegInv'
  <1>0. activeKey \in 1 .. LastKey /\ LastKey \in Nat
    BY CustomersAssumption DEF RegInv
  <1>1. CASE CreateCustomer(names, passports)
    <2>1. PICK id \in Fresh(custs), name \in names, p \in passports \ {"none", "masked"} :
            /\ InsertCustomer(id, NewCustomer(name, SealPassport(p)))
            /\ custSeen' = [custSeen EXCEPT !.passport[id] = NormalizePassport(p)]
      BY <1>1 DEF CreateCustomer
    <2>2. p \in Passports \cup {"p 1"}
      BY DEF PassportInputs
    <2>3. NormalizePassport(p) \in Passports
      BY <2>2 DEF NormalizePassport, Passports
    <2>4. SealPassport(p) \in StoredPassport /\ PassFits(SealPassport(p), NormalizePassport(p), activeKey)
      BY <1>0, <2>2, Sealed
    <2>. QED  BY <1>1, <2>1, <2>3, <2>4, Created DEF CreateCustomer, InsertCustomer
  <1>2. CASE LegacyCustomer
    <2>. DEFINE Plain(p) == [legacy |-> p, key |-> 0, value |-> "", hash |-> ""]
    <2>1. PICK id \in Fresh(custs), p \in {"P1", "p 1"} :
            /\ InsertCustomer(id, NewCustomer("ann", Plain(p)))
            /\ custSeen' = [custSeen EXCEPT !.passport[id] = NormalizePassport(p)]
      BY <1>2 DEF LegacyCustomer
    <2>2. NormalizePassport(p) \in Passports /\ "ann" \in CustNames
      BY DEF NormalizePassport, Passports, CustNames
    <2>3. Plain(p) \in StoredPassport
      BY DEF StoredPassport, Passports
    <2>4. PassFits(Plain(p), NormalizePassport(p), activeKey)
      <3>1. 0 \in 0 .. activeKey
        BY <1>0, KeyRange
      <3>. QED  BY <3>1 DEF PassFits
    <2>. HIDE DEF Plain
    <2>. QED  BY <1>2, <2>1, <2>2, <2>3, <2>4, Created DEF LegacyCustomer, InsertCustomer
  <1>. QED  BY <1>1, <1>2

(* What is known of a row that is there, or that a desk has read.          *)
LEMMA RowThere ==
    ASSUME RegInv, NEW id \in CustIds, custs[id] # NoRow
    PROVE  /\ custs[id] \in CustRow /\ custSeen.passport[id] \in Passports /\ custs[id].pass \in StoredPassport
           /\ RowFits(custs[id], custSeen.passport[id], id \in custSeen.edited, id \in custSeen.late, activeKey)
           /\ PassFits(custs[id].pass, custSeen.passport[id], activeKey)
  <1>1. RowFits(custs[id], custSeen.passport[id], id \in custSeen.edited, id \in custSeen.late, activeKey)
    BY DEF RegInv, RowsFit
  <1>2. custSeen.passport[id] \in Passports
    BY DEF RegInv, SeenFits
  <1>. QED  BY <1>1, <1>2 DEF RowFits, CustRow

LEMMA RegUpdateRead ==
    ASSUME RegInv, NEW d \in Desks, NEW names \in SUBSET CustNames, NEW passports \in SUBSET PassportInputs,
           UpdateCustomerRead(d, names, passports), UNCHANGED custAnswer
    PROVE  RegInv'
  <1>1. PICK id \in CustIds, name \in names, p \in passports : \E row \in FindCustomer(id) :
            /\ row.merged = NoRow
            /\ custDesk' = [custDesk EXCEPT ![d] = [op |-> "update", id |-> id, name |-> name, active |-> row.active, anon |-> row.anon,
                                                    passport |-> PassportUpdate(OpenPassport(row.pass), p)]]
    BY Zenon DEF UpdateCustomerRead
  <1>. DEFINE row == custs[id]
              typed == PassportUpdate(OpenPassport(row.pass), p)
              t == [op |-> "update", id |-> id, name |-> name, active |-> row.active, anon |-> row.anon, passport |-> typed]
  <1>2. row # NoRow /\ row.merged = NoRow /\ custDesk' = [custDesk EXCEPT ![d] = t]
    BY <1>1 DEF FindCustomer
  <1>3. row \in CustRow /\ (row.anon => ~row.active \/ id \in custSeen.late) /\ typed \in Passports \cup {"p 1"}
    <2>1. /\ row \in CustRow /\ custSeen.passport[id] \in Passports /\ row.pass \in StoredPassport
          /\ RowFits(row, custSeen.passport[id], id \in custSeen.edited, id \in custSeen.late, activeKey)
          /\ PassFits(row.pass, custSeen.passport[id], activeKey)
      BY <1>2, RowThere
    <2>2. OpenPassport(row.pass) \in Passports \cup {"p 1"}
      BY <2>1, Opened
    <2>3. row.anon => ~row.active \/ id \in custSeen.late
      BY <1>2, <2>1 DEF RowFits
    <2>. QED  BY <2>1, <2>2, <2>3, PassportTyped
  <1>4. EditRead(t, custs, custSeen.late)
    <2>. HIDE DEF typed
    <2>. QED  BY <1>3 DEF EditRead, CustRow
  <1>5. custWork' \in 0 .. MaxCustWork
    BY RegWork DEF UpdateCustomerRead
  <1>. HIDE DEF t
  <1>. QED  BY <1>2, <1>4, <1>5, RegRead DEF UpdateCustomerRead

LEMMA RegUpdateWrite ==
    ASSUME RegInv, NEW d \in Desks, UpdateCustomerWrite(d), UNCHANGED custAnswer
    PROVE  RegInv'
  <1>. DEFINE t == custDesk[d]
              id == t.id
              old == custs[id]
              stored == SealPassport(t.passport)
              plain == NormalizePassport(t.passport)
              row == [old EXCEPT !.name = t.name, !.active = t.active, !.pass = stored]
  <1>1. /\ id \in CustIds /\ old \in CustRow /\ t.name \in CustNames /\ t.active \in BOOLEAN
        /\ t.anon \in BOOLEAN /\ t.passport \in Passports \cup {"p 1"} /\ (t.anon => ~t.active \/ id \in custSeen.late)
    BY DEF UpdateCustomerWrite, RegInv, EditsRead, EditRead
  <1>2. /\ custs' = [custs EXCEPT ![id] = row] /\ custDesk' = [custDesk EXCEPT ![d] = Free]
        /\ custSeen' = [custSeen EXCEPT !.passport[id] = plain,
                          !.edited = IF old.anon THEN @ \cup {id} ELSE @, !.late = IF old.anon /\ ~t.anon THEN @ \cup {id} ELSE @]
        /\ UNCHANGED <<companions, custBookings, custWork, activeKey>>
    BY DEF UpdateCustomerWrite, InsertCustomer
  <1>3. stored \in StoredPassport /\ PassFits(stored, plain, activeKey) /\ plain \in Passports
    <2>1. activeKey \in 1 .. LastKey /\ LastKey \in Nat
      BY CustomersAssumption DEF RegInv
    <2>. QED  BY <1>1, <2>1, Sealed DEF NormalizePassport, Passports
  <1>4. custs = [i \in CustIds |-> custs[i]] /\ SeenFits(custSeen) /\ (old # NoRow => old.anon \in BOOLEAN)
    BY <1>1 DEF RegInv, RowsFit, CustRow
  <1>5. /\ SeenFits(custSeen') /\ custSeen'.passport[id] = plain /\ custSeen.late \subseteq custSeen'.late
        /\ \A i \in CustIds \ {id} : /\ custSeen'.passport[i] = custSeen.passport[i]
                                     /\ i \in custSeen'.edited <=> i \in custSeen.edited
                                     /\ i \in custSeen'.late <=> i \in custSeen.late
        /\ custSeen'.crossed = custSeen.crossed /\ custSeen'.merged = custSeen.merged
        /\ old.anon => id \in custSeen'.edited /\ (~t.anon => id \in custSeen'.late)
    <2>. HIDE DEF id, old, plain, t
    <2>. QED  BY <1>1, <1>2, <1>3, <1>4 DEF SeenFits
  <1>6. row \in CustRow /\ row.anon = old.anon /\ row.pass = stored /\ row.active = t.active /\ row.merged = old.merged
    <2>. HIDE DEF old, stored, t
    <2>. QED  BY <1>1, <1>3 DEF CustRow
  <1>7. RowFits(row, custSeen'.passport[id], id \in custSeen'.edited, id \in custSeen'.late, activeKey)
    <2>. HIDE DEF row, old, stored, plain, id
    <2>. QED  BY <1>1, <1>3, <1>5, <1>6 DEF RowFits
  <1>8. old # NoRow
    BY <1>1, CustomersAssumption
  <1>9. CompanionsMutual' /\ custWork' \in 0 .. MaxCustWork
    BY <1>2, <1>5 DEF RegInv, CompanionsMutual
  <1>. HIDE DEF row, plain, stored, id
  <1>. QED  BY <1>1, <1>2, <1>5, <1>6, <1>7, <1>8, <1>9, RegRow

LEMMA ErasedRow ==
    ASSUME NEW old \in CustRow
    PROVE  LET row == Erased(old)
           IN  /\ row \in CustRow /\ row.name = Placeholder /\ ~row.active /\ row.merged = old.merged
               /\ row.pass = [legacy |-> "", key |-> 0, value |-> "", hash |-> ""]
               /\ row.pass.legacy = "" /\ row.pass.key = 0
  <1>1. [legacy |-> "", key |-> 0, value |-> "", hash |-> ""] \in StoredPassport
    BY DEF StoredPassport, Passports
  <1>. QED  BY <1>1 DEF Erased, CustRow

LEMMA Blank ==
    ASSUME NEW key, 0 \in 0 .. key
    PROVE  PassFits([legacy |-> "", key |-> 0, value |-> "", hash |-> ""], "", key)
  BY DEF PassFits

LEMMA RegAnonymized ==
    ASSUME RegInv, Anonymize, UNCHANGED custAnswer
    PROVE  RegInv'
  <1>1. PICK id \in CustIds : /\ custs[id] # NoRow /\ custs' = [custs EXCEPT ![id] = Erased(custs[id])]
                              /\ companions' = {p \in companions : id \notin {p[1], p[2]}}
                              /\ custSeen' = [custSeen EXCEPT !.passport[id] = "", !.edited = @ \ {id}]
    BY DEF Anonymize, AnonymizeRows, InsertCustomer, FindCustomer
  <1>. DEFINE old == custs[id]
              row == Erased(old)
  <1>2. old \in CustRow /\ old.pass \in StoredPassport
    BY <1>1, RowThere
  <1>3. row \in CustRow /\ row.name = Placeholder /\ ~row.active /\ row.merged = old.merged
        /\ row.pass = [legacy |-> "", key |-> 0, value |-> "", hash |-> ""]
        /\ row.pass.legacy = "" /\ row.pass.key = 0
    <2>. HIDE DEF old
    <2>. QED  BY <1>2, ErasedRow
  <1>4. PassFits(row.pass, "", activeKey)
    <2>1. 0 \in 0 .. activeKey
      BY KeyRange, CustomersAssumption DEF RegInv
    <2>2. PassFits([legacy |-> "", key |-> 0, value |-> "", hash |-> ""], "", activeKey)
      BY <2>1, Blank
    <2>. HIDE DEF row
    <2>. QED  BY <1>3, <2>2
  <1>5. SeenFits(custSeen)
    BY DEF RegInv
  <1>6. /\ SeenFits(custSeen') /\ custSeen'.passport[id] = "" /\ custSeen.late \subseteq custSeen'.late
        /\ \A i \in CustIds \ {id} : /\ custSeen'.passport[i] = custSeen.passport[i]
                                     /\ i \in custSeen'.edited <=> i \in custSeen.edited
                                     /\ i \in custSeen'.late <=> i \in custSeen.late
        /\ custSeen'.crossed = custSeen.crossed /\ custSeen'.merged = custSeen.merged
    BY <1>1, <1>5 DEF SeenFits, Passports
  <1>7. RowFits(row, custSeen'.passport[id], id \in custSeen'.edited, id \in custSeen'.late, activeKey)
    <2>. HIDE DEF row
    <2>2. PassFits(row.pass, custSeen'.passport[id], activeKey)
      BY <1>4, <1>6
    <2>. QED  BY <1>3, <2>2 DEF RowFits
  <1>8. CompanionsMutual' /\ companions' \subseteq companions
    <2>. SUFFICES ASSUME NEW p \in companions' PROVE p[1] # p[2] /\ (<<p[2], p[1]>> \in companions' \/ {p[1], p[2]} \cap custSeen'.merged # {})
      BY <1>1 DEF CompanionsMutual
    <2>1. p \in companions /\ id \notin {p[1], p[2]}
      BY <1>1
    <2>2. p[1] # p[2] /\ (<<p[2], p[1]>> \in companions \/ {p[1], p[2]} \cap custSeen.merged # {})
      BY <2>1 DEF RegInv, CompanionsMutual
    <2>. QED  BY <1>1, <1>6, <2>1, <2>2
  <1>9. custWork' \in 0 .. MaxCustWork /\ UNCHANGED <<custBookings, activeKey, custDesk>>
    BY RegWork DEF Anonymize
  <1>10. custs' = [custs EXCEPT ![id] = row] /\ row.merged = IF custs[id] = NoRow THEN NoRow ELSE custs[id].merged
    BY <1>1, <1>3
  <1>. HIDE DEF row
  <1>. QED  BY <1>6, <1>7, <1>8, <1>9, <1>10, RegRow

(* Keys only grow, so that what a key sealed was sealed by one there is.   *)
LEMMA RegRotated ==
    ASSUME RegInv, RotateKey, UNCHANGED custAnswer
    PROVE  RegInv'
  <1>1. activeKey \in 1 .. LastKey /\ activeKey' = activeKey + 1 /\ activeKey < LastKey
        /\ UNCHANGED <<custs, companions, custBookings, custWork, custDesk, custSeen>>
    BY DEF RotateKey, RegInv
  <1>2. activeKey' \in 1 .. LastKey
    BY <1>1, CustomersAssumption
  <1>3. \A pass, plain : PassFits(pass, plain, activeKey) => PassFits(pass, plain, activeKey')
    <2>1. \A k : k \in 0 .. activeKey => k \in 0 .. activeKey'
      BY <1>1, CustomersAssumption
    <2>. QED  BY <2>1 DEF PassFits
  <1>4. \A i \in CustIds : custs[i] # NoRow => RowFits(custs[i], custSeen.passport[i], i \in custSeen.edited, i \in custSeen.late, activeKey')
    <2>. SUFFICES ASSUME NEW i \in CustIds, custs[i] # NoRow
         PROVE  RowFits(custs[i], custSeen.passport[i], i \in custSeen.edited, i \in custSeen.late, activeKey')
      OBVIOUS
    <2>1. RowFits(custs[i], custSeen.passport[i], i \in custSeen.edited, i \in custSeen.late, activeKey)
      BY RowThere
    <2>. QED  BY <1>3, <2>1 DEF RowFits
  <1>5. RowsFit(custs, custSeen, activeKey')
    BY <1>4 DEF RegInv, RowsFit
  <1>. QED  BY <1>1, <1>2, <1>5 DEF RegInv, CompanionsMutual

-----------------------------------------------------------------------------
(* The backfill.  It writes only over what it read, so what it seals again *)
(* opens to the passport written last, and an erased row is not touched.   *)
LEMMA RegResealRead ==
    ASSUME RegInv, NEW d \in Desks, ResealRead(d), UNCHANGED custAnswer
    PROVE  RegInv'
  <1>1. PICK id \in Present(custs), rehash \in BOOLEAN :
            /\ NeedsSealing(custs[id].pass, rehash)
            /\ custDesk' = [custDesk EXCEPT ![d] = [op |-> "reseal", id |-> id, was |-> custs[id].pass]]
    BY DEF ResealRead
  <1>. DEFINE was == custs[id].pass
              t == [op |-> "reseal", id |-> id, was |-> was]
  <1>2. id \in CustIds /\ custs[id] # NoRow
    BY DEF Present, RegInv, RowsFit
  <1>3. custs[id] \in CustRow /\ was \in StoredPassport /\ (was.legacy # "" \/ was.key # 0)
    BY <1>1, <1>2, RowThere DEF NeedsSealing
  <1>4. EditRead(t, custs, custSeen.late)
    <2>. HIDE DEF was
    <2>. QED  BY <1>2, <1>3 DEF EditRead
  <1>5. custDesk' = [custDesk EXCEPT ![d] = t] /\ UNCHANGED <<custs, companions, custBookings, activeKey, custSeen>>
        /\ custWork' \in 0 .. MaxCustWork
    BY <1>1, RegWork DEF ResealRead
  <1>. HIDE DEF t
  <1>. QED  BY <1>4, <1>5, RegRead

LEMMA RegResealWrite ==
    ASSUME RegInv, NEW d \in Desks, ResealWrite(d), UNCHANGED custAnswer
    PROVE  RegInv'
  <1>. DEFINE t == custDesk[d]
              id == t.id
              old == custs[id]
              stored == SealPassport(OpenPassport(t.was))
              row == [old EXCEPT !.pass = stored]
  <1>1. id \in CustIds /\ old \in CustRow /\ t.was \in StoredPassport /\ (t.was.legacy # "" \/ t.was.key # 0)
    BY DEF ResealWrite, RegInv, EditsRead, EditRead
  <1>2. /\ IF ResealMatches(old.pass, t.was) THEN custs' = [custs EXCEPT ![id] = row] ELSE UNCHANGED custs
        /\ custDesk' = [custDesk EXCEPT ![d] = Free] /\ UNCHANGED <<companions, custBookings, custWork, activeKey, custSeen>>
    BY DEF ResealWrite, InsertCustomer
  <1>3. custWork' \in 0 .. MaxCustWork
    BY <1>2, RegWork
  <1>4. CASE ~ResealMatches(old.pass, t.was)
    <2>1. UNCHANGED custs
      BY <1>2, <1>4
    <2>. QED  BY <1>2, <1>3, <2>1, FreeRead, RegRead
  <1>5. CASE ResealMatches(old.pass, t.was)
    <2>1. old # NoRow
      BY <1>1, CustomersAssumption
    <2>2. /\ custSeen.passport[id] \in Passports /\ old.pass \in StoredPassport
          /\ RowFits(old, custSeen.passport[id], id \in custSeen.edited, id \in custSeen.late, activeKey)
          /\ PassFits(old.pass, custSeen.passport[id], activeKey)
      BY <1>1, <2>1, RowThere
    <2>3. OpenPassport(t.was) = OpenPassport(old.pass)
      BY <1>5 DEF ResealMatches, OpenPassport
    <2>4. OpenPassport(t.was) \in Passports \cup {"p 1"} /\ NormalizePassport(OpenPassport(t.was)) = custSeen.passport[id]
      BY <2>2, <2>3, Opened
    <2>5. stored \in StoredPassport /\ PassFits(stored, custSeen.passport[id], activeKey)
      <3>1. activeKey \in 1 .. LastKey /\ LastKey \in Nat
        BY CustomersAssumption DEF RegInv
      <3>2. SealPassport(OpenPassport(t.was)) \in StoredPassport
            /\ PassFits(SealPassport(OpenPassport(t.was)), NormalizePassport(OpenPassport(t.was)), activeKey)
        BY <2>4, <3>1, Sealed
      <3>. QED  BY <2>4, <3>2
    <2>6. old.anon => id \in custSeen.edited
      BY <1>1, <1>5, <2>2 DEF RowFits, ResealMatches
    <2>7. row \in CustRow /\ row.anon = old.anon /\ row.pass = stored /\ row.active = old.active /\ row.merged = old.merged
      <3>. HIDE DEF old, stored
      <3>. QED  BY <1>1, <2>5 DEF CustRow
    <2>8. RowFits(row, custSeen.passport[id], id \in custSeen.edited, id \in custSeen.late, activeKey)
      <3>. HIDE DEF row, old, stored, id
      <3>. QED  BY <2>2, <2>5, <2>6, <2>7 DEF RowFits
    <2>9. custs' = [custs EXCEPT ![id] = row]
      BY <1>2, <1>5
    <2>10. row.merged = IF custs[id] = NoRow THEN NoRow ELSE custs[id].merged
      BY <2>1, <2>7
    <2>11. CompanionsMutual' /\ SeenFits(custSeen')
      BY <1>2 DEF RegInv, CompanionsMutual
    <2>12. RowFits(row, custSeen'.passport[id], id \in custSeen'.edited, id \in custSeen'.late, activeKey)
      BY <1>2, <2>8
    <2>. HIDE DEF row, id
    <2>. QED  BY <1>1, <1>2, <1>3, <2>9, <2>10, <2>11, <2>12, RegRow
  <1>. QED  BY <1>4, <1>5

-----------------------------------------------------------------------------
(* Companions and merges.                                                  *)
LEMMA RegLinked ==
    ASSUME RegInv, LinkCompanion \/ UnlinkCompanion, UNCHANGED custAnswer
    PROVE  RegInv'
  <1>0. custWork' \in 0 .. MaxCustWork /\ UNCHANGED <<custs, custBookings, activeKey, custDesk, custSeen>>
    BY RegWork DEF LinkCompanion, UnlinkCompanion
  <1>1. \E c, e \in CustIds : /\ c # e
                              /\ companions' \in {companions \cup {<<c, e>>, <<e, c>>}, companions \ {<<c, e>>, <<e, c>>}}
    <2>1. CASE LinkCompanion
      <3>1. DOMAIN custs = CustIds
        BY DEF RegInv, RowsFit
      <3>. QED  BY <2>1, <3>1 DEF LinkCompanion, LinkRow, Present
    <2>2. CASE UnlinkCompanion
      <3>1. PICK c, e \in CustIds : {<<c, e>>, <<e, c>>} \cap companions # {} /\ companions' = companions \ {<<c, e>>, <<e, c>>}
        BY <2>2 DEF UnlinkCompanion
      <3>2. PICK p \in companions : p = <<c, e>> \/ p = <<e, c>>
        BY <3>1
      <3>3. p[1] # p[2]
        BY DEF RegInv, CompanionsMutual
      <3>4. c # e
        BY <3>2, <3>3
      <3>. QED  BY <3>1, <3>4
    <2>. QED  BY <2>1, <2>2
  <1>2. PICK c, e \in CustIds : /\ c # e
                                /\ companions' \in {companions \cup {<<c, e>>, <<e, c>>}, companions \ {<<c, e>>, <<e, c>>}}
    BY <1>1
  <1>3. companions \subseteq CustIds \X CustIds /\ CompanionsMutual
    BY DEF RegInv
  <1>4. companions' \subseteq CustIds \X CustIds
    BY <1>2, <1>3
  <1>5. CompanionsMutual'
    <2>. SUFFICES ASSUME NEW p \in companions' PROVE p[1] # p[2] /\ (<<p[2], p[1]>> \in companions' \/ {p[1], p[2]} \cap custSeen'.merged # {})
      BY DEF CompanionsMutual
    <2>0. p = <<p[1], p[2]>>
      BY <1>4
    <2>1. CASE p \in {<<c, e>>, <<e, c>>}
      <3>1. companions' = companions \cup {<<c, e>>, <<e, c>>}
        BY <1>2, <2>1
      <3>. QED  BY <1>2, <2>1, <3>1
    <2>2. CASE p \notin {<<c, e>>, <<e, c>>}
      <3>1. p \in companions
        BY <1>2, <2>2
      <3>2. p[1] # p[2] /\ (<<p[2], p[1]>> \in companions \/ {p[1], p[2]} \cap custSeen'.merged # {})
        BY <1>0, <1>3, <3>1 DEF CompanionsMutual
      <3>3. <<p[2], p[1]>> \notin {<<c, e>>, <<e, c>>}
        BY <2>0, <2>2
      <3>. QED  BY <1>2, <3>2, <3>3
    <2>. QED  BY <2>1, <2>2
  <1>. QED  BY <1>0, <1>4, <1>5 DEF RegInv

LEMMA RegBooked ==
    ASSUME RegInv, OpenBooking \/ CloseBooking, UNCHANGED custAnswer
    PROVE  RegInv'
  <1>0. DOMAIN custs = CustIds /\ custBookings \in [{1} -> [cust : CustIds \cup {NoRow}, closed : BOOLEAN]]
    BY DEF RegInv, RowsFit
  <1>1. custWork' \in 0 .. MaxCustWork /\ UNCHANGED <<custs, companions, activeKey, custDesk, custSeen>>
    BY RegWork DEF OpenBooking, CloseBooking
  <1>2. custBookings' \in [{1} -> [cust : CustIds \cup {NoRow}, closed : BOOLEAN]]
    <2>1. CASE OpenBooking
      <3>1. PICK b \in DOMAIN custBookings, c \in Present(custs) : custBookings' = [custBookings EXCEPT ![b] = [cust |-> c, closed |-> FALSE]]
        BY <2>1 DEF OpenBooking
      <3>2. c \in CustIds
        BY <1>0 DEF Present
      <3>. QED  BY <1>0, <3>1, <3>2
    <2>2. CASE CloseBooking
      <3>1. PICK b \in DOMAIN custBookings : custBookings' = [custBookings EXCEPT ![b].closed = TRUE]
        BY <2>2 DEF CloseBooking
      <3>. QED  BY <1>0, <3>1
    <2>. QED  BY <2>1, <2>2
  <1>. QED  BY <1>1, <1>2 DEF RegInv, CompanionsMutual

LEMMA RegMergeRead ==
    ASSUME RegInv, NEW d \in Desks, MergeRead(d), UNCHANGED custAnswer
    PROVE  RegInv'
  <1>1. PICK from, to \in Present(custs) : from # to /\ custDesk' = [custDesk EXCEPT ![d] = [op |-> "merge", from |-> from, to |-> to]]
    BY DEF MergeRead
  <1>. DEFINE t == [op |-> "merge", from |-> from, to |-> to]
  <1>2. from \in CustIds /\ to \in CustIds /\ custs[from] \in CustRow /\ custs[to] \in CustRow
    BY RowThere DEF Present, RegInv, RowsFit
  <1>3. EditRead(t, custs, custSeen.late)
    BY <1>1, <1>2 DEF EditRead
  <1>4. custDesk' = [custDesk EXCEPT ![d] = t] /\ UNCHANGED <<custs, companions, custBookings, activeKey, custSeen>>
        /\ custWork' \in 0 .. MaxCustWork
    BY <1>1, RegWork DEF MergeRead
  <1>. HIDE DEF t
  <1>. QED  BY <1>3, <1>4, RegRead

(* A merge into somebody who stands closes no circle.                      *)
LEMMA MergedRows ==
    ASSUME NEW table, NEW seen, NEW after, NEW key, RowsFit(table, seen, key), NEW from \in CustIds, NEW to \in CustIds, from # to,
           table[from] \in CustRow, table[to] \in CustRow,
           after.passport = seen.passport, after.edited = seen.edited, after.late = seen.late,
           after.crossed = (seen.crossed \/ table[to].merged # NoRow)
    PROVE  /\ RowsFit([table EXCEPT ![from] = [@ EXCEPT !.merged = to, !.active = FALSE]], after, key)
           /\ \A i \in CustIds : table[i] \in CustRow => [table EXCEPT ![from] = [@ EXCEPT !.merged = to, !.active = FALSE]][i] \in CustRow
  <1>. DEFINE old == table[from]
              row == [old EXCEPT !.merged = to, !.active = FALSE]
              new == [table EXCEPT ![from] = [@ EXCEPT !.merged = to, !.active = FALSE]]
  <1>1. new = [i \in CustIds |-> IF i = from THEN row ELSE table[i]]
    BY DEF RowsFit
  <1>2. row \in CustRow /\ row.merged = to /\ ~row.active /\ row.anon = old.anon /\ row.name = old.name /\ row.pass = old.pass
    <2>. HIDE DEF old
    <2>. QED  BY DEF CustRow, old
  <1>3. to # NoRow /\ old # NoRow
    BY CustomersAssumption
  <1>4. RowFits(row, seen.passport[from], from \in seen.edited, from \in seen.late, key)
    <2>1. RowFits(old, seen.passport[from], from \in seen.edited, from \in seen.late, key)
      BY <1>3 DEF RowsFit
    <2>. HIDE DEF old, row
    <2>. QED  BY <1>2, <1>3, <2>1 DEF RowFits
  <1>5. \A i \in CustIds : new[i] # NoRow => RowFits(new[i], after.passport[i], i \in after.edited, i \in after.late, key)
    <2>. HIDE DEF row, new
    <2>. QED  BY <1>1, <1>4 DEF RowsFit
  <1>6. ASSUME ~after.crossed PROVE MergesEnd(new)
    <2>. SUFFICES ASSUME NEW S \in SUBSET Present(new), S # {} PROVE \E i \in S : new[i].merged \notin S
      BY DEF MergesEnd
    <2>. HIDE DEF row, new
    <2>0. S \subseteq CustIds /\ MergesEnd(table) /\ table[to].merged = NoRow
      BY <1>1, <1>6 DEF Present, RowsFit
    <2>1. CASE from \in S /\ to \in S
      <3>1. new[to].merged = NoRow
        BY <1>1, <2>0
      <3>2. NoRow \notin S
        BY <2>0, CustomersAssumption
      <3>. QED  BY <2>1, <3>1, <3>2
    <2>2. CASE from \in S /\ to \notin S
      <3>1. new[from].merged = to
        BY <1>1, <1>2
      <3>. QED  BY <2>2, <3>1
    <2>3. CASE from \notin S
      <3>1. S \subseteq Present(table)
        BY <1>1, <2>0, <2>3 DEF Present, RowsFit
      <3>2. PICK i \in S : table[i].merged \notin S
        BY <2>0, <3>1 DEF MergesEnd
      <3>3. new[i].merged = table[i].merged
        BY <1>1, <2>0, <2>3
      <3>. QED  BY <3>2, <3>3
    <2>. QED  BY <2>1, <2>2, <2>3
  <1>7. new = [i \in CustIds |-> new[i]]
    BY <1>1
  <1>8. \A i \in CustIds : table[i] \in CustRow => new[i] \in CustRow
    <2>. HIDE DEF row, new
    <2>. QED  BY <1>1, <1>2
  <1>. HIDE DEF row, new
  <1>9. RowsFit(new, after, key)
    BY <1>5, <1>6, <1>7 DEF RowsFit
  <1>. QED  BY <1>8, <1>9 DEF new

(* The survivor takes over the links of the other, of which no half is     *)
(* left but on the side of a companion.                                    *)
Mutual(links, merged) == \A p \in links : p[1] # p[2] /\ (<<p[2], p[1]>> \in links \/ {p[1], p[2]} \cap merged # {})
LinksOf(links, c) == {e \in CustIds : <<c, e>> \in links}
TakenOver(links, from, to) ==
    (links \cup {<<to, e>> : e \in LinksOf(links, from)}) \ {<<from, e>> : e \in LinksOf(links, from)}

LEMMA LinksMoved ==
    ASSUME NEW links \in SUBSET (CustIds \X CustIds), NEW merged, NEW from \in CustIds, NEW to \in CustIds,
           \A e \in LinksOf(links, from) : LinkRow(to, e), Mutual(links, merged)
    PROVE  TakenOver(links, from, to) \subseteq CustIds \X CustIds /\ Mutual(TakenOver(links, from, to), merged \cup {from, to})
  <1>. DEFINE moved == LinksOf(links, from)
              after == TakenOver(links, from, to)
              now == merged \cup {from, to}
  <1>0. /\ moved = {e \in CustIds : <<from, e>> \in links}
        /\ after = (links \cup {<<to, e>> : e \in moved}) \ {<<from, e>> : e \in moved}
        /\ \A e \in moved : LinkRow(to, e)
        /\ \A p \in links : p[1] # p[2] /\ (<<p[2], p[1]>> \in links \/ {p[1], p[2]} \cap merged # {})
    BY DEF LinksOf, TakenOver, Mutual
  <1>. HIDE DEF moved, after
  <1>1. after \subseteq CustIds \X CustIds
    <2>. SUFFICES ASSUME NEW p \in after PROVE p \in CustIds \X CustIds
      OBVIOUS
    <2>1. CASE p \notin links
      <3>1. PICK e \in moved : p = <<to, e>>
        BY <1>0, <2>1
      <3>2. e \in CustIds
        BY <1>0
      <3>. QED  BY <3>1, <3>2
    <2>2. CASE p \in links
      BY <2>2
    <2>. QED  BY <2>1, <2>2
  <1>2. ASSUME NEW p \in after
        PROVE  p[1] # p[2] /\ (<<p[2], p[1]>> \in after \/ {p[1], p[2]} \cap now # {})
    <2>0. p = <<p[1], p[2]>> /\ p[1] \in CustIds /\ p[2] \in CustIds
      <3>1. p \in CustIds \X CustIds
        BY <1>1
      <3>. QED  BY <3>1
    <2>1. CASE p \notin links
      <3>1. PICK e \in moved : p = <<to, e>>
        BY <1>0, <2>1
      <3>2. to # e
        BY <1>0 DEF LinkRow
      <3>. QED  BY <3>1, <3>2
    <2>2. CASE p \in links
      <3>1. p[1] # p[2] /\ (<<p[2], p[1]>> \in links \/ {p[1], p[2]} \cap merged # {})
        BY <1>0, <2>2
      <3>2. CASE <<p[2], p[1]>> \in links /\ p[2] # from
        <4>1. <<p[2], p[1]>> \in after
          BY <1>0, <3>2
        <4>. QED  BY <3>1, <4>1
      <3>3. CASE ~(<<p[2], p[1]>> \in links /\ p[2] # from)
        BY <3>1, <3>3
      <3>. QED  BY <3>2, <3>3
    <2>. QED  BY <2>1, <2>2
  <1>3. Mutual(after, now)
    BY <1>2 DEF Mutual
  <1>. QED  BY <1>1, <1>3 DEF after

LEMMA RegMergeWrite ==
    ASSUME RegInv, NEW d \in Desks, MergeWrite(d), UNCHANGED custAnswer
    PROVE  RegInv'
  <1>. DEFINE from == custDesk[d].from
              to == custDesk[d].to
              moved == ListCompanions(from)
  <1>1. from \in CustIds /\ to \in CustIds /\ from # to /\ custs[from] \in CustRow /\ custs[to] \in CustRow
    BY DEF MergeWrite, RegInv, EditsRead, EditRead
  <1>2. custDesk' = [custDesk EXCEPT ![d] = Free] /\ UNCHANGED <<custWork, activeKey>>
    BY DEF MergeWrite
  <1>3. custWork' \in 0 .. MaxCustWork
    BY <1>2, RegWork
  <1>4. CASE ~(\A e \in moved : LinkRow(to, e))
    <2>1. UNCHANGED <<custs, companions, custBookings, custSeen>>
      BY <1>4 DEF MergeWrite
    <2>. QED  BY <1>2, <1>3, <2>1, FreeRead, RegRead
  <1>5. CASE \A e \in moved : LinkRow(to, e)
    <2>1. /\ custBookings' = ReassignBookings(from, to)
          /\ companions' = (companions \cup {<<to, e>> : e \in moved}) \ {<<from, e>> : e \in moved}
          /\ custs' = [custs EXCEPT ![from] = [@ EXCEPT !.merged = to, !.active = FALSE]]
          /\ custSeen' = [custSeen EXCEPT !.crossed = @ \/ custs[to].merged # NoRow, !.merged = @ \cup {from, to}]
      BY <1>5 DEF MergeWrite, MarkMerged
    <2>2. RowsFit(custs, custSeen, activeKey) /\ SeenFits(custSeen) /\ EditsRead(custDesk, custs, custSeen.late)
      BY DEF RegInv
    <2>3. /\ SeenFits(custSeen') /\ custSeen'.passport = custSeen.passport /\ custSeen'.edited = custSeen.edited
          /\ custSeen'.late = custSeen.late /\ custSeen'.crossed = (custSeen.crossed \/ custs[to].merged # NoRow)
          /\ custSeen'.merged = custSeen.merged \cup {from, to}
      <3>. HIDE DEF from, to
      <3>. QED  BY <1>1, <2>1, <2>2 DEF SeenFits
    <2>4. RowsFit(custs', custSeen', activeKey) /\ \A i \in CustIds : custs[i] \in CustRow => custs'[i] \in CustRow
      <3>. HIDE DEF from, to
      <3>1. /\ RowsFit([custs EXCEPT ![from] = [@ EXCEPT !.merged = to, !.active = FALSE]], custSeen', activeKey)
            /\ \A i \in CustIds : custs[i] \in CustRow => [custs EXCEPT ![from] = [@ EXCEPT !.merged = to, !.active = FALSE]][i] \in CustRow
        <4>. HIDE DEF RegInv, MergeWrite
        <4>. QED  BY <1>1, <2>2, <2>3, MergedRows, Zenon
      <3>. QED  BY <2>1, <3>1
    <2>5. EditsRead(custDesk', custs', custSeen'.late)
      BY <1>2, <2>2, <2>3, <2>4, FreeRead, OneEditDesk
    <2>6. companions' \subseteq CustIds \X CustIds /\ CompanionsMutual'
      <3>1. companions \in SUBSET (CustIds \X CustIds) /\ Mutual(companions, custSeen.merged)
        BY DEF RegInv, CompanionsMutual, Mutual
      <3>2. moved = LinksOf(companions, from)
        BY DEF ListCompanions, LinksOf
      <3>3. companions' = TakenOver(companions, from, to) /\ \A e \in LinksOf(companions, from) : LinkRow(to, e)
        BY <1>5, <2>1, <3>2 DEF TakenOver
      <3>. HIDE DEF from, to, moved
      <3>4. companions' \subseteq CustIds \X CustIds /\ Mutual(companions', custSeen'.merged)
        BY <1>1, <2>3, <3>1, <3>3, LinksMoved
      <3>. QED  BY <3>4 DEF CompanionsMutual, Mutual
    <2>7. custBookings' \in [{1} -> [cust : CustIds \cup {NoRow}, closed : BOOLEAN]]
      <3>1. custBookings \in [{1} -> [cust : CustIds \cup {NoRow}, closed : BOOLEAN]]
        BY DEF RegInv
      <3>. HIDE DEF from, to
      <3>. QED  BY <1>1, <2>1, <3>1 DEF ReassignBookings
    <2>. HIDE DEF from, to, moved
    <2>. QED  BY <1>2, <1>3, <2>3, <2>4, <2>5, <2>6, <2>7 DEF RegInv
  <1>. QED  BY <1>4, <1>5

LEMMA RegInvNext == RegInv /\ (RegistryNext \/ SealingNext \/ AskRegistry) => RegInv'
  <1>. SUFFICES ASSUME RegInv, RegistryNext \/ SealingNext \/ AskRegistry PROVE RegInv'
    OBVIOUS
  <1>0. CustNames \in SUBSET CustNames /\ {"ann"} \in SUBSET CustNames /\ {"bob"} \in SUBSET CustNames
        /\ {""} \in SUBSET PassportInputs /\ {"none"} \in SUBSET PassportInputs /\ PassportInputs \in SUBSET PassportInputs
    BY DEF CustNames, PassportInputs, Passports
  <1>1. CASE RegistryNext
    BY <1>0, <1>1, RegCreates, RegLinked, RegBooked, RegAnonymized, RegUpdateRead, RegUpdateWrite, RegMergeRead, RegMergeWrite, Zenon
    DEF RegistryNext
  <1>2. CASE SealingNext
    BY <1>0, <1>2, RegCreates, RegAnonymized, RegRotated, RegUpdateRead, RegUpdateWrite, RegResealRead, RegResealWrite, Zenon
    DEF SealingNext
  <1>3. CASE AskRegistry
    <2>1. UNCHANGED registryVars /\ \E q \in {"names", "mask", "national", "secrets"} : \E in, out : custAnswer' = [op |-> q, in |-> in, out |-> out]
      BY <1>3, Zenon DEF AskRegistry
    <2>. QED  BY <2>1 DEF registryVars, RegInv, CompanionsMutual
  <1>. QED  BY <1>1, <1>2, <1>3

-----------------------------------------------------------------------------
(* Imports: passes over a sheet that overlap, fail and die.                *)
(* Every row of the sheet is accounted for, and has its customer.          *)
SheetSize == Len(SheetRows)
JobRow == [mode : ImportModes, status : ImportStatuses, success : 0 .. SheetSize, failed : 0 .. SheetSize, skipped : 0 .. SheetSize]
Counted(row) == row.success + row.failed + row.skipped
Done(row, rows) == Counted(row) = SheetSize /\ (row.mode # "update" => \A p \in ImportPhones : rows[p] > 0)
(* A pass that stands at a row has counted those before, and none of their *)
(* phones is without a customer.                                           *)
Reached(t, rows) ==
    /\ Counted(t.row) = t.at - 1
    /\ t.row.mode # "update" => \A j \in 1 .. t.at - 1 : SheetRows[j] # "" => rows[SheetRows[j]] > 0

SheetEditJob == [op : {"write", "confirm"}, row : JobRow]
IdleJob == {Free} \cup [op : {"enqueue"}] \cup [op : {"process"}, worker : BOOLEAN]
StartJob == [op : {"start"}, worker : BOOLEAN, row : JobRow]
PassJob == [op : {"row", "create"}, worker : BOOLEAN, row : JobRow, at : 1 .. SheetSize + 1, errors : SUBSET (1 .. SheetSize)]
FinishJob == [op : {"finish"}, worker : BOOLEAN, row : JobRow]
ImportJob(t, rows) ==
    \/ t \in IdleJob
    \/ t \in SheetEditJob /\ t.row.status # "completed"
    \/ t \in StartJob /\ t.row.status = "processing" /\ Counted(t.row) = 0
    \/ /\ t \in PassJob /\ t.row.status = "processing" /\ Reached(t, rows)
       /\ t.op = "create" => t.at <= SheetSize /\ SheetRows[t.at] # ""
    \/ t \in FinishJob /\ t.row.status \in {"completed", "failed"} /\ (t.row.status = "completed" => Done(t.row, rows))

(* The passes about to create a customer of a phone.                       *)
Creating(desk, p) == {d \in Desks : desk[d].op = "create" /\ SheetRows[desk[d].at] = p}
ImportDesks(desk, rows) ==
    /\ desk = [d \in Desks |-> desk[d]] /\ \A d \in Desks : ImportJob(desk[d], rows)
    /\ \A p \in ImportPhones : rows[p] + Cardinality(Creating(desk, p)) <= Cardinality(Desks)
ImportedJob(row, known, rows) ==
    row # NoRow => row \in JobRow /\ (row.status = "completed" => Done(row, rows) /\ "completed" \in known)
ImportInv ==
    /\ ImportedJob(impJob, impTold, impCusts) /\ ImportDesks(impDesk, impCusts)
    /\ impErrors \subseteq 1 .. SheetSize /\ impCusts \in [ImportPhones -> Nat] /\ impQueue \in BOOLEAN
    /\ impTold \subseteq {"completed", "failed"}

LEMMA SheetTyped ==
    /\ SheetSize \in Nat /\ DOMAIN SheetRows = 1 .. SheetSize /\ IsFiniteSet(Desks) /\ Cardinality(Desks) \in Nat
    /\ \A j \in 1 .. SheetSize : SheetRows[j] # "" => SheetRows[j] \in ImportPhones
    /\ \A p \in ImportPhones : \E j \in 1 .. SheetSize : SheetRows[j] = p /\ p # ""
  <1>1. SheetSize \in Nat /\ DOMAIN SheetRows = 1 .. SheetSize
    BY ImportAssumption DEF SheetSize
  <1>2. IsFiniteSet(Desks) /\ Cardinality(Desks) \in Nat
    BY ImportAssumption, FS_CardinalityType
  <1>3. ImportPhones = {SheetRows[j] : j \in 1 .. SheetSize} \ {""}
    BY <1>1 DEF ImportPhones
  <1>. QED  BY <1>1, <1>2, <1>3, Zenon

LEMMA NothingCounted == 0 \in 0 .. SheetSize /\ 1 \in 1 .. SheetSize + 1 /\ {} \in SUBSET (1 .. SheetSize)
  <1>1. SheetSize \in Nat
    BY SheetTyped
  <1>. HIDE DEF SheetSize
  <1>. QED  BY <1>1

LEMMA CreatorsFinite ==
    ASSUME NEW desk, NEW p
    PROVE  IsFiniteSet(Creating(desk, p)) /\ Cardinality(Creating(desk, p)) \in Nat /\ Cardinality(Creating(desk, p)) <= Cardinality(Desks)
  <1>1. Creating(desk, p) \subseteq Desks
    BY DEF Creating
  <1>. QED  BY <1>1, SheetTyped, FS_Subset, FS_CardinalityType

(* A total that stays under a bound.                                       *)
LEMMA StaysUnder ==
    ASSUME NEW a \in Nat, NEW b \in Nat, NEW c \in Nat, NEW n \in Nat
    PROVE  /\ a + b <= n => a <= n
           /\ a + b <= n /\ c <= b => a + c <= n
           /\ a = 0 /\ c <= n => a + c <= n
  OBVIOUS

LEMMA ImportInitHolds == ImportInit => ImportInv
  <1>. SUFFICES ASSUME ImportInit PROVE ImportInv
    OBVIOUS
  <1>1. impDesk = [d \in Desks |-> Free] /\ impCusts = [p \in ImportPhones |-> 0]
    BY DEF ImportInit
  <1>2. \A d \in Desks : ImportJob(impDesk[d], impCusts)
    BY <1>1 DEF ImportJob, IdleJob
  <1>3. \A p \in ImportPhones : impCusts[p] + Cardinality(Creating(impDesk, p)) <= Cardinality(Desks)
    <2>. SUFFICES ASSUME NEW p \in ImportPhones PROVE impCusts[p] + Cardinality(Creating(impDesk, p)) <= Cardinality(Desks)
      OBVIOUS
    <2>1. impCusts[p] = 0
      BY <1>1
    <2>2. Cardinality(Creating(impDesk, p)) \in Nat /\ Cardinality(Creating(impDesk, p)) <= Cardinality(Desks) /\ Cardinality(Desks) \in Nat
      BY CreatorsFinite, SheetTyped
    <2>. DEFINE k == Cardinality(Creating(impDesk, p))  n == Cardinality(Desks)
    <2>. HIDE DEF k, n
    <2>3. k \in Nat /\ k <= n /\ n \in Nat => 0 + k <= n
      OBVIOUS
    <2>. QED  BY <2>1, <2>2, <2>3 DEF k, n
  <1>4. impDesk = [d \in Desks |-> impDesk[d]]
    BY <1>1
  <1>5. impCusts \in [ImportPhones -> Nat]
    BY <1>1
  <1>6. ImportDesks(impDesk, impCusts)
    BY <1>2, <1>3, <1>4 DEF ImportDesks
  <1>. QED  BY <1>5, <1>6 DEF ImportInit, ImportInv, ImportedJob

LEMMA ImportStays == ImportInv /\ UNCHANGED importVars => ImportInv'
  BY DEF ImportInv, importVars

LEMMA ImportInvHolds == ImportInv => ImportTypeOK /\ CompletedAddsUp /\ EveryRowImported /\ DuplicatesBounded
  <1>. SUFFICES ASSUME ImportInv PROVE ImportTypeOK /\ CompletedAddsUp /\ EveryRowImported /\ DuplicatesBounded
    OBVIOUS
  <1>1. ImportTypeOK
    BY SheetTyped DEF ImportInv, ImportedJob, JobRow, SheetSize, ImportTypeOK
  <1>2. CompletedAddsUp /\ EveryRowImported
    BY DEF ImportInv, ImportedJob, Done, Counted, SheetSize, CompletedAddsUp, EveryRowImported
  <1>3. DuplicatesBounded
    <2>. SUFFICES ASSUME NEW p \in ImportPhones PROVE impCusts[p] <= Cardinality(Desks)
      BY DEF DuplicatesBounded
    <2>1. impCusts[p] + Cardinality(Creating(impDesk, p)) <= Cardinality(Desks) /\ impCusts[p] \in Nat
      BY DEF ImportInv, ImportDesks
    <2>. QED  BY <2>1, CreatorsFinite, SheetTyped, StaysUnder
  <1>. QED  BY <1>1, <1>2, <1>3

(* One desk goes on and no customer is created.  A pass is about to create *)
(* one only where there is none.                                           *)
LEMMA ImportDeskMoved ==
    ASSUME ImportInv, NEW d \in Desks, NEW t, ImportJob(t, impCusts), t.op = "create" => impCusts[SheetRows[t.at]] = 0,
           impDesk' = [impDesk EXCEPT ![d] = t]
    PROVE  ImportDesks(impDesk', impCusts)
  <1>1. impDesk' = [e \in Desks |-> IF e = d THEN t ELSE impDesk[e]]
    BY DEF ImportInv, ImportDesks
  <1>2. \A e \in Desks : ImportJob(impDesk'[e], impCusts)
    BY <1>1 DEF ImportInv, ImportDesks
  <1>3. ASSUME NEW p \in ImportPhones PROVE impCusts[p] + Cardinality(Creating(impDesk', p)) <= Cardinality(Desks)
    <2>0. impCusts[p] \in Nat /\ impCusts[p] + Cardinality(Creating(impDesk, p)) <= Cardinality(Desks)
      BY DEF ImportInv, ImportDesks
    <2>1. CASE t.op = "create" /\ SheetRows[t.at] = p
      <3>1. impCusts[p] = 0
        BY <2>1
      <3>2. Cardinality(Creating(impDesk', p)) \in Nat /\ Cardinality(Creating(impDesk', p)) <= Cardinality(Desks)
        BY CreatorsFinite
      <3>3. 0 + Cardinality(Creating(impDesk', p)) = Cardinality(Creating(impDesk', p))
        BY <3>2
      <3>. QED  BY <3>1, <3>2, <3>3
    <2>2. CASE ~(t.op = "create" /\ SheetRows[t.at] = p)
      <3>1. Creating(impDesk', p) \subseteq Creating(impDesk, p)
        BY <1>1, <2>2 DEF Creating
      <3>2. Cardinality(Creating(impDesk', p)) <= Cardinality(Creating(impDesk, p))
        BY <3>1, CreatorsFinite, FS_Subset
      <3>3. /\ Cardinality(Creating(impDesk', p)) \in Nat /\ Cardinality(Creating(impDesk, p)) \in Nat /\ Cardinality(Desks) \in Nat
            /\ impCusts[p] \in Nat
        BY <2>0, CreatorsFinite, SheetTyped
      <3>. QED  BY <2>0, <3>2, <3>3, StaysUnder
    <2>. QED  BY <2>1, <2>2
  <1>4. impDesk' = [e \in Desks |-> impDesk'[e]]
    BY <1>1
  <1>. QED  BY <1>2, <1>3, <1>4 DEF ImportDesks

LEMMA ImportMoved ==
    ASSUME ImportInv, NEW d \in Desks, NEW t, ImportJob(t, impCusts), t.op = "create" => impCusts[SheetRows[t.at]] = 0,
           impDesk' = [impDesk EXCEPT ![d] = t], ImportedJob(impJob', impTold', impCusts), impErrors' \subseteq 1 .. SheetSize,
           UNCHANGED impCusts, impQueue' \in BOOLEAN, impTold' \subseteq {"completed", "failed"}
    PROVE  ImportInv'
  <1>1. ImportDesks(impDesk', impCusts)
    BY ImportDeskMoved
  <1>2. impCusts' = impCusts /\ impCusts \in [ImportPhones -> Nat]
    BY DEF ImportInv
  <1>. QED  BY <1>1, <1>2 DEF ImportInv

(* The job's row as a desk reads it, and the edits.                        *)
LEMMA JobRead ==
    ASSUME ImportInv, NEW row \in GetJob
    PROVE  row \in JobRow
  BY DEF GetJob, ImportInv, ImportedJob

LEMMA FailedCounted == FailedRows \subseteq 1 .. SheetSize /\ Cardinality(FailedRows) \in 0 .. SheetSize
  <1>1. FailedRows \subseteq 1 .. SheetSize
    BY SheetTyped DEF FailedRows
  <1>2. IsFiniteSet(1 .. SheetSize) /\ Cardinality(1 .. SheetSize) = SheetSize
    <2>1. SheetSize \in Nat
      BY SheetTyped
    <2>. HIDE DEF SheetSize
    <2>. QED  BY <2>1, FS_Interval
  <1>3. Cardinality(FailedRows) \in Nat /\ Cardinality(FailedRows) <= Cardinality(1 .. SheetSize)
    BY <1>1, <1>2, FS_Subset, FS_CardinalityType
  <1>4. SheetSize \in Nat
    BY SheetTyped
  <1>. HIDE DEF SheetSize
  <1>. QED  BY <1>1, <1>2, <1>3, <1>4

LEMMA ImportEdits ==
    ASSUME ImportInv, NEW d \in Desks, SetMapping(d) \/ Validate(d) \/ Confirm(d)
    PROVE  ImportInv'
  <1>0. ImportedJob(impJob, impTold, impCusts) /\ impErrors \subseteq 1 .. SheetSize /\ impQueue \in BOOLEAN /\ impTold \subseteq {"completed", "failed"}
    BY DEF ImportInv
  <1>1. ASSUME NEW op \in {"write", "confirm"}, NEW r \in JobRow, r.status # "completed", UNCHANGED <<impJob, impCusts, impQueue, impTold>>,
               impErrors' \subseteq 1 .. SheetSize, impDesk' = [impDesk EXCEPT ![d] = [op |-> op, row |-> r]]
        PROVE  ImportInv'
    <2>. DEFINE t == [op |-> op, row |-> r]
    <2>1. ImportJob(t, impCusts) /\ t.op # "create"
      BY <1>1 DEF ImportJob, SheetEditJob
    <2>2. impDesk' = [impDesk EXCEPT ![d] = t]
      BY <1>1
    <2>. HIDE DEF t
    <2>. QED  BY <1>0, <1>1, <2>1, <2>2, ImportMoved
  <1>2. CASE SetMapping(d)
    <2>1. PICK row \in GetJob, m \in ImportModes : impDesk' = [impDesk EXCEPT ![d] = [op |-> "write", row |-> [row EXCEPT !.mode = m, !.status = "mapped"]]]
      BY <1>2 DEF SetMapping
    <2>2. LET r == [row EXCEPT !.mode = m, !.status = "mapped"] IN r \in JobRow /\ r.status # "completed"
      BY JobRead DEF JobRow, ImportStatuses
    <2>. QED  BY <1>0, <1>1, <1>2, <2>1, <2>2 DEF SetMapping
  <1>3. CASE Validate(d)
    <2>1. PICK row \in GetJob : impDesk' = [impDesk EXCEPT ![d] = [op |-> "write", row |-> [row EXCEPT !.failed = Cardinality(FailedRows), !.status = "validated"]]]
      BY <1>3 DEF Validate
    <2>2. LET r == [row EXCEPT !.failed = Cardinality(FailedRows), !.status = "validated"] IN r \in JobRow /\ r.status # "completed"
      BY JobRead, FailedCounted DEF JobRow, ImportStatuses
    <2>3. impErrors' \subseteq 1 .. SheetSize
      BY <1>3, FailedCounted DEF Validate, ReplaceRowErrors
    <2>. QED  BY <1>1, <1>3, <2>1, <2>2, <2>3 DEF Validate
  <1>4. CASE Confirm(d)
    <2>1. PICK row \in GetJob : impDesk' = [impDesk EXCEPT ![d] = [op |-> "confirm", row |-> [row EXCEPT !.status = "queued"]]]
      BY <1>4 DEF Confirm
    <2>2. LET r == [row EXCEPT !.status = "queued"] IN r \in JobRow /\ r.status # "completed"
      BY JobRead DEF JobRow, ImportStatuses
    <2>. QED  BY <1>0, <1>1, <1>4, <2>1, <2>2 DEF Confirm
  <1>. QED  BY <1>2, <1>3, <1>4

(* What a desk holds, by where it stands.                                  *)
LEMMA SheetDesk ==
    ASSUME ImportInv, NEW d \in Desks
    PROVE  /\ impDesk[d].op \in {"write", "confirm"} => impDesk[d].row \in JobRow /\ impDesk[d].row.status # "completed"
           /\ impDesk[d].op = "process" => impDesk[d].worker \in BOOLEAN
           /\ impDesk[d].op = "start" =>
                impDesk[d] \in StartJob /\ impDesk[d].row.status = "processing" /\ Counted(impDesk[d].row) = 0
           /\ impDesk[d].op \in {"row", "create"} =>
                /\ impDesk[d] \in PassJob /\ impDesk[d].row.status = "processing" /\ Reached(impDesk[d], impCusts)
           /\ impDesk[d].op = "create" => impDesk[d].at <= SheetSize /\ SheetRows[impDesk[d].at] # ""
           /\ impDesk[d].op = "finish" =>
                /\ impDesk[d] \in FinishJob /\ impDesk[d].row.status \in {"completed", "failed"}
                /\ impDesk[d].row.status = "completed" => Done(impDesk[d].row, impCusts)
  <1>1. ImportJob(impDesk[d], impCusts)
    BY DEF ImportInv, ImportDesks
  <1>2. CASE impDesk[d] \in IdleJob
    <2>1. /\ impDesk[d].op \in {"free", "enqueue", "process"}
          /\ impDesk[d].op = "process" => impDesk[d].worker \in BOOLEAN
      BY <1>2 DEF IdleJob, Free
    <2>. QED  BY <2>1
  <1>3. CASE impDesk[d] \in SheetEditJob /\ impDesk[d].row.status # "completed"
    BY <1>3 DEF SheetEditJob
  <1>4. CASE impDesk[d] \in StartJob /\ impDesk[d].row.status = "processing" /\ Counted(impDesk[d].row) = 0
    <2>1. impDesk[d].op = "start"
      BY <1>4 DEF StartJob
    <2>. QED  BY <1>4, <2>1
  <1>5. CASE /\ impDesk[d] \in PassJob /\ impDesk[d].row.status = "processing" /\ Reached(impDesk[d], impCusts)
             /\ impDesk[d].op = "create" => impDesk[d].at <= SheetSize /\ SheetRows[impDesk[d].at] # ""
    <2>1. impDesk[d].op \in {"row", "create"}
      BY <1>5 DEF PassJob
    <2>. QED  BY <1>5, <2>1
  <1>6. CASE /\ impDesk[d] \in FinishJob /\ impDesk[d].row.status \in {"completed", "failed"}
             /\ impDesk[d].row.status = "completed" => Done(impDesk[d].row, impCusts)
    <2>1. impDesk[d].op = "finish"
      BY <1>6 DEF FinishJob
    <2>. QED  BY <1>6, <2>1
  <1>. QED  BY <1>1, <1>2, <1>3, <1>4, <1>5, <1>6 DEF ImportJob

(* What is written of an edit, and the steps that only change the queue.   *)
LEMMA ImportWrites ==
    ASSUME ImportInv, NEW d \in Desks, WriteEdit(d) \/ ConfirmWrite(d) \/ ConfirmEnqueue(d) \/ ProcessByStringID(d) \/ ImportCrash(d)
    PROVE  ImportInv'
  <1>0. ImportedJob(impJob, impTold, impCusts) /\ impErrors \subseteq 1 .. SheetSize /\ impQueue \in BOOLEAN /\ impTold \subseteq {"completed", "failed"}
    BY DEF ImportInv
  <1>1. /\ ImportJob(Free, impCusts) /\ Free.op # "create"
        /\ \A w \in BOOLEAN : ImportJob([op |-> "process", worker |-> w], impCusts) /\ [op |-> "process", worker |-> w].op # "create"
        /\ ImportJob([op |-> "enqueue"], impCusts) /\ [op |-> "enqueue"].op # "create"
    BY DEF ImportJob, IdleJob, Free
  <1>2. ASSUME WriteEdit(d) \/ ConfirmWrite(d) PROVE ImportedJob(impJob', impTold', impCusts)
    <2>1. impDesk[d].row \in JobRow /\ impDesk[d].row.status # "completed" /\ impJob' = impDesk[d].row
      BY <1>2, SheetDesk DEF WriteEdit, ConfirmWrite, UpdateJob
    <2>. QED  BY <2>1 DEF ImportedJob
  <1>. HIDE DEF Free
  <1>3. CASE WriteEdit(d)
    BY <1>0, <1>1, <1>2, <1>3, ImportMoved DEF WriteEdit
  <1>4. CASE ConfirmWrite(d)
    BY <1>0, <1>1, <1>2, <1>4, ImportMoved DEF ConfirmWrite
  <1>5. CASE ConfirmEnqueue(d)
    BY <1>0, <1>1, <1>5, ImportMoved DEF ConfirmEnqueue
  <1>6. CASE ProcessByStringID(d)
    BY <1>0, <1>1, <1>6, ImportMoved DEF ProcessByStringID
  <1>7. CASE ImportCrash(d)
    BY <1>0, <1>1, <1>7, ImportMoved DEF ImportCrash
  <1>. QED  BY <1>3, <1>4, <1>5, <1>6, <1>7

LEMMA Uploaded == ImportInv /\ Upload => ImportInv'
  <1>. SUFFICES ASSUME ImportInv, Upload PROVE ImportInv'
    OBVIOUS
  <1>1. impJob' \in JobRow /\ impJob'.status # "completed"
    <2>1. PICK mode \in ImportModes : impJob' = [mode |-> mode, status |-> "uploaded", success |-> 0, failed |-> 0, skipped |-> 0]
      BY DEF Upload, ValidMode, CreateJob
    <2>. QED  BY <2>1, NothingCounted DEF JobRow, ImportStatuses
  <1>. QED  BY <1>1 DEF Upload, ImportInv, ImportedJob

(* A pass begins: the counters of its copy are none, and so is the row.    *)
LEMMA PassBegun ==
    ASSUME ImportInv, NEW d \in Desks, ProcessRead(d) \/ ProcessBegin(d)
    PROVE  ImportInv'
  <1>0. ImportedJob(impJob, impTold, impCusts) /\ impErrors \subseteq 1 .. SheetSize /\ impQueue \in BOOLEAN /\ impTold \subseteq {"completed", "failed"}
    BY DEF ImportInv
  <1>1. CASE ProcessRead(d)
    <2>1. impDesk[d].worker \in BOOLEAN
      BY <1>1, SheetDesk DEF ProcessRead
    <2>2. PICK row \in GetJob :
              \/ /\ impDesk' = [impDesk EXCEPT ![d] = [op |-> "start", worker |-> impDesk[d].worker,
                                  row |-> [row EXCEPT !.status = "processing", !.success = 0, !.failed = 0, !.skipped = 0]]]
                 /\ UNCHANGED impQueue
              \/ impDesk' = [impDesk EXCEPT ![d] = Free] /\ PassEnds(impDesk[d], row.status = "completed")
      BY <1>1 DEF ProcessRead
    <2>3. CASE /\ impDesk' = [impDesk EXCEPT ![d] = [op |-> "start", worker |-> impDesk[d].worker,
                                row |-> [row EXCEPT !.status = "processing", !.success = 0, !.failed = 0, !.skipped = 0]]]
               /\ UNCHANGED impQueue
      <3>. DEFINE r == [row EXCEPT !.status = "processing", !.success = 0, !.failed = 0, !.skipped = 0]
                  t == [op |-> "start", worker |-> impDesk[d].worker, row |-> r]
      <3>1. r \in JobRow /\ r.status = "processing" /\ Counted(r) = 0
        <4>1. r \in JobRow /\ r.status = "processing" /\ r.success = 0 /\ r.failed = 0 /\ r.skipped = 0
          BY JobRead, NothingCounted DEF JobRow, ImportStatuses
        <4>. HIDE DEF r
        <4>. QED  BY <4>1 DEF Counted
      <3>. HIDE DEF r
      <3>2. t \in StartJob /\ t.row = r /\ t.op = "start"
        BY <2>1, <3>1 DEF StartJob
      <3>3. ImportJob(t, impCusts)
        BY <3>1, <3>2 DEF ImportJob
      <3>4. impDesk' = [impDesk EXCEPT ![d] = t]
        BY <2>3 DEF r
      <3>. HIDE DEF t
      <3>. QED  BY <1>0, <1>1, <2>3, <3>2, <3>3, <3>4, ImportMoved DEF ProcessRead
    <2>4. CASE impDesk' = [impDesk EXCEPT ![d] = Free] /\ PassEnds(impDesk[d], row.status = "completed")
      <3>1. impQueue' \in BOOLEAN
        BY <1>0, <2>4 DEF PassEnds
      <3>2. ImportJob(Free, impCusts) /\ Free.op # "create"
        BY DEF ImportJob, IdleJob, Free
      <3>. QED  BY <1>0, <1>1, <2>4, <3>1, <3>2, ImportMoved DEF ProcessRead
    <2>. QED  BY <2>2, <2>3, <2>4
  <1>2. CASE ProcessBegin(d)
    <2>. DEFINE r == impDesk[d].row
                t == [op |-> "row", worker |-> impDesk[d].worker, row |-> r, at |-> 1, errors |-> {}]
    <2>1. impDesk[d].worker \in BOOLEAN /\ r \in JobRow /\ r.status = "processing" /\ Counted(r) = 0
      BY <1>2, SheetDesk DEF ProcessBegin, StartJob
    <2>2. impJob' = r /\ impDesk' = [impDesk EXCEPT ![d] = t]
      BY <1>2 DEF ProcessBegin, UpdateJob
    <2>. HIDE DEF r
    <2>3. t \in PassJob /\ t.op = "row" /\ t.row = r /\ t.at = 1
      BY <2>1, NothingCounted DEF PassJob
    <2>. HIDE DEF t
    <2>4. Reached(t, impCusts)
      BY <2>1, <2>3 DEF Reached
    <2>5. ImportJob(t, impCusts)
      BY <2>1, <2>3, <2>4 DEF ImportJob
    <2>6. ImportedJob(impJob', impTold', impCusts)
      BY <2>1, <2>2 DEF ImportedJob
    <2>. QED  BY <1>0, <1>2, <2>2, <2>3, <2>5, <2>6, ImportMoved DEF ProcessBegin
  <1>. QED  BY <1>1, <1>2

(* A pass: one row further, counted once, and no phone of it left without. *)
SkippedRow(t) == [NextRow(t) EXCEPT !.row.skipped = @ + 1]
Succeeded(t) == [NextRow(t) EXCEPT !.row.success = @ + 1]

RowDone(o, t, rows) ==
    /\ o \in PassJob /\ o.row.status = "processing" /\ Reached(o, rows)
    /\ o.op = "row" /\ o.at <= SheetSize
    /\ \/ t = Failed(o) /\ (SheetRows[o.at] = "" \/ o.row.mode = "update")
       \/ t = SkippedRow(o) /\ rows[SheetRows[o.at]] > 0
       \/ t = Succeeded(o) /\ rows[SheetRows[o.at]] > 0

LEMMA RowPassed ==
    ASSUME NEW rows, NEW o, NEW t, RowDone(o, t, rows)
    PROVE  ImportJob(t, rows) /\ t.op = "row"
  <1>1. o.op = "row"
    BY DEF RowDone
  <1>2. /\ o.at <= SheetSize
        /\ \/ t = Failed(o) /\ (SheetRows[o.at] = "" \/ o.row.mode = "update")
           \/ t = SkippedRow(o) /\ rows[SheetRows[o.at]] > 0
           \/ t = Succeeded(o) /\ rows[SheetRows[o.at]] > 0
    BY DEF RowDone
  <1>3. o \in PassJob /\ o.row.status = "processing" /\ Reached(o, rows)
    BY DEF RowDone
  <1>4. SheetSize \in Nat
    BY SheetTyped
  <1>5. /\ o.row \in JobRow /\ o.at \in 1 .. SheetSize + 1 /\ o.worker \in BOOLEAN /\ o.errors \subseteq 1 .. SheetSize
    BY <1>3 DEF PassJob
  <1>6. o = [op |-> o.op, worker |-> o.worker, row |-> o.row, at |-> o.at, errors |-> o.errors]
    BY <1>3 DEF PassJob
  <1>7. /\ o.row.success \in 0 .. SheetSize /\ o.row.failed \in 0 .. SheetSize /\ o.row.skipped \in 0 .. SheetSize
        /\ o.row.mode \in ImportModes
    BY <1>5 DEF JobRow
  <1>8. o.row = [mode |-> o.row.mode, status |-> o.row.status, success |-> o.row.success,
                 failed |-> o.row.failed, skipped |-> o.row.skipped]
    BY <1>5 DEF JobRow
  <1>9. Counted(o.row) = o.at - 1 /\ o.at <= SheetSize
    BY <1>3, <1>2 DEF Reached
  <1>10. /\ o.at \in 1 .. SheetSize /\ o.at + 1 \in 1 .. SheetSize + 1 /\ \A j \in 1 .. (o.at + 1) - 1 : j \in 1 .. o.at - 1 \/ j = o.at
        /\ o.row.success + 1 \in 0 .. SheetSize /\ (o.row.success + 1) + o.row.failed + o.row.skipped = o.at
        /\ o.row.failed + 1 \in 0 .. SheetSize /\ o.row.success + (o.row.failed + 1) + o.row.skipped = o.at
        /\ o.row.skipped + 1 \in 0 .. SheetSize /\ o.row.success + o.row.failed + (o.row.skipped + 1) = o.at
    <2>. DEFINE n == SheetSize  at == o.at  a == o.row.success  f == o.row.failed  k == o.row.skipped
    <2>1. n \in Nat /\ at \in 1 .. n + 1 /\ at <= n /\ a \in 0 .. n /\ f \in 0 .. n /\ k \in 0 .. n /\ a + f + k = at - 1
      BY <1>4, <1>5, <1>7, <1>9 DEF Counted
    <2>. HIDE DEF n, at, a, f, k
    <2>2. /\ at \in 1 .. n /\ at + 1 \in 1 .. n + 1 /\ \A j \in 1 .. (at + 1) - 1 : j \in 1 .. at - 1 \/ j = at
          /\ a + 1 \in 0 .. n /\ (a + 1) + f + k = at
          /\ f + 1 \in 0 .. n /\ a + (f + 1) + k = at
          /\ k + 1 \in 0 .. n /\ a + f + (k + 1) = at
      BY <2>1
    <2>. QED  BY <2>2 DEF n, at, a, f, k
  <1>11. PICK a \in 0 .. SheetSize, f \in 0 .. SheetSize, k \in 0 .. SheetSize, e \in SUBSET (1 .. SheetSize) :
            /\ t = [op |-> "row", worker |-> o.worker, at |-> o.at + 1, errors |-> e,
                    row |-> [mode |-> o.row.mode, status |-> "processing", success |-> a, failed |-> f, skipped |-> k]]
            /\ a + f + k = o.at
    <2>. DEFINE next(a, f, k, e) == [op |-> "row", worker |-> o.worker, row |-> [mode |-> o.row.mode, status |-> "processing",
                                     success |-> a, failed |-> f, skipped |-> k], at |-> o.at + 1, errors |-> e]
    <2>. HIDE DEF SheetSize
    <2>1. CASE t = Failed(o)
      <3>1. t = next(o.row.success, o.row.failed + 1, o.row.skipped, o.errors \cup {o.at})
        BY <1>3, <1>6, <1>8, <1>1, <2>1 DEF Failed, NextRow
      <3>2. o.row.failed + 1 \in 0 .. SheetSize /\ o.row.success + (o.row.failed + 1) + o.row.skipped = o.at
            /\ o.errors \cup {o.at} \in SUBSET (1 .. SheetSize)
        BY <1>5, <1>10
      <3>. QED  BY <1>7, <3>1, <3>2
    <2>2. CASE t = SkippedRow(o)
      <3>1. t = next(o.row.success, o.row.failed, o.row.skipped + 1, o.errors)
        BY <1>3, <1>6, <1>8, <1>1, <2>2 DEF SkippedRow, NextRow
      <3>2. o.row.skipped + 1 \in 0 .. SheetSize /\ o.row.success + o.row.failed + (o.row.skipped + 1) = o.at
        BY <1>10
      <3>. QED  BY <1>5, <1>7, <3>1, <3>2
    <2>3. CASE t = Succeeded(o)
      <3>1. t = next(o.row.success + 1, o.row.failed, o.row.skipped, o.errors)
        BY <1>3, <1>6, <1>8, <1>1, <2>3 DEF Succeeded, NextRow
      <3>2. o.row.success + 1 \in 0 .. SheetSize /\ (o.row.success + 1) + o.row.failed + o.row.skipped = o.at
        BY <1>10
      <3>. QED  BY <1>5, <1>7, <3>1, <3>2
    <2>. QED  BY <1>2, <2>1, <2>2, <2>3
  <1>12. t \in PassJob /\ t.row.status = "processing" /\ t.op = "row" /\ t.row.mode = o.row.mode /\ t.at = o.at + 1 /\ Counted(t.row) = o.at
    <2>2. [mode |-> o.row.mode, status |-> "processing", success |-> a, failed |-> f, skipped |-> k] \in JobRow
      BY <1>7 DEF JobRow, ImportStatuses
    <2>. QED  BY <1>5, <1>10, <1>11, <2>2 DEF PassJob, Counted
  <1>13. Reached(t, rows)
    <2>1. t.row.mode # "update" => SheetRows[o.at] = "" \/ rows[SheetRows[o.at]] > 0
      BY <1>12, <1>2
    <2>2. \A j \in 1 .. t.at - 1 : j \in 1 .. o.at - 1 \/ j = o.at
      BY <1>10, <1>12
    <2>3. o.row.mode # "update" => \A j \in 1 .. o.at - 1 : SheetRows[j] # "" => rows[SheetRows[j]] > 0
      BY <1>3 DEF Reached
    <2>4. t.row.mode # "update" => \A j \in 1 .. t.at - 1 : SheetRows[j] # "" => rows[SheetRows[j]] > 0
      BY <1>12, <2>1, <2>2, <2>3
    <2>5. Counted(t.row) = t.at - 1
      <3>1. o.at \in Int
        BY <1>4, <1>5
      <3>2. (o.at + 1) - 1 = o.at
        BY <3>1
      <3>. QED  BY <1>12, <3>2
    <2>. QED  BY <2>4, <2>5 DEF Reached
  <1>. QED  BY <1>12, <1>13 DEF ImportJob

LEMMA Applied ==
    ASSUME ImportInv, NEW d \in Desks, ApplyRead(d)
    PROVE  ImportInv'
  <1>0. ImportedJob(impJob, impTold, impCusts) /\ impErrors \subseteq 1 .. SheetSize /\ impQueue \in BOOLEAN /\ impTold \subseteq {"completed", "failed"}
        /\ impCusts \in [ImportPhones -> Nat]
    BY DEF ImportInv
  <1>. DEFINE o == impDesk[d]
              phone == SheetRows[o.at]
  <1>1. o.op = "row" /\ o.at <= SheetSize /\ o \in PassJob /\ o.row.status = "processing" /\ Reached(o, impCusts)
    BY SheetDesk DEF ApplyRead, SheetSize
  <1>2. o.at \in 1 .. SheetSize
    <2>1. SheetSize \in Nat /\ o.at \in 1 .. SheetSize + 1 /\ o.at <= SheetSize
      BY <1>1, SheetTyped DEF PassJob
    <2>. HIDE DEF SheetSize
    <2>. QED  BY <2>1
  <1>3. phone # "" => phone \in ImportPhones /\ (FindByPhone(phone) \/ impCusts[phone] = 0)
    <2>1. phone # "" => phone \in ImportPhones
      BY <1>2, SheetTyped
    <2>2. \A p \in ImportPhones : impCusts[p] > 0 \/ impCusts[p] = 0
      BY <1>0
    <2>. QED  BY <2>1, <2>2 DEF FindByPhone
  <1>4. PICK t : /\ impDesk' = [impDesk EXCEPT ![d] = t]
                 /\ ImportJob(t, impCusts) /\ (t.op = "create" => impCusts[SheetRows[t.at]] = 0)
    <2>1. CASE impDesk' = [impDesk EXCEPT ![d] = [o EXCEPT !.op = "create"]] /\ phone # "" /\ ~FindByPhone(phone)
      <3>. DEFINE t == [o EXCEPT !.op = "create"]
      <3>1. t \in PassJob /\ t.op = "create" /\ t.row = o.row /\ t.at = o.at
        BY <1>1 DEF PassJob
      <3>. HIDE DEF t
      <3>2. ImportJob(t, impCusts)
        BY <1>1, <2>1, <3>1 DEF ImportJob, Reached
      <3>. QED  BY <1>3, <2>1, <3>1, <3>2 DEF t
    <2>2. ASSUME NEW t, impDesk' = [impDesk EXCEPT ![d] = t],
                 \/ t = Failed(o) /\ (phone = "" \/ o.row.mode = "update")
                 \/ t = SkippedRow(o) /\ impCusts[phone] > 0
                 \/ t = Succeeded(o) /\ impCusts[phone] > 0
          PROVE  ImportJob(t, impCusts) /\ t.op = "row"
      BY <1>1, <2>2, RowPassed, Zenon DEF RowDone
    <2>3. \/ impDesk' = [impDesk EXCEPT ![d] = [o EXCEPT !.op = "create"]] /\ phone # "" /\ ~FindByPhone(phone)
          \/ impDesk' = [impDesk EXCEPT ![d] = Failed(o)] /\ (phone = "" \/ o.row.mode = "update")
          \/ impDesk' = [impDesk EXCEPT ![d] = SkippedRow(o)] /\ impCusts[phone] > 0
          \/ impDesk' = [impDesk EXCEPT ![d] = Succeeded(o)] /\ impCusts[phone] > 0
      BY DEF ApplyRead, FindByPhone, SkippedRow, Succeeded
    <2>. HIDE DEF o, phone
    <2>4. CASE impDesk' = [impDesk EXCEPT ![d] = Failed(o)] /\ (phone = "" \/ o.row.mode = "update")
      BY <2>2, <2>4
    <2>5. CASE impDesk' = [impDesk EXCEPT ![d] = SkippedRow(o)] /\ impCusts[phone] > 0
      BY <2>2, <2>5
    <2>6. CASE impDesk' = [impDesk EXCEPT ![d] = Succeeded(o)] /\ impCusts[phone] > 0
      BY <2>2, <2>6
    <2>. QED  BY <2>1, <2>3, <2>4, <2>5, <2>6
  <1>. QED  BY <1>0, <1>4, ImportMoved DEF ApplyRead

(* A customer more: what is done stays done, and the pass is one fewer of  *)
(* those about to create one.                                              *)
LEMMA DoneStays ==
    ASSUME NEW old \in [ImportPhones -> Nat], NEW new \in [ImportPhones -> Nat], \A p \in ImportPhones : new[p] >= old[p], NEW t
    PROVE  /\ Done(t, old) => Done(t, new)
           /\ t.at \in 1 .. SheetSize + 1 /\ Reached(t, old) => Reached(t, new)
           /\ ImportJob(t, old) => ImportJob(t, new)
  <1>1. \A p \in ImportPhones : old[p] > 0 => new[p] > 0
    OBVIOUS
  <1>2. Done(t, old) => Done(t, new)
    BY <1>1 DEF Done
  <1>3. ASSUME t.at \in 1 .. SheetSize + 1, Reached(t, old) PROVE Reached(t, new)
    <2>1. \A j \in 1 .. t.at - 1 : j \in 1 .. SheetSize
      <3>. DEFINE n == SheetSize  at == t.at
      <3>1. n \in Nat /\ at \in 1 .. n + 1
        BY <1>3, SheetTyped
      <3>. HIDE DEF n, at
      <3>2. \A j \in 1 .. at - 1 : j \in 1 .. n
        BY <3>1
      <3>. QED  BY <3>2 DEF n, at
    <2>2. \A j \in 1 .. t.at - 1 : SheetRows[j] # "" => SheetRows[j] \in ImportPhones
      BY <2>1, SheetTyped
    <2>. QED  BY <1>1, <1>3, <2>2 DEF Reached
  <1>4. t \in PassJob => t.at \in 1 .. SheetSize + 1
    BY DEF PassJob
  <1>5. ImportJob(t, old) => ImportJob(t, new)
    <2>1. ASSUME t \in FinishJob /\ t.row.status \in {"completed", "failed"} /\ (t.row.status = "completed" => Done(t.row, old))
          PROVE  ImportJob(t, new)
      <3>1. Done(t.row, old) => Done(t.row, new)
        BY <1>1 DEF Done
      <3>. QED  BY <2>1, <3>1 DEF ImportJob
    <2>. QED  BY <1>3, <1>4, <2>1 DEF ImportJob
  <1>. QED  BY <1>2, <1>3, <1>5

LEMMA CustomerMade ==
    ASSUME ImportInv, NEW d \in Desks, ApplyCreate(d)
    PROVE  ImportInv'
  <1>0. ImportedJob(impJob, impTold, impCusts) /\ impErrors \subseteq 1 .. SheetSize /\ impQueue \in BOOLEAN /\ impTold \subseteq {"completed", "failed"}
        /\ impCusts \in [ImportPhones -> Nat] /\ ImportDesks(impDesk, impCusts)
    BY DEF ImportInv
  <1>. DEFINE o == impDesk[d]
              q == SheetRows[o.at]
              u == [o EXCEPT !.op = "row"]
  <1>1. o.op = "create" /\ o \in PassJob /\ o.row.status = "processing" /\ Reached(o, impCusts) /\ o.at <= SheetSize /\ q # ""
    BY SheetDesk DEF ApplyCreate
  <1>2. SheetSize \in Nat /\ o.at \in 1 .. SheetSize + 1
    BY <1>1, SheetTyped DEF PassJob
  <1>3. q \in ImportPhones
    <2>. DEFINE n == SheetSize  at == o.at
    <2>1. n \in Nat /\ at \in 1 .. n + 1 /\ at <= n
      BY <1>1, <1>2
    <2>. HIDE DEF n, at
    <2>2. at \in 1 .. n
      BY <2>1
    <2>3. o.at \in 1 .. SheetSize
      BY <2>2 DEF n, at
    <2>. QED  BY <1>1, <2>3, SheetTyped
  <1>4. impCusts' = [impCusts EXCEPT ![q] = @ + 1] /\ impDesk' = [impDesk EXCEPT ![d] = Succeeded(u)]
        /\ UNCHANGED <<impJob, impErrors, impQueue, impTold>>
    BY DEF ApplyCreate, Succeeded, NextRow
  <1>5. RowDone(u, Succeeded(u), impCusts')
    <2>1. u \in PassJob /\ u.row = o.row /\ u.at = o.at /\ u.op = "row"
      BY <1>1 DEF PassJob
    <2>. HIDE DEF u
    <2>2. Reached(u, impCusts)
      BY <1>1, <2>1 DEF Reached
    <2>3. impCusts'[q] > 0 /\ impCusts' \in [ImportPhones -> Nat] /\ \A p \in ImportPhones : impCusts'[p] >= impCusts[p]
      BY <1>0, <1>3, <1>4
    <2>4. Reached(u, impCusts')
      BY <1>0, <1>2, <2>1, <2>2, <2>3, DoneStays
    <2>. QED  BY <1>1, <2>1, <2>3, <2>4 DEF RowDone
  <1>6. ImportJob(Succeeded(u), impCusts') /\ Succeeded(u).op = "row"
    BY <1>5, RowPassed
  <1>7. impCusts' \in [ImportPhones -> Nat] /\ \A p \in ImportPhones : impCusts'[p] >= impCusts[p]
    BY <1>0, <1>3, <1>4
  <1>8. ImportedJob(impJob', impTold', impCusts')
    BY <1>0, <1>4, <1>7, DoneStays DEF ImportedJob
  <1>9. ImportDesks(impDesk', impCusts')
    <2>. DEFINE t == Succeeded(u)
    <2>. HIDE DEF t
    <2>1. impDesk' = [e \in Desks |-> IF e = d THEN t ELSE impDesk[e]]
      BY <1>0, <1>4 DEF ImportDesks, t
    <2>2. impDesk' = [e \in Desks |-> impDesk'[e]]
      BY <2>1
    <2>3. \A e \in Desks : ImportJob(impDesk[e], impCusts')
      BY <1>0, <1>7, DoneStays DEF ImportDesks
    <2>4. \A e \in Desks : ImportJob(impDesk'[e], impCusts')
      BY <1>6, <2>1, <2>3 DEF t
    <2>5. ASSUME NEW p \in ImportPhones PROVE impCusts'[p] + Cardinality(Creating(impDesk', p)) <= Cardinality(Desks)
      <3>0. impCusts[p] \in Nat /\ impCusts[p] + Cardinality(Creating(impDesk, p)) <= Cardinality(Desks)
        BY <1>0 DEF ImportDesks
      <3>1. t.op = "row"
        BY <1>6 DEF t
      <3>2. d \in Creating(impDesk, q)
        BY <1>1 DEF Creating
      <3>3. Creating(impDesk', p) = Creating(impDesk, p) \ {d}
        BY <2>1, <3>1 DEF Creating
      <3>4. /\ IsFiniteSet(Creating(impDesk, p)) /\ Cardinality(Creating(impDesk, p)) \in Nat
            /\ Cardinality(Creating(impDesk', p)) \in Nat /\ Cardinality(Desks) \in Nat
        BY CreatorsFinite, SheetTyped
      <3>5. CASE p = q
        <4>1. Cardinality(Creating(impDesk', p)) = Cardinality(Creating(impDesk, p)) - 1
          BY <3>2, <3>3, <3>4, <3>5, FS_RemoveElement
        <4>2. impCusts'[p] = impCusts[p] + 1
          BY <1>0, <1>3, <1>4, <3>5
        <4>3. \A a, k, n \in Nat : a + k <= n => (a + 1) + (k - 1) <= n
          OBVIOUS
        <4>. QED  BY <3>0, <3>4, <4>1, <4>2, <4>3
      <3>6. CASE p # q
        <4>1. d \notin Creating(impDesk, p)
          BY <3>6 DEF Creating
        <4>2. Creating(impDesk', p) = Creating(impDesk, p)
          BY <3>3, <4>1
        <4>3. impCusts'[p] = impCusts[p]
          BY <1>0, <1>4, <3>6
        <4>. QED  BY <3>0, <4>2, <4>3
      <3>. QED  BY <3>5, <3>6
    <2>. QED  BY <2>2, <2>4, <2>5 DEF ImportDesks
  <1>. QED  BY <1>0, <1>4, <1>7, <1>8, <1>9 DEF ImportInv

(* The last statements: a pass that has seen every row leaves the job      *)
(* completed, and one that failed leaves it failed.                        *)
LEMMA PassEnded ==
    ASSUME ImportInv, NEW d \in Desks, ProcessErrors(d) \/ Finish(d) \/ FailJob(d)
    PROVE  ImportInv'
  <1>0. ImportedJob(impJob, impTold, impCusts) /\ impErrors \subseteq 1 .. SheetSize /\ impQueue \in BOOLEAN /\ impTold \subseteq {"completed", "failed"}
    BY DEF ImportInv
  <1>. DEFINE o == impDesk[d]
  <1>1. CASE ProcessErrors(d)
    <2>. DEFINE r == [o.row EXCEPT !.status = "completed"]
                t == [op |-> "finish", worker |-> o.worker, row |-> r]
    <2>1. o \in PassJob /\ Reached(o, impCusts) /\ o.at > SheetSize
      BY <1>1, SheetDesk DEF ProcessErrors, SheetSize
    <2>2. o.row \in JobRow /\ o.worker \in BOOLEAN /\ o.errors \subseteq 1 .. SheetSize /\ o.at - 1 = SheetSize
      <3>1. o.row \in JobRow /\ o.worker \in BOOLEAN /\ o.errors \subseteq 1 .. SheetSize
        BY <2>1 DEF PassJob
      <3>. DEFINE n == SheetSize  at == o.at
      <3>2. n \in Nat /\ at \in 1 .. n + 1 /\ at > n
        BY <2>1, SheetTyped DEF PassJob
      <3>. HIDE DEF n, at
      <3>3. at - 1 = n
        BY <3>2
      <3>. QED  BY <3>1, <3>3 DEF n, at
    <2>3. Done(o.row, impCusts)
      <3>1. Counted(o.row) = SheetSize /\ (o.row.mode # "update" => \A j \in 1 .. SheetSize : SheetRows[j] # "" => impCusts[SheetRows[j]] > 0)
        BY <2>1, <2>2 DEF Reached
      <3>. QED  BY <3>1, SheetTyped DEF Done
    <2>4. r \in JobRow /\ r.status = "completed" /\ Done(r, impCusts)
      <3>1. r \in JobRow /\ r.status = "completed" /\ r.success = o.row.success /\ r.failed = o.row.failed /\ r.skipped = o.row.skipped
            /\ r.mode = o.row.mode
        BY <2>2 DEF JobRow, ImportStatuses
      <3>. HIDE DEF r
      <3>. QED  BY <2>3, <3>1 DEF Done, Counted
    <2>5. impErrors' = o.errors /\ impDesk' = [impDesk EXCEPT ![d] = t]
      BY <1>1 DEF ProcessErrors, ReplaceRowErrors
    <2>. HIDE DEF r
    <2>6. t \in FinishJob /\ t.row = r /\ t.op = "finish"
      BY <2>2, <2>4 DEF FinishJob
    <2>. HIDE DEF t
    <2>7. ImportJob(t, impCusts)
      BY <2>4, <2>6 DEF ImportJob
    <2>. QED  BY <1>0, <1>1, <2>2, <2>5, <2>6, <2>7, ImportMoved DEF ProcessErrors
  <1>2. CASE Finish(d)
    <2>1. o \in FinishJob /\ o.row.status \in {"completed", "failed"} /\ (o.row.status = "completed" => Done(o.row, impCusts))
      BY <1>2, SheetDesk DEF Finish
    <2>2. o.row \in JobRow /\ o.worker \in BOOLEAN
      BY <2>1 DEF FinishJob
    <2>3. impJob' = o.row /\ impTold' = impTold \cup {o.row.status}
      BY <1>2 DEF Finish, UpdateJob
    <2>4. impQueue' \in BOOLEAN
      BY <1>0, <1>2 DEF Finish, PassEnds
    <2>. HIDE DEF o
    <2>5. ImportedJob(impJob', impTold', impCusts) /\ impTold' \subseteq {"completed", "failed"}
      BY <1>0, <2>1, <2>2, <2>3 DEF ImportedJob
    <2>6. ImportJob(Free, impCusts) /\ Free.op # "create"
      BY DEF ImportJob, IdleJob, Free
    <2>. HIDE DEF Free
    <2>. QED  BY <1>0, <1>2, <2>4, <2>5, <2>6, ImportMoved DEF Finish
  <1>3. CASE FailJob(d)
    <2>. DEFINE r == [o.row EXCEPT !.status = "failed", !.success = 0, !.failed = 0, !.skipped = 0]
                t == [op |-> "finish", worker |-> o.worker, row |-> r]
    <2>1. o \in PassJob
      BY <1>3, SheetDesk DEF FailJob
    <2>2. o.row \in JobRow /\ o.worker \in BOOLEAN
      BY <2>1 DEF PassJob
    <2>3. r \in JobRow /\ r.status = "failed"
      BY <2>2, NothingCounted DEF JobRow, ImportStatuses
    <2>4. impDesk' = [impDesk EXCEPT ![d] = t]
      BY <1>3 DEF FailJob
    <2>. HIDE DEF r
    <2>5. t \in FinishJob /\ t.row = r /\ t.op = "finish"
      BY <2>2, <2>3 DEF FinishJob
    <2>. HIDE DEF t
    <2>6. ImportJob(t, impCusts)
      BY <2>3, <2>5 DEF ImportJob
    <2>. QED  BY <1>0, <1>3, <2>4, <2>5, <2>6, ImportMoved DEF FailJob
  <1>. QED  BY <1>1, <1>2, <1>3

LEMMA ImportInvNext == ImportInv /\ (ImportNext \/ AskSheet) => ImportInv'
  <1>. SUFFICES ASSUME ImportInv, ImportNext \/ AskSheet PROVE ImportInv'
    OBVIOUS
  <1>1. CASE ImportNext
    BY <1>1, Uploaded, ImportEdits, ImportWrites, PassBegun, Applied, CustomerMade, PassEnded, Zenon DEF ImportNext
  <1>2. CASE AskSheet
    BY <1>2, ImportStays DEF AskSheet
  <1>. QED  BY <1>1, <1>2

-----------------------------------------------------------------------------
(* The assistant: whose key, what it costs, who may be told.               *)
(* What the assistant remembers, and what its desks hold: rows whose key   *)
(* their provider issued, and questions of someone who may ask them.       *)
AiDays == 0 .. LastAiTick \div DayTicks
MaySee(id, perms) == id \in Askable /\ Allowed(Lookup(id), perms)
SettingsJob == [op : {"verify", "setup"}, row : AiRow]
DecideJob == [op : {"decide"}, id : Askable, perms : SUBSET Perms, used : Nat, conf : BOOLEAN, fresh : BOOLEAN]
AskedJob == [op : {"call", "model"}, id : Askable, perms : SUBSET Perms]
AiJob(t) ==
    \/ t = Free
    \/ t \in SettingsJob /\ t.row.keyOf = t.row.provider
    \/ t \in DecideJob \cup AskedJob /\ MaySee(t.id, t.perms)
AiDesks(desk) == desk = [d \in Desks |-> desk[d]] /\ \A d \in Desks : AiJob(desk[d])
AiRows ==
    /\ aiSettings # NoRow => aiSettings \in AiRow /\ aiSettings.keyOf = aiSettings.provider
    /\ aiCache \in [DOMAIN aiCache -> Nat] /\ DOMAIN aiCache \subseteq Askable /\ aiTick \in 0 .. LastAiTick
    /\ aiMemo # NoRow => aiMemo \in [value : BOOLEAN, expires : Int] /\ aiMemo.expires <= aiTick + MemoTTL

(* The questions that may still cost an answer.  With those of the day,    *)
(* they stay within the allowance, but for the one each other desk began   *)
(* while some of it was left.                                              *)
InFlight(t) == t.op \in {"call", "model"} \/ (t.op = "decide" /\ ~Exhausted(t.used))
Flights(desk) == {d \in Desks : InFlight(desk[d])}
Allowance == DailyQuota + Cardinality(Desks) - 1
Charged(usage, desk, today) ==
    /\ usage \in [AiDays -> Nat]
    /\ DailyQuota > 0 => \A day \in AiDays :
        /\ day < today => usage[day] <= Allowance
        /\ day = today => usage[day] + Cardinality(Flights(desk)) <= Allowance
        /\ day > today => usage[day] = 0
AiInv == AiRows /\ AiDesks(aiDesk) /\ Charged(aiUsage, aiDesk, AiDay) /\ AnswersGuarded

LEMMA DivGrows ==
    ASSUME NEW a \in Nat, NEW b \in Nat, NEW n \in Nat \ {0}, a <= b
    PROVE  a \div n \in Nat /\ b \div n \in Nat /\ a \div n <= b \div n
  OBVIOUS

LEMMA FlightsFinite ==
    ASSUME NEW desk
    PROVE  /\ IsFiniteSet(Flights(desk)) /\ Cardinality(Flights(desk)) \in Nat
           /\ Cardinality(Desks) \in Nat /\ Cardinality(Flights(desk)) <= Cardinality(Desks)
  <1>1. IsFiniteSet(Desks) /\ Flights(desk) \subseteq Desks
    BY AssistantAssumption DEF Flights
  <1>. QED  BY <1>1, FS_Subset, FS_CardinalityType

LEMMA TodayCounted ==
    ASSUME aiTick \in 0 .. LastAiTick
    PROVE  AiDay \in AiDays
  <1>1. aiTick \in Nat /\ LastAiTick \in Nat /\ aiTick <= LastAiTick /\ DayTicks \in Nat \ {0}
    BY AssistantAssumption
  <1>2. AiDay \in Nat /\ LastAiTick \div DayTicks \in Nat /\ AiDay <= LastAiTick \div DayTicks
    BY <1>1, DivGrows DEF AiDay
  <1>. QED  BY <1>2 DEF AiDays

LEMMA AiInitHolds == AssistantInit => AiInv
  <1>. SUFFICES ASSUME AssistantInit PROVE AiInv
    OBVIOUS
  <1>1. AiRows
    BY AssistantAssumption DEF AssistantInit, AiRows, AiRow, AiProviders, Models
  <1>2. AiDesks(aiDesk)
    BY DEF AssistantInit, AiDesks, AiJob
  <1>3. Charged(aiUsage, aiDesk, AiDay)
    <2>1. aiUsage \in [AiDays -> Nat] /\ \A day \in AiDays : aiUsage[day] = 0
      BY DEF AssistantInit, AiDays
    <2>2. \A d \in Desks : aiDesk[d] = Free
      BY DEF AssistantInit
    <2>3. Flights(aiDesk) = {}
      BY <2>2 DEF Flights, InFlight, Free
    <2>4. Cardinality(Flights(aiDesk)) = 0 /\ Cardinality(Desks) \in Nat
      BY <2>3, FlightsFinite, FS_EmptySet
    <2>5. DailyQuota > 0 => 0 <= Allowance /\ 0 + 0 <= Allowance
      <3>. DEFINE n == Cardinality(Desks)
      <3>. HIDE DEF n
      <3>1. n \in Nat /\ DailyQuota \in Int => (DailyQuota > 0 => 0 <= DailyQuota + n - 1 /\ 0 + 0 <= DailyQuota + n - 1)
        OBVIOUS
      <3>. QED  BY <2>4, <3>1, AssistantAssumption DEF Allowance, n
    <2>. QED  BY <2>1, <2>4, <2>5 DEF Charged
  <1>4. AnswersGuarded
    BY DEF AssistantInit, AnswersGuarded
  <1>. QED  BY <1>1, <1>2, <1>3, <1>4 DEF AiInv

LEMMA AiStays == AiInv /\ UNCHANGED chatVars => AiInv'
  BY DEF AiInv, chatVars, AiRows, AiDesks, Charged, AiDay, AnswersGuarded

LEMMA AiInvHolds == AiInv => AssistantTypeOK /\ KeyFitsProvider /\ AllowanceHolds /\ AnswersGuarded
  <1>. SUFFICES ASSUME AiInv PROVE AssistantTypeOK /\ KeyFitsProvider /\ AllowanceHolds /\ AnswersGuarded
    OBVIOUS
  <1>1. AssistantTypeOK /\ KeyFitsProvider
    BY DEF AiInv, AiRows, AiRow, Charged, AssistantTypeOK, KeyFitsProvider
  <1>2. ASSUME DailyQuota > 0, NEW day \in AiDays PROVE aiUsage[day] <= Allowance
    <2>1. /\ aiUsage[day] \in Nat /\ aiTick \in 0 .. LastAiTick
          /\ day < AiDay => aiUsage[day] <= Allowance
          /\ day = AiDay => aiUsage[day] + Cardinality(Flights(aiDesk)) <= Allowance
          /\ day > AiDay => aiUsage[day] = 0
      BY <1>2 DEF AiInv, Charged, AiRows
    <2>2. Cardinality(Flights(aiDesk)) \in Nat /\ Cardinality(Desks) \in Nat /\ DailyQuota \in Int
      BY FlightsFinite, AssistantAssumption
    <2>3. AiDay \in AiDays
      BY <2>1, TodayCounted
    <2>4. day \in Int /\ AiDay \in Int
      BY <2>3, DivGrows, AssistantAssumption DEF AiDays
    <2>. DEFINE u == aiUsage[day]  k == Cardinality(Flights(aiDesk))  n == Cardinality(Desks)
    <2>. HIDE DEF u, k, n
    <2>5. ASSUME u \in Nat, k \in Nat, n \in Nat, DailyQuota \in Int
          PROVE  /\ (u + k <= DailyQuota + n - 1) => (u <= DailyQuota + n - 1)
                 /\ (DailyQuota > 0 /\ u = 0) => (u <= DailyQuota + n - 1)
      BY <2>5
    <2>. QED  BY <1>2, <2>1, <2>2, <2>4, <2>5 DEF Allowance, u, k, n
  <1>3. DOMAIN aiUsage = AiDays
    BY DEF AiInv, Charged
  <1>4. AllowanceHolds
    BY <1>2, <1>3 DEF AllowanceHolds, Allowance
  <1>. QED  BY <1>1, <1>4 DEF AiInv

(* One desk goes on: to a question still to be paid only from one, or      *)
(* while some of the allowance is left.                                    *)
LEMMA DeskGoes ==
    ASSUME AiInv, NEW d \in Desks, NEW t, AiJob(t), Go(d, t), InFlight(t) => InFlight(aiDesk[d]) \/ ~Exhausted(aiUsage[AiDay])
    PROVE  AiDesks(aiDesk') /\ Charged(aiUsage, aiDesk', AiDay)
  <1>1. aiDesk' = [e \in Desks |-> IF e = d THEN t ELSE aiDesk[e]]
    BY DEF Go, AiInv, AiDesks
  <1>2. AiDesks(aiDesk')
    BY <1>1 DEF AiInv, AiDesks
  <1>3. aiUsage \in [AiDays -> Nat] /\ AiDay \in AiDays /\ AiRows
    BY TodayCounted DEF AiInv, Charged, AiRows
  <1>4. ASSUME DailyQuota > 0 PROVE aiUsage[AiDay] + Cardinality(Flights(aiDesk')) <= Allowance
    <2>. DEFINE u == aiUsage[AiDay]  k == Cardinality(Flights(aiDesk))  m == Cardinality(Flights(aiDesk'))  n == Cardinality(Desks)
    <2>1. u \in Nat /\ k \in Nat /\ m \in Nat /\ n \in Nat /\ m <= n /\ DailyQuota \in Int
      BY <1>3, FlightsFinite, AssistantAssumption
    <2>2. u + k <= Allowance
      BY <1>3, <1>4 DEF AiInv, Charged
    <2>3. CASE ~Exhausted(u)
      <3>1. u < DailyQuota
        BY <1>4, <2>1, <2>3 DEF Exhausted
      <3>. HIDE DEF u, k, m, n
      <3>2. u + m <= DailyQuota + n - 1
        BY <2>1, <3>1
      <3>. QED  BY <3>2 DEF Allowance, u, m, n
    <2>4. CASE InFlight(t) => InFlight(aiDesk[d])
      <3>1. Flights(aiDesk') \subseteq Flights(aiDesk)
        BY <1>1, <2>4 DEF Flights
      <3>2. m <= k
        BY <3>1, FlightsFinite, FS_Subset
      <3>3. Allowance \in Int
        BY <2>1 DEF Allowance
      <3>. HIDE DEF u, k, m
      <3>4. u + m <= Allowance
        BY <2>1, <2>2, <3>2, <3>3
      <3>. QED  BY <3>4 DEF u, m
    <2>. QED  BY <2>3, <2>4
  <1>5. Charged(aiUsage, aiDesk', AiDay)
    BY <1>4 DEF AiInv, Charged
  <1>. QED  BY <1>2, <1>5

LEMMA AiMoved ==
    ASSUME AiInv, NEW d \in Desks, NEW t, AiJob(t), Go(d, t), InFlight(t) => InFlight(aiDesk[d]) \/ ~Exhausted(aiUsage[AiDay]),
           AiRows', AnswersGuarded', UNCHANGED <<aiUsage, aiTick>>
    PROVE  AiInv'
  <1>1. AiDesks(aiDesk') /\ Charged(aiUsage, aiDesk', AiDay)
    BY DeskGoes
  <1>. QED  BY <1>1 DEF AiInv, AiDay, AiDesks

LEMMA Capabilities ==
    /\ Lookup("ops_summary") = [id |-> "ops_summary", kind |-> "data", requires |-> {"ai.read", "dashboard.read"}, facts |-> TRUE]
    /\ Lookup("greeting") = [id |-> "greeting", kind |-> "rule", requires |-> {"ai.read"}, facts |-> FALSE]
  <1>1. \A c \in catalog : c.id = "ops_summary" <=> c = [id |-> "ops_summary", kind |-> "data", requires |-> {"ai.read", "dashboard.read"}, facts |-> TRUE]
    BY DEF catalog
  <1>2. \A c \in catalog : c.id = "greeting" <=> c = [id |-> "greeting", kind |-> "rule", requires |-> {"ai.read"}, facts |-> FALSE]
    BY DEF catalog
  <1>3. [id |-> "ops_summary", kind |-> "data", requires |-> {"ai.read", "dashboard.read"}, facts |-> TRUE] \in catalog
    BY DEF catalog
  <1>4. [id |-> "greeting", kind |-> "rule", requires |-> {"ai.read"}, facts |-> FALSE] \in catalog
    BY DEF catalog
  <1>5. Lookup("ops_summary") \in catalog /\ Lookup("ops_summary").id = "ops_summary"
    BY <1>1, <1>3 DEF Lookup
  <1>6. Lookup("greeting") \in catalog /\ Lookup("greeting").id = "greeting"
    BY <1>2, <1>4 DEF Lookup
  <1>. QED  BY <1>1, <1>2, <1>5, <1>6

(* Whoever may see it is answered, and nobody else but by a rule.          *)
LEMMA SaidRight ==
    ASSUME NEW id, NEW perms, NEW source, NEW notice, Say(Lookup(id), source, notice, perms),
           source \in {"ai", "cache", "data"} => MaySee(id, perms),
           notice = "not_allowed" <=> ~Allowed(Lookup(id), perms),
           source = "cache" => Lookup(id).id = id /\ aiTick - aiCache[id] <= AnswerTTL
    PROVE  AnswersGuarded'
  <1>1. /\ aiAnswer'.source = source /\ aiAnswer'.notice = notice /\ aiAnswer'.may = Allowed(Lookup(id), perms)
        /\ aiAnswer'.age = IF source = "cache" THEN aiTick - aiCache[Lookup(id).id] ELSE 0
    BY DEF Say
  <1>2. AnswerTTL \in Nat
    BY AssistantAssumption
  <1>3. aiAnswer'.age <= AnswerTTL
    BY <1>1, <1>2
  <1>. QED  BY <1>1, <1>3 DEF AnswersGuarded, MaySee

LEMMA AnswersStay == ASSUME AnswersGuarded, UNCHANGED aiAnswer PROVE AnswersGuarded'
  BY DEF AnswersGuarded
LEMMA AiRowsStay == ASSUME AiRows, UNCHANGED <<aiSettings, aiCache, aiTick, aiMemo>> PROVE AiRows'
  BY DEF AiRows

LEMMA SetupReadInv == ASSUME AiInv, NEW d \in Desks, SetupRead(d) PROVE AiInv'
  <1>1. PICK provider \in AiProviders, model \in Models, enabled \in BOOLEAN, kept \in BOOLEAN :
        /\ kept => aiSettings # NoRow /\ aiSettings.provider = provider
        /\ Go(d, [op |-> IF enabled /\ ~(kept /\ aiSettings.model = model) THEN "verify" ELSE "setup",
                  row |-> [provider |-> provider, keyOf |-> IF kept THEN aiSettings.keyOf ELSE provider, model |-> model, enabled |-> enabled]])
    BY DEF SetupRead, GetSettings, apiKey
  <1>. DEFINE key == IF kept THEN aiSettings.keyOf ELSE provider
              r == [provider |-> provider, keyOf |-> key, model |-> model, enabled |-> enabled]
              o == IF enabled /\ ~(kept /\ aiSettings.model = model) THEN "verify" ELSE "setup"
              t == [op |-> o, row |-> r]
  <1>2. key = provider
    BY <1>1 DEF AiInv, AiRows
  <1>3. r \in AiRow /\ r.keyOf = r.provider
    BY <1>2 DEF AiRow
  <1>4. o \in {"verify", "setup"}
    OBVIOUS
  <1>. HIDE DEF r, o
  <1>5. t \in SettingsJob /\ t.row = r /\ t.op = o
    BY <1>3, <1>4 DEF SettingsJob
  <1>6. Go(d, t)
    BY <1>1 DEF t, r, o
  <1>. HIDE DEF t
  <1>7. AiJob(t) /\ ~InFlight(t)
    BY <1>3, <1>4, <1>5 DEF AiJob, InFlight
  <1>8. AiRows' /\ AnswersGuarded' /\ UNCHANGED <<aiUsage, aiTick>>
    BY AiRowsStay, AnswersStay DEF AiInv, SetupRead
  <1>. QED  BY <1>6, <1>7, <1>8, AiMoved

LEMMA VerifyKeyInv == ASSUME AiInv, NEW d \in Desks, VerifyKey(d) PROVE AiInv'
  <1>1. aiDesk[d].op = "verify" /\ AiJob(aiDesk[d])
    BY DEF VerifyKey, AiInv, AiDesks
  <1>2. aiDesk[d] \in SettingsJob /\ aiDesk[d].row.keyOf = aiDesk[d].row.provider
    BY <1>1 DEF AiJob, Free, DecideJob, AskedJob
  <1>. DEFINE t == [op |-> "setup", row |-> aiDesk[d].row]
  <1>3. [aiDesk[d] EXCEPT !.op = "setup"] = t /\ t \in SettingsJob /\ t.row = aiDesk[d].row
    BY <1>2 DEF SettingsJob
  <1>4. Go(d, t) \/ Go(d, Free)
    BY <1>3 DEF VerifyKey
  <1>. HIDE DEF t
  <1>5. AiJob(t) /\ AiJob(Free) /\ ~InFlight(Free) /\ ~InFlight(t)
    BY <1>2, <1>3 DEF AiJob, InFlight, Free, SettingsJob
  <1>6. AiRows' /\ AnswersGuarded' /\ UNCHANGED <<aiUsage, aiTick>>
    BY AiRowsStay, AnswersStay DEF AiInv, VerifyKey
  <1>. QED  BY <1>4, <1>5, <1>6, AiMoved

LEMMA DisableReadInv == ASSUME AiInv, NEW d \in Desks, DisableRead(d) PROVE AiInv'
  <1>. DEFINE r == [aiSettings EXCEPT !.enabled = FALSE]
              t == [op |-> "setup", row |-> r]
  <1>1. aiSettings \in AiRow /\ aiSettings.keyOf = aiSettings.provider
    BY DEF DisableRead, AiInv, AiRows, GetSettings
  <1>2. r \in AiRow /\ r.keyOf = r.provider
    BY <1>1 DEF AiRow
  <1>3. Go(d, t)
    BY DEF DisableRead, GetSettings
  <1>. HIDE DEF r
  <1>4. t \in SettingsJob /\ t.row = r /\ t.op = "setup"
    BY <1>2 DEF SettingsJob
  <1>. HIDE DEF t
  <1>5. AiJob(t) /\ ~InFlight(t)
    BY <1>2, <1>4 DEF AiJob, InFlight
  <1>6. AiRows' /\ AnswersGuarded' /\ UNCHANGED <<aiUsage, aiTick>>
    BY AiRowsStay, AnswersStay DEF AiInv, DisableRead
  <1>. QED  BY <1>3, <1>5, <1>6, AiMoved

LEMMA FreeJob == AiJob(Free) /\ ~InFlight(Free)
  BY DEF AiJob, InFlight, Free

LEMMA SettingsWriteInv == ASSUME AiInv, NEW d \in Desks, SettingsWrite(d) PROVE AiInv'
  <1>1. aiDesk[d].op = "setup" /\ AiJob(aiDesk[d])
    BY DEF SettingsWrite, AiInv, AiDesks
  <1>2. aiDesk[d].row \in AiRow /\ aiDesk[d].row.keyOf = aiDesk[d].row.provider
    BY <1>1 DEF AiJob, Free, DecideJob, AskedJob, SettingsJob
  <1>3. aiSettings' = aiDesk[d].row /\ Go(d, Free) /\ UNCHANGED <<aiUsage, aiCache, aiMemo, aiUntil, aiTick, aiAnswer>>
    BY DEF SettingsWrite, UpsertSettings
  <1>4. AiRows'
    BY <1>2, <1>3 DEF AiRows, AiInv
  <1>5. AnswersGuarded'
    BY <1>3, AnswersStay DEF AiInv
  <1>. QED  BY <1>3, <1>4, <1>5, FreeJob, AiMoved

LEMMA NothingFlies == ASSUME AiInv, UNCHANGED <<aiDesk, aiUsage, aiTick>>, AiRows', AnswersGuarded' PROVE AiInv'
  BY DEF AiInv, AiDay, AiDesks, Charged

LEMMA AskBeginInv == ASSUME AiInv, NEW d \in Desks, AskBegin(d) PROVE AiInv'
  <1>0. AiRows' /\ UNCHANGED <<aiUsage, aiTick>>
    BY AiRowsStay DEF AiInv, AskBegin
  <1>1. PICK id \in Askable, perms \in {{"ai.read"}, Perms} :
        IF Lookup(id).kind = "rule" THEN Say(Lookup(id), "rule", "", perms) /\ UNCHANGED aiDesk
        ELSE IF ~Allowed(Lookup(id), perms) THEN Say(Lookup(id), "rule", "not_allowed", perms) /\ UNCHANGED aiDesk
        ELSE /\ Go(d, [op |-> "decide", id |-> id, perms |-> perms, used |-> Used(AiDay),
                       conf |-> IF MemoAlive THEN aiMemo.value ELSE resolve, fresh |-> ~MemoAlive])
             /\ UNCHANGED aiAnswer
    BY DEF AskBegin
  <1>2. CASE Lookup(id).kind = "rule"
    <2>1. Allowed(Lookup(id), perms)
      BY <1>2, Capabilities DEF Askable, Allowed, Perms
    <2>2. Say(Lookup(id), "rule", "", perms) /\ UNCHANGED aiDesk
      BY <1>1, <1>2
    <2>3. AnswersGuarded'
      BY <2>1, <2>2, SaidRight
    <2>. QED  BY <1>0, <2>2, <2>3, NothingFlies
  <1>3. CASE Lookup(id).kind # "rule" /\ ~Allowed(Lookup(id), perms)
    <2>1. Say(Lookup(id), "rule", "not_allowed", perms) /\ UNCHANGED aiDesk
      BY <1>1, <1>3
    <2>2. AnswersGuarded'
      BY <1>3, <2>1, SaidRight
    <2>. QED  BY <1>0, <2>1, <2>2, NothingFlies
  <1>4. CASE Lookup(id).kind # "rule" /\ Allowed(Lookup(id), perms)
    <2>. DEFINE c == IF MemoAlive THEN aiMemo.value ELSE resolve
                f == ~MemoAlive
                u == aiUsage[AiDay]
                t == [op |-> "decide", id |-> id, perms |-> perms, used |-> u, conf |-> c, fresh |-> f]
    <2>1. Go(d, t) /\ UNCHANGED aiAnswer
      BY <1>1, <1>4 DEF Used
    <2>2. c \in BOOLEAN
      BY DEF AiInv, AiRows, MemoAlive, resolve, AiConfigured
    <2>3. f \in BOOLEAN
      BY DEF MemoAlive
    <2>4. u \in Nat
      BY TodayCounted DEF AiInv, AiRows, Charged
    <2>5. perms \in SUBSET Perms
      BY DEF Perms
    <2>. HIDE DEF c, f, u
    <2>6. t \in DecideJob /\ t.id = id /\ t.perms = perms /\ t.op = "decide" /\ t.used = u
      BY <2>2, <2>3, <2>4, <2>5 DEF DecideJob
    <2>. HIDE DEF t
    <2>7. AiJob(t)
      BY <1>4, <2>6 DEF AiJob, MaySee
    <2>8. InFlight(t) => ~Exhausted(aiUsage[AiDay])
      BY <2>6 DEF InFlight, u
    <2>9. AnswersGuarded'
      BY <2>1, AnswersStay DEF AiInv
    <2>. QED  BY <1>0, <2>1, <2>7, <2>8, <2>9, AiMoved
  <1>. QED  BY <1>2, <1>3, <1>4

LEMMA DecideJobs == ASSUME AiInv, NEW d \in Desks, aiDesk[d].op = "decide" PROVE aiDesk[d] \in DecideJob /\ MaySee(aiDesk[d].id, aiDesk[d].perms)
  <1>1. AiJob(aiDesk[d])
    BY DEF AiInv, AiDesks
  <1>2. aiDesk[d] # Free /\ aiDesk[d] \notin SettingsJob /\ aiDesk[d] \notin AskedJob
    BY DEF Free, SettingsJob, AskedJob
  <1>. QED  BY <1>1, <1>2 DEF AiJob
LEMMA AskedJobs == ASSUME AiInv, NEW d \in Desks, aiDesk[d].op \in {"call", "model"} PROVE aiDesk[d] \in AskedJob /\ MaySee(aiDesk[d].id, aiDesk[d].perms)
  <1>1. AiJob(aiDesk[d])
    BY DEF AiInv, AiDesks
  <1>2. aiDesk[d] # Free /\ aiDesk[d] \notin SettingsJob /\ aiDesk[d] \notin DecideJob
    BY DEF Free, SettingsJob, DecideJob
  <1>. QED  BY <1>1, <1>2 DEF AiJob

LEMMA MemoFilled ==
    ASSUME AiRows, UNCHANGED <<aiSettings, aiCache, aiTick>>, NEW c \in BOOLEAN,
           aiMemo' = [value |-> c, expires |-> aiTick + MemoTTL] \/ aiMemo' = aiMemo
    PROVE  AiRows'
  <1>1. aiTick \in Int /\ MemoTTL \in Int
    BY AssistantAssumption DEF AiRows
  <1>. DEFINE e == aiTick + MemoTTL
  <1>2. e \in Int /\ e <= aiTick + MemoTTL
    BY <1>1
  <1>. HIDE DEF e
  <1>3. CASE aiMemo' = [value |-> c, expires |-> e]
    <2>1. aiMemo' \in [value : BOOLEAN, expires : Int] /\ aiMemo'.expires = e
      BY <1>2, <1>3
    <2>. QED  BY <1>2, <2>1 DEF AiRows
  <1>. QED  BY <1>3 DEF AiRows, e

LEMMA AskDecideInv == ASSUME AiInv, NEW d \in Desks, AskDecide(d) PROVE AiInv'
  <1>. DEFINE q == aiDesk[d]
              refusal == IF ~q.conf THEN "not_configured" ELSE IF Exhausted(q.used) THEN "quota_reached" ELSE IF BreakerOpen THEN "ai_unavailable" ELSE ""
              t == [op |-> "call", id |-> q.id, perms |-> q.perms]
  <1>1. /\ q.op = "decide"
        /\ aiMemo' = IF q.fresh THEN [value |-> q.conf, expires |-> aiTick + MemoTTL] ELSE aiMemo
        /\ IF refusal # "" THEN Essential(Lookup(q.id), refusal, q.perms) /\ Go(d, Free)
           ELSE IF CachedAnswer(q.id) THEN Say(Lookup(q.id), "cache", "", q.perms) /\ Go(d, Free)
           ELSE Go(d, t) /\ UNCHANGED aiAnswer
        /\ UNCHANGED <<aiSettings, aiUsage, aiCache, aiUntil, aiTick>>
    BY DEF AskDecide
  <1>2. q \in DecideJob /\ MaySee(q.id, q.perms)
    BY <1>1, DecideJobs
  <1>3. AiRows' /\ UNCHANGED <<aiUsage, aiTick>>
    <2>1. q.conf \in BOOLEAN
      BY <1>2 DEF DecideJob
    <2>. HIDE DEF q
    <2>. QED  BY <1>1, <2>1, MemoFilled DEF AiInv
  <1>4. refusal \in {"not_configured", "quota_reached", "ai_unavailable", ""}
    OBVIOUS
  <1>5. refusal = "" => ~Exhausted(q.used)
    OBVIOUS
  <1>6. q.id \in Askable /\ Allowed(Lookup(q.id), q.perms) /\ Lookup(q.id).id = q.id
    BY <1>2, Capabilities DEF MaySee, Askable
  <1>. HIDE DEF refusal
  <1>7. CASE refusal # ""
    <2>1. Say(Lookup(q.id), essentialSource(Lookup(q.id)), refusal, q.perms) /\ Go(d, Free)
      BY <1>1, <1>7 DEF Essential
    <2>2. essentialSource(Lookup(q.id)) \in {"data", "rule"}
      BY DEF essentialSource
    <2>. DEFINE src == essentialSource(Lookup(q.id))
    <2>. HIDE DEF src, q
    <2>3. src # "cache" /\ refusal # "not_allowed"
      BY <1>4, <2>2 DEF src
    <2>4. AnswersGuarded'
      BY <1>2, <1>6, <2>1, <2>3, SaidRight DEF src
    <2>. QED  BY <1>3, <2>1, <2>4, FreeJob, AiMoved
  <1>8. CASE refusal = "" /\ CachedAnswer(q.id)
    <2>1. Say(Lookup(q.id), "cache", "", q.perms) /\ Go(d, Free)
      BY <1>1, <1>8
    <2>2. AnswersGuarded'
      BY <1>2, <1>6, <1>8, <2>1, SaidRight DEF CachedAnswer
    <2>. QED  BY <1>3, <2>1, <2>2, FreeJob, AiMoved
  <1>9. CASE refusal = "" /\ ~CachedAnswer(q.id)
    <2>1. Go(d, t) /\ UNCHANGED aiAnswer
      BY <1>1, <1>9
    <2>2. InFlight(q)
      BY <1>1, <1>5, <1>9 DEF InFlight
    <2>3. q.id \in Askable /\ q.perms \in SUBSET Perms
      BY <1>2 DEF DecideJob
    <2>. HIDE DEF q
    <2>4. t \in AskedJob /\ t.id = q.id /\ t.perms = q.perms
      BY <2>3 DEF AskedJob
    <2>. HIDE DEF t
    <2>5. AiJob(t)
      BY <1>2, <2>4 DEF AiJob
    <2>6. AnswersGuarded'
      BY <2>1, AnswersStay DEF AiInv
    <2>. QED  BY <1>3, <2>1, <2>2, <2>5, <2>6, AiMoved DEF q
  <1>. QED  BY <1>7, <1>8, <1>9

LEMMA AskCallInv == ASSUME AiInv, NEW d \in Desks, AskCall(d) PROVE AiInv'
  <1>. DEFINE t == [aiDesk[d] EXCEPT !.op = "model"]
  <1>1. aiDesk[d].op = "call" /\ Go(d, t) /\ UNCHANGED <<aiSettings, aiUsage, aiCache, aiMemo, aiUntil, aiTick, aiAnswer>>
    BY DEF AskCall
  <1>2. aiDesk[d] \in AskedJob /\ MaySee(aiDesk[d].id, aiDesk[d].perms)
    BY <1>1, AskedJobs
  <1>3. t \in AskedJob /\ t.id = aiDesk[d].id /\ t.perms = aiDesk[d].perms
    BY <1>2 DEF AskedJob
  <1>. HIDE DEF t
  <1>4. AiJob(t) /\ InFlight(aiDesk[d])
    BY <1>1, <1>2, <1>3 DEF AiJob, InFlight
  <1>5. AiRows' /\ AnswersGuarded'
    BY <1>1, AiRowsStay, AnswersStay DEF AiInv
  <1>. QED  BY <1>1, <1>4, <1>5, AiMoved

LEMMA AskFailsInv == ASSUME AiInv, NEW d \in Desks, AskFails(d) PROVE AiInv'
  <1>1. /\ aiDesk[d].op \in {"call", "model"} /\ Go(d, Free) /\ UNCHANGED <<aiSettings, aiUsage, aiCache, aiMemo, aiTick>>
        /\ Say(Lookup(aiDesk[d].id), essentialSource(Lookup(aiDesk[d].id)), "ai_unavailable", aiDesk[d].perms)
    BY DEF AskFails, Essential
  <1>2. MaySee(aiDesk[d].id, aiDesk[d].perms)
    BY <1>1, AskedJobs
  <1>3. essentialSource(Lookup(aiDesk[d].id)) # "cache"
    BY DEF essentialSource
  <1>4. Allowed(Lookup(aiDesk[d].id), aiDesk[d].perms)
    BY <1>2 DEF MaySee
  <1>5. AnswersGuarded'
    BY <1>1, <1>2, <1>3, <1>4, SaidRight
  <1>6. AiRows'
    BY <1>1, AiRowsStay DEF AiInv
  <1>. QED  BY <1>1, <1>5, <1>6, FreeJob, AiMoved

LEMMA OneMore ==
    ASSUME NEW D, NEW f \in [D -> Nat], NEW x \in D, NEW g, g = [f EXCEPT ![x] = @ + 1]
    PROVE  g \in [D -> Nat] /\ \A y \in D : g[y] = IF y = x THEN f[y] + 1 ELSE f[y]
  OBVIOUS

(* The answer is charged as its question leaves: the day's sum stays.      *)
LEMMA AskReplyInv == ASSUME AiInv, NEW d \in Desks, AskReply(d) PROVE AiInv'
  <1>. DEFINE id == aiDesk[d].id
  <1>1. /\ aiDesk[d].op = "model" /\ aiUsage' = [aiUsage EXCEPT ![AiDay] = @ + 1]
        /\ aiCache' = [x \in DOMAIN aiCache \cup {id} |-> IF x = id THEN aiTick ELSE aiCache[x]]
        /\ Say(Lookup(id), "ai", "", aiDesk[d].perms) /\ Go(d, Free) /\ UNCHANGED <<aiSettings, aiMemo, aiUntil, aiTick>>
    BY DEF AskReply, AddUsage, PutAnswer
  <1>2. aiDesk[d] \in AskedJob /\ MaySee(id, aiDesk[d].perms)
    BY <1>1, AskedJobs
  <1>3. AnswersGuarded'
    <2>1. Allowed(Lookup(id), aiDesk[d].perms)
      BY <1>2 DEF MaySee
    <2>. HIDE DEF id
    <2>. QED  BY <1>1, <1>2, <2>1, SaidRight
  <1>4. AiRows'
    <2>1. id \in Askable
      BY <1>2 DEF MaySee
    <2>2. aiTick \in Nat /\ aiCache \in [DOMAIN aiCache -> Nat] /\ DOMAIN aiCache \subseteq Askable
      BY AssistantAssumption DEF AiInv, AiRows
    <2>. HIDE DEF id
    <2>3. DOMAIN aiCache' = DOMAIN aiCache \cup {id} /\ \A x \in DOMAIN aiCache' : aiCache'[x] \in Nat
      BY <1>1, <2>2
    <2>4. aiCache' \in [DOMAIN aiCache' -> Nat] /\ DOMAIN aiCache' \subseteq Askable
      BY <1>1, <2>1, <2>2, <2>3
    <2>. QED  BY <1>1, <2>4 DEF AiInv, AiRows
  <1>5. AiDay \in AiDays /\ aiUsage \in [AiDays -> Nat] /\ AiDay' = AiDay
    BY <1>1, TodayCounted DEF AiInv, AiRows, Charged, AiDay
  <1>6. AiDesks(aiDesk') /\ aiDesk' = [e \in Desks |-> IF e = d THEN Free ELSE aiDesk[e]]
    BY <1>1, FreeJob DEF AiInv, AiDesks, Go
  <1>7. Cardinality(Flights(aiDesk')) = Cardinality(Flights(aiDesk)) - 1
    <2>1. Flights(aiDesk') = Flights(aiDesk) \ {d}
      BY <1>6, FreeJob DEF Flights
    <2>2. d \in Flights(aiDesk)
      BY <1>1 DEF Flights, InFlight
    <2>. QED  BY <2>1, <2>2, FlightsFinite, FS_RemoveElement
  <1>8. Charged(aiUsage', aiDesk', AiDay)
    <2>1. aiUsage' \in [AiDays -> Nat] /\ \A day \in AiDays : aiUsage'[day] = IF day = AiDay THEN aiUsage[day] + 1 ELSE aiUsage[day]
      <3>. DEFINE u == aiUsage  v == aiUsage'  D == AiDays  today == AiDay
      <3>1. v = [u EXCEPT ![today] = @ + 1] /\ u \in [D -> Nat] /\ today \in D
        BY <1>1, <1>5
      <3>. HIDE DEF u, v, D, today
      <3>2. v \in [D -> Nat] /\ \A day \in D : v[day] = IF day = today THEN u[day] + 1 ELSE u[day]
        BY <3>1, OneMore
      <3>. QED  BY <3>2 DEF u, v, D, today
    <2>. SUFFICES ASSUME DailyQuota > 0, NEW day \in AiDays
         PROVE  /\ day < AiDay => aiUsage'[day] <= Allowance
                /\ day = AiDay => aiUsage'[day] + Cardinality(Flights(aiDesk')) <= Allowance
                /\ day > AiDay => aiUsage'[day] = 0
      BY <2>1 DEF Charged
    <2>2. /\ day < AiDay => aiUsage[day] <= Allowance
          /\ day = AiDay => aiUsage[day] + Cardinality(Flights(aiDesk)) <= Allowance
          /\ day > AiDay => aiUsage[day] = 0
      BY DEF AiInv, Charged
    <2>3. CASE day = AiDay
      <3>. DEFINE u == aiUsage[day]  v == aiUsage'[day]  k == Cardinality(Flights(aiDesk))  m == Cardinality(Flights(aiDesk'))
      <3>1. u \in Nat /\ k \in Nat /\ v = u + 1 /\ m = k - 1 /\ u + k <= Allowance
        BY <1>5, <1>7, <2>1, <2>2, <2>3, FlightsFinite
      <3>2. AiDay \in Int
        BY <1>5, DivGrows, AssistantAssumption DEF AiDays
      <3>. HIDE DEF u, v, k, m
      <3>3. v + m = u + k
        BY <3>1
      <3>. QED  BY <2>3, <3>1, <3>2, <3>3 DEF v, m
    <2>4. CASE day # AiDay
      BY <2>1, <2>2, <2>4
    <2>. QED  BY <2>3, <2>4
  <1>. QED  BY <1>3, <1>4, <1>5, <1>6, <1>8 DEF AiInv, AiDesks

(* A new day starts without a charge, whatever is in flight.               *)
LEMMA AiTickInv == ASSUME AiInv, AiTick PROVE AiInv'
  <1>1. /\ aiTick < LastAiTick /\ aiTick' = aiTick + 1
        /\ UNCHANGED <<aiSettings, aiUsage, aiCache, aiMemo, aiUntil, aiDesk, aiAnswer>>
    BY DEF AiTick
  <1>2. aiTick \in Nat /\ aiTick' \in Nat /\ LastAiTick \in Nat /\ aiTick <= LastAiTick /\ aiTick' <= LastAiTick /\ aiTick <= aiTick'
        /\ DayTicks \in Nat \ {0} /\ MemoTTL \in Nat
    BY <1>1, AssistantAssumption DEF AiInv, AiRows
  <1>3. AiRows'
    <2>1. aiTick' \in 0 .. LastAiTick
      BY <1>2
    <2>2. aiMemo # NoRow => aiMemo.expires <= aiTick' + MemoTTL
      <3>1. aiMemo # NoRow => aiMemo.expires \in Int /\ aiMemo.expires <= aiTick + MemoTTL
        BY DEF AiInv, AiRows
      <3>. DEFINE e == aiMemo.expires
      <3>. HIDE DEF e
      <3>. QED  BY <1>2, <3>1 DEF e
    <2>. QED  BY <1>1, <2>1, <2>2 DEF AiInv, AiRows
  <1>4. AnswersGuarded'
    BY <1>1, AnswersStay DEF AiInv
  <1>5. AiDay \in Nat /\ AiDay' \in Nat /\ AiDay <= AiDay'
    BY <1>2, DivGrows DEF AiDay
  <1>6. Charged(aiUsage, aiDesk, AiDay')
    <2>. SUFFICES ASSUME DailyQuota > 0, NEW day \in AiDays
         PROVE  /\ day < AiDay' => aiUsage[day] <= Allowance
                /\ day = AiDay' => aiUsage[day] + Cardinality(Flights(aiDesk)) <= Allowance
                /\ day > AiDay' => aiUsage[day] = 0
      BY DEF AiInv, Charged
    <2>. DEFINE u == aiUsage[day]  k == Cardinality(Flights(aiDesk))  n == Cardinality(Desks)
    <2>1. /\ day < AiDay => u <= Allowance
          /\ day = AiDay => u + k <= Allowance
          /\ day > AiDay => u = 0
          /\ u \in Nat
      BY DEF AiInv, Charged
    <2>2. day \in Int
      BY DivGrows, AssistantAssumption DEF AiDays
    <2>3. k \in Nat /\ n \in Nat /\ k <= n /\ DailyQuota \in Int
      BY FlightsFinite, AssistantAssumption
    <2>. DEFINE a == AiDay  b == AiDay'  q == DailyQuota + n - 1
    <2>4. Allowance = q
      BY DEF Allowance
    <2>. HIDE DEF u, k, n
    <2>5. q \in Int /\ k <= q /\ 0 <= q
      BY <2>3
    <2>. HIDE DEF a, b, q
    <2>6. a \in Nat /\ b \in Nat /\ a <= b
      BY <1>5 DEF a, b
    <2>7. (day < a => u <= q) /\ (day = a => u + k <= q) /\ (day > a => u = 0)
      BY <2>1, <2>4 DEF a
    <2>8. (day < b => u <= q) /\ (day = b => u + k <= q) /\ (day > b => u = 0)
      BY <2>1, <2>2, <2>3, <2>5, <2>6, <2>7
    <2>. QED  BY <2>4, <2>8 DEF b, u, k
  <1>. QED  BY <1>1, <1>3, <1>4, <1>6 DEF AiInv, AiDesks

LEMMA AiInvNext == AiInv /\ (ChatNext \/ SettingsNext \/ AskFigure) => AiInv'
  <1>1. ASSUME AiInv, AskFigure PROVE AiInv'
    <2>1. UNCHANGED chatVars
      BY <1>1 DEF AskFigure
    <2>. QED  BY <1>1, <2>1, AiStays
  <1>2. ASSUME AiInv, SettingsNext PROVE AiInv'
    BY <1>2, DisableReadInv, SettingsWriteInv, SetupReadInv, VerifyKeyInv DEF SettingsNext
  <1>3. ASSUME AiInv, ChatNext PROVE AiInv'
    BY <1>3, AskBeginInv, AskDecideInv, AskCallInv, AskReplyInv, AskFailsInv, DisableReadInv, SettingsWriteInv, AiTickInv DEF ChatNext
  <1>. QED  BY <1>1, <1>2, <1>3

-----------------------------------------------------------------------------
(* The back office: sweeps of due reports, and help requests.              *)
(* What a desk of the reports holds is of known schedules, and what it is  *)
(* about to run is over.                                                   *)
ValidSchedule(row) ==
    /\ row \in ScheduleRow /\ row.kind # "integrations" /\ row.to # {} /\ Cardinality(row.to) <= MaxRecipients
ReportJob(t, today) ==
    \/ t = Free
    \/ t.op = "edit" /\ t.id \in SchedIds /\ ValidSchedule(t.row)
    \/ t.op = "sweep" /\ DOMAIN t.left \subseteq SchedIds
    \/ t.op = "run" /\ t.id \in SchedIds /\ DOMAIN t.left \subseteq SchedIds /\ t.period.to \in Int /\ t.period.to <= today
ReportDesks(desk, today) == desk = [d \in Desks |-> desk[d]] /\ \A d \in Desks : ReportJob(desk[d], today)

(* Ids are given in order and never again, so what is told of a deleted    *)
(* schedule stays the past.                                                *)
Schedules(rows, made) ==
    /\ rows = [id \in SchedIds |-> rows[id]] /\ made \in Nat
    /\ \A id \in SchedIds : rows[id] # NoRow => ValidSchedule(rows[id]) /\ id <= made
RunsOnce(ran, rows, today) ==
    /\ \A a, b \in ran : (a.sched = b.sched /\ a.period = b.period) => a = b
    /\ \A r \in ran : r.sched \in SchedIds /\ rows[r.sched] # NoRow /\ r.period.to \in Int /\ r.period.to <= today
ReadyOnce(heard, ran, rows, made) ==
    /\ heard = [k \in DOMAIN heard |-> heard[k]]
    /\ \A k \in DOMAIN heard :
        /\ k = <<k[1], k[2], k[3]>> /\ k[1] \in SchedIds /\ k[1] <= made /\ heard[k] = 1
        /\ rows[k[1]] # NoRow => \E r \in ran : r.sched = k[1] /\ r.period = k[2]
ReportInv ==
    /\ reportDay \in 4 .. LastReportDay /\ eligible \subseteq ReportUsers
    /\ Schedules(scheds, schedsMade) /\ ReportDesks(reportDesk, reportDay)
    /\ RunsOnce(runs, scheds, reportDay) /\ ReadyOnce(ready, runs, scheds, schedsMade)

(* A request is resolved by somebody, and so is what a desk writes back;   *)
(* requests were counted, or the limiter missed them.                      *)
RequestRow(row) == row.status \in SupportStatuses /\ (row.status = "resolved" <=> row.resolvedBy # NoRow)
SupportInv ==
    /\ requests \in Seq([status : SupportStatuses, resolvedBy : Desks \cup {NoRow}])
    /\ \A i \in DOMAIN requests : RequestRow(requests[i])
    /\ supportDesk = [d \in Desks |-> supportDesk[d]]
    /\ \A d \in Desks : \/ supportDesk[d] = Free
                        \/ supportDesk[d].op = "write" /\ supportDesk[d].row \in [status : SupportStatuses, resolvedBy : Desks \cup {NoRow}]
                           /\ RequestRow(supportDesk[d].row)
    /\ supportHits \in Nat /\ supportBlind \in Nat /\ supportMade \in Nat
    /\ supportMade <= supportHits + supportBlind /\ supportMade <= SubmitPerHour + supportBlind
RequestsHold ==
    /\ \A i \in DOMAIN requests : (requests[i].status = "resolved") <=> (requests[i].resolvedBy # NoRow)
    /\ supportMade <= SubmitPerHour + supportBlind
OfficeInv == ReportInv /\ SupportInv

LEMMA LeastNumber ==
    ASSUME NEW S, S \subseteq Nat, S # {}
    PROVE  Min(S) \in S /\ \A y \in S : Min(S) <= y
  <1>1. PICK m : m \in S
    OBVIOUS
  <1>. DEFINE F == {0 .. k : k \in S \cap (0 .. m)}
  <1>2. m \in Nat /\ IsFiniteSet(0 .. m)
    BY <1>1, FS_Interval
  <1>3. F \in SUBSET (SUBSET (0 .. m))
    BY <1>2
  <1>4. (0 .. m) \in F
    BY <1>1, <1>2
  <1>5. \E T \in F : \A U \in F : U \subseteq T => U = T
    <2>. DEFINE I == 0 .. m
    <2>1. IsFiniteSet(I) /\ F \in SUBSET (SUBSET I) /\ F # {}
      BY <1>2, <1>3, <1>4
    <2>. HIDE DEF F, I
    <2>. QED  BY <2>1, Smallest
  <1>6. PICK k \in S \cap (0 .. m) : \A U \in F : U \subseteq (0 .. k) => U = 0 .. k
    BY <1>5
  <1>7. ASSUME NEW y \in S PROVE k <= y
    <2>. SUFFICES ASSUME y < k PROVE FALSE
      BY <1>6, <1>7
    <2>1. y \in Nat /\ k \in Nat /\ y \in 0 .. m /\ (0 .. y) \subseteq 0 .. k
      BY <1>2, <1>6, <1>7
    <2>2. (0 .. y) \in F
      BY <1>7, <2>1
    <2>3. 0 .. y = 0 .. k
      BY <1>6, <2>1, <2>2
    <2>4. k \in 0 .. k
      BY <2>1
    <2>. QED  BY <2>1, <2>3, <2>4
  <1>8. \E x \in S : \A y \in S : x <= y
    BY <1>6, <1>7
  <1>. QED  BY <1>8 DEF Min

LEMMA OfficeInitHolds == OfficeInit => OfficeInv
  <1>. SUFFICES ASSUME OfficeInit PROVE OfficeInv
    OBVIOUS
  <1>1. reportDay \in 4 .. LastReportDay /\ eligible \subseteq ReportUsers
    BY OfficeAssumption DEF OfficeInit
  <1>2. Schedules(scheds, schedsMade) /\ ReportDesks(reportDesk, reportDay)
    <2>1. Schedules(scheds, schedsMade)
      BY DEF OfficeInit, Schedules
    <2>2. ReportDesks(reportDesk, reportDay)
      <3>1. reportDesk = [d \in Desks |-> Free] /\ \A d \in Desks : reportDesk[d] = Free
        BY DEF OfficeInit
      <3>. QED  BY <3>1 DEF ReportDesks, ReportJob
    <2>. QED  BY <2>1, <2>2
  <1>3. RunsOnce(runs, scheds, reportDay) /\ ReadyOnce(ready, runs, scheds, schedsMade)
    BY DEF OfficeInit, RunsOnce, ReadyOnce
  <1>4. SupportInv
    BY OfficeAssumption DEF OfficeInit, SupportInv
  <1>. QED  BY <1>1, <1>2, <1>3, <1>4 DEF OfficeInv, ReportInv

LEMMA OfficeInvHolds == OfficeInv => OfficeTypeOK /\ ReportOncePerPeriod /\ RequestsHold
  <1>. SUFFICES ASSUME OfficeInv PROVE OfficeTypeOK /\ ReportOncePerPeriod /\ RequestsHold
    OBVIOUS
  <1>1. ASSUME NEW id \in SchedIds, scheds[id] # NoRow PROVE NormalizeSchedule(scheds[id]) # {}
    <2>1. ValidSchedule(scheds[id])
      BY <1>1 DEF OfficeInv, ReportInv, Schedules
    <2>2. scheds[id] \in NormalizeSchedule(scheds[id])
      BY <2>1 DEF ValidSchedule, NormalizeSchedule, ValidKind, ScheduleRow
    <2>. QED  BY <2>2
  <1>2. OfficeTypeOK
    BY <1>1 DEF OfficeInv, ReportInv, SupportInv, RequestRow, OfficeTypeOK
  <1>3. ReportOncePerPeriod
    BY DEF OfficeInv, ReportInv, RunsOnce, ReadyOnce, RunExists, ReportOncePerPeriod
  <1>4. RequestsHold
    BY DEF OfficeInv, SupportInv, RequestRow, RequestsHold
  <1>. QED  BY <1>2, <1>3, <1>4

LEMMA ReportStays == ReportInv /\ UNCHANGED scheduleVars => ReportInv'
  BY DEF ReportInv, scheduleVars, Schedules, ReportDesks, RunsOnce, ReadyOnce
LEMMA SupportStays == SupportInv /\ UNCHANGED supportVars => SupportInv'
  BY DEF SupportInv, supportVars

LEMMA DeskReports ==
    ASSUME ReportDesks(reportDesk, reportDay), NEW d \in Desks, NEW t, reportDesk' = [reportDesk EXCEPT ![d] = t], ReportJob(t, reportDay)
    PROVE  ReportDesks(reportDesk', reportDay)
  <1>1. reportDesk' = [e \in Desks |-> IF e = d THEN t ELSE reportDesk[e]]
    BY DEF ReportDesks
  <1>. QED  BY <1>1 DEF ReportDesks

LEMMA JobOf == ASSUME ReportInv, NEW d \in Desks PROVE ReportJob(reportDesk[d], reportDay)
  BY DEF ReportInv, ReportDesks

LEMMA Validated == ASSUME NEW row, row \in ScheduleRow, NEW new \in ValidateSchedule(row) PROVE ValidSchedule(new)
  BY DEF ValidateSchedule, NormalizeSchedule, ValidSchedule

LEMMA NotNoRow == ASSUME NEW row, ValidSchedule(row) PROVE row # NoRow
  BY OfficeAssumption DEF ValidSchedule

LEMMA CreateInv == ASSUME ReportInv, CreateSchedule PROVE ReportInv'
  <1>1. PICK id \in SchedIds \cap {schedsMade + 1}, kind \in {"sales", "integrations"}, f \in {"daily", "weekly"}, to \in SUBSET ReportUsers :
        \E row \in ValidateSchedule([kind |-> kind, freq |-> f, to |-> to, enabled |-> TRUE]) : InsertSchedule(id, row)
    BY DEF CreateSchedule
  <1>2. PICK row \in ValidateSchedule([kind |-> kind, freq |-> f, to |-> to, enabled |-> TRUE]) : scheds' = [scheds EXCEPT ![id] = row]
    BY <1>1 DEF InsertSchedule
  <1>3. [kind |-> kind, freq |-> f, to |-> to, enabled |-> TRUE] \in ScheduleRow
    BY DEF ScheduleRow, ReportKinds, Frequencies
  <1>4. ValidSchedule(row) /\ row # NoRow
    BY <1>2, <1>3, Validated, NotNoRow
  <1>5. schedsMade' = schedsMade + 1 /\ UNCHANGED <<runs, ready, eligible, reportDay, reportDesk>>
    BY DEF CreateSchedule
  <1>6. schedsMade \in Nat /\ id = schedsMade + 1 /\ id \in SchedIds
    BY <1>1 DEF ReportInv, Schedules
  <1>7. scheds' = [i \in SchedIds |-> IF i = id THEN row ELSE scheds[i]]
    BY <1>2 DEF ReportInv, Schedules
  <1>8. Schedules(scheds', schedsMade')
    <2>1. \A i \in SchedIds : i \in Nat
      BY OfficeAssumption
    <2>. QED  BY <1>4, <1>5, <1>6, <1>7, <2>1 DEF ReportInv, Schedules
  <1>9. RunsOnce(runs, scheds', reportDay)
    BY <1>4, <1>7 DEF ReportInv, RunsOnce
  <1>10. ReadyOnce(ready, runs, scheds', schedsMade')
    <2>. SUFFICES ASSUME NEW k \in DOMAIN ready
         PROVE  k[1] <= schedsMade' /\ (scheds'[k[1]] # NoRow => \E r \in runs : r.sched = k[1] /\ r.period = k[2])
      BY DEF ReportInv, ReadyOnce
    <2>1. k[1] \in SchedIds /\ k[1] <= schedsMade /\ (scheds[k[1]] # NoRow => \E r \in runs : r.sched = k[1] /\ r.period = k[2])
      BY DEF ReportInv, ReadyOnce
    <2>. DEFINE i == k[1]
    <2>. HIDE DEF i
    <2>2. i \in Nat /\ i \in SchedIds /\ i <= schedsMade
      BY <2>1, OfficeAssumption DEF i
    <2>3. i # id /\ i <= schedsMade'
      BY <1>5, <1>6, <2>2
    <2>4. scheds'[i] = scheds[i]
      BY <1>7, <2>2, <2>3
    <2>. QED  BY <2>1, <2>3, <2>4 DEF i
  <1>. QED  BY <1>5, <1>8, <1>9, <1>10 DEF ReportInv, ReportDesks

LEMMA EditReadInv == ASSUME ReportInv, NEW d \in Desks, UpdateScheduleRead(d) PROVE ReportInv'
  <1>1. PICK id \in SchedIds : \E row \in GetSchedule(id), enabled \in BOOLEAN, f \in {"daily", "weekly"} :
        \E new \in ValidateSchedule([row EXCEPT !.enabled = enabled, !.freq = f]) :
            reportDesk' = [reportDesk EXCEPT ![d] = [op |-> "edit", id |-> id, row |-> new]]
    BY DEF UpdateScheduleRead
  <1>2. PICK row \in GetSchedule(id), enabled \in BOOLEAN, f \in {"daily", "weekly"} :
        \E new \in ValidateSchedule([row EXCEPT !.enabled = enabled, !.freq = f]) :
            reportDesk' = [reportDesk EXCEPT ![d] = [op |-> "edit", id |-> id, row |-> new]]
    BY <1>1
  <1>. DEFINE wanted == [row EXCEPT !.enabled = enabled, !.freq = f]
  <1>3. row \in ScheduleRow
    BY <1>2 DEF GetSchedule, ReportInv, Schedules, ValidSchedule
  <1>4. wanted \in ScheduleRow
    BY <1>3 DEF ScheduleRow, Frequencies
  <1>. HIDE DEF wanted
  <1>5. PICK new \in ValidateSchedule(wanted) : reportDesk' = [reportDesk EXCEPT ![d] = [op |-> "edit", id |-> id, row |-> new]]
    BY <1>2 DEF wanted
  <1>6. ValidSchedule(new)
    BY <1>4, <1>5, Validated
  <1>7. ReportJob([op |-> "edit", id |-> id, row |-> new], reportDay)
    BY <1>6 DEF ReportJob
  <1>8. ReportDesks(reportDesk', reportDay)
    BY <1>5, <1>7, DeskReports DEF ReportInv
  <1>9. UNCHANGED <<scheds, runs, ready, eligible, reportDay, schedsMade>>
    BY DEF UpdateScheduleRead
  <1>. QED  BY <1>8, <1>9 DEF ReportInv, ReportDesks

LEMMA EditWriteInv == ASSUME ReportInv, NEW d \in Desks, UpdateScheduleWrite(d) PROVE ReportInv'
  <1>. DEFINE t == reportDesk[d]
  <1>1. /\ t.op = "edit" /\ scheds' = [scheds EXCEPT ![t.id] = IF @ = NoRow THEN @ ELSE t.row]
        /\ reportDesk' = [reportDesk EXCEPT ![d] = Free] /\ UNCHANGED <<runs, ready, eligible, reportDay, reportEdits, schedsMade>>
    BY DEF UpdateScheduleWrite, UpdateSchedule
  <1>2. t.id \in SchedIds /\ ValidSchedule(t.row) /\ t.row # NoRow
    BY <1>1, JobOf, NotNoRow DEF ReportJob, Free
  <1>. DEFINE id == t.id  row == t.row
  <1>. HIDE DEF t
  <1>3. scheds' = [i \in SchedIds |-> IF i = id /\ scheds[id] # NoRow THEN row ELSE scheds[i]]
    <2>. HIDE DEF id, row
    <2>1. scheds = [i \in SchedIds |-> scheds[i]]
      BY DEF ReportInv, Schedules
    <2>2. scheds' = [scheds EXCEPT ![id] = IF scheds[id] = NoRow THEN scheds[id] ELSE row]
      BY <1>1 DEF id, row
    <2>. QED  BY <2>1, <2>2
  <1>. HIDE DEF id, row
  <1>4. \A i \in SchedIds : scheds'[i] = (IF i = id /\ scheds[id] # NoRow THEN row ELSE scheds[i]) /\ (scheds'[i] = NoRow <=> scheds[i] = NoRow)
    BY <1>2, <1>3 DEF id, row
  <1>5. Schedules(scheds', schedsMade)
    BY <1>2, <1>3, <1>4 DEF ReportInv, Schedules, id, row
  <1>6. RunsOnce(runs, scheds', reportDay)
    BY <1>4 DEF ReportInv, RunsOnce
  <1>7. ReadyOnce(ready, runs, scheds', schedsMade)
    BY <1>4 DEF ReportInv, ReadyOnce
  <1>8. ReportDesks(reportDesk', reportDay)
    <2>1. ReportJob(Free, reportDay)
      BY DEF ReportJob
    <2>. QED  BY <1>1, <2>1, DeskReports DEF ReportInv
  <1>. QED  BY <1>1, <1>5, <1>6, <1>7, <1>8 DEF ReportInv, ReportDesks

LEMMA RemoveInv == ASSUME ReportInv, RemoveSchedule PROVE ReportInv'
  <1>1. PICK id \in Present(scheds) : scheds' = [scheds EXCEPT ![id] = NoRow] /\ runs' = {r \in runs : r.sched # id}
    BY DEF RemoveSchedule, DeleteSchedule
  <1>2. UNCHANGED <<ready, eligible, reportDay, reportDesk, schedsMade>>
    BY DEF RemoveSchedule
  <1>3. scheds' = [i \in SchedIds |-> IF i = id THEN NoRow ELSE scheds[i]]
    BY <1>1 DEF ReportInv, Schedules
  <1>4. Schedules(scheds', schedsMade)
    BY <1>3 DEF ReportInv, Schedules
  <1>5. RunsOnce(runs', scheds', reportDay)
    BY <1>1, <1>3 DEF ReportInv, RunsOnce
  <1>6. ReadyOnce(ready, runs', scheds', schedsMade)
    <2>. SUFFICES ASSUME NEW k \in DOMAIN ready, scheds'[k[1]] # NoRow
         PROVE  \E r \in runs' : r.sched = k[1] /\ r.period = k[2]
      BY DEF ReportInv, ReadyOnce
    <2>1. k[1] \in SchedIds /\ (scheds[k[1]] # NoRow => \E r \in runs : r.sched = k[1] /\ r.period = k[2])
      BY DEF ReportInv, ReadyOnce
    <2>2. k[1] # id /\ scheds[k[1]] # NoRow
      BY <1>3, <2>1
    <2>. QED  BY <1>1, <2>1, <2>2
  <1>. QED  BY <1>2, <1>4, <1>5, <1>6 DEF ReportInv, ReportDesks

LEMMA LeavesInv == ASSUME ReportInv, UserLeaves PROVE ReportInv'
  <1>1. eligible' \subseteq eligible /\ UNCHANGED <<scheds, runs, ready, reportDay, reportDesk, schedsMade>>
    BY DEF UserLeaves
  <1>. QED  BY <1>1 DEF ReportInv, Schedules, ReportDesks, RunsOnce, ReadyOnce

LEMMA ReportClockInv == ASSUME ReportInv, ReportClock PROVE ReportInv'
  <1>1. reportDay < LastReportDay /\ reportDay' = reportDay + 1 /\ UNCHANGED <<scheds, runs, ready, eligible, reportEdits, reportDesk, schedsMade>>
    BY DEF ReportClock
  <1>2. reportDay \in Int /\ reportDay' \in 4 .. LastReportDay /\ reportDay <= reportDay'
    BY <1>1, OfficeAssumption DEF ReportInv
  <1>. DEFINE today == reportDay  next == reportDay'
  <1>. HIDE DEF today, next
  <1>3. \A n \in Int : n <= today => n <= next
    BY <1>2 DEF today, next
  <1>4. RunsOnce(runs, scheds, next)
    BY <1>3 DEF ReportInv, RunsOnce, today
  <1>5. ReportDesks(reportDesk, next)
    BY <1>3 DEF ReportInv, ReportDesks, ReportJob, today
  <1>. QED  BY <1>1, <1>2, <1>4, <1>5 DEF ReportInv, ReportDesks, Schedules, ReadyOnce, next

LEMMA RunDueInv == ASSUME ReportInv, NEW d \in Desks, RunDue(d) PROVE ReportInv'
  <1>. DEFINE rows == [id \in ListEnabledSchedules |-> scheds[id]]
  <1>1. reportDesk' = [reportDesk EXCEPT ![d] = [op |-> "sweep", left |-> rows]] /\ UNCHANGED <<scheds, runs, ready, eligible, reportDay, reportEdits, schedsMade>>
    BY DEF RunDue
  <1>2. DOMAIN rows \subseteq SchedIds
    BY DEF ListEnabledSchedules, Present, ReportInv, Schedules
  <1>. HIDE DEF rows
  <1>3. ReportJob([op |-> "sweep", left |-> rows], reportDay)
    BY <1>2 DEF ReportJob
  <1>4. ReportDesks(reportDesk', reportDay)
    BY <1>1, <1>3, DeskReports DEF ReportInv
  <1>. QED  BY <1>1, <1>4 DEF ReportInv, ReportDesks

LEMMA PeriodOver == ASSUME NEW f, NEW day \in Nat PROVE ReportPeriod(f, day).to \in Int /\ ReportPeriod(f, day).to <= day
  <1>. DEFINE n == FrequencyDays(f)
  <1>1. n \in {1, 2, 4}
    BY DEF FrequencyDays
  <1>. HIDE DEF n
  <1>2. (day \div n) * n \in Int /\ (day \div n) * n <= day
    <2>1. CASE n = 1
      BY <2>1
    <2>2. CASE n = 2
      BY <2>2
    <2>3. CASE n = 4
      BY <2>3
    <2>. QED  BY <1>1, <2>1, <2>2, <2>3
  <1>. QED  BY <1>2 DEF ReportPeriod, n

LEMMA RunOneInv == ASSUME ReportInv, NEW d \in Desks, RunOne(d) PROVE ReportInv'
  <1>. DEFINE left == reportDesk[d].left
              id == Min(DOMAIN left)
              rest == Restrict(left, DOMAIN left \ {id})
              period == ReportPeriod(left[id].freq, reportDay)
              again == [op |-> "sweep", left |-> rest]
              found == [op |-> "run", id |-> id, period |-> period, kind |-> left[id].kind, to |-> ActiveRecipients(left[id]), left |-> rest]
  <1>1. reportDesk[d].op = "sweep" /\ UNCHANGED <<scheds, runs, ready, eligible, reportDay, reportEdits, schedsMade>>
    BY DEF RunOne
  <1>2. \/ reportDesk' = [reportDesk EXCEPT ![d] = Free]
        \/ DOMAIN left # {} /\ (reportDesk' = [reportDesk EXCEPT ![d] = again] \/ reportDesk' = [reportDesk EXCEPT ![d] = found])
    BY DEF RunOne
  <1>3. DOMAIN left \subseteq SchedIds
    BY <1>1, JobOf DEF ReportJob, Free
  <1>4. DOMAIN left # {} => id \in SchedIds /\ DOMAIN rest \subseteq SchedIds
    BY <1>3, LeastNumber, OfficeAssumption DEF Restrict
  <1>5. period.to \in Int /\ period.to <= reportDay
    <2>1. reportDay \in Nat
      BY OfficeAssumption DEF ReportInv
    <2>. QED  BY <2>1, PeriodOver
  <1>. HIDE DEF left, id, rest, period
  <1>6. ReportJob(Free, reportDay)
    BY DEF ReportJob
  <1>7. DOMAIN left # {} => ReportJob(again, reportDay) /\ ReportJob(found, reportDay)
    BY <1>4, <1>5 DEF ReportJob
  <1>. HIDE DEF again, found
  <1>8. ReportDesks(reportDesk', reportDay)
    BY <1>2, <1>6, <1>7, DeskReports DEF ReportInv
  <1>. QED  BY <1>1, <1>8 DEF ReportInv, ReportDesks

LEMMA RunCommitInv == ASSUME ReportInv, NEW d \in Desks, RunCommit(d) PROVE ReportInv'
  <1>. DEFINE t == reportDesk[d]
              id == t.id
              period == t.period
              to == t.to
              again == [op |-> "sweep", left |-> t.left]
              run == [sched |-> id, period |-> period, kind |-> t.kind]
  <1>1. t.op = "run" /\ UNCHANGED <<scheds, eligible, reportDay, reportEdits, schedsMade>>
    BY DEF RunCommit
  <1>2. IF scheds[id] = NoRow
        THEN reportDesk' = [reportDesk EXCEPT ![d] = Free] /\ UNCHANGED <<runs, ready>>
        ELSE /\ runs' = IF RunExists(id, period) THEN runs ELSE runs \cup {run}
             /\ IF RunExists(id, period) THEN UNCHANGED ready ELSE ReportReady(id, period, to)
             /\ reportDesk' = [reportDesk EXCEPT ![d] = again]
    BY DEF RunCommit, InsertReportRun
  <1>3. id \in SchedIds /\ period.to \in Int /\ period.to <= reportDay /\ DOMAIN t.left \subseteq SchedIds
    BY <1>1, JobOf DEF ReportJob, Free
  <1>4. ReportJob(Free, reportDay) /\ ReportJob(again, reportDay)
    BY <1>3 DEF ReportJob
  <1>5. run.sched = id /\ run.period = period
    OBVIOUS
  <1>. HIDE DEF id, period, to, again, run, t
  <1>6. ReportDesks(reportDesk', reportDay)
    BY <1>2, <1>4, DeskReports DEF ReportInv
  <1>7. CASE UNCHANGED <<runs, ready>>
    BY <1>1, <1>6, <1>7 DEF ReportInv, ReportDesks
  <1>8. CASE scheds[id] # NoRow /\ ~RunExists(id, period)
    <2>1. runs' = runs \cup {run} /\ ReportReady(id, period, to)
      BY <1>2, <1>8
    <2>2. \A r \in runs : ~(r.sched = id /\ r.period = period)
      BY <1>8 DEF RunExists
    <2>3. RunsOnce(runs', scheds, reportDay)
      BY <1>3, <1>5, <1>8, <2>1, <2>2 DEF ReportInv, RunsOnce
    <2>4. \A k \in DOMAIN ready : ~(k[1] = id /\ k[2] = period)
      BY <1>8, <2>2 DEF ReportInv, ReadyOnce
    <2>. DEFINE new == {<<id, period, u>> : u \in to}
    <2>5. ready' = [k \in DOMAIN ready \cup new |->
                      (IF k \in DOMAIN ready THEN ready[k] ELSE 0) + (IF k[1] = id /\ k[2] = period /\ k[3] \in to THEN 1 ELSE 0)]
      BY <2>1 DEF ReportReady
    <2>6. \A k \in new : k = <<k[1], k[2], k[3]>> /\ k[1] = id /\ k[2] = period /\ k[3] \in to /\ k \notin DOMAIN ready
      BY <2>4
    <2>. HIDE DEF new
    <2>7. \A k \in DOMAIN ready : ready'[k] = 1
      BY <2>4, <2>5 DEF ReportInv, ReadyOnce
    <2>8. \A k \in new : ready'[k] = 1
      BY <2>5, <2>6
    <2>9. ready' = [k \in DOMAIN ready' |-> ready'[k]] /\ DOMAIN ready' = DOMAIN ready \cup new
      BY <2>5
    <2>10. id <= schedsMade
      BY <1>3, <1>8 DEF ReportInv, Schedules
    <2>11. ReadyOnce(ready', runs', scheds, schedsMade)
      <3>. SUFFICES ASSUME NEW k \in DOMAIN ready'
           PROVE  /\ k = <<k[1], k[2], k[3]>> /\ k[1] \in SchedIds /\ k[1] <= schedsMade /\ ready'[k] = 1
                  /\ scheds[k[1]] # NoRow => \E r \in runs' : r.sched = k[1] /\ r.period = k[2]
        BY <2>9 DEF ReadyOnce
      <3>1. CASE k \in DOMAIN ready
        BY <2>1, <2>7, <3>1 DEF ReportInv, ReadyOnce
      <3>2. CASE k \in new
        BY <1>3, <1>5, <2>1, <2>6, <2>8, <2>10, <3>2
      <3>. QED  BY <2>9, <3>1, <3>2
    <2>. QED  BY <1>1, <1>6, <2>3, <2>11 DEF ReportInv, ReportDesks
  <1>. QED  BY <1>2, <1>7, <1>8

LEMMA SubmitInv == ASSUME SupportInv, Submit PROVE SupportInv'
  <1>1. PICK seen \in BOOLEAN :
        /\ supportHits' = supportHits + (IF seen THEN 1 ELSE 0)
        /\ supportBlind' = supportBlind + (IF seen THEN 0 ELSE 1)
        /\ IF seen => supportHits' <= SubmitPerHour
           THEN requests' = Append(requests, NewRequest) /\ supportMade' = supportMade + 1
           ELSE UNCHANGED <<requests, supportMade>>
    BY DEF Submit, CheckRate
  <1>2. UNCHANGED supportDesk
    BY DEF Submit
  <1>3. /\ supportHits' \in Nat /\ supportBlind' \in Nat /\ supportMade' \in Nat
        /\ supportMade' <= supportHits' + supportBlind' /\ supportMade' <= SubmitPerHour + supportBlind'
    <2>1. SubmitPerHour \in Nat /\ supportHits \in Nat /\ supportBlind \in Nat /\ supportMade \in Nat
          /\ supportMade <= supportHits + supportBlind /\ supportMade <= SubmitPerHour + supportBlind
      BY OfficeAssumption DEF SupportInv
    <2>2. CASE seen
      BY <1>1, <2>1, <2>2
    <2>3. CASE ~seen
      BY <1>1, <2>1, <2>3
    <2>. QED  BY <2>2, <2>3
  <1>4. NewRequest \in [status : SupportStatuses, resolvedBy : Desks \cup {NoRow}] /\ RequestRow(NewRequest)
    BY DEF NewRequest, RequestRow, SupportStatuses
  <1>5. requests' \in Seq([status : SupportStatuses, resolvedBy : Desks \cup {NoRow}]) /\ \A i \in DOMAIN requests' : RequestRow(requests'[i])
    <2>. DEFINE R == [status : SupportStatuses, resolvedBy : Desks \cup {NoRow}]
    <2>1. requests \in Seq(R) /\ \A i \in DOMAIN requests : RequestRow(requests[i])
      BY DEF SupportInv
    <2>. DEFINE n == NewRequest
    <2>2. n \in R /\ RequestRow(n)
      BY <1>4
    <2>3. requests' = Append(requests, n) \/ requests' = requests
      BY <1>1
    <2>. HIDE DEF R, n
    <2>4. CASE requests' = Append(requests, n)
      <3>1. requests' \in Seq(R) /\ Len(requests') = Len(requests) + 1 /\ Len(requests) \in Nat
        BY <2>1, <2>2, <2>4
      <3>2. \A i \in 1 .. Len(requests) : requests'[i] = requests[i]
        BY <2>1, <2>2, <2>4
      <3>3. requests'[Len(requests) + 1] = n
        BY <2>1, <2>2, <2>4
      <3>4. DOMAIN requests' = 1 .. Len(requests') /\ DOMAIN requests = 1 .. Len(requests)
        BY <2>1, <3>1
      <3>5. ASSUME NEW i \in DOMAIN requests' PROVE RequestRow(requests'[i])
        <4>1. i \in 1 .. Len(requests) \/ i = Len(requests) + 1
          BY <3>1, <3>4, <3>5
        <4>. QED  BY <2>1, <2>2, <3>2, <3>3, <3>4, <4>1
      <3>. QED  BY <3>1, <3>5 DEF R
    <2>5. CASE requests' = requests
      BY <2>1, <2>5 DEF R
    <2>. QED  BY <2>3, <2>4, <2>5
  <1>. QED  BY <1>2, <1>3, <1>5 DEF SupportInv

LEMMA WindowInv == ASSUME SupportInv, SupportWindow PROVE SupportInv'
  <1>1. supportHits' = 0 /\ supportBlind' = 0 /\ supportMade' = 0 /\ UNCHANGED <<requests, supportWork, supportDesk>>
    BY DEF SupportWindow
  <1>2. 0 <= SubmitPerHour + 0
    BY OfficeAssumption
  <1>. QED  BY <1>1, <1>2 DEF SupportInv

LEMMA DeskSupports ==
    ASSUME SupportInv, NEW d \in Desks, NEW t, supportDesk' = [supportDesk EXCEPT ![d] = t],
           t = Free \/ (t.op = "write" /\ t.row \in [status : SupportStatuses, resolvedBy : Desks \cup {NoRow}] /\ RequestRow(t.row)),
           UNCHANGED <<supportHits, supportBlind, supportMade>>,
           requests' \in Seq([status : SupportStatuses, resolvedBy : Desks \cup {NoRow}]),
           \A i \in DOMAIN requests' : RequestRow(requests'[i])
    PROVE  SupportInv'
  <1>1. supportDesk' = [e \in Desks |-> IF e = d THEN t ELSE supportDesk[e]]
    BY DEF SupportInv
  <1>. QED  BY <1>1 DEF SupportInv

LEMMA RequestReadInv == ASSUME SupportInv, NEW d \in Desks, UpdateRequestRead(d) PROVE SupportInv'
  <1>1. PICK i \in DOMAIN requests, to \in SupportStatuses \cup {"closed"} :
        SupportStatusKnown(to) /\ supportDesk' = [supportDesk EXCEPT ![d] = [op |-> "write", at |-> i, row |-> TransitionRequest(requests[i], to, d)]]
    BY DEF UpdateRequestRead
  <1>. DEFINE row == requests[i]
              by == IF to # "resolved" THEN NoRow ELSE IF row.status # "resolved" THEN d ELSE row.resolvedBy
              new == [status |-> to, resolvedBy |-> by]
              t == [op |-> "write", at |-> i, row |-> new]
  <1>2. row \in [status : SupportStatuses, resolvedBy : Desks \cup {NoRow}] /\ RequestRow(row) /\ to \in SupportStatuses
    <2>. DEFINE R == [status : SupportStatuses, resolvedBy : Desks \cup {NoRow}]
    <2>1. requests \in Seq(R) /\ i \in DOMAIN requests /\ RequestRow(row)
      BY <1>1 DEF SupportInv
    <2>2. to \in SupportStatuses
      BY <1>1 DEF SupportStatusKnown
    <2>. HIDE DEF R
    <2>3. requests[i] \in R
      BY <2>1
    <2>. QED  BY <2>1, <2>2, <2>3 DEF R
  <1>3. d # NoRow
    BY OfficeAssumption
  <1>. HIDE DEF row
  <1>4. by \in Desks \cup {NoRow} /\ (to = "resolved" <=> by # NoRow)
    BY <1>2, <1>3 DEF RequestRow
  <1>. HIDE DEF by
  <1>5. new \in [status : SupportStatuses, resolvedBy : Desks \cup {NoRow}] /\ RequestRow(new)
    BY <1>2, <1>4 DEF RequestRow
  <1>6. supportDesk' = [supportDesk EXCEPT ![d] = t]
    BY <1>1 DEF TransitionRequest, row, by
  <1>. HIDE DEF new
  <1>7. t.op = "write" /\ t.row = new
    OBVIOUS
  <1>. HIDE DEF t
  <1>8. UNCHANGED <<requests, supportHits, supportBlind, supportMade>>
    BY DEF UpdateRequestRead
  <1>9. requests' \in Seq([status : SupportStatuses, resolvedBy : Desks \cup {NoRow}]) /\ \A j \in DOMAIN requests' : RequestRow(requests'[j])
    BY <1>8 DEF SupportInv
  <1>. QED  BY <1>5, <1>6, <1>7, <1>8, <1>9, DeskSupports

LEMMA RequestWriteInv == ASSUME SupportInv, NEW d \in Desks, UpdateRequestWrite(d) PROVE SupportInv'
  <1>. DEFINE R == [status : SupportStatuses, resolvedBy : Desks \cup {NoRow}]
              at == supportDesk[d].at
              row == supportDesk[d].row
  <1>1. /\ supportDesk[d].op = "write" /\ requests' = [requests EXCEPT ![at] = row]
        /\ supportDesk' = [supportDesk EXCEPT ![d] = Free] /\ UNCHANGED <<supportHits, supportBlind, supportMade, supportWork>>
    BY DEF UpdateRequestWrite
  <1>2. row \in R /\ RequestRow(row) /\ requests \in Seq(R) /\ \A i \in DOMAIN requests : RequestRow(requests[i])
    BY <1>1 DEF SupportInv, Free
  <1>. HIDE DEF R, at, row
  <1>3. requests' \in Seq(R)
    <2>1. CASE at \in 1 .. Len(requests)
      BY <1>1, <1>2, <2>1, ExceptSeq
    <2>2. CASE at \notin 1 .. Len(requests)
      <3>1. DOMAIN requests = 1 .. Len(requests) /\ requests = [i \in DOMAIN requests |-> requests[i]]
        BY <1>2
      <3>2. requests' = [i \in DOMAIN requests |-> requests[i]]
        BY <1>1, <2>2, <3>1
      <3>. QED  BY <1>2, <3>1, <3>2
    <2>. QED  BY <2>1, <2>2
  <1>4. ASSUME NEW i \in DOMAIN requests' PROVE RequestRow(requests'[i])
    <2>1. i \in DOMAIN requests /\ requests'[i] = IF i = at THEN row ELSE requests[i]
      BY <1>1, <1>2, <1>4
    <2>. QED  BY <1>2, <2>1
  <1>. QED  BY <1>1, <1>3, <1>4, DeskSupports DEF R

LEMMA OfficeInvNext == OfficeInv /\ (ReportNext \/ SupportNext \/ AskOffice) => OfficeInv'
  <1>1. ASSUME OfficeInv, ReportNext PROVE OfficeInv'
    <2>1. UNCHANGED supportVars
      BY <1>1 DEF ReportNext
    <2>2. ReportInv'
      BY <1>1, CreateInv, RemoveInv, LeavesInv, ReportClockInv, EditReadInv, EditWriteInv, RunDueInv, RunOneInv, RunCommitInv DEF ReportNext, OfficeInv
    <2>. QED  BY <1>1, <2>1, <2>2, SupportStays DEF OfficeInv
  <1>2. ASSUME OfficeInv, SupportNext PROVE OfficeInv'
    <2>1. UNCHANGED scheduleVars
      BY <1>2 DEF SupportNext
    <2>2. UNCHANGED supportVars \/ Submit \/ SupportWindow \/ \E d \in Desks : UpdateRequestRead(d) \/ UpdateRequestWrite(d)
      BY <1>2 DEF SupportNext, SupportInbox, SupportLooked
    <2>3. SupportInv'
      BY <1>2, <2>2, SupportStays, SubmitInv, WindowInv, RequestReadInv, RequestWriteInv DEF OfficeInv
    <2>. QED  BY <1>2, <2>1, <2>3, ReportStays DEF OfficeInv
  <1>3. ASSUME OfficeInv, AskOffice PROVE OfficeInv'
    <2>1. UNCHANGED <<scheduleVars, supportVars>>
      BY <1>3 DEF AskOffice
    <2>. QED  BY <1>3, <2>1, ReportStays, SupportStays DEF OfficeInv
  <1>. QED  BY <1>1, <1>2, <1>3

LEMMA OfficeStays == OfficeInv /\ UNCHANGED officeVars => OfficeInv'
  BY ReportStays, SupportStays DEF OfficeInv, officeVars
=============================================================================
