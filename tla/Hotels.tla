------------------------------- MODULE Hotels -------------------------------
(***************************************************************************)
(* The contract of one hotel: what it offers, its seasons, allotments,     *)
(* stop sales and monthly prices, and what a stay is quoted from them.     *)
(* Modelled code: src/internal/app/hotel, src/internal/domain/hotel and    *)
(* src/internal/adapter/postgres/hotel.                                    *)
(*                                                                         *)
(* Every change is a transaction that locks the hotel's row before it      *)
(* reads: it begins with the copies it will decide on and ends with its    *)
(* writes.  A quote reads without the lock; it is asked here of contracts  *)
(* chosen freely, and the state keeps the request and the answer.  A rate  *)
(* is for a room type: the meal plan is checked the way the type is.       *)
(***************************************************************************)
EXTENDS Rows, Sequences, FiniteSets, FiniteSetsExt, TLC

CONSTANTS LastHotelDay, \* days of the calendar
          RoomTypes     \* room types a hotel may offer

VARIABLES
    hotel,              \* the row: types it offers, is_active
    seasons,            \* hotel_seasons: id -> row
    allots,             \* hotel_allotments: id -> row
    stops,              \* hotel_stop_sales: id -> row
    sheet,              \* room types with a price in the year's sheet
    hotelDay,           \* today
    hotelTx,            \* desk -> the transaction it has open
    quoted              \* a quote: request and answer

hotelRows == <<hotel, seasons, allots, stops, sheet>>
hotelVars == <<hotelRows, hotelDay, hotelTx, quoted>>

HotelDays == 1 .. LastHotelDay
SeasonIds == {1, 2}
Spans == {p \in HotelDays \X HotelDays : p[1] <= p[2]}
DayIn(p, day) == p[1] <= day /\ day <= p[2]

-----------------------------------------------------------------------------
(* inventory.go.                                                           *)
ValidRange(p) == p[1] <= p[2]
SeasonOverlaps(p, q) == p[2] >= q[1] /\ q[2] >= p[1]
EnsureNoOverlap(id, p, table) == \A j \in Present(table) \ {id} : ~SeasonOverlaps(p, table[j].span)
ReleaseDate(a) == a.span[1] - a.release
AllotStatus(a, today) ==
    CASE today > a.span[2] -> "expired"
      [] today <= a.span[2] /\ a.sold >= a.rooms -> "sold_out"
      [] today <= a.span[2] /\ a.sold < a.rooms /\ a.kind = "guaranteed" /\ today >= ReleaseDate(a) -> "released"
      [] OTHER -> "open"
Available(a, today) == IF AllotStatus(a, today) = "open" THEN a.rooms - a.sold ELSE 0
AdjustSold(a, delta) == {x \in {[a EXCEPT !.sold = @ + delta]} : delta # 0 /\ x.sold \in 0 .. a.rooms}
NormalizeAllotment(a, types) ==
    {IF x.kind = "on_request" THEN [x EXCEPT !.release = 0] ELSE x :
        x \in {y \in {a} : y.type \in types /\ ValidRange(y.span) /\ y.rooms >= 1 /\ y.sold \in 0 .. y.rooms}}
NormalizeSeason(s, types) == ValidRange(s.span) /\ s.type \in types
(* Cells without a price are dropped; a type not offered refuses the sheet.*)
NormalizeYearSheet(cells, types) == {c \in {cells} : c \subseteq types}
EnsureStillOffered(types, ss, as, st) ==
    /\ \A i \in Present(ss) : ss[i].type \in types
    /\ \A i \in Present(as) : as[i].type \in types
    /\ \A i \in Present(st) : st[i].type = "" \/ st[i].type \in types

-----------------------------------------------------------------------------
(* policy.go: money in minor units, percentages rounded half up.           *)
RoundDiv(a, b) == (a + b \div 2) \div b
SumSeq(s) == MapThenSumSet(LAMBDA i : s[i], DOMAIN s)
ApplyMarkup(m, net, paying) ==
    CASE net <= 0 -> net
      [] net > 0 /\ m.kind = "fixed" -> net + m.value * paying
      [] OTHER -> net + RoundDiv(net * m.value, 10000)
ChildRuleCharge(r, adult) ==
    CASE r.mode = "percent" -> RoundDiv(adult * r.value, 100) [] r.mode = "fixed" -> r.value [] OTHER -> 0
Band(p, age) == IF age < p.ages[1] THEN "infant" ELSE IF age < p.ages[2] THEN "child1"
                ELSE IF age < p.ages[3] THEN "child2" ELSE "adult"
ChildCharge(p, c, adult) ==
    CASE Band(p, c.age) = "infant" -> ChildRuleCharge(p.infant, adult)
      [] Band(p, c.age) = "child1" -> ChildRuleCharge(p.child1, adult)
      [] Band(p, c.age) = "child2" -> ChildRuleCharge(IF c.bed THEN p.withBed ELSE p.noBed, adult)
      [] OTHER -> 0
NormalizeChildPolicy(p) ==
    {x \in {IF p.ages = <<0, 0, 0>> THEN [p EXCEPT !.ages = <<2, 6, 12>>] ELSE p} :
        1 <= x.ages[1] /\ x.ages[1] < x.ages[2] /\ x.ages[2] < x.ages[3] /\ x.ages[3] <= 18 /\ x.infant.mode # "percent"}
NormalizeCancellation(c) ==
    {x \in {c} : /\ \A t \in x.tiers : 0 <= t.min /\ t.min < x.free /\ t.value >= 1
                 /\ \A t, u \in x.tiers : t.min = u.min => t = u}

(* The tiers are kept from the furthest to the nearest: the first one met. *)
LastResort == [min |-> 0, kind |-> "percent", value |-> 100]
TierFor(c, days) ==
    IF days >= c.free THEN NoRow
    ELSE LET met == {t \in c.tiers : days >= t.min}
         IN  IF met = {} THEN LastResort ELSE CHOOSE t \in met : \A u \in met : u.min <= t.min
TierCharge(t, nightly) ==
    IF t.kind = "nights" THEN SumSeq(SubSeq(nightly, 1, Min({t.value, Len(nightly)})))
    ELSE RoundDiv(SumSeq(nightly) * t.value, 100)
Penalty(c, days, nightly) == IF TierFor(c, days) = NoRow THEN 0 ELSE TierCharge(TierFor(c, days), nightly)
NoShowPenalty(c, nightly) == RoundDiv(SumSeq(nightly) * c.noShow, 100)
FirstFreeBelow(c, min) == Min({c.free} \cup {t.min : t \in {u \in c.tiers : u.min > min}})
Outlook(c, checkIn, today, nightly) ==
    [freeUntil |-> checkIn - c.free, freeNow |-> TierFor(c, checkIn - today) = NoRow,
     penalty |-> Penalty(c, checkIn - today, nightly), noShow |-> NoShowPenalty(c, nightly),
     lines |-> {[tier |-> t, amount |-> TierCharge(t, nightly), from |-> checkIn - (FirstFreeBelow(c, t.min) - 1)] : t \in c.tiers}]

-----------------------------------------------------------------------------
(* quote.go.  A contract: types, active, markup, child, cancel, seasons,   *)
(* allots, stops, monthly.                                                 *)
PerPerson(rate, adults) == IF adults \in DOMAIN rate THEN rate[adults] ELSE 0
AdultReference(rate) == IF rate[2] > 0 THEN rate[2] ELSE rate[1]
NormalizeRequest(h, req) ==
    LET kids == SelectSeq(req.children, LAMBDA c : Band(h.child, c.age) # "adult")
        r == [req EXCEPT !.adults = @ + Len(req.children) - Len(kids), !.children = kids]
    IN  {x \in {r} : x.out > x.in /\ x.type \in h.types /\ x.adults \in 1 .. 4}
SeasonOn(h, day) == {s \in h.seasons : DayIn(s.span, day)}
MonthlyOn(h, type) == {m \in h.monthly : m.type = type /\ (m.sell > 0 \/ m.net > 0)}
Unpriced == [priced |-> FALSE, net |-> 0, gross |-> 0]
SeasonNight(h, s, r) ==
    LET pp == PerPerson(s.rate, r.adults)
        charges == [i \in DOMAIN r.children |-> ChildCharge(h.child, r.children[i], AdultReference(s.rate))]
        net == pp * r.adults + (IF r.extra THEN h.child.extraBed ELSE 0) + SumSeq(charges)
        paying == r.adults + (IF r.extra THEN 1 ELSE 0) + Cardinality({i \in DOMAIN charges : charges[i] > 0})
    IN  IF pp <= 0 THEN Unpriced
        ELSE [priced |-> TRUE, net |-> net * r.rooms, gross |-> ApplyMarkup(h.markup, net, paying) * r.rooms]
PriceNight(h, r, day) ==
    IF MonthlyOn(h, r.type) # {}
    THEN LET m == CHOOSE x \in MonthlyOn(h, r.type) : TRUE
             bed == IF r.extra THEN h.child.extraBed ELSE 0
         IN  [priced |-> TRUE, net |-> (m.net + bed) * r.rooms, gross |-> (m.sell + bed) * r.rooms]
    ELSE LET fit == {s \in SeasonOn(h, day) : s.type = r.type}
         IN  IF fit = {} THEN Unpriced ELSE SeasonNight(h, CHOOSE s \in fit : TRUE, r)
StopCovers(s, day, type) == s.type \in {"", type} /\ DayIn(s.span, day)
GuaranteedLeft(h, day, type, today) ==
    MapThenSumSet(LAMBDA a : Available(a, today),
                  {a \in h.allots : a.kind = "guaranteed" /\ a.type = type /\ DayIn(a.span, day)})
Price(h, r, today) ==
    LET stay    == r.in .. r.out - 1
        night   == [i \in 1 .. r.out - r.in |-> PriceNight(h, r, r.in + i - 1)]
        stopped == {d \in stay : \E s \in h.stops : StopCovers(s, d, r.type)}
        missing == {i \in DOMAIN night : ~night[i].priced}
        left    == Min({GuaranteedLeft(h, d, r.type, today) : d \in stay})
        gross   == [i \in DOMAIN night |-> night[i].gross]
        net     == [i \in DOMAIN night |-> night[i].net]
    IN  [net |-> SumSeq(net), gross |-> SumSeq(gross), profit |-> SumSeq(gross) - SumSeq(net), nights |-> night,
         left |-> left, bookable |-> missing = {} /\ stopped = {},
         guests |-> (r.adults + Len(r.children) + (IF r.extra THEN 1 ELSE 0)) * r.rooms,
         availability |-> IF stopped # {} THEN "stop_sale" ELSE IF missing # {} THEN "unavailable"
                          ELSE IF left >= r.rooms THEN "instant" ELSE "on_request",
         outlook |-> Outlook(h.cancel, r.in, today, gross)]

Quote(h, req, today) ==
    /\ h.active
    /\ \E r \in NormalizeRequest(h, req) :
        quoted' = [op |-> "quote", h |-> h, req |-> req, today |-> today, q |-> Price(h, r, today)]
    /\ UNCHANGED <<hotelRows, hotelDay, hotelTx>>

-----------------------------------------------------------------------------
(* service.go: the changes.                                                *)
HotelInit ==
    /\ hotel = [types |-> RoomTypes, active |-> TRUE]
    /\ seasons = [i \in SeasonIds |-> NoRow]
    /\ allots = [i \in {1} |-> NoRow]
    /\ stops = [i \in {1} |-> NoRow]
    /\ sheet = {}
    /\ hotelDay = 1
    /\ hotelTx = [d \in Desks |-> Free]
    /\ quoted = Free

FindHotelForUpdate(d, req) ==
    /\ \A e \in Desks : hotelTx[e] = Free
    /\ hotelTx' = [hotelTx EXCEPT ![d] =
            [op |-> req.op, in |-> req, hotel |-> hotel, seasons |-> seasons, allots |-> allots, stops |-> stops]]
    /\ UNCHANGED <<hotelRows, hotelDay, quoted>>

OfferRequest == [op : {"hotel"}, types : (SUBSET RoomTypes) \ {{}}, active : BOOLEAN]
SellRequests == [op : {"season"}, id : SeasonIds, span : Spans, type : RoomTypes]
                    \cup [op : {"drop season"}, id : SeasonIds] \cup [op : {"stop", "drop stop"}]
StockRequests == [op : {"allot"}, span : {<<1, LastHotelDay>>, <<LastHotelDay, LastHotelDay>>}, type : RoomTypes,
                  kind : {"guaranteed", "on_request"}, rooms : {1, 2}, release : {1}]
                    \cup [op : {"adjust"}, delta : {1, 0 - 1}] \cup [op : {"drop allot"}]
                    \cup [op : {"sheet"}, types : SUBSET RoomTypes]

TxDone(d) == hotelTx' = [hotelTx EXCEPT ![d] = Free] /\ UNCHANGED <<hotelDay, quoted>>

UpdateHotel(d, t) ==
    /\ t.op = "hotel"
    /\ EnsureStillOffered(t.in.types, t.seasons, t.allots, t.stops)
    /\ hotel' = [types |-> t.in.types, active |-> t.in.active]
    /\ TxDone(d) /\ UNCHANGED <<seasons, allots, stops, sheet>>

SaveSeason(d, t) ==
    /\ t.op = "season"
    /\ NormalizeSeason(t.in, t.hotel.types)
    /\ EnsureNoOverlap(t.in.id, t.in.span, t.seasons)
    /\ seasons' = [seasons EXCEPT ![t.in.id] = [span |-> t.in.span, type |-> t.in.type]]
    /\ TxDone(d) /\ UNCHANGED <<hotel, allots, stops, sheet>>

DeleteSeason(d, t) ==
    /\ t.op = "drop season" /\ seasons[t.in.id] # NoRow
    /\ seasons' = [seasons EXCEPT ![t.in.id] = NoRow]
    /\ TxDone(d) /\ UNCHANGED <<hotel, allots, stops, sheet>>

SaveAllotment(d, t) ==
    /\ t.op = "allot"
    /\ LET sold == IF t.allots[1] = NoRow THEN 0 ELSE t.allots[1].sold
           row == [span |-> t.in.span, type |-> t.in.type, kind |-> t.in.kind, rooms |-> t.in.rooms, release |-> t.in.release,
                   sold |-> sold]
       IN  \E a \in NormalizeAllotment(row, t.hotel.types) : allots' = [allots EXCEPT ![1] = a]
    /\ TxDone(d) /\ UNCHANGED <<hotel, seasons, stops, sheet>>

AdjustAllotment(d, t) ==
    /\ t.op = "adjust" /\ t.allots[1] # NoRow
    /\ t.in.delta > 0 => Available(t.allots[1], hotelDay) >= t.in.delta
    /\ \E a \in AdjustSold(t.allots[1], t.in.delta) : allots' = [allots EXCEPT ![1] = a]
    /\ TxDone(d) /\ UNCHANGED <<hotel, seasons, stops, sheet>>

DeleteAllotment(d, t) ==
    /\ t.op = "drop allot" /\ t.allots[1] # NoRow
    /\ t.allots[1].sold > 0 => AllotStatus(t.allots[1], hotelDay) = "expired"
    /\ allots' = [allots EXCEPT ![1] = NoRow]
    /\ TxDone(d) /\ UNCHANGED <<hotel, seasons, stops, sheet>>

CreateStopSale(d, t, type) ==
    /\ t.op = "stop" /\ stops[1] = NoRow
    /\ type = "" \/ type \in t.hotel.types
    /\ stops' = [stops EXCEPT ![1] = [span |-> <<1, 1>>, type |-> type]]
    /\ TxDone(d) /\ UNCHANGED <<hotel, seasons, allots, sheet>>

DeleteStopSale(d, t) ==
    /\ t.op = "drop stop" /\ stops[1] # NoRow
    /\ stops' = [stops EXCEPT ![1] = NoRow]
    /\ TxDone(d) /\ UNCHANGED <<hotel, seasons, allots, sheet>>

ReplaceMonthlyRates(d, t) ==
    /\ t.op = "sheet"
    /\ \E clean \in NormalizeYearSheet(t.in.types, t.hotel.types) : sheet' = clean
    /\ TxDone(d) /\ UNCHANGED <<hotel, seasons, allots, stops>>

(* Every refusal, and every rollback.                                      *)
HotelRollback(d) == hotelTx[d] # Free /\ TxDone(d) /\ UNCHANGED hotelRows

HotelDayPasses ==
    /\ hotelDay < LastHotelDay
    /\ hotelDay' = hotelDay + 1
    /\ UNCHANGED <<hotelRows, hotelTx, quoted>>

(* Two halves of the contract, checked apart: what is sold, and the stock. *)
SellNext ==
    \/ \E d \in Desks :
        \/ \E req \in OfferRequest \cup SellRequests : FindHotelForUpdate(d, req)
        \/ UpdateHotel(d, hotelTx[d])
        \/ SaveSeason(d, hotelTx[d])
        \/ DeleteSeason(d, hotelTx[d])
        \/ \E type \in RoomTypes \cup {""} : CreateStopSale(d, hotelTx[d], type)
        \/ DeleteStopSale(d, hotelTx[d])
        \/ HotelRollback(d)

StockNext ==
    \/ \E d \in Desks :
        \/ \E req \in {r \in OfferRequest : r.active} \cup StockRequests : FindHotelForUpdate(d, req)
        \/ UpdateHotel(d, hotelTx[d])
        \/ SaveAllotment(d, hotelTx[d])
        \/ AdjustAllotment(d, hotelTx[d])
        \/ DeleteAllotment(d, hotelTx[d])
        \/ ReplaceMonthlyRates(d, hotelTx[d])
        \/ HotelRollback(d)
    \/ HotelDayPasses

(* Contracts and requests a quote is asked of.                             *)
Free0 == [mode |-> "free", value |-> 0]
QuoteContracts ==
    [types : {{"std"}}, active : {TRUE}, markup : {[kind |-> "percent", value |-> 1500], [kind |-> "fixed", value |-> 3]},
     child : UNION {NormalizeChildPolicy([ages |-> a, infant |-> Free0, child1 |-> Free0,
                                          withBed |-> [mode |-> "percent", value |-> 75],
                                          noBed |-> [mode |-> "fixed", value |-> 2], extraBed |-> 4]) :
                        a \in {<<0, 0, 0>>, <<3, 3, 9>>}},
     cancel : UNION {NormalizeCancellation(c) : c \in [free : {2}, noShow : {50},
                tiers : SUBSET {[min |-> 0, kind |-> "percent", value |-> 50], [min |-> 1, kind |-> "nights", value |-> 1]}]},
     seasons : {{}, {[span |-> <<1, 2>>, type |-> "std", rate |-> <<7, 5, 0>>]},
                {[span |-> <<1, 1>>, type |-> "std", rate |-> <<7, 5, 0>>], [span |-> <<2, 2>>, type |-> "std", rate |-> <<9, 0, 4>>]}},
     allots : {{}, {[span |-> <<1, 2>>, type |-> "std", kind |-> "guaranteed", rooms |-> 2, sold |-> 1, release |-> 1]},
               {[span |-> <<1, 1>>, type |-> "std", kind |-> "guaranteed", rooms |-> 2, sold |-> 0, release |-> 0]}},
     stops : {{}, {[span |-> <<2, 2>>, type |-> ""]}},
     monthly : {{}, {[type |-> "std", net |-> 8, sell |-> 6]}}]
QuoteRequests ==
    [in : {1}, out : {2, 3}, type : {"std"}, rooms : {1, 2}, adults : {1, 2},
     children : {<<>>, <<[age |-> 11, bed |-> TRUE]>>, <<[age |-> 1, bed |-> FALSE], [age |-> 14, bed |-> FALSE]>>},
     extra : BOOLEAN]

QuoteNext ==
    /\ quoted = Free
    /\ \E h \in QuoteContracts, req \in QuoteRequests, today \in {0, 1, 2} : Quote(h, req, today)

-----------------------------------------------------------------------------
ASSUME HotelAssumption ==
    /\ LastHotelDay \in Nat \ {0}
    /\ NoRow \notin [span : Spans, type : RoomTypes, kind : {"guaranteed", "on_request"}, rooms : Nat, release : Nat, sold : Nat]

HotelTypeOK ==
    /\ hotel.types \subseteq RoomTypes /\ hotel.active \in BOOLEAN /\ sheet \subseteq RoomTypes /\ hotelDay \in HotelDays
    /\ \A i \in Present(seasons) : seasons[i].span \in Spans /\ seasons[i].type \in RoomTypes
    /\ \A i \in Present(allots) : allots[i].span \in Spans /\ allots[i].sold \in 0 .. allots[i].rooms
    /\ \A d \in Desks : hotelTx[d].op \in {"free", "hotel", "season", "drop season", "allot", "adjust", "drop allot",
                                            "stop", "drop stop", "sheet"}

(* However edits of one hotel interleave, no day has two seasons, and      *)
(* nothing the hotel has stopped offering is still priced, allotted or     *)
(* stopped (SaveSeason, Update: the row lock; EnsureNoOverlap,             *)
(* ensureStillOffered).                                                    *)
ContractCoherent ==
    /\ \A i, j \in Present(seasons) : i # j => ~SeasonOverlaps(seasons[i].span, seasons[j].span)
    /\ EnsureStillOffered(hotel.types, seasons, allots, stops)

(* Rooms leave the stock only while the allotment is open on that day, and *)
(* an allotment with rooms still out disappears only once it has expired   *)
(* (AdjustAllotment, DeleteAllotment).                                     *)
StockSoldOpenly ==
    [][\A i \in DOMAIN allots : allots[i] # NoRow =>
        /\ (allots'[i] # NoRow /\ allots'[i].sold > allots[i].sold) => AllotStatus(allots[i], hotelDay) = "open"
        /\ allots'[i] = NoRow => (allots[i].sold = 0 \/ AllotStatus(allots[i], hotelDay) = "expired")]_hotelVars

(* A quote adds up: every guest asked for is counted once, children priced *)
(* as adults included; it is bookable only with every night priced; an     *)
(* instant one has the rooms guaranteed every night; without a monthly     *)
(* price no night is sold below its net (Price, priceNight, normalize).    *)
QuoteAddsUp ==
    quoted.op = "quote" =>
        LET q == quoted.q r == quoted.req
        IN  /\ q.guests = (r.adults + Len(r.children) + (IF r.extra THEN 1 ELSE 0)) * r.rooms
            /\ q.profit = q.gross - q.net
            /\ q.bookable <=> (q.availability \in {"instant", "on_request"})
            /\ q.bookable => \A i \in DOMAIN q.nights : q.nights[i].priced
            /\ q.availability = "instant" =>
                   \A d \in r.in .. r.out - 1 : GuaranteedLeft(quoted.h, d, r.type, quoted.today) >= r.rooms
            /\ quoted.h.monthly = {} => \A i \in DOMAIN q.nights : q.nights[i].gross >= q.nights[i].net

(* The printed cancellation table and the charge agree: a listed tier is   *)
(* the one charged on exactly the days from its printed date until the     *)
(* next one takes over, nothing is charged while cancelling is free, and   *)
(* no charge exceeds the stay (outlook, firstFreeBelow, TierFor).          *)
OutlookMatchesCharge ==
    quoted.op = "quote" =>
        LET o == quoted.q.outlook c == quoted.h.cancel in == quoted.req.in
        IN  /\ \A l \in o.lines, day \in 0 - 2 .. in :
                 TierFor(c, in - day) = l.tier <=> (l.from <= day /\ day <= in - l.tier.min)
            /\ o.freeNow <=> quoted.today <= o.freeUntil
            /\ o.freeNow => o.penalty = 0
            /\ o.penalty <= quoted.q.gross /\ o.noShow <= quoted.q.gross
=============================================================================
