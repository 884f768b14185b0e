---------------------------- MODULE TourPackages ----------------------------
(***************************************************************************)
(* Tour packages: the catalogue with its price tiers and departures, and   *)
(* the rules a package's programme goes through before it is stored.       *)
(* Modelled code: src/internal/app/tourpackage/service.go,                 *)
(* src/internal/domain/tourpackage/{spec,model,visa,personal}.go and       *)
(* src/internal/adapter/postgres/tourpackage/repository.go.                *)
(*                                                                         *)
(* Selling a departure's seats is SeatAllocation's subject; here a         *)
(* departure is what the catalogue makes of it.  An edit of a package      *)
(* reads it outside its transaction and writes every column back.          *)
(***************************************************************************)
EXTENDS Rows, Sequences, SequencesExt, FiniteSetsExt

CONSTANTS PkgIds,        \* ids of packages
          DepIds,        \* ids of departures
          TierCodes,     \* codes of price tiers
          MaxPkgWrites   \* edits of packages and tiers explored

VARIABLES
    packages,            \* id -> row
    pkgTiers,            \* package_pricing_tiers: id -> set of rows
    pkgDeps,             \* departures: id -> row with its own tiers
    pkgWrites,           \* edits so far
    pkgDesk,             \* desk -> what it has read and is about to write
    programme            \* one question to the programme's rules and the answer

catalogueVars == <<packages, pkgTiers, pkgDeps, pkgWrites, pkgDesk>>
packageVars == <<catalogueVars, programme>>

-----------------------------------------------------------------------------
(* Kinds, tiers of quality, and who a package is for.                      *)
IsPilgrimage(kind) == kind \in {"umrah", "hajj"}
IsVisa(kind) == kind = "visa"
ValidKind(kind) == IsPilgrimage(kind) \/ IsVisa(kind) \/ kind = "other"
IsPersonal(category) == category = "personal"
legacyCategories(kind) == IF kind = "umrah" THEN {"semester"} ELSE IF kind = "hajj" THEN {"short"} ELSE {}
ValidCategory(kind, category) == ValidKind(kind) /\ category \in {"standard", "personal"} \cup legacyCategories(kind)
OrElse(value, default) == IF value = "" THEN default ELSE value

(* A normaliser answers with the set of its result, empty if it refuses.   *)
When(condition, value) == IF condition THEN {value} ELSE {}
NormalizeHeader(h) ==
    LET n == [h EXCEPT !.kind = OrElse(@, "umrah"), !.category = OrElse(@, "standard"), !.currency = OrElse(@, "SAR")]
    IN  When(ValidCategory(n.kind, n.category) /\ n.currency \in {"SAR", "USD"} /\ n.days \in 0 .. 60 /\ n.seats >= 0, n)
(* Only a personal package keeps a customer, and it must have one.         *)
NormalizeAssignment(category, customer) ==
    IF ~IsPersonal(category) THEN {NoRow} ELSE When(customer # NoRow, customer)

-----------------------------------------------------------------------------
(* Price tiers.  A row's id is named by the package it was made for and    *)
(* its code: rows are deleted before new ones are made, and a code is      *)
(* unique in its package.                                                  *)
TierInputs == {<<>>} \cup {<<t>> : t \in [code : TierCodes, currency : {"", "USD"}]}
    \cup ([code : TierCodes, currency : {""}] \X [code : TierCodes, currency : {"USD"}])
normalizeTiers(in) ==
    When(\A i, j \in DOMAIN in : in[i].code = in[j].code => i = j,
         {[code |-> in[i].code, currency |-> OrElse(in[i].currency, "USD")] : i \in DOMAIN in})
tiersFor(in, currency) == normalizeTiers([i \in DOMAIN in |-> [in[i] EXCEPT !.currency = OrElse(@, currency)]])
Minted(id, tiers) == {[id |-> <<id, t.code>>, code |-> t.code, currency |-> t.currency] : t \in tiers}
ListPackageTiers(id) == pkgTiers[id]
(* Tables without a unique index on tiers.                                 *)
ReplacePackageTiersUnindexed(id, seen, rows) == pkgTiers' = [pkgTiers EXCEPT ![id] = (@ \ seen) \cup rows]
(* The delete names the rows it saw, the inserts must not collide with     *)
(* what is left: neither on the code in the package nor on the row's id.   *)
ReplacePackageTiers(id, seen, rows) ==
    LET left == ListPackageTiers(id) \ seen
        others == UNION {pkgTiers[i] : i \in PkgIds \ {id}}
    IN  /\ \A t \in rows : /\ \A u \in left : u.code # t.code
                           /\ \A u \in left \cup others : u.id # t.id
        /\ pkgTiers' = [pkgTiers EXCEPT ![id] = left \cup rows]

-----------------------------------------------------------------------------
(* Packages and departures.                                                *)
HeaderInputs == [kind : {"", "visa"}, category : {"", "personal", "short"}, currency : {""}, days : {0}, seats : {0}]
PkgCustomers == {"c1"}
StandingVisaDeparture(id, h) == [package |-> id, code |-> "OPEN", oversell |-> TRUE, currency |-> OrElse(h.currency, "SAR"), tiers |-> {}]
InsertPackage(id, row) == packages' = [packages EXCEPT ![id] = row]
ensurePackageCustomer(row) == row.owner = NoRow \/ row.owner \in PkgCustomers
DepartureCodeFree(package, code) == \A i \in Present(pkgDeps) : pkgDeps[i].package = package => pkgDeps[i].code # code
InsertDeparture(id, row) == DepartureCodeFree(row.package, row.code) /\ pkgDeps' = [pkgDeps EXCEPT ![id] = row]
seedVisaSlot(id, h) ==
    IF IsVisa(h.kind) THEN \E dep \in Fresh(pkgDeps) : InsertDeparture(dep, StandingVisaDeparture(id, h)) ELSE UNCHANGED pkgDeps

CountWrite == pkgWrites < MaxPkgWrites /\ pkgWrites' = pkgWrites + 1
CreatePackage ==
    /\ CountWrite
    /\ \E id \in Fresh(packages), in \in HeaderInputs, customer \in PkgCustomers \cup {NoRow}, tiersIn \in TierInputs :
        \E h \in NormalizeHeader(in) : \E tiers \in tiersFor(tiersIn, h.currency),
           owner \in NormalizeAssignment(h.category, customer) :
            /\ InsertPackage(id, [header |-> h, owner |-> owner, madeVisa |-> IsVisa(h.kind)])
            /\ ReplacePackageTiers(id, {}, Minted(id, tiers))
            /\ seedVisaSlot(id, h)
    /\ UNCHANGED pkgDesk
(* The copy is changed and judged before the transaction begins.           *)
UpdatePackageRead(d) ==
    /\ pkgDesk[d] = Free /\ CountWrite
    /\ \E id \in Present(packages) :
        LET cur == packages[id]
        IN  \E kind \in {cur.header.kind, "visa"}, category \in {cur.header.category, "personal", "standard"}, customer \in {cur.owner} \cup PkgCustomers :
            \E h \in NormalizeHeader([cur.header EXCEPT !.kind = kind, !.category = category]) :
            \E owner \in NormalizeAssignment(h.category, customer) :
                pkgDesk' = [pkgDesk EXCEPT ![d] = [op |-> "edit", id |-> id, row |-> [cur EXCEPT !.header = h, !.owner = owner]]]
    /\ UNCHANGED <<packages, pkgTiers, pkgDeps>>
UpdatePackageWrite(d) ==
    /\ pkgDesk[d].op = "edit"
    /\ ensurePackageCustomer(pkgDesk[d].row)
    /\ LET id == pkgDesk[d].id
       IN  /\ InsertPackage(id, pkgDesk[d].row)
           /\ \/ UNCHANGED pkgTiers
              \/ \E in \in TierInputs : \E tiers \in tiersFor(in, pkgDesk[d].row.header.currency) :
                    ReplacePackageTiers(id, ListPackageTiers(id), Minted(id, tiers))
    /\ pkgDesk' = [pkgDesk EXCEPT ![d] = Free]
    /\ UNCHANGED <<pkgDeps, pkgWrites>>
(* The copied tiers keep their ids: a package that has any is not cloned.  *)
ClonePackage ==
    /\ CountWrite
    /\ \E src \in Present(packages), id \in Fresh(packages) :
        /\ InsertPackage(id, [packages[src] EXCEPT !.madeVisa = IsVisa(packages[src].header.kind)])
        /\ ReplacePackageTiers(id, {}, ListPackageTiers(src))
        /\ seedVisaSlot(id, packages[src].header)
    /\ UNCHANGED pkgDesk
(* One transaction: the statements that delete and insert, then commit.    *)
SetPackageTiersBegin(d) ==
    /\ pkgDesk[d] = Free /\ CountWrite
    /\ \E id \in Present(packages), in \in TierInputs : \E tiers \in normalizeTiers(in) :
        pkgDesk' = [pkgDesk EXCEPT ![d] = [op |-> "tiers", id |-> id, seen |-> ListPackageTiers(id), rows |-> Minted(id, tiers)]]
    /\ UNCHANGED <<packages, pkgTiers, pkgDeps>>
SetPackageTiersCommit(d) ==
    /\ pkgDesk[d].op = "tiers"
    /\ ReplacePackageTiers(pkgDesk[d].id, pkgDesk[d].seen, pkgDesk[d].rows)
    /\ pkgDesk' = [pkgDesk EXCEPT ![d] = Free]
    /\ UNCHANGED <<packages, pkgDeps, pkgWrites>>
SetPackageTiersRefused(d) ==
    /\ pkgDesk[d].op = "tiers"
    /\ pkgDesk' = [pkgDesk EXCEPT ![d] = Free]
    /\ UNCHANGED <<packages, pkgTiers, pkgDeps, pkgWrites>>
ReplaceDepartureTiers(tiers) == {[code |-> t.code, currency |-> t.currency] : t \in tiers}
SnapshotTiersToDeparture(package) == ReplaceDepartureTiers(ListPackageTiers(package))
DepCodes == {"OPEN", "d1"}
CreateDeparture ==
    /\ CountWrite
    /\ \E id \in Present(packages), dep \in Fresh(pkgDeps), code \in DepCodes :
        InsertDeparture(dep, [package |-> id, code |-> code, oversell |-> FALSE, currency |-> "USD", tiers |-> SnapshotTiersToDeparture(id)])
    /\ UNCHANGED <<packages, pkgTiers, pkgDesk>>
CloneDeparture ==
    /\ CountWrite
    /\ \E src \in Present(pkgDeps), dep \in Fresh(pkgDeps), code \in DepCodes :
        LET own == pkgDeps[src].tiers
        IN  InsertDeparture(dep, [pkgDeps[src] EXCEPT !.code = code,
                !.tiers = IF own = {} THEN SnapshotTiersToDeparture(pkgDeps[src].package) ELSE ReplaceDepartureTiers(own)])
    /\ UNCHANGED <<packages, pkgTiers, pkgDesk>>
CatalogueNext ==
    /\ \/ CreatePackage \/ ClonePackage \/ CreateDeparture \/ CloneDeparture
       \/ \E d \in Desks : \/ UpdatePackageRead(d) \/ UpdatePackageWrite(d)
                           \/ SetPackageTiersBegin(d) \/ SetPackageTiersCommit(d) \/ SetPackageTiersRefused(d)
    /\ UNCHANGED programme

-----------------------------------------------------------------------------
(* The programme.  Texts are present or empty; a day is a number and 0 an  *)
(* empty date; an upper-case visa type is written with its lower-case      *)
(* spelling in requests.                                                   *)
NoHotel == [name |-> "", stars |-> 0, access |-> "", shuttle |-> 0, in |-> 0, out |-> 0]
NoVisa == [type |-> "", insured |-> FALSE]
BaseSpec == [nights |-> [makkah |-> 0, madinah |-> 0], hotel |-> NoHotel, country |-> "x", districts |-> <<"x">>, stays |-> <<>>,
             out |-> 0, back |-> 0, visa |-> NoVisa, offers |-> <<>>, kit |-> <<>>, extras |-> <<>>,
             itinerary |-> <<>>, female |-> FALSE, passport |-> 6, mahram |-> FALSE, mahramAge |-> 0, costs |-> [currency |-> "", net |-> 0, markup |-> 0]]
Upper(type) == IF type = "umrah_visa" THEN "UMRAH_VISA" ELSE type
visaTypes == {"UMRAH_VISA", "HAJJ_VISA"}

normalizeHotel(h, nights) ==
    LET n == [h EXCEPT !.shuttle = IF h.access = "shuttle" THEN @ ELSE 0]
    IN  When(/\ n.stars \in 0 .. 5 /\ n.access \in {"", "walking", "shuttle"} /\ n.shuttle \in 0 .. 180
             /\ (n.in > 0 /\ n.out > 0) => n.out > n.in /\ (nights > 0 => n.out - n.in = nights), n)
normalizeFlights(s) == When(s.out > 0 /\ s.back > 0 => s.back >= s.out, s)
normalizeDestination(s, required) ==
    LET districts == ToSet(s.districts) \ {""}
    IN  When(required => s.country # "" /\ districts # {}, [s EXCEPT !.districts = SelectSeq(@, LAMBDA x : x # "")])
NightsOf(stays) == FoldSeq(LAMBDA s, sum : s.nights + sum, 0, stays)
Blank(s) == s.city = "" /\ s.hotel.name = "" /\ s.nights = 0
normalizeStays(s, h) ==
    LET checked == [i \in DOMAIN s.stays |-> normalizeHotel(s.stays[i].hotel, s.stays[i].nights)]
        kept == SelectSeq([i \in DOMAIN s.stays |-> IF checked[i] = {} THEN s.stays[i] ELSE [s.stays[i] EXCEPT !.hotel = CHOOSE x \in checked[i] : TRUE]],
                          LAMBDA x : ~Blank(x))
    IN  When(/\ \A i \in DOMAIN checked : checked[i] # {}
             /\ \A i \in DOMAIN kept : kept[i].city # ""
             /\ (h.kind = "other" /\ h.days > 0) => NightsOf(kept) <= h.days, [s EXCEPT !.stays = kept])
(* Known items first, in the order of the catalogue, then the others.      *)
KitOrder == <<"ihram", "luggage", "own">>
normalizeFlexibleSet(items) ==
    LET kept == ToSet(items) \ {""}
    IN  SelectSeq(KitOrder, LAMBDA x : x \in kept)
normalizeItinerary(s, h) ==
    LET kept == SelectSeq(s.itinerary, LAMBDA x : x.title # "" \/ x.details # "")
    IN  When(/\ \A i \in DOMAIN kept : kept[i].day >= 1 /\ (h.days > 0 => kept[i].day <= h.days) /\ kept[i].title # ""
             /\ \A i, j \in DOMAIN kept : kept[i].day = kept[j].day => i = j,
             [s EXCEPT !.itinerary = SortSeq(kept, LAMBDA a, b : a.day < b.day)])
normalizeRequirements(s) == When(s.passport \in 0 .. 24 /\ s.mahramAge \in 0 .. 80, [s EXCEPT !.mahramAge = IF s.mahram THEN @ ELSE 0])
normalizeCosts(s, base) ==
    When(OrElse(s.costs.currency, base) \in {"SAR", "USD"} /\ s.costs.net >= 0 /\ s.costs.markup \in 0 .. 300, [s EXCEPT !.costs.currency = OrElse(@, base)])

(* What a kind has no use for is dropped.                                  *)
ApplyVisaKind(s) ==
    [s EXCEPT !.kit = <<>>, !.extras = <<>>, !.country = "", !.districts = <<>>, !.stays = <<>>, !.female = FALSE,
              !.nights = BaseSpec.nights, !.hotel = NoHotel, !.itinerary = <<>>]
ApplyOtherKind(s) == [s EXCEPT !.visa = NoVisa, !.offers = <<>>, !.kit = <<>>, !.female = FALSE]
NormalizeVisaOffers(offers) ==
    LET upper == [i \in DOMAIN offers |-> [offers[i] EXCEPT !.type = Upper(@)]]
        kept == SelectSeq(upper, LAMBDA o : o # [type |-> "", net |-> 0, sell |-> 0, insured |-> FALSE])
    IN  When(/\ \A i \in DOMAIN kept : kept[i].type \in visaTypes /\ kept[i].net >= 0 /\ kept[i].sell >= 0
             /\ \A i, j \in DOMAIN kept : kept[i].type = kept[j].type => i = j, kept)
CheapestVisaSell(offers) == {Min(sells) : sells \in {{offers[i].sell : i \in {j \in DOMAIN offers : offers[j].sell > 0}}} \ {{}}}
SyncVisaHeader(offers) == [type |-> offers[1].type, insured |-> \E i \in DOMAIN offers : offers[i].insured]

ForKind(s, kind) ==
    IF kind = "other" THEN ApplyOtherKind(s)
    ELSE IF IsVisa(kind) THEN ApplyVisaKind(s) ELSE [s EXCEPT !.extras = <<>>, !.offers = <<>>]
WithOffers(s, h, offers) ==
    IF IsVisa(h.kind) THEN When(CheapestVisaSell(offers) # {}, [s EXCEPT !.offers = offers, !.visa = SyncVisaHeader(offers)])
    ELSE When(Upper(s.visa.type) \in visaTypes \cup {""}, [s EXCEPT !.offers = offers, !.visa.type = Upper(@)])
NormalizeSpec(s, h) ==
    LET fits == When(/\ s.nights.makkah >= 0 /\ s.nights.madinah >= 0
                     /\ IsPilgrimage(h.kind) /\ h.days > 0 => s.nights.makkah + s.nights.madinah <= h.days, s)
        housed == UNION {{[x EXCEPT !.hotel = hotel] : hotel \in normalizeHotel(x.hotel, x.nights.makkah)} : x \in fits}
        placed == UNION {normalizeDestination(x, h.kind = "other") : x \in housed}
        stayed == UNION {normalizeStays(x, h) : x \in placed}
        flown == {ForKind(x, h.kind) : x \in UNION {normalizeFlights(y) : y \in stayed}}
        priced == UNION {UNION {WithOffers(x, h, offers) : offers \in NormalizeVisaOffers(x.offers)} : x \in flown}
        planned == UNION {normalizeItinerary([x EXCEPT !.kit = normalizeFlexibleSet(@)], h) : x \in priced}
        required == UNION {normalizeRequirements(x) : x \in planned}
    IN  UNION {normalizeCosts(x, h.currency) : x \in required}

(* Reading without the right to see costs, and writing what was read.      *)
RedactVisaCost(s) == [s EXCEPT !.offers = [i \in DOMAIN @ |-> [@[i] EXCEPT !.net = 0]], !.costs = [currency |-> @.currency, net |-> 0, markup |-> 0]]
KeepVisaNets(stored, in) ==
    LET NetOf(type) == IF \E i \in DOMAIN stored.offers : stored.offers[i].type = type
                       THEN stored.offers[CHOOSE i \in DOMAIN stored.offers : stored.offers[i].type = type].net ELSE 0
    IN  [in EXCEPT !.offers = [i \in DOMAIN @ |-> [@[i] EXCEPT !.net = NetOf(in.offers[i].type)]], !.costs = stored.costs]

SuggestedPrice(total, markup) == LET raw == (total * (100 + markup)) \div 100 IN ((raw + 50) \div 100) * 100
(* Months of thirty and thirty-one days, as <<month, day>>.                *)
LastDayOf(month) == IF month % 2 = 0 THEN 30 ELSE 31
addMonthsClamped(date, months) == <<date[1] + months, Min({date[2], LastDayOf(date[1] + months)})>>
NotBefore(a, b) == a[1] > b[1] \/ (a[1] = b[1] /\ a[2] >= b[2])
PassportValidFor(months, expiry, depart) == NotBefore(expiry, IF months <= 0 THEN depart ELSE addMonthsClamped(depart, months))

-----------------------------------------------------------------------------
(* What a departure shows of its seats.                                    *)
Remaining(d) == Max({d.total - d.sold, 0})
FillPct(d) == IF d.total <= 0 THEN (IF d.sold > 0 THEN 100 ELSE 0) ELSE (d.sold * 100) \div d.total
CapacityAlert(d) ==
    IF d.sold > d.total THEN "oversold"
    ELSE IF Remaining(d) = 0 \/ d.closed THEN "full"
    ELSE IF FillPct(d) >= (IF d.threshold <= 0 THEN 80 ELSE d.threshold) THEN "low" ELSE "ok"
DepartureCanSell(d, pax) == ~d.closed /\ d.active /\ (IF d.oversell THEN pax > 0 ELSE d.sold + pax <= d.total)
PackageRemaining(cap, deps) == Max({(IF cap = 0 THEN FoldSeq(LAMBDA d, n : d.total + n, 0, deps) ELSE cap) - FoldSeq(LAMBDA d, n : d.sold + n, 0, deps), 0})
FromPrice(tiers) == LET amounts == {t.amount : t \in {u \in tiers : u.active /\ u.kind = "room" /\ u.amount > 0}} IN IF amounts = {} THEN 0 ELSE Min(amounts)
Readiness(books) ==
    LET Of(status) == Cardinality({i \in DOMAIN books : books[i].status \in status})
    IN  [total |-> Len(books), sold |-> Of({"confirmed", "completed"}), cancelled |-> Of({"cancelled"}),
         draft |-> Of({"draft", "option", "ready"}),
         pax |-> FoldSeq(LAMBDA b, n : n + IF b.status \in {"confirmed", "completed"} THEN b.pax ELSE 0, 0, books)]

-----------------------------------------------------------------------------
(* The questions.                                                          *)
SpecHeaders == [kind : {"umrah", "other", "visa"}, category : {"standard"}, currency : {"SAR"}, days : {0, 3}, seats : {0}]
Visits == [city : {"", "m"}, nights : {0, 2}, hotel : {NoHotel, [NoHotel EXCEPT !.name = "h", !.in = 1, !.out = 3], [NoHotel EXCEPT !.name = "h", !.in = 1, !.out = 2]}]
OfferInputs == [type : {"", "umrah_visa", "HAJJ_VISA"}, net : {0, 5}, sell : {0, 7}, insured : {FALSE}]
DayInputs == [day : 1 .. 4, title : {"", "t"}, details : {"", "d"}]
SpecInputs ==
    {[BaseSpec EXCEPT !.nights = [makkah |-> m, madinah |-> n], !.hotel = [NoHotel EXCEPT !.access = a, !.shuttle = t, !.in = 1, !.out = o]] :
        m \in {0, 2}, n \in {0, 2}, a \in {"", "shuttle"}, t \in {0, 20}, o \in {0, 3}}
    \cup {[BaseSpec EXCEPT !.stays = <<v, w>>, !.country = c] : v \in Visits, w \in Visits, c \in {"", "x"}}
    \cup {[BaseSpec EXCEPT !.offers = <<o, p>>, !.visa.type = t, !.kit = <<"own", "ihram">>] : o \in OfferInputs, p \in OfferInputs, t \in {"", "umrah_visa"}}
    \cup {[BaseSpec EXCEPT !.itinerary = <<a, b>>, !.offers = <<[type |-> "HAJJ_VISA", net |-> 1, sell |-> 1, insured |-> TRUE]>>] : a \in DayInputs, b \in DayInputs}
    \cup {[BaseSpec EXCEPT !.out = o, !.back = b, !.mahram = w, !.mahramAge = 45, !.extras = <<"x">>] : o \in {0, 2}, b \in {0, 1, 3}, w \in BOOLEAN}
AgentOffers == [type : {"umrah_visa", "UMRAH_VISA", "HAJJ_VISA"}, net : {9}, sell : {7}, insured : {FALSE}]
StoredSpecs == {[BaseSpec EXCEPT !.offers = o, !.costs = [currency |-> "SAR", net |-> 3, markup |-> 10]] :
                  o \in {<<[type |-> "UMRAH_VISA", net |-> 5, sell |-> 7, insured |-> FALSE]>>,
                         <<[type |-> "HAJJ_VISA", net |-> 4, sell |-> 6, insured |-> FALSE], [type |-> "UMRAH_VISA", net |-> 5, sell |-> 7, insured |-> FALSE]>>}}
DepartureFacts == [total : 0 .. 3, sold : 0 .. 4, closed : BOOLEAN, active : BOOLEAN, oversell : BOOLEAN, threshold : {0, 50}]
BookFacts == [status : {"draft", "option", "confirmed", "completed", "cancelled"}, pax : {1, 2}]
TierFacts == [active : BOOLEAN, kind : {"room", "age"}, amount : {0, 1, 2}]
AskProgramme ==
    /\ programme = Free
    /\ \/ \E s \in SpecInputs, h \in SpecHeaders : \E out \in NormalizeSpec(s, h) : programme' = [op |-> "spec", header |-> h, out |-> out]
       \/ \E stored \in StoredSpecs, offers \in {<<o, p>> : o \in AgentOffers, p \in AgentOffers} \cup {<<o>> : o \in AgentOffers}, h \in SpecHeaders :
            \E out \in NormalizeSpec(KeepVisaNets(stored, [RedactVisaCost(stored) EXCEPT !.offers = offers]), h) :
                programme' = [op |-> "agent", stored |-> stored, shown |-> RedactVisaCost(stored), out |-> out]
       \/ \E d \in DepartureFacts : programme' = [op |-> "seats", dep |-> d, alert |-> CapacityAlert(d), sells |-> DepartureCanSell(d, 1), left |-> Remaining(d)]
       \/ \E a, b \in {x \in DepartureFacts : ~x.closed /\ x.active /\ ~x.oversell /\ x.threshold = 0 /\ x.sold <= x.total}, cap \in {0, 2} :
            programme' = [op |-> "offer", deps |-> <<a, b>>, cap |-> cap, left |-> PackageRemaining(cap, <<a, b>>)]
       \/ \E a, b \in TierFacts : programme' = [op |-> "from", tiers |-> {a, b}, out |-> FromPrice({a, b})]
       \/ \E a, b, c \in BookFacts : programme' = [op |-> "ready", books |-> <<a, b, c>>, out |-> Readiness(<<a, b, c>>)]
       \/ \E total \in {0, 49, 50, 149, 151, 999}, markup \in {0, 15, 300} :
            programme' = [op |-> "price", raw |-> (total * (100 + markup)) \div 100, out |-> SuggestedPrice(total, markup)]
       \/ \E month \in 1 .. 2, day \in {1, 30, 31}, months \in 0 .. 2, early \in 0 .. 1 :
            LET due == IF months = 0 THEN <<month, day>> ELSE addMonthsClamped(<<month, day>>, months)
            IN  /\ day <= LastDayOf(month) /\ due[2] - early >= 1
                /\ programme' = [op |-> "passport", depart |-> <<month, day>>, months |-> months, due |-> due, early |-> early,
                                 out |-> PassportValidFor(months, <<due[1], due[2] - early>>, <<month, day>>)]
    /\ UNCHANGED catalogueVars

PackagesInit ==
    /\ packages = [i \in PkgIds |-> NoRow] /\ pkgTiers = [i \in PkgIds |-> {}] /\ pkgDeps = [i \in DepIds |-> NoRow]
    /\ pkgWrites = 0 /\ pkgDesk = [d \in Desks |-> Free] /\ programme = Free

-----------------------------------------------------------------------------
(* Rows, none of which is mistaken for a missing one.                      *)
Currencies == {"SAR", "USD"}
HeaderRow == [kind : {"umrah", "hajj", "visa", "other"}, category : {"standard", "personal", "semester", "short"},
              currency : Currencies, days : 0 .. 60, seats : Nat]
PackageRow == [header : HeaderRow, owner : PkgCustomers \cup {NoRow}, madeVisa : BOOLEAN]
DepartureRow == [package : PkgIds, code : DepCodes, oversell : BOOLEAN, currency : Currencies,
                 tiers : SUBSET [code : TierCodes, currency : Currencies]]
ASSUME PackagesAssumption == NoRow \notin PackageRow \cup DepartureRow

PackagesTypeOK ==
    /\ \A i \in Present(packages) : ValidCategory(packages[i].header.kind, packages[i].header.category)
    /\ \A i \in PkgIds : \A t \in pkgTiers[i] : t.code \in TierCodes
    /\ \A i \in Present(pkgDeps) : pkgDeps[i].package \in Present(packages)
    /\ pkgWrites \in 0 .. MaxPkgWrites

(* However edits, clones and tier lists overlap: a personal package has    *)
(* its customer and no other package has one, no tier code appears twice   *)
(* in a package, a departure never shows a code twice, and a package that  *)
(* was made for visas has its one standing departure.                      *)
CatalogueCoherent ==
    /\ \A i \in Present(packages) :
        /\ IsPersonal(packages[i].header.category) <=> packages[i].owner # NoRow
        /\ packages[i].madeVisa => Cardinality({d \in Present(pkgDeps) : pkgDeps[d].package = i /\ pkgDeps[d].code = "OPEN"}) = 1
    /\ \A i \in PkgIds : \A t, u \in pkgTiers[i] : t.code = u.code => t = u
    /\ \A i \in Present(pkgDeps) : \A t, u \in pkgDeps[i].tiers : t.code = u.code => t = u

(* A stored programme passes its own rules unchanged, so an edit of a      *)
(* package's name neither fails nor alters the programme; and it is        *)
(* coherent: itinerary days are distinct, in order and inside the trip,    *)
(* and a visa package names a type it sells and has a price.               *)
ProgrammeStable ==
    programme.op = "spec" =>
        LET s == programme.out
            h == programme.header
        IN  /\ NormalizeSpec(s, h) = {s}
            /\ \A i \in DOMAIN s.itinerary : (i > 1 => s.itinerary[i - 1].day < s.itinerary[i].day) /\ (h.days > 0 => s.itinerary[i].day <= h.days)
            /\ IsVisa(h.kind) => s.visa.type = s.offers[1].type /\ CheapestVisaSell(s.offers) # {}
            /\ ~IsVisa(h.kind) => s.offers = <<>>

(* Someone who may not see costs neither reads them nor sets them: what    *)
(* they save keeps every stored net and the stored costs, and a visa type  *)
(* they add costs nothing until someone who may see costs fills it in.     *)
CostsKept ==
    programme.op = "agent" =>
        /\ \A i \in DOMAIN programme.shown.offers : programme.shown.offers[i].net = 0
        /\ programme.shown.costs.net = 0
        /\ programme.out.costs = programme.stored.costs
        /\ \A i \in DOMAIN programme.out.offers :
            programme.out.offers[i].net \in {0} \cup {programme.stored.offers[j].net : j \in {k \in DOMAIN programme.stored.offers : programme.stored.offers[k].type = programme.out.offers[i].type}}

(* The alert a departure shows agrees with what it would sell, the price   *)
(* a package is advertised from is one of its active room prices, counts   *)
(* of bookings add up, a suggested price is the marked-up cost to the      *)
(* nearest hundred, and a passport that expires on the last valid day is   *)
(* accepted and one a day earlier is not.                                  *)
FiguresHonest ==
    /\ programme.op = "seats" =>
        ((programme.dep.active /\ ~programme.dep.oversell)
            => (programme.sells <=> programme.alert \in {"ok", "low"}) /\ (programme.sells => programme.left > 0))
    /\ programme.op = "offer" => (programme.cap = 0 => programme.left = Remaining(programme.deps[1]) + Remaining(programme.deps[2]))
    /\ programme.op = "from" /\ programme.out # 0 => \E t \in programme.tiers : t.active /\ t.kind = "room" /\ t.amount = programme.out
    /\ programme.op = "ready" =>
        /\ programme.out.total = programme.out.draft + programme.out.sold + programme.out.cancelled
        /\ programme.out.pax \in programme.out.sold .. 2 * programme.out.sold
    /\ programme.op = "price" => programme.out - programme.raw \in (0 - 49) .. 50
    /\ programme.op = "passport" => /\ programme.due[1] = programme.depart[1] + programme.months
                                    /\ programme.out <=> programme.early = 0
=============================================================================
