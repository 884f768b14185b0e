----------------------------- MODULE Operations -----------------------------
(***************************************************************************)
(* Three services the operations desk works with: the rooming list of a    *)
(* departure, the directory of bus companies, and the flight search with   *)
(* its cache.                                                              *)
(* Modelled code: src/internal/{app,domain}/{rooming,bus,flight} and       *)
(* src/internal/adapter/postgres/{rooming,bus}.                            *)
(*                                                                         *)
(* Rooming and the directory check a limit on what they read and write     *)
(* without a lock, so every such operation is a read step and a write      *)
(* step.  The flight cache is guarded by a mutex; the provider is asked    *)
(* outside it.                                                             *)
(***************************************************************************)
EXTENDS Rows, Sequences, FiniteSets, FiniteSetsExt, SequencesExt

CONSTANTS Travellers,    \* participants of the departure's bookings
          RoomIds,       \* rooms of the departure
          MaxCapacity,   \* beds a room may have
          BusLimit,      \* bus companies the plan allows
          BusIds,        \* ids of bus companies
          FareTTL,       \* ticks a cached answer lives
          CacheMax,      \* entries the cache may hold (512)
          LastOpsTick    \* last tick of the clock

VARIABLES
    rooms,               \* departure_rooms: id -> capacity
    beds,                \* room_assignments: participant -> room
    cancelled,           \* participants whose booking is cancelled
    buses,               \* bus_companies: id -> row
    fareCache,           \* key -> when it was stored and what
    opsTick,             \* the clock
    opsDesk,             \* desk -> what it has read and is about to write
    search               \* a flight search: request and answer

opsVars == <<rooms, beds, cancelled, buses, fareCache, opsTick, opsDesk, search>>

-----------------------------------------------------------------------------
(* Rooming.  A room's assignments are counted whatever became of their     *)
(* bookings; the group list leaves the cancelled ones out.                 *)
NormalizeRoom(capacity) == capacity > 0
AssignedTo(room) == Cardinality({p \in Travellers : beds[p] = room})
IsFull(room) == AssignedTo(room) >= rooms[room]
GroupList == [p \in Travellers \ cancelled |-> beds[p]]

InsertRoom(id, capacity) == rooms' = [rooms EXCEPT ![id] = capacity]
SetRoom(id, capacity) == rooms' = [rooms EXCEPT ![id] = capacity]
RemoveRoom(id) ==
    /\ rooms' = [rooms EXCEPT ![id] = NoRow]
    /\ beds' = [p \in Travellers |-> IF beds[p] = id THEN NoRow ELSE beds[p]]
ensureAssignable(room) == rooms[room] # NoRow
UpsertBed(p, room) == beds' = [beds EXCEPT ![p] = room]
RemoveBed(p) == beds[p] # NoRow /\ beds' = [beds EXCEPT ![p] = NoRow]

CreateRoom ==
    \E id \in Fresh(rooms), capacity \in 1 .. MaxCapacity :
        /\ NormalizeRoom(capacity)
        /\ InsertRoom(id, capacity)
        /\ UNCHANGED <<beds, cancelled, opsDesk>>
UpdateRoom ==
    \E id \in Present(rooms), capacity \in 1 .. MaxCapacity :
        /\ NormalizeRoom(capacity)
        /\ SetRoom(id, capacity)
        /\ UNCHANGED <<beds, cancelled, opsDesk>>
(* The assignments of a deleted room go with it.                           *)
DeleteRoom ==
    \E id \in Present(rooms) : RemoveRoom(id) /\ UNCHANGED <<cancelled, opsDesk>>
AssignRead(d) ==
    /\ opsDesk[d] = Free
    /\ \E id \in Present(rooms), p \in Travellers :
        /\ ~IsFull(id)
        /\ opsDesk' = [opsDesk EXCEPT ![d] = [op |-> "assign", room |-> id, who |-> p]]
    /\ UNCHANGED <<rooms, beds, cancelled>>
(* ensureAssignable finds the room gone, or the assignment replaces the    *)
(* participant's earlier one.                                              *)
AssignWrite(d) ==
    /\ opsDesk[d].op = "assign"
    /\ IF ensureAssignable(opsDesk[d].room) THEN UpsertBed(opsDesk[d].who, opsDesk[d].room) ELSE UNCHANGED beds
    /\ opsDesk' = [opsDesk EXCEPT ![d] = Free]
    /\ UNCHANGED <<rooms, cancelled>>
Unassign ==
    \E p \in Travellers : RemoveBed(p) /\ UNCHANGED <<rooms, cancelled, opsDesk>>
(* One cancelled booking is enough to tell the list from the beds.         *)
BookingCancelled ==
    /\ cancelled = {}
    /\ \E p \in Travellers \ cancelled : cancelled' = cancelled \cup {p} /\ UNCHANGED <<rooms, beds, opsDesk>>
RoomNext ==
    /\ \/ CreateRoom \/ UpdateRoom \/ DeleteRoom \/ Unassign \/ BookingCancelled
       \/ \E d \in Desks : AssignRead(d) \/ AssignWrite(d)
    /\ UNCHANGED <<buses, fareCache, opsTick, search>>

-----------------------------------------------------------------------------
(* Bus companies.  The plan's limit is counted before the transaction that *)
(* inserts; an update writes every column of the copy it read.             *)
NormalizeBus(c) == {[c EXCEPT !.class = IF @ = "" THEN "standard" ELSE @] : x \in {y \in {c} : c.name # "" /\ c.class \in {"", "standard", "vip"}}}
BusInputs == [name : {"", "n1"}, class : {"", "vip", "tram"}, active : BOOLEAN]
BusCreateRead(d) ==
    /\ opsDesk[d] = Free
    /\ Cardinality(Present(buses)) < BusLimit
    /\ \E in \in BusInputs : \E c \in NormalizeBus([in EXCEPT !.active = TRUE]) :
        opsDesk' = [opsDesk EXCEPT ![d] = [op |-> "create", row |-> c]]
    /\ UNCHANGED buses
BusUpdateRead(d) ==
    /\ opsDesk[d] = Free
    /\ \E id \in Present(buses), in \in BusInputs : \E c \in NormalizeBus(in) :
        opsDesk' = [opsDesk EXCEPT ![d] = [op |-> "update", id |-> id, row |-> c]]
    /\ UNCHANGED buses
BusWrite(d) ==
    /\ opsDesk[d].op \in {"create", "update"}
    /\ \E id \in (IF opsDesk[d].op = "update" THEN {opsDesk[d].id} ELSE Fresh(buses)) :
        buses' = [buses EXCEPT ![id] = opsDesk[d].row]
    /\ opsDesk' = [opsDesk EXCEPT ![d] = Free]
BusNext ==
    /\ \E d \in Desks : BusCreateRead(d) \/ BusUpdateRead(d) \/ BusWrite(d)
    /\ UNCHANGED <<rooms, beds, cancelled, fareCache, opsTick, search>>

-----------------------------------------------------------------------------
(* The cache of fares: an answer is served while it is younger than its    *)
(* TTL; a full cache drops what expired, and the oldest entry if nothing   *)
(* did.                                                                    *)
CacheKeys == {"k1", "k2", "k3"}
Alive(e, now) == now - e.stored <= FareTTL
CacheGet(key, now) == IF key \in DOMAIN fareCache /\ Alive(fareCache[key], now) THEN fareCache[key].value ELSE NoRow
Evict(cache, now) ==
    LET alive == {k \in DOMAIN cache : Alive(cache[k], now)}
        oldest == {k \in alive : \A j \in alive : cache[k].stored <= cache[j].stored}
    IN  {[k \in kept |-> cache[k]] :
            kept \in IF Cardinality(alive) >= CacheMax THEN {alive \ {k} : k \in oldest} ELSE {alive}}
CachePut(cache, key, value, now) ==
    {[k \in DOMAIN c \cup {key} |-> IF k = key THEN [stored |-> now, value |-> value] ELSE c[k]] :
        c \in IF key \notin DOMAIN cache /\ Cardinality(DOMAIN cache) >= CacheMax THEN Evict(cache, now) ELSE {cache}}

(* faresFor: the cache, else the provider, whose answer is as of the time  *)
(* it was asked and reaches the cache later; a refusal is not cached.      *)
FaresAsk(d) ==
    /\ opsDesk[d] = Free
    /\ \E key \in CacheKeys :
        /\ CacheGet(key, opsTick) = NoRow
        /\ opsDesk' = [opsDesk EXCEPT ![d] = [op |-> "fares", key |-> key, asked |-> opsTick]]
    /\ UNCHANGED <<fareCache, opsTick, search>>
FaresArrive(d) ==
    /\ opsDesk[d].op = "fares"
    /\ \E cache \in CachePut(fareCache, opsDesk[d].key, opsDesk[d].asked, opsTick) : fareCache' = cache
    /\ opsDesk' = [opsDesk EXCEPT ![d] = Free]
    /\ UNCHANGED <<opsTick, search>>
FaresFail(d) ==
    /\ opsDesk[d].op = "fares"
    /\ opsDesk' = [opsDesk EXCEPT ![d] = Free]
    /\ UNCHANGED <<fareCache, opsTick, search>>
FaresServed ==
    /\ \E key \in CacheKeys :
        /\ CacheGet(key, opsTick) # NoRow
        /\ search' = [op |-> "served", stored |-> fareCache[key].stored, at |-> opsTick]
    /\ UNCHANGED <<fareCache, opsTick, opsDesk>>
OpsTick ==
    /\ opsTick < LastOpsTick
    /\ opsTick' = opsTick + 1
    /\ UNCHANGED <<fareCache, opsDesk, search>>
FareNext ==
    /\ \/ \E d \in Desks : FaresAsk(d) \/ FaresArrive(d) \/ FaresFail(d)
       \/ FaresServed \/ OpsTick
    /\ UNCHANGED <<rooms, beds, cancelled, buses>>

-----------------------------------------------------------------------------
(* Search.  Days stand for times; a month has five of them and the window  *)
(* is three days to either side.                                           *)
SearchWindow == 3
MonthOf(day) == day \div 5
Months(day) == MonthOf(day - SearchWindow) .. MonthOf(day + SearchWindow)
FareQueries(day, directOnly) == [month : Months(day), direct : IF directOnly THEN {TRUE} ELSE BOOLEAN]
MaxTravellers == 9
NormalizeQuery(q) ==
    /\ q.from # q.to
    /\ q.adults >= 1 /\ q.infants <= q.adults /\ q.adults + q.infants <= MaxTravellers
    /\ q.day >= 0
(* The outcome of every query is its fares or an error.                    *)
Collect(outcomes) ==
    LET failed == {i \in DOMAIN outcomes : outcomes[i].err # ""}
        got == UNION {outcomes[i].fares : i \in DOMAIN outcomes \ failed}
    IN  IF failed # DOMAIN outcomes THEN [err |-> "", fares |-> got]
        ELSE [err |-> IF outcomes[1].err = "rejected" THEN "not_configured" ELSE "unavailable", fares |-> {}]
Outcomes == [err : {""}, fares : {{}, {"f1"}}] \cup [err : {"down", "rejected"}, fares : {{}}]
(* Rank: fares near the wanted day, nearest first and then cheapest, each  *)
(* flight once, cut to the limit.                                          *)
FareLimit == 2
Gap(f, wanted) == IF f.day >= wanted THEN f.day - wanted ELSE wanted - f.day
Before(f, g, wanted) == Gap(f, wanted) < Gap(g, wanted) \/ (Gap(f, wanted) = Gap(g, wanted) /\ f.price < g.price)
Rank(fares, wanted) ==
    LET near == {f \in fares : Gap(f, wanted) <= SearchWindow /\ f.price > 0}
        sorted == CHOOSE s \in SetToSeqs(near) : \A i, j \in DOMAIN s : i < j => ~Before(s[j], s[i], wanted)
        cut == SubSeq(sorted, 1, Min({FareLimit, Len(sorted)}))
        cheapest == {i \in DOMAIN cut : \A j \in DOMAIN cut : cut[i].price < cut[j].price \/ (cut[i].price = cut[j].price /\ i <= j)}
    IN  [i \in DOMAIN cut |-> [fare |-> cut[i], closest |-> i = 1, cheapest |-> i \in cheapest]]
SearchFares == [day : {1, 6, 8, 10}, price : {0, 1, 2}]
SearchFlights ==
    /\ search = Free
    /\ \/ \E fares \in {F \in SUBSET SearchFares : Cardinality(F) <= 3}, wanted \in {5, 6} :
            search' = [op |-> "rank", fares |-> fares, wanted |-> wanted, out |-> Rank(fares, wanted)]
       \/ \E day \in 3 .. 12, direct \in BOOLEAN, adults \in {0, 1, 5, 9}, infants \in {0, 1, 5} :
            /\ NormalizeQuery([from |-> "a", to |-> "b", adults |-> adults, infants |-> infants, day |-> day])
            /\ search' = [op |-> "months", day |-> day, seats |-> adults, laps |-> infants, direct |-> direct, out |-> FareQueries(day, direct)]
       \/ \E n \in 1 .. 3 : \E outcomes \in [1 .. n -> Outcomes] :
            search' = [op |-> "collect", outcomes |-> outcomes, out |-> Collect(outcomes)]
SearchNext == SearchFlights /\ UNCHANGED <<rooms, beds, cancelled, buses, fareCache, opsTick, opsDesk>>

OpsInit ==
    /\ rooms = [id \in RoomIds |-> NoRow] /\ beds = [p \in Travellers |-> NoRow] /\ cancelled = {}
    /\ buses = [id \in BusIds |-> NoRow]
    /\ fareCache = [k \in {} |-> NoRow] /\ opsTick = 0
    /\ opsDesk = [d \in Desks |-> Free] /\ search = Free

-----------------------------------------------------------------------------
(* What Normalize lets into a company's row.                               *)
BusRow == [name : {"n1"}, class : {"standard", "vip"}, active : BOOLEAN]

ASSUME OpsAssumption ==
    /\ IsFiniteSet(Desks) /\ Desks # {} /\ IsFiniteSet(Travellers) /\ IsFiniteSet(BusIds)
    /\ MaxCapacity \in Nat \ {0} /\ CacheMax \in Nat \ {0} /\ {BusLimit, FareTTL, LastOpsTick} \subseteq Nat
    /\ NoRow \notin RoomIds \cup 1 .. MaxCapacity /\ NoRow \notin BusRow

OpsTypeOK ==
    /\ rooms \in [RoomIds -> 1 .. MaxCapacity \cup {NoRow}]
    /\ beds \in [Travellers -> RoomIds \cup {NoRow}] /\ cancelled \subseteq Travellers
    /\ buses \in [BusIds -> BusRow \cup {NoRow}]
    /\ opsTick \in 0 .. LastOpsTick

(* A limit that is checked on a read and written without a lock is overrun *)
(* by no more than the requests that were under way: a room holds at most  *)
(* the most beds a room may have and one more per other request, and the   *)
(* directory the plan's number and one more per other request.             *)
OverrunsBounded ==
    /\ \A id \in Present(rooms) : AssignedTo(id) <= MaxCapacity + Cardinality(Desks) - 1
    /\ Cardinality(Present(buses)) <= BusLimit + Cardinality(Desks) - 1

(* The group list names every traveller who still goes, and a bed it shows *)
(* is in a room of the departure that exists.                              *)
GroupListTrue ==
    \A p \in Travellers \ cancelled : p \in DOMAIN GroupList /\ (GroupList[p] # NoRow => rooms[GroupList[p]] # NoRow)

(* The cache never outgrows its limit, whatever arrives together, and no   *)
(* fare is served that was stored longer ago than its TTL.                 *)
CacheHolds ==
    /\ Cardinality(DOMAIN fareCache) <= CacheMax
    /\ search.op = "served" => search.at - search.stored <= FareTTL

(* A search shows the nearest fares, marks one closest and one cheapest of *)
(* those shown, asks the months every day of the window lies in, and says  *)
(* that the provider failed only if nothing at all arrived.                *)
SearchAnswer(s) ==
    /\ s.op = "rank" =>
        LET shown == {s.out[i].fare : i \in DOMAIN s.out}
            near == {f \in s.fares : Gap(f, s.wanted) <= SearchWindow /\ f.price > 0}
        IN  /\ Len(s.out) = Min({FareLimit, Cardinality(near)})
            /\ \A f \in shown, g \in near \ shown : ~Before(g, f, s.wanted)
            /\ shown # {} => /\ Cardinality({i \in DOMAIN s.out : s.out[i].closest}) = 1
                             /\ \E i \in DOMAIN s.out : s.out[i].cheapest /\ \A f \in shown : s.out[i].fare.price <= f.price
    /\ s.op = "months" => s.laps <= s.seats /\
        \A day \in s.day - SearchWindow .. s.day + SearchWindow : \E q \in s.out : q.month = MonthOf(day) /\ q.direct
    /\ s.op = "collect" =>
        /\ (\E i \in DOMAIN s.outcomes : s.outcomes[i].fares # {}) => "f1" \in s.out.fares
        /\ s.out.err # "" <=> \A i \in DOMAIN s.outcomes : s.outcomes[i].err # ""
SearchAnswers == SearchAnswer(search)

=============================================================================
