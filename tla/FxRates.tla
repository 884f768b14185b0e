------------------------------ MODULE FxRates -------------------------------
(***************************************************************************)
(* Exchange rates: the table of accounting rates and the conversions made  *)
(* from it, the live sources with the snapshots kept of them and the board *)
(* each process caches, and how a currency's side of the board is chosen.  *)
(* Modelled code: src/internal/domain/fx, src/internal/app/fx,             *)
(* src/internal/adapter/postgres/fx.                                       *)
(*                                                                         *)
(* One pair of currencies, quoted in both directions.  A desk is a process *)
(* (the API, the worker): its mutexes order what one process does, nothing *)
(* orders two of them; only the API serves the board.  FxScale stands for  *)
(* RateScale and FxMax for the largest int64, both small.                  *)
(***************************************************************************)
EXTENDS Rows, Sequences, TLC

CONSTANTS
    FxScale,           \* RateScale
    FxMax,             \* the largest value a rate or an amount can have
    FxDays,            \* days with rates; the last is today
    FxValues,          \* scaled rates entered or quoted
    MaxFxRows,         \* bound: rows ever inserted
    MinInterval,       \* between two fetches of a source
    ForceFloor,        \* between two forced fetches
    BoardTTL,          \* boardCacheTTL
    LastTick           \* bound: the clock

ASSUME FxAssumption ==
    /\ FxScale \in Nat \ {0} /\ FxMax \in Nat /\ FxDays \subseteq Nat /\ FxValues \subseteq Nat \ {0}
    /\ MinInterval \in Nat /\ ForceFloor \in Nat /\ BoardTTL \in Nat /\ LastTick \in Nat
    /\ \E d \in FxDays : \A e \in FxDays : e <= d
    /\ NoRow \notin [fetched : Int, attempted : Int, next : Int, ok : BOOLEAN] \cup [day : Int, scaled : Int]
    /\ Desks # {}

VARIABLES
    rates,             \* the fx_rates rows: direction -> day -> row
    rateIds,           \* rows inserted so far
    snaps,             \* the fx_live_snapshots rows: kind -> row
    board,             \* when the board the API caches was composed
    tick,              \* the clock
    unseen,            \* history: the API stored a snapshot since it last composed the board
    side,              \* a side of the board: what it was chosen from, and the choice
    fxjob              \* desk -> what it holds between two steps

rateVars == <<rates, rateIds>>
liveVars == <<snaps, board, tick, unseen>>
sideVars == <<side>>
fxVars == <<rateVars, liveVars, sideVars, fxjob>>

Directions == {"direct", "inverse"}
Kinds == {"official", "market", "reference"}
LiveSources == [lirascope |-> <<"official", "market">>, erapi |-> <<"reference">>]     \* what each source provides
FxToday == CHOOSE d \in FxDays : \A e \in FxDays : e <= d
Api == CHOOSE d \in Desks : TRUE
MinOf(a, b) == IF a < b THEN a ELSE b

(* Type correctness.                                                       *)
FxTypeOK ==
    /\ rates \in [Directions -> [FxDays -> [scaled : 1 .. FxMax, source : {"manual", "adopted", "provider"}, id : Nat] \cup {NoRow}]]
    /\ snaps \in [Kinds -> [fetched : 0 .. LastTick, attempted : 0 .. LastTick, next : Nat, ok : BOOLEAN] \cup {NoRow}]
    /\ tick \in 0 .. LastTick
    /\ unseen \in BOOLEAN

-----------------------------------------------------------------------------
(* rate.go: fixed point, rounded half away from zero; what does not fit is *)
(* refused, shown as 0.                                                    *)
DivRound(n, d) == LET q == n \div d IN IF 2 * (n % d) >= d THEN q + 1 ELSE q
Fits(v) == IF v <= FxMax THEN v ELSE 0
ParseRate(whole, frac) == IF whole > (FxMax - FxScale) \div FxScale THEN 0 ELSE whole * FxScale + frac
ApplyRate(amount, scaled) == Fits(DivRound(amount * scaled, FxScale))
Invert(scaled) == Fits(DivRound(FxScale * FxScale, scaled))

(* Latest: the most recent rate of a direction on or before the day.       *)
Effective(dir, day) == {e \in FxDays : e <= day /\ rates[dir][e] # NoRow}
Latest(dir, day) ==
    IF Effective(dir, day) = {} THEN NoRow
    ELSE LET e == CHOOSE x \in Effective(dir, day) : \A y \in Effective(dir, day) : y <= x
         IN  [day |-> e, scaled |-> rates[dir][e].scaled]

(* Pick: the more recent of the two, the direct one on a tie.              *)
Pick(direct, inverse) ==
    IF direct = NoRow /\ inverse = NoRow THEN NoRow
    ELSE IF inverse = NoRow \/ (direct # NoRow /\ inverse.day <= direct.day)
    THEN [day |-> direct.day, scaled |-> direct.scaled, inverted |-> FALSE]
    ELSE IF Invert(inverse.scaled) = 0 THEN NoRow
    ELSE [day |-> inverse.day, scaled |-> Invert(inverse.scaled), inverted |-> TRUE]
Converted(day) == Pick(Latest("direct", day), Latest("inverse", day))

(* insert: ON CONFLICT (base, quote, effective_date) DO NOTHING.           *)
InsertRate(dir, day, scaled, source) ==
    IF rates[dir][day] # NoRow THEN UNCHANGED rateVars
    ELSE /\ rates' = [rates EXCEPT ![dir][day] = [scaled |-> scaled, source |-> source, id |-> rateIds + 1]]
         /\ rateIds' = rateIds + 1

(* Create refuses a rate that does not parse.                              *)
CreateRate(dir, day, whole, frac) ==
    /\ rateIds < MaxFxRows
    /\ ParseRate(whole, frac) > 0
    /\ InsertRate(dir, day, ParseRate(whole, frac), "manual")
    /\ UNCHANGED fxjob

(* Adopt: a quote of the live board becomes the rate of a day.             *)
Adopt(day, scaled) ==
    /\ rateIds < MaxFxRows
    /\ InsertRate("direct", day, scaled, "adopted")
    /\ UNCHANGED fxjob

(* Update reads the row...                                                 *)
GetRate(d, dir, day) ==
    /\ fxjob[d] = Free
    /\ rates[dir][day] # NoRow
    /\ fxjob' = [fxjob EXCEPT ![d] = [op |-> "update", dir |-> dir, day |-> day, row |-> rates[dir][day]]]
    /\ UNCHANGED rateVars

(* ...and writes by id: a row deleted meanwhile is not found.              *)
UpdateRate(d, scaled) ==
    /\ fxjob[d].op = "update"
    /\ LET j == fxjob[d]
           here == rates[j.dir][j.day]
       IN  rates' = IF here = NoRow THEN rates ELSE IF here.id # j.row.id THEN rates
                    ELSE [rates EXCEPT ![j.dir][j.day] = [here EXCEPT !.scaled = scaled, !.source = j.row.source]]
    /\ fxjob' = [fxjob EXCEPT ![d] = Free]
    /\ UNCHANGED rateIds

DeleteRate(dir, day) ==
    /\ rates[dir][day] # NoRow
    /\ rates' = [rates EXCEPT ![dir][day] = NoRow]
    /\ UNCHANGED <<rateIds, fxjob>>

(* SyncRates: the provider is asked outside the transaction...             *)
ProviderFetch(d, scaled) ==
    /\ fxjob[d] = Free
    /\ rateIds < MaxFxRows
    /\ fxjob' = [fxjob EXCEPT ![d] = [op |-> "sync", scaled |-> scaled]]
    /\ UNCHANGED rateVars

(* ...and what it said is inserted where the day has no rate yet.          *)
SyncProvider(d) ==
    /\ fxjob[d].op = "sync"
    /\ InsertRate("direct", FxToday, fxjob[d].scaled, "provider")
    /\ fxjob' = [fxjob EXCEPT ![d] = Free]

-----------------------------------------------------------------------------
(* live.go: isDue, by the latest attempt and the announced next update of  *)
(* the source's snapshots.                                                 *)
MaxOver(S, default) == IF S = {} THEN default ELSE CHOOSE x \in S : \A y \in S : y <= x
SourceRows(src) == {k \in {LiveSources[src][i] : i \in DOMAIN LiveSources[src]} : snaps[k] # NoRow}
IsDue(src, force) ==
    LET attempted == MaxOver({snaps[k].attempted : k \in SourceRows(src)}, 0)
        next == MaxOver({snaps[k].next : k \in SourceRows(src)}, 0)
        gap == IF force THEN MinOf(MinInterval, ForceFloor) ELSE MinInterval
    IN  SourceRows(src) = {} \/ (tick >= next /\ tick - attempted >= gap)

(* Sync under syncMu: the sources that are due; each is fetched, and       *)
(* answers with a valid payload of all its kinds or fails (check).  The    *)
(* job of the worker never forces it; Refresh, in the API, does.           *)
DueKinds(force) ==
    (IF IsDue("lirascope", force) THEN LiveSources.lirascope ELSE <<>>) \o (IF IsDue("erapi", force) THEN LiveSources.erapi ELSE <<>>)
SyncStart(d, force) ==
    /\ fxjob[d] = Free
    /\ force => d = Api
    /\ \E good \in SUBSET {s \in DOMAIN LiveSources : IsDue(s, force)} :
         fxjob' = [fxjob EXCEPT ![d] = [op |-> "store", now |-> tick, good |-> good, todo |-> DueKinds(force)]]
    /\ UNCHANGED liveVars

(* Only the reference source announces its next update.                   *)
NextUpdate(k, now) == IF k = "reference" THEN now + 1 ELSE 0

(* SaveSuccess replaces the row; SaveFailure keeps what was fetched.       *)
SaveSuccess(k, now) == [fetched |-> now, attempted |-> now, next |-> NextUpdate(k, now), ok |-> TRUE]
SaveFailure(row, now) ==
    IF row = NoRow THEN [fetched |-> 0, attempted |-> now, next |-> 0, ok |-> FALSE]
    ELSE [row EXCEPT !.attempted = now, !.ok = FALSE]

(* store: one statement a kind.                                            *)
StoreSnapshot(d) ==
    /\ fxjob[d].op = "store"
    /\ fxjob[d].todo # <<>>
    /\ LET k == Head(fxjob[d].todo)
           ok == IF k = "reference" THEN "erapi" \in fxjob[d].good ELSE "lirascope" \in fxjob[d].good
       IN  snaps' = [snaps EXCEPT ![k] = IF ok THEN SaveSuccess(k, fxjob[d].now) ELSE SaveFailure(@, fxjob[d].now)]
    /\ fxjob' = [fxjob EXCEPT ![d].todo = Tail(@)]
    /\ unseen' = (unseen \/ d = Api)
    /\ UNCHANGED <<board, tick>>

(* However it ends, a statement that failed included, the cached board is  *)
(* dropped.                                                                *)
SyncEnd(d) ==
    /\ fxjob[d].op = "store"
    /\ fxjob' = [fxjob EXCEPT ![d] = Free]
    /\ board' = IF d = Api THEN NoRow ELSE board
    /\ UNCHANGED <<snaps, tick, unseen>>

(* Board under cacheMu: the cached one while it is young, else composed    *)
(* anew.                                                                   *)
ServeBoard ==
    /\ board # NoRow => tick - board >= BoardTTL
    /\ Present(snaps) # {}                                  \* bootstrap syncs first
    /\ board' = tick
    /\ unseen' = (unseen /\ fxjob[Api].op = "store")
    /\ UNCHANGED <<snaps, tick, fxjob>>

Restart(d) ==
    /\ board' = IF d = Api THEN NoRow ELSE board
    /\ fxjob' = [fxjob EXCEPT ![d] = Free]
    /\ UNCHANGED <<snaps, tick, unseen>>

Tick ==
    /\ tick < LastTick
    /\ tick' = tick + 1
    /\ UNCHANGED <<snaps, board, unseen, fxjob>>

-----------------------------------------------------------------------------
(* ComposeBoard for one currency: its direct quote, the quote of the       *)
(* dollar, and the reference cross, each absent or with an age.  A side    *)
(* derived from the dollar is as old as its older leg.                     *)
Fresh1(q, maxAge) == q.age <= maxAge
Derive(usd, cross) == [from |-> "usd", age |-> IF cross.age > usd.age THEN cross.age ELSE usd.age]
ResolveOfficial(q, usd, cross) ==
    IF q # NoRow THEN [from |-> "direct", age |-> q.age, stale |-> FALSE]
    ELSE IF usd = NoRow \/ cross = NoRow THEN NoRow
    ELSE [from |-> "usd", age |-> Derive(usd, cross).age, stale |-> FALSE]
ResolveMarket(q, usd, cross, maxAge) ==
    IF q # NoRow /\ Fresh1(q, maxAge) THEN [from |-> "direct", age |-> q.age, stale |-> FALSE]
    ELSE IF usd # NoRow /\ cross # NoRow
    THEN [from |-> "usd", age |-> Derive(usd, cross).age, stale |-> ~Fresh1(usd, maxAge)]
    ELSE IF q # NoRow THEN [from |-> "direct", age |-> q.age, stale |-> TRUE]
    ELSE NoRow

ComposeSide(kind, q, usd, cross) ==
    /\ side = Free
    /\ side' = [op |-> kind, q |-> q, usd |-> usd, cross |-> cross,
                out |-> IF kind = "official" THEN ResolveOfficial(q, usd, cross) ELSE ResolveMarket(q, usd, cross, 1)]

(* AccountingProvider: nothing from a stale board, no stale side.          *)
AccountingRate(s, boardStale) == IF boardStale \/ s = NoRow THEN NoRow ELSE IF s.stale THEN NoRow ELSE s

-----------------------------------------------------------------------------
FxInit ==
    /\ rates = [r \in Directions |-> [d \in FxDays |-> NoRow]] /\ rateIds = 0
    /\ snaps = [k \in Kinds |-> NoRow] /\ board = NoRow /\ tick = 1 /\ unseen = FALSE
    /\ side = Free /\ fxjob = [d \in Desks |-> Free]

RateNext ==
    /\ UNCHANGED <<liveVars, sideVars>>
    /\ \/ \E r \in Directions, day \in FxDays :
            \/ DeleteRate(r, day)
            \/ \E w \in {0, 1, 3} : CreateRate(r, day, w, IF w = 1 THEN 1 ELSE 0)
            \/ \E d \in Desks : GetRate(d, r, day)
       \/ \E day \in FxDays, v \in FxValues : Adopt(day, v)
       \/ \E d \in Desks : SyncProvider(d) \/ \E v \in FxValues : UpdateRate(d, v) \/ ProviderFetch(d, v)

LiveNext ==
    /\ UNCHANGED <<rateVars, sideVars>>
    /\ \/ Tick \/ ServeBoard
       \/ \E d \in Desks :
            \/ \E force \in BOOLEAN : SyncStart(d, force)
            \/ StoreSnapshot(d) \/ SyncEnd(d) \/ Restart(d)

SideNext ==
    /\ UNCHANGED <<rateVars, liveVars, fxjob>>
    /\ \E kind \in {"official", "market"}, q, usd, cross \in [age : 0 .. 2] \cup {NoRow} : ComposeSide(kind, q, usd, cross)

-----------------------------------------------------------------------------
(* A conversion uses the newest rate on or before its day, whichever way   *)
(* round it was entered, and the direct one when both are as new; an       *)
(* inverted rate is within half a unit of the exact one (Latest, Pick).    *)
NewestRateUsed ==
    \A day \in FxDays :
      LET known == Effective("direct", day) \cup Effective("inverse", day)
      IN  IF known = {} THEN Converted(day) = NoRow
          ELSE Converted(day) # NoRow =>
                 /\ \A e \in known : e <= Converted(day).day
                 /\ Converted(day).inverted <=> rates["direct"][Converted(day).day] = NoRow
                 /\ Converted(day).inverted =>
                      LET s == rates["inverse"][Converted(day).day].scaled
                          off == Converted(day).scaled * s - FxScale * FxScale
                      IN  2 * off <= s /\ 2 * off >= -s

(* A rate somebody entered stands: the daily sync, run again or late,      *)
(* never replaces the row of a day, and an edit of a row deleted meanwhile *)
(* does not land on the one entered in its place.                          *)
EnteredRateStands ==
    [][\A r \in Directions, day \in FxDays :
         rates[r][day] # NoRow /\ rates'[r][day] # NoRow =>
           rates'[r][day].id = rates[r][day].id /\ rates'[r][day].source = rates[r][day].source]_rates

(* A source that fails, or a process that dies between two of its rows,    *)
(* never costs the last good quotes.                                       *)
LastGoodKept == [][\A k \in Kinds : snaps[k] # NoRow => snaps'[k] # NoRow /\ (snaps[k].fetched > 0 => snaps'[k].fetched > 0)]_snaps

(* After its own sync a process never serves a board composed before it:   *)
(* the cache is dropped when the sync ends, however it ends.               *)
OwnSyncSeen == fxjob[Api] = Free /\ board # NoRow => ~unseen

(* A market side is stale only when nothing fresh was to be had, and the   *)
(* accounts never take a market rate whose own observation is old.         *)
StaleAsLastResort ==
    side.op = "market" /\ side.out # NoRow =>
      /\ side.out.stale => (side.q # NoRow => side.q.age > 1) /\ (side.usd # NoRow /\ side.cross # NoRow => side.usd.age > 1)
      /\ AccountingRate(side.out, FALSE) # NoRow => (IF side.out.from = "direct" THEN side.q.age ELSE side.usd.age) <= 1
=============================================================================
