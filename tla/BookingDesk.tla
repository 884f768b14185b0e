---------------------------- MODULE BookingDesk -----------------------------
(***************************************************************************)
(* What the desk does to a booking besides moving it through its states:   *)
(* its lines and totals, the party, notes, change requests, the trail of   *)
(* what happened, and the figures the workspace shows.  Modelled code:     *)
(* src/internal/app/booking/{service,workspace,audit}.go,                  *)
(* src/internal/domain/booking/{model,workspace,collab}.go and             *)
(* src/internal/adapter/postgres/booking/{repository,collab}.go.           *)
(*                                                                         *)
(* Update and AddParticipant read the booking without a lock and commit    *)
(* later; whatever reads FOR UPDATE is one step.                           *)
(***************************************************************************)
EXTENDS Rows, Integers, Sequences, SequencesExt, FiniteSetsExt

CONSTANTS DeskUsers,     \* who works at the desk
          MaxDeskEdits   \* updates, additions, notes and requests explored

ASSUME DeskAssumption == MaxDeskEdits \in Nat /\ NoRow \notin {"requested", "completed", "rejected"}

VARIABLES
    deskRow,             \* the booking, or NoRow
    deskLines,           \* booking_line_items of the booking
    deskParty,           \* how many participants it has
    deskEdits,           \* work begun so far
    deskTask,            \* desk -> what it has read and is about to write
    deskSeen,            \* history: discounts granted, the largest pax_count, totals of other lines
    deskNotes,           \* booking_notes: set of [id, author]
    deskChanges,         \* booking_change_requests: id -> status, or NoRow
    deskTrail,           \* audit_events of notes and change requests: action -> how many
    deskAnswer           \* one question to the workspace and its answer

amountVars == <<deskLines, deskParty, deskTask, deskSeen>>
collabVars == <<deskNotes, deskChanges, deskTrail>>
deskVars == <<deskRow, amountVars, deskEdits, collabVars, deskAnswer>>

-----------------------------------------------------------------------------
(* Statuses of the booking, as BookingLifecycle moves it.                  *)
DeskStatuses == {"draft", "option_hold", "confirmed", "completed", "cancelled"}
DeskEditable(status) == status = "draft"
DeskTerminal(status) == status \in {"completed", "cancelled"}
DeskSold(status) == status \in {"confirmed", "completed"}
DeskMoves(status) == CASE status = "draft" -> {"confirmed", "cancelled"} [] status = "confirmed" -> {"completed", "cancelled"} [] OTHER -> {}

-----------------------------------------------------------------------------
(* Lines.  A normaliser answers with the set of its result, empty if it    *)
(* refuses.                                                                *)
ValidLineKind(kind) == kind \in {"item", "tax", "fee"}
ValidLineCategory(category) == category \in {"hotel", "extras"}
normalizeLine(it) ==
    LET bare == ValidLineCategory(it.kind) /\ it.category = ""
        category == IF bare THEN it.kind ELSE it.category
        kind == IF bare \/ it.kind = "" THEN "item" ELSE it.kind
    IN  {[it EXCEPT !.kind = kind, !.category = category] : ok \in
            {TRUE} \cap {ValidLineKind(kind) /\ (IF kind = "item" THEN ValidLineCategory(category) ELSE category = "")}}
RawLine(kind, category, qty, price, cost) == [kind |-> kind, category |-> category, qty |-> qty, price |-> price, cost |-> cost]
prepareLine(it) ==
    {[n EXCEPT !.qty = IF @ <= 0 THEN 1 ELSE @] : n \in {m \in normalizeLine(it) : m.price >= 0 /\ m.cost >= 0}}
prepareLines(items) ==
    {lines \in [DOMAIN items -> UNION {prepareLine(items[i]) : i \in DOMAIN items}] : \A i \in DOMAIN items : lines[i] \in prepareLine(items[i])}
LineInputs ==
    {<<>>, <<RawLine("hotel", "", 0, 2, 1)>>, <<RawLine("", "extras", 2, 1, 0), RawLine("tax", "", 1, 1, 0)>>,
     <<RawLine("item", "hotel", 1, 1, 2), RawLine("fee", "", 1, 1, 0)>>, <<RawLine("fee", "hotel", 1, 1, 0)>>}

LineTotal(line) == line.qty * line.price
LineCost(line) == line.qty * line.cost
LinesOf(lines, kind) == SelectSeq(lines, LAMBDA l : l.kind = kind)
TotalOf(lines) == FoldLeft(LAMBDA sum, l : sum + LineTotal(l), 0, lines)
CostOf(lines) == FoldLeft(LAMBDA sum, l : sum + LineCost(l), 0, lines)
ComputeTotals(lines, discount) ==
    LET subtotal == TotalOf(LinesOf(lines, "item"))
        tax == TotalOf(LinesOf(lines, "tax"))
        fee == TotalOf(LinesOf(lines, "fee"))
    IN  IF discount < 0 \/ discount > subtotal THEN {}
        ELSE {[discount |-> discount, tax |-> tax, fee |-> fee, cost |-> CostOf(lines), total |-> subtotal - discount + tax + fee]}
(* New totals beside the old tax.                                          *)
applyTotalsKeepingTax(row, t) == [row EXCEPT !.discount = t.discount, !.fee = t.fee, !.total = t.total, !.cost = t.cost]
applyTotals(row, t) == [row EXCEPT !.discount = t.discount, !.tax = t.tax, !.fee = t.fee, !.total = t.total, !.cost = t.cost]
RecalculateFromLines(row, lines) == {applyTotals(row, t) : t \in ComputeTotals(lines, row.discount)}
TotalsOf(row) == [discount |-> row.discount, tax |-> row.tax, fee |-> row.fee, cost |-> row.cost, total |-> row.total]
DeskSubtotal(row) == row.total + row.discount - row.tax - row.fee
DeskMargin(row) == row.total - row.tax - row.fee - row.cost
ListLineItems == deskLines
ReplaceLineItems(lines) == deskLines' = lines

-----------------------------------------------------------------------------
(* The booking and its party.                                              *)
DeskWork == deskEdits < MaxDeskEdits /\ deskEdits' = deskEdits + 1
Discounts == 0 .. 1
NewDraft(pax, total, discount) ==
    [status |-> "draft", pax |-> pax, discount |-> discount, tax |-> 0, fee |-> 0, cost |-> 0, total |-> total, reissues |-> 0]
InsertDraft(row, lines, members) == deskRow' = row /\ deskParty' = members /\ ReplaceLineItems(lines)
CreateDeskDraft ==
    /\ deskRow = NoRow /\ DeskWork
    /\ \E members \in 0 .. 1, asked \in 0 .. 1, discount \in Discounts, can \in BOOLEAN, items \in LineInputs :
        LET pax == IF members > 0 THEN members ELSE asked
            draft == NewDraft(pax, 1, discount)
        IN  /\ pax > 0 /\ (discount # 0 => can)
            /\ \E lines \in prepareLines(items) :
               \E row \in IF lines = <<>> THEN {draft} ELSE RecalculateFromLines(draft, lines) :
                    InsertDraft(row, lines, members)
            /\ deskSeen' = [deskSeen EXCEPT !.granted = IF can THEN {discount} ELSE {}, !.pax = pax]
    /\ UNCHANGED <<deskTask, collabVars>>
(* The discount of the copy is what a change is measured against.          *)
ApplyUpdate(row, lines, pax, discount) ==
    LET next == [row EXCEPT !.pax = pax, !.discount = discount]
    IN  IF lines = <<>> THEN {[next EXCEPT !.total = 1]} ELSE RecalculateFromLines(next, lines)
DeskUpdateRead(d) ==
    /\ deskTask[d] = Free /\ deskRow # NoRow /\ DeskWork /\ DeskEditable(deskRow.status)
    /\ \E pax \in 1 .. 2, discount \in Discounts \cup {deskRow.discount}, can \in BOOLEAN :
        /\ discount # deskRow.discount => can
        /\ \E row \in ApplyUpdate(deskRow, ListLineItems, pax, discount) :
            deskTask' = [deskTask EXCEPT ![d] = [op |-> "update", row |-> row, lines |-> deskLines, can |-> can]]
    /\ UNCHANGED <<deskRow, deskLines, deskParty, deskSeen, collabVars>>
DeskUpdateCommit(d) ==
    /\ deskTask[d].op = "update"
    /\ LET row == deskTask[d].row
       IN  /\ deskRow' = [row EXCEPT !.status = deskRow.status, !.reissues = deskRow.reissues]
           /\ deskSeen' = [deskSeen EXCEPT !.granted = @ \cup (IF deskTask[d].can THEN {row.discount} ELSE {}),
                !.pax = Max({@, row.pax}), !.torn = deskLines # deskTask[d].lines]
    /\ deskTask' = [deskTask EXCEPT ![d] = Free]
    /\ UNCHANGED <<deskLines, deskParty, deskEdits, collabVars>>
DeskSetLines ==
    /\ deskRow # NoRow /\ DeskWork /\ DeskEditable(deskRow.status)
    /\ \E items \in LineInputs : \E lines \in prepareLines(items) : \E row \in RecalculateFromLines(deskRow, lines) :
        deskRow' = row /\ ReplaceLineItems(lines)
    /\ deskSeen' = [deskSeen EXCEPT !.torn = FALSE]
    /\ UNCHANGED <<deskParty, deskTask, collabVars>>
DeskAddRead(d) ==
    /\ deskTask[d] = Free /\ deskRow # NoRow /\ DeskWork /\ ~DeskTerminal(deskRow.status)
    /\ deskParty < deskRow.pax
    /\ deskTask' = [deskTask EXCEPT ![d] = [op |-> "add"]]
    /\ UNCHANGED <<deskRow, deskLines, deskParty, deskSeen, collabVars>>
DeskAddCommit(d) ==
    /\ deskTask[d].op = "add"
    /\ deskParty' = deskParty + 1
    /\ deskTask' = [deskTask EXCEPT ![d] = Free]
    /\ UNCHANGED <<deskRow, deskLines, deskEdits, deskSeen, collabVars>>
DeskRemove ==
    /\ deskRow # NoRow /\ DeskWork /\ DeskEditable(deskRow.status) /\ deskParty > 0
    /\ deskParty' = deskParty - 1
    /\ UNCHANGED <<deskRow, deskLines, deskTask, deskSeen, collabVars>>
(* The booking's own life goes on meanwhile.                               *)
DeskMove ==
    /\ deskRow # NoRow
    /\ \E status \in DeskMoves(deskRow.status) : deskRow' = [deskRow EXCEPT !.status = status]
    /\ UNCHANGED <<amountVars, deskEdits, collabVars>>

-----------------------------------------------------------------------------
(* Notes, change requests, the profile, and what the trail says of them.   *)
DeskRecord(action) == deskTrail' = [deskTrail EXCEPT ![action] = @ + 1]
NewNote(body) == body # ""
CreateNote(id, author) == deskNotes' = deskNotes \cup {[id |-> id, author |-> author]}
FindNote(id) == {n \in deskNotes : n.id = id}
CanDelete(note, actor) == note.author = actor
DeleteNoteRow(id) == deskNotes' = deskNotes \ FindNote(id)
AddNote ==
    /\ deskRow # NoRow /\ DeskWork
    /\ \E body \in {"", "text"}, u \in DeskUsers : NewNote(body) /\ CreateNote(deskEdits, u)
    /\ DeskRecord("note_added")
    /\ UNCHANGED <<deskRow, amountVars, deskChanges>>
DeleteNote ==
    /\ \E u \in DeskUsers, n \in deskNotes : CanDelete(n, u) /\ DeleteNoteRow(n.id)
    /\ DeskRecord("note_deleted")
    /\ UNCHANGED <<deskRow, amountVars, deskEdits, deskChanges>>

NewChangeRequest(row) == ~DeskTerminal(row.status)
CreateChange(id) == deskChanges' = [deskChanges EXCEPT ![id] = "requested"]
RequestChange ==
    /\ deskRow # NoRow /\ DeskWork /\ NewChangeRequest(deskRow)
    /\ \E id \in Fresh(deskChanges) : CreateChange(id)
    /\ DeskRecord("change_requested")
    /\ UNCHANGED <<deskRow, amountVars, deskNotes>>
FindChangeForUpdate(id) == {s \in {deskChanges[id]} : s # NoRow}
ResolveTo(current, status, note) == current = "requested" /\ (status = "completed" \/ (status = "rejected" /\ note # ""))
ResolveChangeRow(id, status) == deskChanges[id] = "requested" /\ deskChanges' = [deskChanges EXCEPT ![id] = status]
IncrementReissue == deskRow' = [deskRow EXCEPT !.reissues = @ + 1]
ResolveChange ==
    /\ \E id \in DOMAIN deskChanges, status \in {"completed", "rejected"}, note \in {"", "why"} :
        /\ \E current \in FindChangeForUpdate(id) : ResolveTo(current, status, note)
        /\ ResolveChangeRow(id, status)
        /\ IF status = "completed" THEN IncrementReissue ELSE UNCHANGED deskRow
        /\ DeskRecord("change_" \o status)
    /\ UNCHANGED <<amountVars, deskEdits, deskNotes>>

-----------------------------------------------------------------------------
(* The profile of a booking.                                               *)
ServiceTypes == {"package", "flight"}
SupplierSources == {"duffel", "other"}
Channels == {"agent", "b2c_web"}
ProfileInputs == [pnr : {"", "ab1", "AB1", "a b"}, service : ServiceTypes \cup {"", "x"}, source : SupplierSources \cup {"", "x"}, channel : Channels \cup {"", "x"}]
UpperPNR(pnr) == IF pnr = "ab1" THEN "AB1" ELSE pnr
ValidPNR(pnr) == pnr # "a b"
NormalizeProfile(p) ==
    LET n == [pnr |-> UpperPNR(p.pnr), service |-> IF p.service = "" THEN "package" ELSE p.service,
              source |-> p.source, channel |-> IF p.channel = "" THEN "agent" ELSE p.channel]
    IN  IF ValidPNR(n.pnr) /\ n.service \in ServiceTypes /\ n.source \in SupplierSources \cup {""} /\ n.channel \in Channels THEN {n} ELSE {}
(* Whether UpdateProfile writes, and what.                                 *)
ApplyProfile(stored, p) == {[row |-> n, changed |-> n # stored] : n \in NormalizeProfile(p)}

-----------------------------------------------------------------------------
(* Reference codes: BK- and the number, padded to six digits.              *)
RefNumbers == {0, 1, 20, 99, 100203, 999999}
DigitsOf(n) == [i \in 1 .. 6 |-> (n \div 10 ^ (6 - i)) % 10]
NumberOf(digits) == FoldLeft(LAMBDA n, d : 10 * n + d, 0, digits)
RefCode(n) == IF n <= 0 THEN <<>> ELSE DigitsOf(n)
ParseRefCode(digits) == {n \in {NumberOf(digits)} : Len(digits) \in 1 .. 12 /\ n > 0}

-----------------------------------------------------------------------------
(* What the list and the badges say of a booking b: its status, amounts,   *)
(* whether a schedule is overdue, a visa pending, money refunded.          *)
DeskBalance(b) == Max({b.total - b.collected, 0})
TicketStatus(b) ==
    CASE b.status = "cancelled" /\ b.refunded -> "refunded"
      [] b.status = "cancelled" /\ ~b.refunded -> "cancelled"
      [] b.status = "option_hold" -> "option"
      [] DeskSold(b.status) -> IF b.reissues > 0 THEN "reissued" ELSE "issued"
      [] OTHER -> "pending"
PaymentStatus(b) ==
    IF b.total <= 0 /\ b.collected <= 0 THEN "none"
    ELSE IF DeskBalance(b) <= 0 THEN "paid"
    ELSE IF b.overdue THEN "overdue" ELSE IF b.collected > 0 THEN "deposit" ELSE "awaiting"
Segments == {"option_today", "payment_due", "overdue", "visa_pending", "issued", "cancelled"}
segmentWhere(b, segment) ==
    CASE segment = "option_today" -> b.status = "option_hold" /\ b.holdToday
      [] segment = "payment_due" -> DeskBalance(b) > 0 /\ (DeskSold(b.status) \/ b.status = "option_hold")
      [] segment = "overdue" -> DeskBalance(b) > 0 /\ b.status # "cancelled" /\ b.overdue
      [] segment = "visa_pending" -> b.status # "cancelled" /\ b.visa
      [] segment = "issued" -> DeskSold(b.status)
      [] segment = "cancelled" -> b.status = "cancelled"
ListedBookings == [status : DeskStatuses, total : 0 .. 2, collected : 0 .. 2, reissues : 0 .. 1,
                   refunded : BOOLEAN, overdue : BOOLEAN, visa : BOOLEAN, holdToday : BOOLEAN]
DeskStats(b) == [active |-> b.status \notin {"cancelled", "completed"}, segments |-> {s \in Segments : segmentWhere(b, s)}]
(* A search is one text read in four ways: as part of the PNR, the id, the *)
(* notes or a name; as a phone of five digits or more; as a reference; and *)
(* as a passport number, looked up by its hash when it has the form of one *)
(* (phoneDigits, ParseRefCode, looksLikeDocumentNo).                       *)
QueryFinds(b, q) ==
    \/ q.text \in b.texts
    \/ q.digits >= 5 /\ q.text = b.phone
    \/ q.ref # 0 /\ q.ref = b.id
    \/ q.length \in 6 .. 20 /\ q.digits > 0 /\ q.plain /\ q.text = b.passport

(* filterWhere: the columns asked for, a window on the date chosen (a      *)
(* booking without that date is in none), the search, the caller's scope.  *)
filterWhere(b, f) ==
    /\ \A column \in DOMAIN f.equal : b[column] = f.equal[column]
    /\ f.from # NoRow => b[f.date] # NoRow /\ b[f.date] >= f.from
    /\ f.to # NoRow => b[f.date] # NoRow /\ b[f.date] < f.to
    /\ f.query # NoRow => QueryFinds(b, f.query)
    /\ b.branch \in f.scope

(* List: the order asked for, NULLS LAST, then the newest, then the id.    *)
ListedBefore(sort, a, b) ==
    LET newer == a.updated > b.updated \/ (a.updated = b.updated /\ a.id < b.id)
    IN  IF sort = "updated" THEN newer
        ELSE \/ a[sort] # NoRow /\ (b[sort] = NoRow \/ a[sort] < b[sort])
             \/ a[sort] = b[sort] /\ newer
ListBookings(bookings, f, segment, sort, limit, offset) ==
    LET found == {b \in bookings : filterWhere(b, f) /\ (segment # "all" => segmentWhere(b, segment))}
        rows == SetToSortSeq(found, LAMBDA a, b : ListedBefore(sort, a, b))
        size == IF limit <= 0 THEN 50 ELSE limit
    IN  [total |-> Cardinality(found), items |-> SubSeq(rows, offset + 1, Min({offset + size, Len(rows)}))]
(* Stats: the segments counted over the filter of the list.                *)
StatsOver(bookings, f) ==
    LET found == {b \in bookings : filterWhere(b, f)}
    IN  [total |-> Cardinality(found), active |-> Cardinality({b \in found : DeskStats(b).active}),
         in |-> [s \in Segments |-> Cardinality({b \in found : s \in DeskStats(b).segments})]]

(* A desk's bookings with the statuses st, and the filters it sets.        *)
ArchivedBookings(st) ==
    {[id |-> i, status |-> st[i], total |-> i - 1, collected |-> 1, overdue |-> i = 3, visa |-> i = 2, holdToday |-> i = 1,
      updated |-> IF i = 3 THEN 2 ELSE 1, created |-> i, hold |-> IF st[i] = "option_hold" THEN 4 - i ELSE NoRow,
      depart |-> IF i = 2 THEN NoRow ELSE 1, branch |-> "here",
      texts |-> {IF i = 1 THEN "ada" ELSE "lin"}, phone |-> "90555", passport |-> "U123456"] : i \in DOMAIN st}
BookingFilters ==
    LET query(t, n, d, r) == [text |-> t, length |-> n, digits |-> d, ref |-> r, plain |-> TRUE]
    IN  [equal : {<<>>, [status |-> "option_hold"]}, date : {"created", "depart"}, from : {NoRow, 1}, to : {NoRow, 2}, scope : {{"here"}},
         query : {NoRow, query("lin", 3, 0, 0), query("90555", 5, 5, 0), query("BK-000002", 9, 0, 2), query("U123456", 7, 6, 0)}]
CreatePaymentLink(b, amount) ==
    LET asked == IF amount = 0 THEN DeskBalance(b) ELSE amount
    IN  {a \in {asked} : b.status # "cancelled" /\ DeskBalance(b) > 0 /\ a \in 0 .. DeskBalance(b)}

(* Cancelling costs a share of the total that grows as the day comes.      *)
CancellationPolicy == <<[days |-> 45, pct |-> 10], [days |-> 30, pct |-> 25], [days |-> 15, pct |-> 50], [days |-> 7, pct |-> 75], [days |-> 0, pct |-> 100]>>
PenaltyPct(status, days) ==
    LET met == {i \in DOMAIN CancellationPolicy : days >= CancellationPolicy[i].days}
    IN  IF ~DeskSold(status) THEN 0 ELSE IF met = {} THEN 100 ELSE CancellationPolicy[Min(met)].pct
QuoteCancellation(status, days, total, collected) ==
    LET penalty == (total * PenaltyPct(status, days)) \div 100
    IN  [penalty |-> penalty, refundable |-> Max({collected - penalty, 0})]
DaysUntil(day, today) == day - today

-----------------------------------------------------------------------------
(* Readiness: the checklist, the documents, the party, an override.        *)
DefaultChecklist == [passport |-> TRUE, visa |-> TRUE, photo |-> FALSE]    \* code |-> required
SeedChecklist(stored) == [c \in DOMAIN DefaultChecklist |-> IF c \in DOMAIN stored THEN stored[c] ELSE FALSE]
ListChecklist(stored) == IF stored = <<>> THEN SeedChecklist(stored) ELSE stored
ChecklistIncomplete(done) == Cardinality({c \in DOMAIN done : DefaultChecklist[c] /\ ~done[c]})
ReadinessOK(f) == ~f.partyShort /\ (f.override \/ (f.incomplete = 0 /\ ~f.docsMissing))
ReadinessInputs == [stored : {<<>>} \cup [DOMAIN DefaultChecklist -> BOOLEAN], partyShort : BOOLEAN, docsMissing : BOOLEAN,
                    override : BOOLEAN, departure : BOOLEAN, days : {-1, 0, 14, 15}]
FactsOf(in) == [partyShort |-> in.partyShort, incomplete |-> ChecklistIncomplete(ListChecklist(in.stored)), docsMissing |-> in.docsMissing, override |-> in.override]
DeskReadiness(in) ==
    LET f == FactsOf(in)
        blocking == (IF f.partyShort THEN {"participants"} ELSE {})
            \cup (IF ~f.override /\ f.incomplete > 0 THEN {"checklist"} ELSE {})
            \cup (IF ~f.override /\ f.docsMissing THEN {"documents"} ELSE {})
            \cup (IF ~in.departure THEN {"departure"} ELSE {})
    IN  [ok |-> ReadinessOK(f), blocking |-> blocking,
         risk |-> IF ~in.departure THEN "none" ELSE IF in.days < 0 THEN "passed" ELSE IF in.days <= 14 THEN "soon" ELSE "none"]

(* One line of the trail, from the states before and after and the notes   *)
(* kept with it: a field may be absent from each.                          *)
NoDetail == "absent"
activityDetails(before, after, meta) ==
    LET now == IF after # NoDetail THEN after ELSE meta
    IN  [value |-> now, from |-> IF before # NoDetail /\ before # now THEN before ELSE NoDetail]

(* Pages of a list.                                                        *)
NormalizePage(limit, offset, default, most) ==
    [limit |-> IF limit <= 0 THEN default ELSE IF limit > most THEN most ELSE limit, offset |-> IF offset < 0 THEN 0 ELSE offset]
NewPageMeta(total, q) ==
    [page |-> (q.offset \div q.limit) + 1, pages |-> IF total > 0 THEN (total + q.limit - 1) \div q.limit ELSE 0]

-----------------------------------------------------------------------------
(* Questions to the workspace.                                             *)
DeskReply(op, in, out) == deskAnswer' = [op |-> op, in |-> in, out |-> out]
AskWorkspace ==
    /\ deskAnswer = Free
    /\ \/ \E p \in ProfileInputs : DeskReply("profile", p, NormalizeProfile(p))
       \/ \E n \in RefNumbers : DeskReply("ref", n, ParseRefCode(RefCode(n)))
       \/ \E b \in ListedBookings : DeskReply("booking", b, [ticket |-> TicketStatus(b), payment |-> PaymentStatus(b), stats |-> DeskStats(b)])
       \/ \E b \in ListedBookings, amount \in 0 .. 2 :
            b.reissues = 0 /\ ~b.visa /\ ~b.holdToday /\ ~b.refunded /\ DeskReply("link", [booking |-> b, amount |-> amount], CreatePaymentLink(b, amount))
       \/ \E status \in DeskStatuses, day \in {0, 7, 15, 30, 45, 46}, today \in {0, 1, 8}, total \in {0, 3, 100}, collected \in {0, 60, 100} :
            LET days == DaysUntil(day, today)
            IN  DeskReply("quote", [status |-> status, days |-> days, total |-> total, collected |-> collected], QuoteCancellation(status, days, total, collected))
       \/ \E in \in ReadinessInputs : DeskReply("readiness", in, DeskReadiness(in))
       \/ \E before, after, meta \in {NoDetail, "a", "b"} : DeskReply("activity", <<before, after, meta>>, activityDetails(before, after, meta))
       \/ \E limit \in {-1, 0, 1, 2, 5}, offset \in {-1, 0, 1, 2, 3}, total \in 0 .. 3 :
            LET q == NormalizePage(limit, offset, 2, 3) IN DeskReply("page", [total |-> total, q |-> q], NewPageMeta(total, q))
       \/ \E items \in LineInputs : \E i \in DOMAIN items : DeskReply("line", items[i], normalizeLine(items[i]))
       \/ \E st \in [1 .. 3 -> {"option_hold", "confirmed", "cancelled"}], f \in BookingFilters :
            DeskReply("list", [bookings |-> ArchivedBookings(st), filter |-> f], StatsOver(ArchivedBookings(st), f))
    /\ UNCHANGED <<deskRow, amountVars, deskEdits, collabVars>>

-----------------------------------------------------------------------------
DeskTrailActions == {"note_added", "note_deleted", "change_requested", "change_completed", "change_rejected"}
DeskInit ==
    /\ deskRow = NoRow /\ deskLines = <<>> /\ deskParty = 0 /\ deskEdits = 0
    /\ deskTask = [d \in Desks |-> Free] /\ deskSeen = [granted |-> {}, pax |-> 0, torn |-> FALSE]
    /\ deskNotes = {} /\ deskChanges = [i \in 1 .. 2 |-> NoRow]
    /\ deskTrail = [a \in DeskTrailActions |-> 0] /\ deskAnswer = Free
AmountNext ==
    /\ \/ CreateDeskDraft \/ DeskSetLines \/ DeskRemove \/ DeskMove
       \/ \E d \in Desks : DeskUpdateRead(d) \/ DeskUpdateCommit(d) \/ DeskAddRead(d) \/ DeskAddCommit(d)
    /\ UNCHANGED deskAnswer
CollabNext ==
    /\ \/ CreateDeskDraft \/ AddNote \/ DeleteNote \/ RequestChange \/ ResolveChange \/ DeskMove
    /\ UNCHANGED deskAnswer

-----------------------------------------------------------------------------
(* Types.                                                                  *)
DeskTypeOK ==
    /\ deskRow # NoRow => /\ deskRow.status \in DeskStatuses /\ deskRow.pax \in 1 .. 2 /\ deskRow.discount \in Discounts
                          /\ {deskRow.tax, deskRow.fee, deskRow.cost, deskRow.total, deskRow.reissues} \subseteq Nat
    /\ deskParty \in Nat /\ deskEdits \in 0 .. MaxDeskEdits /\ deskSeen.torn \in BOOLEAN
    /\ \A d \in Desks : deskTask[d].op \in {"free", "update", "add"}
    /\ \A n \in deskNotes : n.author \in DeskUsers
    /\ \A i \in DOMAIN deskChanges : deskChanges[i] \in {NoRow, "requested", "completed", "rejected"}
    /\ \A a \in DeskTrailActions : deskTrail[a] \in Nat
    /\ deskAnswer.op \in {"free", "profile", "ref", "booking", "link", "quote", "readiness", "activity", "page", "line", "list"}

(* The totals of a booking with lines are those of its lines under its     *)
(* discount, in whatever order desks edit, price and discount it; only an  *)
(* Update that read the lines before they were replaced leaves others.     *)
TotalsFollowLines ==
    (deskRow # NoRow /\ deskLines # <<>> /\ ~deskSeen.torn) =>
        /\ ComputeTotals(deskLines, deskRow.discount) = {TotalsOf(deskRow)}
        /\ DeskSubtotal(deskRow) = TotalOf(LinesOf(deskLines, "item"))
        /\ DeskMargin(deskRow) = DeskSubtotal(deskRow) - deskRow.discount - CostOf(deskLines)
(* A booking never carries a discount nobody with the permission granted,  *)
(* not even through a copy written back late.                              *)
DiscountGranted == deskRow # NoRow => deskRow.discount \in {0} \cup deskSeen.granted
(* The party outgrows the largest pax_count by no more than the additions  *)
(* that overlapped.                                                        *)
PartyBounded == deskParty <= deskSeen.pax + Cardinality(Desks) - 1
(* A booking counts as reissued once for every change carried out, and the *)
(* trail tells of every note and request there is.                         *)
TrailAddsUp ==
    LET changes == {i \in DOMAIN deskChanges : deskChanges[i] # NoRow}
    IN  /\ deskRow # NoRow => deskRow.reissues = Cardinality({i \in changes : deskChanges[i] = "completed"})
        /\ deskTrail["note_added"] - deskTrail["note_deleted"] = Cardinality(deskNotes)
        /\ deskTrail["change_requested"] = Cardinality(changes)
        /\ \A s \in {"completed", "rejected"} : deskTrail["change_" \o s] = Cardinality({i \in changes : deskChanges[i] = s})
(* What the workspace answers holds together: a profile that was accepted  *)
(* is accepted unchanged, a reference code leads back to its booking,      *)
(* badges and list segments agree, a payment link never asks for more than *)
(* is owed, a cancellation keeps what it charges and never gives back more *)
(* than was collected, readiness names what is in the way exactly when     *)
(* something is, the pages of a list hold all of it, each booking once,    *)
(* and the counts beside a list are those of the lists they lead to.       *)
WorkspaceAgrees ==
    LET in == deskAnswer.in
        out == deskAnswer.out
    IN  /\ deskAnswer.op = "profile" => \A n \in out : NormalizeProfile(n) = {n} /\ ApplyProfile(n, in) = {[row |-> n, changed |-> FALSE]}
        /\ deskAnswer.op = "ref" => out = {in} \ {0}
        /\ deskAnswer.op = "booking" =>
            /\ ("issued" \in out.stats.segments) = (out.ticket \in {"issued", "reissued"})
            /\ ("overdue" \in out.stats.segments) = (out.payment = "overdue" /\ in.status # "cancelled")
            /\ "payment_due" \in out.stats.segments => out.payment \notin {"none", "paid"}
            /\ "option_today" \in out.stats.segments => out.stats.active
            /\ "cancelled" \in out.stats.segments => out.stats.segments = {"cancelled"}
        /\ deskAnswer.op = "link" => \A a \in out : a > 0 /\ a <= in.booking.total - in.booking.collected
        /\ deskAnswer.op = "quote" =>
            /\ out.refundable \in 0 .. in.collected /\ out.penalty \in 0 .. in.total
            /\ out.refundable > 0 => out.refundable + out.penalty = in.collected
            /\ out.penalty <= QuoteCancellation(in.status, in.days - 1, in.total, in.collected).penalty
        /\ deskAnswer.op = "readiness" => out.ok = (out.blocking \subseteq {"departure"})
        /\ deskAnswer.op = "activity" => (out.from # NoDetail => out.from # out.value)
        /\ deskAnswer.op = "page" =>
            /\ in.q.limit * out.pages >= in.total /\ (out.pages > 0 => in.q.limit * (out.pages - 1) < in.total)
            /\ in.q.offset < in.total => out.page <= out.pages
        /\ deskAnswer.op = "line" => \A n \in out : normalizeLine(n) = {n} /\ (n.kind = "item") = ValidLineCategory(n.category)
        /\ deskAnswer.op = "list" =>
            LET Page(segment, sort, offset) == ListBookings(in.bookings, in.filter, segment, sort, 2, offset)
            IN  /\ \A s \in Segments : Page(s, "updated", 0).total = out.in[s]
                /\ out.total = out.active + out.in["cancelled"]     \* none of these is completed
                /\ \A sort \in {"updated", "hold", "depart"} :
                     LET all == Page("all", sort, 0).items \o Page("all", sort, 2).items
                     IN  Len(all) = out.total /\ ToSet(all) = {b \in in.bookings : filterWhere(b, in.filter)}
                /\ (in.filter.query # NoRow /\ in.filter.query.ref # 0) => out.total <= 1
(* A change request is resolved once.                                      *)
ResolvedForGood == [][\A i \in DOMAIN deskChanges : deskChanges[i] \in {"completed", "rejected"} => deskChanges'[i] = deskChanges[i]]_deskVars
=============================================================================
