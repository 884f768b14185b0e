------------------------------- MODULE Leads -------------------------------
(***************************************************************************)
(* One lead: its stages and their history, edits, conversion to a booking, *)
(* deletion and the task that hangs on it.                                 *)
(* Modelled code: src/internal/app/lead, src/internal/domain/lead/model.go *)
(* and src/internal/adapter/postgres/lead.                                 *)
(*                                                                         *)
(* Every operation reads the lead without a lock and writes all columns    *)
(* back, so each is a copy and a later write.  Owner, profile and trip     *)
(* interest are one column here, details; what a profile and an interest   *)
(* must satisfy are operators of their own.                                *)
(***************************************************************************)
EXTENDS Rows, Sequences, SequencesExt, FiniteSetsExt

CONSTANT MaxLeadEdits      \* bound: operations begun
ASSUME LeadAssumption == MaxLeadEdits \in Nat

VARIABLES
    lead,          \* the leads row
    trail,         \* lead_stage_history: the stages entered
    follow,        \* the task related to the lead
    drafts,        \* bookings created from the lead
    ljob,          \* desk -> what it holds between two steps
    begun,         \* operations begun
    leadRaced      \* history: a copy was written over a newer row, or deleted it

leadVars == <<lead, trail, follow, drafts, ljob, begun, leadRaced>>

AllStages == {"new", "contacted", "qualified", "proposal", "paid", "won", "lost"}
allowedTransitions == [s \in AllStages |->
    CASE s = "new"       -> {"contacted", "lost"}
      [] s = "contacted" -> {"qualified", "lost"}
      [] s = "qualified" -> {"proposal", "lost"}
      [] s = "proposal"  -> {"paid", "lost"}
      [] s = "paid"      -> {"won", "lost"}
      [] OTHER           -> {}]
CanTransition(from, to) == to \in allowedTransitions[from]
IsOpen(l) == l.stage \notin {"won", "lost"}

(* The stages a conversion walks through.                                  *)
Convertible == {"proposal", "paid", "won"}
ConversionPath(from) ==
    CASE from = "proposal" -> <<"paid", "won">>
      [] from = "paid"     -> <<"won">>
      [] OTHER             -> <<>>

LeadRow == [stage : AllStages, reason : BOOLEAN, noFollowUp : BOOLEAN, details : {"created", "reassigned", "edited"},
            booking : Nat, deleted : BOOLEAN]

(* Type correctness; a lead is linked only to a booking that was created.  *)
LeadTypeOK ==
    /\ lead \in LeadRow
    /\ trail \in Seq(AllStages)
    /\ follow \in {"open", "done", "cancelled", "lead_deleted"}
    /\ drafts \in Nat
    /\ lead.booking \in 0 .. drafts
    /\ begun \in 0 .. MaxLeadEdits

-----------------------------------------------------------------------------
(* What UpdateDetails accepts, as the set of what it stores: {} when a     *)
(* field is refused.  Days are counted; LeadYear scales a year down.       *)
LeadYear == 4
SuggestedPriority(travel, now) ==
    IF travel # NoRow /\ travel < now + 2 /\ travel >= now - 1 THEN "high" ELSE "medium"

(* A follow-up lies within the next year, unless it is the stored one; a   *)
(* private customer has no company, tax number or tax office.              *)
NormalizeProfile(p, now, travel, stored) ==
    LET segment == IF p.segment = "" THEN "b2c" ELSE p.segment
        n == [p EXCEPT !.segment = segment, !.company = IF segment = "b2c" THEN "" ELSE @,
                       !.priority = IF @ = "" THEN SuggestedPriority(travel, now) ELSE @]
    IN  {x \in {n} : /\ x.segment \in {"b2c", "b2b"}
                     /\ x.segment = "b2b" => x.company = "named"
                     /\ x.email \in {"", "valid"}
                     /\ x.priority \in {"high", "medium", "low"}
                     /\ x.intent \in {"", "ready", "comparing", "planning"}
                     /\ x.next \in {NoRow, stored} \cup (now .. now + LeadYear)}

(* The party makes the pax count when it is given; a flight's places are   *)
(* airport codes in upper case.                                            *)
MaxPax == 4
MaxChildAge == 1
MaxFlexDays == 1
Services == {"flight", "hotel", "tour", "visa", "transfer", "other"}
PartyOf(t) == t.adults + Len(t.ages) + t.infants
NormalizeInterest(t, now) ==
    LET dates == now - LeadYear .. now + 3 * LeadYear
        n == [t EXCEPT !.pax = IF PartyOf(t) > 0 THEN PartyOf(t) ELSE @,
                       !.place = IF "flight" \in t.services /\ @ = "ist" THEN "IST" ELSE @]
    IN  {x \in {n} : /\ x.services \subseteq Services
                     /\ x.travel \in dates \cup {NoRow} /\ x.return \in dates \cup {NoRow}
                     /\ (x.travel # NoRow /\ x.return # NoRow) => x.return >= x.travel
                     /\ x.flex \in 0 .. MaxFlexDays
                     /\ x.adults >= 0 /\ x.infants >= 0
                     /\ \A i \in DOMAIN x.ages : x.ages[i] \in 0 .. MaxChildAge
                     /\ PartyOf(x) > 0 => x.adults > 0 /\ x.infants <= x.adults
                     /\ x.pax \in {NoRow} \cup 1 .. MaxPax
                     /\ x.budget # NoRow => x.budget >= 0 /\ x.currency # ""
                     /\ x.currency \in {"", "USD"}}

(* A catalogue package must be one of the lead's branch.                   *)
CheckInterest(t, now) == {n \in NormalizeInterest(t, now) : n.package \in {NoRow, "own branch"}}

-----------------------------------------------------------------------------
(* The archive as desks see it: lists, the board and the figures.  A query *)
(* is a sequence of words, a number is written digit by digit.             *)
MaxQueryLength == 4
MaxQueryTokens == 2
PhoneDigits == {"5", "7"}
LowerWord(w) == IF w = "Ada" THEN "ada" ELSE w

(* ParseSearch, as the set of what it answers: a query of digits only is   *)
(* one token, else the first distinct words in lower case; {} refuses.     *)
ParseSearch(q) ==
    LET AddWord(seen, w) ==
          IF <<w>> \in ToSet(seen) \/ Len(seen) = MaxQueryTokens THEN seen ELSE Append(seen, <<w>>)
        words == [i \in DOMAIN q |-> LowerWord(q[i])]
    IN  {tokens \in {IF q # <<>> /\ ToSet(q) \subseteq PhoneDigits THEN <<q>>
                     ELSE FoldLeft(AddWord, <<>>, words)} : Len(q) <= MaxQueryLength}

(* Every token is in the search document or, for digits, in the phone; or  *)
(* the owner is one of those the query names (ownersNamed: at most         *)
(* maxOwnerMatches of them, in no order).                                  *)
SearchTerm(l, tokens, named) ==
    \/ l.owner \in named
    \/ \A tok \in ToSet(tokens) :
         \/ Len(tok) = 1 /\ tok[1] \in l.words
         \/ ToSet(tok) \subseteq PhoneDigits /\ tok \in SubSeqs(l.phone)

(* filter: the equalities asked for, a lost reason, the window of creation,*)
(* the search and the caller's scope; never a deleted lead.                *)
LeadFilter(leads, f) ==
    {l \in leads : /\ ~l.deleted
                   /\ \A column \in DOMAIN f.equal : l[column] = f.equal[column]
                   /\ f.lostReason # "" => l.stage = "lost" /\ l.lostReason = f.lostReason
                   /\ f.from # NoRow => l.created >= f.from
                   /\ f.to # NoRow => l.created < f.to
                   /\ f.tokens # <<>> => SearchTerm(l, f.tokens, f.named)
                   /\ l.branch \in f.scope}

(* orderBy: does a stand before b?  NULLS LAST, and the id breaks a tie.   *)
StandsBefore(sort, a, b) ==
    LET newer == a.updated > b.updated \/ (a.updated = b.updated /\ a.id > b.id)
    IN  CASE sort = "created" -> a.created > b.created \/ (a.created = b.created /\ a.id > b.id)
          [] sort = "oldest"  -> a.created < b.created \/ (a.created = b.created /\ a.id < b.id)
          [] sort = "budget"  -> \/ a.budget # NoRow /\ (b.budget = NoRow \/ a.budget > b.budget)
                                 \/ a.budget = b.budget /\ newer
          [] OTHER            -> newer
OrderBy(leads, sort) == SetToSortSeq(leads, LAMBDA a, b : StandsBefore(sort, a, b))

Limited(s, n, offset) == SubSeq(s, offset + 1, IF offset + n < Len(s) THEN offset + n ELSE Len(s))

(* List, with the count of all that match.                                 *)
ListLeads(leads, f, sort, limit, offset) ==
    LET found == LeadFilter(leads, f)
    IN  [total |-> Cardinality(found),
         items |-> Limited(OrderBy(found, sort), IF limit <= 0 THEN 50 ELSE limit, offset)]

(* Board: the stage of the filter is dropped; counts and budgets of each   *)
(* stage, its first leads, and these once more in the order of all.        *)
Board(leads, f, sort, perStage) ==
    LET all == [f EXCEPT !.equal = [c \in DOMAIN @ \ {"stage"} |-> @[c]]]
        found == LeadFilter(leads, all)
        In(st) == {l \in found : l.stage = st}
        Budgeted(st, cur) == {l \in In(st) : l.currency = cur /\ l.budget # NoRow /\ l.budget > 0}
        shown == UNION {ToSet(Limited(OrderBy(In(st), sort), perStage, 0)) : st \in AllStages}
    IN  [st \in AllStages |->
           [total |-> Cardinality(In(st)),
            noFollowUp |-> Cardinality({l \in In(st) : l.noFollowUp}),
            budgets |-> {[currency |-> cur, count |-> Cardinality(Budgeted(st, cur)),
                          amount |-> MapThenSumSet(LAMBDA l : l.budget, Budgeted(st, cur))] :
                         cur \in {l.currency : l \in {x \in In(st) : x.currency # "" /\ Budgeted(st, x.currency) # {}}}},
            items |-> IF perStage <= 0 THEN <<>>
                      ELSE SelectSeq(OrderBy(shown, sort), LAMBDA l : l.stage = st)]]

(* Analytics: the same leads counted by stage, source and owner.           *)
Analytics(leads, scope) ==
    LET found == {l \in leads : ~l.deleted /\ l.branch \in scope}
        Count(S) == [count |-> Cardinality(S), won |-> Cardinality({l \in S : l.stage = "won"}),
                     lost |-> Cardinality({l \in S : l.stage = "lost"})]
    IN  [total |-> Cardinality(found), open |-> Cardinality({l \in found : IsOpen(l)}),
         won |-> Count(found).won, lost |-> Count(found).lost,
         noFollowUp |-> Cardinality({l \in found : l.noFollowUp /\ IsOpen(l)}),
         byStage |-> [st \in {l.stage : l \in found} |-> Cardinality({l \in found : l.stage = st})],
         byOwner |-> [o \in {l.owner : l \in found} |-> Count({l \in found : l.owner = o})]]

-----------------------------------------------------------------------------
(* Repository.Update writes the copy unless the lead is deleted.           *)
UpdateLead(seen, copy) ==
    /\ ~lead.deleted
    /\ lead' = copy
    /\ leadRaced' = (leadRaced \/ lead # seen)

AppendStageHistory(to) == trail' = Append(trail, to)

(* SoftDelete and Restore; the related task is cancelled with a mark of    *)
(* its own, so that Restore reopens just what the deletion cancelled.      *)
SoftDelete(seen) ==
    /\ ~lead.deleted
    /\ lead' = [lead EXCEPT !.deleted = TRUE]
    /\ follow' = IF follow = "open" THEN "lead_deleted" ELSE follow
    /\ leadRaced' = (leadRaced \/ lead.booking # seen.booking)

RestoreRow ==
    /\ lead.deleted
    /\ lead' = [lead EXCEPT !.deleted = FALSE]
    /\ follow' = IF follow = "lead_deleted" THEN "open" ELSE follow

-----------------------------------------------------------------------------
(* FindByID: the copy an operation works on.                               *)
FindLead(d, job) ==
    /\ ljob[d] = Free
    /\ ~lead.deleted
    /\ begun < MaxLeadEdits
    /\ begun' = begun + 1
    /\ ljob' = [ljob EXCEPT ![d] = job]
    /\ UNCHANGED <<lead, trail, follow, drafts, leadRaced>>

(* The row after a change of stage: a reason exactly when lost, and no     *)
(* no_follow_up on a closed lead.                                          *)
Staged(l, to) ==
    [l EXCEPT !.stage = to, !.reason = (to = "lost"),
              !.noFollowUp = @ /\ to \notin {"won", "lost"}]

ChangeStage(d, to) ==
    /\ CanTransition(lead.stage, to)
    /\ FindLead(d, [op |-> "stage", seen |-> lead, copy |-> Staged(lead, to), path |-> <<>>, then |-> FALSE])

AssignLead(d) ==
    FindLead(d, [op |-> "edit", seen |-> lead, copy |-> [lead EXCEPT !.details = "reassigned"]])

SetNoFollowUp(d, b) ==
    /\ IsOpen(lead)
    /\ FindLead(d, [op |-> "edit", seen |-> lead, copy |-> [lead EXCEPT !.noFollowUp = b]])

UpdateDetails(d) ==
    FindLead(d, [op |-> "edit", seen |-> lead, copy |-> [lead EXCEPT !.details = "edited"]])

DeleteLead(d) ==
    /\ lead.booking = 0
    /\ FindLead(d, [op |-> "delete", seen |-> lead])

RestoreLead(d) ==
    /\ ljob[d] = Free
    /\ begun < MaxLeadEdits
    /\ begun' = begun + 1
    /\ RestoreRow
    /\ UNCHANGED <<trail, drafts, ljob, leadRaced>>

(* Convert checks the lead, then walks the path, each stage in a           *)
(* transaction of its own that reads the lead again.                       *)
Convert(d) ==
    /\ lead.booking = 0
    /\ lead.stage \in Convertible
    /\ FindLead(d, [op |-> "walk", path |-> ConversionPath(lead.stage)])

ConvertStage(d) ==
    /\ ljob[d].op = "walk"
    /\ ljob[d].path # <<>>
    /\ LET to == Head(ljob[d].path) IN
         ljob' = [ljob EXCEPT ![d] =
                    IF ~lead.deleted /\ CanTransition(lead.stage, to)
                    THEN [op |-> "stage", seen |-> lead, copy |-> Staged(lead, to),
                          path |-> Tail(@.path), then |-> TRUE]
                    ELSE Free]
    /\ UNCHANGED <<lead, trail, follow, drafts, begun, leadRaced>>

CreateDraftFromLead(d) ==
    /\ ljob[d].op = "walk"
    /\ ljob[d].path = <<>>
    /\ drafts' = drafts + 1
    /\ ljob' = [ljob EXCEPT ![d] = [op |-> "link", booking |-> drafts + 1]]
    /\ UNCHANGED <<lead, trail, follow, begun, leadRaced>>

ConvertLink(d) ==
    /\ ljob[d].op = "link"
    /\ ljob' = [ljob EXCEPT ![d] =
                  IF lead.deleted THEN Free
                  ELSE [op |-> "edit", seen |-> lead, copy |-> [lead EXCEPT !.booking = ljob[d].booking]]]
    /\ UNCHANGED <<lead, trail, follow, drafts, begun, leadRaced>>

-----------------------------------------------------------------------------
(* The writes; an operation may also fail or its process die.              *)
WriteLead(d) ==
    /\ ljob[d].op = "edit"
    /\ UpdateLead(ljob[d].seen, ljob[d].copy)
    /\ ljob' = [ljob EXCEPT ![d] = Free]
    /\ UNCHANGED <<trail, follow, drafts, begun>>

WriteStage(d) ==
    /\ ljob[d].op = "stage"
    /\ UpdateLead(ljob[d].seen, ljob[d].copy)
    /\ AppendStageHistory(ljob[d].copy.stage)
    /\ ljob' = [ljob EXCEPT ![d] = IF @.then THEN [op |-> "walk", path |-> @.path] ELSE Free]
    /\ UNCHANGED <<follow, drafts, begun>>

WriteDelete(d) ==
    /\ ljob[d].op = "delete"
    /\ SoftDelete(ljob[d].seen)
    /\ ljob' = [ljob EXCEPT ![d] = Free]
    /\ UNCHANGED <<trail, drafts, begun>>

AbortLead(d) ==
    /\ ljob[d] # Free
    /\ ljob' = [ljob EXCEPT ![d] = Free]
    /\ UNCHANGED <<lead, trail, follow, drafts, begun, leadRaced>>

(* The task service finishes or cancels the follow-up.                     *)
CloseFollow(s) ==
    /\ follow = "open"
    /\ follow' = s
    /\ UNCHANGED <<lead, trail, drafts, ljob, begun, leadRaced>>

-----------------------------------------------------------------------------
(* Create stores the lead at stage new with its first history row; the run *)
(* starts at any stage it may have reached since.                          *)
LeadInit ==
    /\ \E s \in {"new", "qualified", "proposal"} :
         /\ lead = [stage |-> s, reason |-> FALSE, noFollowUp |-> FALSE, details |-> "created",
                    booking |-> 0, deleted |-> FALSE]
         /\ trail = <<s>>
    /\ follow = "open"
    /\ drafts = 0
    /\ ljob = [d \in Desks |-> Free]
    /\ begun = 0
    /\ leadRaced = FALSE

LeadNext ==
    \/ \E d \in Desks :
         \/ \E to \in AllStages : ChangeStage(d, to)
         \/ AssignLead(d) \/ UpdateDetails(d)
         \/ \E b \in BOOLEAN : SetNoFollowUp(d, b)
         \/ DeleteLead(d) \/ RestoreLead(d)
         \/ Convert(d) \/ ConvertStage(d) \/ CreateDraftFromLead(d) \/ ConvertLink(d)
         \/ WriteLead(d) \/ WriteStage(d) \/ WriteDelete(d) \/ AbortLead(d)
    \/ \E s \in {"done", "cancelled"} : CloseFollow(s)

-----------------------------------------------------------------------------
(* However stale copies overwrite each other, a row says why it is lost    *)
(* exactly when it is lost, and a closed lead never asks not to be         *)
(* followed up (ChangeStage, SetNoFollowUp).                               *)
LeadRowConsistent ==
    /\ lead.reason <=> lead.stage = "lost"
    /\ lead.noFollowUp => IsOpen(lead)

(* The newest history row names the stage of the lead, and a lead with a   *)
(* booking is won and not deleted, unless a stale copy was written         *)
(* (ChangeStage, Convert, Delete).                                         *)
HistoryMatchesStage ==
    leadRaced \/ /\ trail[Len(trail)] = lead.stage
                 /\ lead.booking # 0 => lead.stage = "won" /\ ~lead.deleted

(* A deleted lead has no open task, and only what its deletion cancelled   *)
(* comes back (SoftDelete, Restore).                                       *)
TasksFollowDeletion == (lead.deleted => follow # "open") /\ (follow = "lead_deleted" => lead.deleted)

(* What a desk may type into a profile and an interest.                    *)
LeadProfiles == [email : {"", "valid", "broken"}, segment : {"", "b2b", "other"}, company : {"", "named", "too long"},
                 priority : {"", "low", "urgent"}, intent : {"", "ready", "maybe"}, next : {NoRow, 0, 2, 7}]
LeadInterests ==
    [services : {{}, {"flight"}, {"cruise"}}, place : {"ist", "town"}, travel : {NoRow, 0, 2}, return : {NoRow, 1, 20},
     flex : {0, 2}, adults : {-1, 0, 1}, ages : {<<>>, <<1>>, <<1, 2>>}, infants : 0 .. 2, pax : {NoRow, 0, 5, 3},
     budget : {NoRow, 1}, currency : {"", "USD"}, package : {NoRow, "own branch", "elsewhere"}]

(* What was stored can be saved again unchanged: a profile however much    *)
(* later, its passed follow-up included, and an interest on the same day,  *)
(* with the count its party adds up to and at least an adult for each      *)
(* infant (Profile.Normalize, TripInterest.Normalize, checkInterest).      *)
DetailsSavedAgain ==
    /\ \A p \in LeadProfiles, travel \in {NoRow, 1, 3}, stored \in {NoRow, 0} :
         \A n \in NormalizeProfile(p, 1, travel, stored), later \in 1 .. 9 : NormalizeProfile(n, later, travel, n.next) = {n}
    /\ \A t \in LeadInterests : \A n \in CheckInterest(t, 1) :
         /\ CheckInterest(n, 1) = {n}
         /\ PartyOf(n) > 0 => n.pax = PartyOf(n) /\ n.infants <= n.adults
(* A lead as the desks may have left it: a closed lead asks for no         *)
(* follow-up (LeadRowConsistent), the one at stage proposal is deleted.    *)
ArchivedLead(id) ==
    {[id |-> id, stage |-> x.stage, noFollowUp |-> x.quiet, deleted |-> x.stage = "proposal", branch |-> "here",
      owner |-> IF id = 2 THEN "o2" ELSE "o1", lostReason |-> IF x.stage = "lost" THEN "price" ELSE "",
      created |-> x.day, updated |-> 3 - x.day, budget |-> x.budget, currency |-> IF x.budget = NoRow THEN "" ELSE "USD",
      words |-> {"ada", "5"}, phone |-> <<"5", "7", "5">>] :
     x \in {y \in [stage : {"new", "won", "lost", "proposal"}, quiet : BOOLEAN, day : 1 .. 2, budget : {NoRow, 0, 2}] :
              /\ y.quiet => y.stage = "new"
              /\ y.budget = 0 => y.day = 1}}
LeadFilters ==
    [equal : {<<>>, [stage |-> "won"], [owner |-> "o1"]}, lostReason : {""}, from : {NoRow, 2}, to : {NoRow},
     tokens : {<<>>}, named : {{}}, scope : {{"here"}}]
LeadQueries == {<<>>, <<"Ada">>, <<"ada", "Ada", "5">>, <<"7", "5">>, <<"5", "5">>, <<"Ada", "x", "5", "7", "x">>}

(* What the desks see is one archive: pages show every lead that matches   *)
(* exactly once, the board's columns are the first leads of the lists of   *)
(* their stages and its totals add up to the list's, whatever stage the    *)
(* filter names; the figures count each lead in one group, and agree with  *)
(* the board on leads nobody follows up because closed ones never carry    *)
(* the flag.  A lead is found by its words in any case and by any run of   *)
(* its digits (filter, List, Board, Analytics, ParseSearch).               *)
LeadListsAgree ==
    /\ \A a \in ArchivedLead(1), b \in ArchivedLead(2), c \in ArchivedLead(3), sort \in {"oldest", "budget"} :
         b.created = 2 /\ c.created = 1 /\ c.budget # NoRow =>
         LET leads == {a, b, c}
             figures == Analytics(leads, {"here"})
             SumOf(S, g(_)) == MapThenSumSet(g, S)
         IN  /\ \A f \in LeadFilters :
                  LET board == Board(leads, f, sort, 1)
                      Page(n) == ListLeads(leads, f, sort, 2, n).items
                      Of(st) == [f EXCEPT !.equal = [x \in DOMAIN @ \cup {"stage"} |-> IF x = "stage" THEN st ELSE @[x]]]
                  IN  /\ ToSet(Page(0) \o Page(2)) = LeadFilter(leads, f)
                      /\ Len(Page(0) \o Page(2)) = ListLeads(leads, f, sort, 2, 0).total
                      /\ \A st \in {"new", "won", "lost", "proposal"} :
                           /\ board[st].items = ListLeads(leads, Of(st), sort, 1, 0).items
                           /\ board[st].total = ListLeads(leads, Of(st), sort, 1, 0).total
                           /\ f.equal = <<>> /\ f.from = NoRow =>
                                board[st].total = IF st \in DOMAIN figures.byStage THEN figures.byStage[st] ELSE 0
                      /\ f.equal = <<>> /\ f.from = NoRow =>
                           SumOf(AllStages, LAMBDA st : board[st].noFollowUp) = figures.noFollowUp
             /\ figures.open + figures.won + figures.lost = figures.total
             /\ SumOf(DOMAIN figures.byOwner, LAMBDA o : figures.byOwner[o].count) = figures.total
             /\ SumOf(DOMAIN figures.byOwner, LAMBDA o : figures.byOwner[o].won) = figures.won
    /\ \A l \in ArchivedLead(1), q \in LeadQueries : \A tokens \in ParseSearch(q) :
         tokens # <<>> => (SearchTerm(l, tokens, {}) <=> q # <<"5", "5">>)
=============================================================================
