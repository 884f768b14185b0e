-------------------------- MODULE MCPaymentLedger --------------------------
(***************************************************************************)
(* The money of the system for TLC.  PaymentLedger: two units of work in   *)
(* flight, two callers, and as many keys as there are rows, so that a      *)
(* retried key, a race on one refund, and a race of two entries on the     *)
(* balance all occur.  Beside it the services around the ledger: payment   *)
(* plans, suppliers, treasury, receivables, exchange rates, revenue        *)
(* targets and the desk that prices a booking.  They touch disjoint        *)
(* tables (only the treasury writes the suppliers' rows), so a behaviour   *)
(* exercises one of them, which part names.                                *)
(***************************************************************************)
EXTENDS PaymentLedger, PaymentPlans, FinanceRules, FxRates, RevenueTargets, BookingDesk

VARIABLE part

Parts ==
    {"ledger", "plans", "funds", "invoices", "chases", "accounts", "payables", "agencies", "letters", "rules",
     "rates", "live", "sides", "targets", "recompute", "pace", "amounts", "collaboration", "workspace"}

partyVars == <<supplierVars, treasuryVars, receivablesVars, fin>>
otherVars == <<planVars, partyVars, fxVars, targetVars, deskVars>>

MCInit ==
    /\ part \in Parts
    /\ Init /\ PlanInit /\ SupplierInit /\ TreasuryInit /\ ReceivablesInit /\ RulesInit
    /\ FxInit /\ TargetInit /\ DeskInit

PlansStep == part = "plans" /\ PlanNext /\ UNCHANGED <<partyVars, fxVars, targetVars, deskVars>>

SuppliersStep ==
    /\ \/ part = "funds" /\ FundsNext /\ UNCHANGED <<invoiceVars, chaseVars>>
       \/ part = "invoices" /\ InvoiceNext /\ UNCHANGED <<fundsVars, chaseVars>>
       \/ part = "chases" /\ ChaseNext /\ UNCHANGED <<fundsVars, invoiceVars>>
    /\ UNCHANGED <<treasuryVars, receivablesVars, fin, planVars, fxVars, targetVars, deskVars>>

TreasuryStep ==
    /\ \/ part = "accounts" /\ TreasuryNext /\ UNCHANGED supplierVars
       \/ part = "payables" /\ PayablesNext /\ UNCHANGED chaseVars
    /\ UNCHANGED <<receivablesVars, fin, planVars, fxVars, targetVars, deskVars>>

ReceivablesStep ==
    /\ \/ part = "agencies" /\ AgencyNext /\ UNCHANGED letterVars
       \/ part = "letters" /\ LetterNext /\ UNCHANGED agencyVars
    /\ UNCHANGED <<supplierVars, treasuryVars, fin, planVars, fxVars, targetVars, deskVars>>

RulesStep ==
    part = "rules" /\ RulesNext /\ UNCHANGED <<supplierVars, treasuryVars, receivablesVars, planVars, fxVars, targetVars, deskVars>>

FxStep ==
    /\ \/ part = "rates" /\ RateNext
       \/ part = "live" /\ LiveNext
       \/ part = "sides" /\ SideNext
    /\ UNCHANGED <<planVars, partyVars, targetVars, deskVars>>

TargetsStep ==
    /\ \/ part = "targets" /\ TargetNext
       \/ part = "recompute" /\ RecomputeNext
       \/ part = "pace" /\ PaceNext
    /\ UNCHANGED <<planVars, partyVars, fxVars, deskVars>>

DeskStep ==
    /\ \/ part = "amounts" /\ AmountNext
       \/ part = "collaboration" /\ CollabNext
       \/ part = "workspace" /\ AskWorkspace
    /\ UNCHANGED <<planVars, partyVars, fxVars, targetVars>>

MCNext ==
    \/ part = "ledger" /\ Next /\ UNCHANGED <<part, otherVars>>
    \/ PlansStep /\ UNCHANGED <<part, vars>>
    \/ SuppliersStep /\ UNCHANGED <<part, vars>>
    \/ TreasuryStep /\ UNCHANGED <<part, vars>>
    \/ ReceivablesStep /\ UNCHANGED <<part, vars>>
    \/ RulesStep /\ UNCHANGED <<part, vars>>
    \/ FxStep /\ UNCHANGED <<part, vars>>
    \/ TargetsStep /\ UNCHANGED <<part, vars>>
    \/ DeskStep /\ UNCHANGED <<part, vars>>

MCSpec == MCInit /\ [][MCNext]_<<part, vars, otherVars>>

(* FxRates tells one desk apart (the API process), so desks are not        *)
(* interchangeable here.                                                   *)
Symmetry == Permutations(Txs) \cup Permutations(Users) \cup Permutations(Keys)

-----------------------------------------------------------------------------
(* Amounts agree with the rows they summarise, in every part: balances     *)
(* with their movements (treasury.post), a supplier's funds with its       *)
(* payment model (PostLedger), the finance reports with their inputs,      *)
(* conversions with the newest rate (Converter.Convert), the board of      *)
(* rates with the snapshots (live.go), a target's progress with its goal   *)
(* (Recompute), and a booking's totals with its lines (applyTotals).       *)
MoneyAddsUp ==
    /\ part \in {"funds", "invoices", "chases", "payables"} => SupplierTypeOK /\ FundsOnTheModelsSide
    /\ part \in {"accounts", "payables"} => TreasuryTypeOK /\ BalancesAreMovements
    /\ part = "rules" => RulesTypeOK /\ FinanceAddsUp
    /\ part \in {"rates", "live", "sides"} => FxTypeOK /\ NewestRateUsed /\ OwnSyncSeen /\ StaleAsLastResort
    /\ part \in {"targets", "recompute", "pace"} =>
         TargetTypeOK /\ ToldIsLatest /\ ExpectedWithinGoal /\ PaceHonest /\ ContributionsAddUp
    /\ part \in {"amounts", "collaboration", "workspace"} =>
         DeskTypeOK /\ TotalsFollowLines /\ DiscountGranted /\ PartyBounded /\ TrailAddsUp /\ WorkspaceAgrees

(* What is settled is settled once, for a reason, whoever races: a promise *)
(* and the alert of an instalment (Promises.resolve, PaymentDue), a        *)
(* bank credit (autoMatch, Match), a letter (RespondLetter); and no        *)
(* two transfers wait for each other's account (Transfer).                 *)
SettledOnce ==
    /\ part = "plans" => PlanTypeOK /\ PromiseSettledForAReason /\ DueToldOnce
    /\ part \in {"accounts", "payables"} => CreditPaidOnce /\ NoLockCycle
    /\ part \in {"agencies", "letters"} => ReceivablesTypeOK /\ AnsweredOnce

(* What a step may never do: rewrite a ledger entry, reopen a settled      *)
(* promise, a closed agency or letter, or a resolved change request, sell  *)
(* past an agency's limit, overwrite a rate entered by hand with a         *)
(* provider's, or replace the last good snapshot by a failed fetch.        *)
NothingRewritten ==
    /\ LedgerAppendOnly
    /\ SettledStaysSettled
    /\ ClosedForGood /\ SoldWithinLimit
    /\ EnteredRateStands /\ LastGoodKept
    /\ ResolvedForGood
=============================================================================
