---------------------------- MODULE MCWorkspace -----------------------------
(***************************************************************************)
(* The services around a booking, for TLC: one event of the outbox on its  *)
(* way to its handlers, the inbox, the sweeps and reactors of the          *)
(* automation, and the desks of leads, customers, imports, the assistant,  *)
(* the back office, hotel contracts, tenancy and access.  They write       *)
(* disjoint tables, so a behaviour exercises one of them, which part       *)
(* names.                                                                  *)
(***************************************************************************)
EXTENDS EventOutbox, Inbox, Automation, Leads, Customers, Assistant, Imports, BackOffice, Hotels,
        Tenancy, AccessRules, TLC

VARIABLE part

MCCapOf == <<1, 2, 0>>
MCSheetRows == <<"p1", "", "p1">>

Parts == {"outbox", "webhooks", "conversations", "once", "visa", "docs", "reactors", "schedule",
          "leads", "registry", "sealing", "names", "chat", "aisettings", "figures", "imports", "sheets",
          "reports", "support", "office", "sell", "stock", "quotes",
          "tenants", "plans", "setup", "access", "reasons"}

messageVars == <<hookVars, convVars, autoVars>>
recordVars == <<leadVars, customerVars, aiVars, sheetVars, officeVars, hotelVars>>

(* Where a service may start in several ways, the parts of the others      *)
(* start in one.                                                           *)
MCInit ==
    /\ part \in Parts
    /\ Init /\ HookInit /\ ConvInit /\ AutoInit
    /\ LeadInit /\ CustomersInit /\ AssistantInit /\ ImportInit /\ OfficeInit /\ HotelInit
    /\ TenancyInit /\ AccessInit
    /\ part # "leads" => lead.stage = "new"
    /\ part \notin {"chat", "aisettings"} => aiSettings = NoRow
    /\ part \notin {"tenants", "plans"} => company.plan = 1

MessageStep ==
    \/ part = "webhooks" /\ HookNext /\ UNCHANGED <<convVars, autoVars>>
    \/ part = "conversations" /\ ConvNext /\ UNCHANGED <<hookVars, autoVars>>
    \/ /\ UNCHANGED <<hookVars, convVars>>
       /\ \/ part = "once" /\ OnceNext
          \/ part = "visa" /\ VisaNext
          \/ part = "docs" /\ DocsNext
          \/ part = "reactors" /\ ReactNext
          \/ part = "schedule" /\ ScheduleNext

RecordStep ==
    \/ part = "leads" /\ LeadNext /\ UNCHANGED <<customerVars, aiVars, sheetVars, officeVars, hotelVars>>
    \/ /\ UNCHANGED <<leadVars, aiVars, sheetVars, officeVars, hotelVars>>
       /\ \/ part = "registry" /\ RegistryNext
          \/ part = "sealing" /\ SealingNext
          \/ part = "names" /\ AskRegistry
    \/ /\ UNCHANGED <<leadVars, customerVars, sheetVars, officeVars, hotelVars>>
       /\ \/ part = "chat" /\ ChatNext
          \/ part = "aisettings" /\ SettingsNext
          \/ part = "figures" /\ AskFigure
    \/ /\ UNCHANGED <<leadVars, customerVars, aiVars, officeVars, hotelVars>>
       /\ \/ part = "imports" /\ ImportNext
          \/ part = "sheets" /\ AskSheet
    \/ /\ UNCHANGED <<leadVars, customerVars, aiVars, sheetVars, hotelVars>>
       /\ \/ part = "reports" /\ ReportNext
          \/ part = "support" /\ SupportNext
          \/ part = "office" /\ AskOffice
    \/ /\ UNCHANGED <<leadVars, customerVars, aiVars, sheetVars, officeVars>>
       /\ \/ part = "sell" /\ SellNext
          \/ part = "stock" /\ StockNext
          \/ part = "quotes" /\ QuoteNext

AccessStep ==
    \/ /\ UNCHANGED accessVars
       /\ \/ part = "tenants" /\ TenantNext
          \/ part = "plans" /\ PlanNext
          \/ part = "setup" /\ SetupNext
    \/ /\ UNCHANGED tenancyVars
       /\ \/ part = "access" /\ AccessNext
          \/ part = "reasons" /\ ReasonNext /\ UNCHANGED asked

MCNext ==
    \/ part = "outbox" /\ Next /\ UNCHANGED <<part, messageVars, recordVars, tenancyVars, accessVars>>
    \/ MessageStep /\ UNCHANGED <<part, vars, recordVars, tenancyVars, accessVars>>
    \/ RecordStep /\ UNCHANGED <<part, vars, messageVars, tenancyVars, accessVars>>
    \/ AccessStep /\ UNCHANGED <<part, vars, messageVars, recordVars>>

MCSpec == MCInit /\ [][MCNext]_<<part, vars, messageVars, recordVars, tenancyVars, accessVars>>

(* Outside their part the actions of Fairness are disabled; a sweep of the *)
(* documents would not be, hence its guard.                                *)
MCFairSpec ==
    /\ MCSpec
    /\ Fairness
    /\ WF_autoVars(part = "docs" /\ SweepTurn)
    /\ WF_autoVars(part = "docs" /\ EventTurn)

-----------------------------------------------------------------------------
(* What comes in is stored once and what is told is told once: an event of *)
(* a provider however often it is delivered and retried (Handle,           *)
(* RetryFailed), with credentials sealed to their own row; an identity has *)
(* one open conversation, an unanswered one keeps its deadline, and a      *)
(* stage of its SLA is told once (Ingest, Reply, SLASweep); a finding is   *)
(* told once a period and in the nearest slot (Alerts.once), a visa        *)
(* application stands where its history put it (Transition), a handled     *)
(* event had every step applied (reactors), and the cron table honours its *)
(* overrides.                                                              *)
MessagesOnce ==
    /\ part = "webhooks" => HookTypeOK /\ StoredOnce /\ SealedToItsRow
    /\ part = "conversations" => ConvTypeOK /\ OneOpenConversation /\ UnansweredIsTimed /\ StageToldOnce
    /\ part \in {"once", "visa", "docs", "reactors", "schedule"} =>
         AutoTypeOK /\ ToldOncePerPeriod /\ SlotIsNearest /\ VisaFitsHistory /\ HandledMeansApplied /\ ScheduleHonest

(* The desks keep their rows coherent while requests overlap: a lead's row,*)
(* history, tasks and lists agree; a passport once stored is kept or       *)
(* erased for good and companions are mutual; an import ends with every    *)
(* row accounted for; the assistant answers within its allowance and under *)
(* its own key; a report goes out once a period; a hotel's quote adds up   *)
(* over coherent contracts.                                                *)
RecordsHold ==
    /\ part = "leads" => LeadTypeOK /\ LeadRowConsistent /\ HistoryMatchesStage /\ TasksFollowDeletion /\ DetailsSavedAgain
                       /\ LeadListsAgree
    /\ part \in {"registry", "sealing", "names"} =>
         CustomersTypeOK /\ PassportKept /\ MergedStaysHidden /\ ErasedStaysErased /\ CompanionsMutual /\ RegistryAnswers
    /\ part \in {"chat", "aisettings", "figures"} =>
         AssistantTypeOK /\ KeyFitsProvider /\ AllowanceHolds /\ AnswersGuarded /\ AiFiguresHold
    /\ part \in {"imports", "sheets"} =>
         ImportTypeOK /\ CompletedAddsUp /\ EveryRowImported /\ DuplicatesBounded
         /\ CellsComeBack /\ MappingHolds /\ NormalFormStable /\ ExportReadsBack
    /\ part \in {"reports", "support", "office"} =>
         OfficeTypeOK /\ ReportOncePerPeriod /\ PeriodsTile /\ HelpDeskHolds /\ ReportsHonest /\ TrailHonest /\ RetentionHolds
    /\ part \in {"sell", "stock", "quotes"} => HotelTypeOK /\ ContractCoherent /\ QuoteAddsUp /\ OutlookMatchesCharge

(* Who may do what: a tenant keeps one main centre and its plan's limits,  *)
(* and a cached workspace is fresh (CreateBranch, Refuse, Workspace); lists*)
(* show what reads allow, writes stay inside the caller's scope and no     *)
(* grant exceeds the granter's own (CanAccess, Tenancy, checkPlacement);   *)
(* a note on a task is between two (NoteAccessFor).                        *)
AccessHolds ==
    /\ part \in {"tenants", "plans", "setup"} => TenancyTypeOK /\ OneMainCenter /\ WithinPlan /\ WorkspaceFresh
    /\ part \in {"access", "reasons"} =>
         AccessTypeOK /\ ListsMatchReads /\ WritesStayInside /\ NoEscalation /\ GateHolds /\ SettingsHold
         /\ NotesBetweenTwo /\ ReasonsDistinct

(* What a step may never do: undo a finished setup or an erased customer,  *)
(* call a provider that the breaker shields until its cooldown, or take    *)
(* hotel stock on a day closed for sale.                                   *)
NothingUndone == SetupFinished /\ GoneForGood /\ BreakerShields /\ StockSoldOpenly

(* What must eventually happen does: every recorded event is handled by    *)
(* all its handlers or dead-lettered where an operator sees it             *)
(* (Dispatcher.Run), and a task to collect documents does not outlive      *)
(* their completeness while a sweep lists the booking or an event of a     *)
(* document is owed, whatever was opened from an old checklist             *)
(* (MissingDocs, onDocumentStatusChanged).                                 *)
NothingLeftWaiting == EventuallyHandled /\ CompleteClosesTask
=============================================================================
