SPECIFICATION MCFairSpec
CONSTANTS
    Events = {e1}
    Handlers = {h1, h2}
    Dispatchers = {d1, d2}
    Batch = 1
    MaxAttempts = 2
    None = None
    Desks = {desk1, desk2}
    NoRow = NoRow
    HookEvents = {w1}
    AccountIds = {a1, a2}
    MaxRetries = 1
    MaxDelivery = 2
    Inbounds = {m1, m2}
    ConvIds = {1, 2}
    MaxEdits = 2
    LastRunTick = 5
    MaxVisaEvents = 3
    FollowUpDays = 1
    MaxLeadEdits = 3
    CustIds = {1, 2, 3}
    MaxCustWork = 5
    LastKey = 2
    DailyQuota = 1
    AnswerTTL = 1
    MemoTTL = 1
    Cooldown = 1
    DayTicks = 2
    LastAiTick = 2
    SheetRows <- MCSheetRows
    MaxImportWork = 3
    MaxImportCrashes = 1
    SchedIds = {1, 2}
    ReportUsers = {u1}
    LastReportDay = 5
    MaxReportEdits = 3
    SubmitPerHour = 1
    MaxSupport = 4
    LastHotelDay = 2
    RoomTypes = {"a", "b"}
    CapOf <- MCCapOf
    BranchIds = {1, 2, 3}
    WorkspaceTTL = 1
    LastWsTick = 2
    MaxStaff = 4
    MaxWsEdits = 2
    ScopeBranches = {1, 2}
INVARIANTS
    MessagesOnce
    RecordsHold
    AccessHolds
PROPERTIES
    NothingUndone
    NothingLeftWaiting
CHECK_DEADLOCK FALSE
