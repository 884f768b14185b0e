SPECIFICATION MCSpec
CONSTANTS
    Txs = {t1, t2}
    Users = {u1, u2}
    Keys = {k1, k2}
    Amounts = {1}
    MaxEntries = 2
    Absent = Absent
    Desks = {d1, d2}
    NoRow = NoRow
    PromisedAmount = 1
    LastPlanDay = 1
    MaxCollected = 1
    CreditLimits = {0, 2}
    LowThreshold = 2
    EntryAmounts = {1}
    MaxFunds = 2
    AccountIds = {1, 2}
    CashAccounts = {1}
    FeedAccount = 2
    ExternalIds = {x1, x2}
    MaxBalance = 2
    MaxFeedRows = 2
    AgencyBookings = {b1, b2}
    AgencyLimits = {0, 1}
    LetterTTL = 1
    LastAgencyDay = 3
    Commissions = {1000, 5000}
    FigureBound = 2
    FxScale = 2
    FxMax = 7
    FxDays = {1, 2}
    FxValues = {1, 3}
    MaxFxRows = 2
    MinInterval = 2
    ForceFloor = 1
    BoardTTL = 1
    LastTick = 2
    LastTargetDay = 3
    MonthDays = 2
    Goals = {2}
    MaxSales = 1
    MaxRevisions = 2
    DeskUsers = {du1, du2}
    MaxDeskEdits = 3
SYMMETRY Symmetry
INVARIANTS
    TypeOK
    OneEntryPerKey
    RefundsApprovedByAnother
    BalanceFollowsLedger
    MoneyAddsUp
    SettledOnce
PROPERTIES
    NothingRewritten
CHECK_DEADLOCK FALSE
