SPECIFICATION FairSpec
CONSTANTS
    Procs = {p1, p2}
    MaxRuleRows = 2
    ManualRows = {m1}
    Keys = {k1}
    Seed <- OneRuleSeed
    Templates <- OneTemplate
    ListLimit = 1
    Enabled = TRUE
    MaxFaults = 1
    NoKey = NoKey
    NoTask = NoTask
INVARIANTS
    TypeOK
    OneTaskPerKey
    AnnouncedOnce
    RowsConsistent
PROPERTIES
    SweepsReachTasks
