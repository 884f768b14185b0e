SPECIFICATION FairSpec
CONSTANTS
    NoHold = NoHold
    None = None
    MaxHold = 1
    Clerks = {c1}
    MaxPax = 1
    MaxParty = 1
    Totals = {1}
    Ledger = {0, 1}
    MaxTime = 1
INVARIANTS
    TypeOK
    FlagsFollowStatus
    DriftIsListed
PROPERTIES
    SoldStaysSold
    SweepsActOnCurrentRow
    ReadyIsEarned
    SweepsCatchUp
CHECK_DEADLOCK FALSE
