SPECIFICATION FairSpec
CONSTANTS
    NoHold = NoHold
    None = None
    MaxHold = 1
    Clerks = {c1}
    MaxPax = 1
    MaxParty = 1
    Totals = {1, 2}
    Ledger = {0, 1}
    MaxTime = 1
PROPERTY
    FrozenOutsideDraft
CHECK_DEADLOCK FALSE
