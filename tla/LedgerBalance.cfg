SPECIFICATION Spec
CONSTANTS
    Txs = {t1, t2}
    Users = {u1, u2}
    Keys = {k1, k2}
    Amounts = {1}
    MaxEntries = 2
    Absent = Absent
INVARIANT
    BalanceAlwaysFollowsLedger
CHECK_DEADLOCK FALSE
