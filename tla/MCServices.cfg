SPECIFICATION MCSpec
CONSTANTS
    Procs = {p1, p2}
    Instances = {i1, i2}
    SessionIds = {1, 2}
    CheckedIds = {1}
    TokenIds = {1, 2, 3}
    Passwords = {w1, w2}
    Claims = {c1}
    IdleTTL = 2
    AbsoluteTTL = 3
    ReuseGrace = 1
    CacheTTL = 1
    MaxTime = 2
    MaxVersion = 2
    MaxFaults = 1
    None = None
SYMMETRY Symmetry
CONSTRAINT InOrder
INVARIANTS
    TypeOK
    NotOlderThanTold
    StaleWithinTTL
    SessionsSound
PROPERTIES
    NoTokenAfterEnd
CHECK_DEADLOCK FALSE
