SPECIFICATION MCSpec
CONSTANTS
    Bookings = {b1, b2}
    Txs = {t1, t2}
    MaxPax = 2
    Capacities <- MCCapacities
    None = None
    Desks = {desk1, desk2}
    NoRow = NoRow
    Travellers = {p1, p2, p3, p4}
    RoomIds = {1, 2}
    MaxCapacity = 2
    BusLimit = 1
    BusIds = {1, 2, 3}
    FareTTL = 1
    CacheMax = 2
    LastOpsTick = 2
    DocIds = {1, 2}
    DocKinds = {k1}
    Expiries = {1}
    ReminderDays = {1, 2}
    LastDay = 2
    MaxDocJobs = 4
    NoteIds = {1, 2}
    MaxReports = 2
    LastNoteTick = 1
    ListCap = 1
SYMMETRY Symmetry
INVARIANTS
    TypeOK
    NoOversell
    GroupHolds
PROPERTIES
    CounterFollowsSeats
    SeatsOnlyWhileOpen
