SPECIFICATION Spec
CONSTANTS
    Bookings = {b1, b2}
    Txs = {t1, t2}
    MaxPax = 2
    Capacities = {2, 3}
    None = None
INVARIANT
    CounterRightWhenQuiet
