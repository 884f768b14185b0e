SPECIFICATION Spec
CONSTANTS
    Events = {e1}
    Handlers = {h1, h2}
    Dispatchers = {d1, d2}
    Batch = 1
    MaxAttempts = 2
    None = None
INVARIANT
    AttemptsBounded
CHECK_DEADLOCK FALSE
