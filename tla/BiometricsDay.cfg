SPECIFICATION Spec
CONSTANTS
    a = a
    b = b
    x = x
    y = y
    NoTime = NoTime
    Ids = {x}
    StaffIds = {x}
    LateAfter = 0
    HalfDayAfter = 1
    Pushes = {a}
    Syncs = {}
    LastHour = 1
    MaxFailures = 0
CHECK_DEADLOCK FALSE
INVARIANTS
    FirstIsIn
