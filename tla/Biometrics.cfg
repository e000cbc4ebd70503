SPECIFICATION FairSpec
CONSTANTS
    a = a
    b = b
    x = x
    y = y
    NoTime = NoTime
    Ids = {x}
    StaffIds = {x}
    LateAfter = 0
    HalfDayAfter = 1
    Pushes = {a, b}
    Syncs = {b}
    LastHour = 2
    MaxFailures = 1
INVARIANTS
    ProcessedWasApplied
    LogAndDayAgree
PROPERTIES
    EveryPunchCounts
