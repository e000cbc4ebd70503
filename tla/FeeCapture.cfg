SPECIFICATION Spec
CONSTANTS
    a = a
    b = b
    s1 = s1
    s2 = s2
    p1 = p1
    p2 = p2
    o1 = o1
    Students = {s1}
    Periods = {p1}
    Orders = {o1}
    Tills = {a}
    Confirmers = {a, b}
    Billers = {a}
    Sweepers = {a}
    FailProne = {}
    NoStudent = NoStudent
    NoPeriod = NoPeriod
    NoOrder = NoOrder
    Fee <- MCFee
    Amounts = {1}
    DueIn = 0
    LateFeePerDay = 1
    GraceDays = 0
    MaxLateFee = 1
    MaxDay = 0
    MaxCollections = 2
CHECK_DEADLOCK FALSE
INVARIANTS
    CapturedOnce
