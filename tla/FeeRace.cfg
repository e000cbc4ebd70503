SPECIFICATION Spec
CONSTANTS
    a = a
    b = b
    s1 = s1
    p1 = p1
    p2 = p2
    o1 = o1
    Students = {s1}
    Periods = {p1, p2}
    Orders = {o1}
    Tills = {a}
    Confirmers = {b}
    Billers = {a}
    Sweepers = {b}
    FailProne = {b}
    NoStudent = NoStudent
    NoPeriod = NoPeriod
    NoOrder = NoOrder
    Fee <- MCFee
    Amounts = {3}
    DueIn = 0
    LateFeePerDay = 1
    GraceDays = 0
    MaxLateFee = 1
    MaxDay = 1
    MaxCollections = 1
CHECK_DEADLOCK FALSE
INVARIANTS
    TypeOK
    NoReceiptCollision
    CreditIsBacked
    PaidWithinTotal
    PaidOrderHasReceipt
    OldestDuesFirst
