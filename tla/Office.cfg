SPECIFICATION OfficeSpec
CONSTANTS
    a = a
    b = b
    c = c
    d = d
    i1 = i1
    i2 = i2
    b1 = b1
    b2 = b2
    w1 = w1
    w2 = w2
    p1 = p1
    Components = {"library", "payroll", "access", "plan", "reports"}
    Items = {i1, i2}
    Borrowers = {b1, b2}
    Desks = {a, b}
    Sweepers = {b}
    FailProne = {b}
    Copies <- MCCopies
    Limit <- MCLimit
    LoanDays = 0
    MaxRenewals = 1
    MaxDay = 1
    MaxLoans = 2
    MaxClashes = 0
    Periods = {p1}
    Staff = {w1, w2}
    Clerks = {c, d}
    Fallible = {d}
    Pay = {0, 2}
    None = None
    Visits <- MCVisits
    People <- MCPeople
    Years = {"y1", "y2"}
    Headers = {"y1", "y2", "other"}
    Filters <- MCFilters
    Sections <- MCSections
    Allocation <- MCAllocation
    Pupils <- MCPupils
    Wards <- MCWards
    Register <- MCRegister
    Unset = Unset
    MonthLength = 2
    Families <- MCFamilies
    Concession <- MCConcession
    LateFee <- MCLateFee
    Cycles <- MCCycles
    Sums = {30}
    Strides = {5}
    MaxBills = 2
    LastDay = 50
    Books <- MCBooks
SYMMETRY Symmetric
CHECK_DEADLOCK FALSE
INVARIANTS
    LendingInOrder
    RunMatchesSlips
    PaidWasApproved
    AccessInOrder
    PlanInOrder
    ReportsAgree
PROPERTIES
    ClosedStaysClosed
    FrozenStaysFrozen
