SPECIFICATION Spec
CONSTANTS
    a = a
    b = b
    i1 = i1
    i2 = i2
    b1 = b1
    b2 = b2
    Items = {i1}
    Borrowers = {b1, b2}
    Desks = {a}
    Sweepers = {}
    FailProne = {a}
    Copies <- MCCopies
    Limit <- MCLimit
    LoanDays = 0
    MaxRenewals = 1
    MaxDay = 1
    MaxLoans = 2
    MaxClashes = 1
CHECK_DEADLOCK FALSE
INVARIANTS
    ShownIsThere
