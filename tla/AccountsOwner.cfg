SPECIFICATION Spec
CONSTANTS
    Users = {"u", "v", "w"}
    Roles = {"owner", "teacher", "parent"}
    a = a
    b = b
    Desks = {a, b}
    OwnerRole = "owner"
    Managers = {"owner"}
    PortalRoles = {"parent"}
    BuiltIn = {"owner", "parent"}
    Founders = {"u", "v"}
    FailProne = {b}
    Attempts = 2
    Seats = 2
    Grants = {{"owner"}, {"parent"}, {"parent", "teacher"}}
    Scenarios <- MCScenarios
    MaxSessions = 3
    MaxEpoch = 2
CHECK_DEADLOCK FALSE
INVARIANT OwnerRemains
