SPECIFICATION Spec
CONSTANTS
    Desks = {a, b}
    FailProne = {b}
    MaxRequests = 3
    Scenarios = {{"admit","promote"}, {"admit","link"}, {"admit","status"}, {"admit","move"}, {"move","remove"}, {"promote","status","remove"}, {"promote","move"}, {"admit", "remove"}, {"edit", "promote"}, {"edit", "status"}, {"edit", "link", "admit"},
                 {"register", "lock"}, {"register", "holiday"}, {"register", "device", "lock"}, {"register", "holiday", "release"}, {"device","move"},
                 {"submit", "grade"}, {"collect", "grade"}, {"submit", "collect", "edit work"}, {"publish", "submit"}, {"admit", "submit"}, {"admit", "collect"}, {"schedule", "cancel"},
                 {"mark", "scheme"}, {"mark", "regrade", "scale"},
                 {"trip", "position", "end"}, {"talk", "read"},
                 {"create", "erase", "bring back"}, {"create", "update"},
                 {"visit", "suspend"}, {"provision", "visit"}, {"provision", "subscribe"}, {"switch", "subscribe"},
                 {"switch", "save plan"}, {"convert", "subscribe"}, {"retire plan", "subscribe"}, {"allow", "switch"}}
    Pupils = {"s", "t"}
    Sections = {"p", "q"}
    Years = {1, 2}
    Guardians = {"g"}
    There = {"s"}
    Home = "p"
    ThisYear = 1
    Capacity <- MCCapacity
    MaxStudents = 2
    Holidays = {"k"}
    Closures = {{}, {"p"}}
    Assignments = {"w"}
    Lessons = {"c", "d"}
    Slots <- MCSlots
    Submissions <- MCSubmissions
    Schemes <- MCSchemes
    SubjectScheme <- MCSubjectScheme
    Scores = {5, 8}
    Cuts = {0, 60}
    Vehicles = {"v"}
    Trips = {"m", "n"}
    Stops = {3}
    Fixes <- MCFixes
    TopSpeed = 2
    GlitchWindow = 2
    Members = {"u", "v", "w"}
    Threads = {"x", "y"}
    Files = {1, 2, 3}
    Numbers = {1, 2, 3}
    Filed = {1, 2}
    Ceiling = 2
    MaxAttempts = 2
    Institutions = {1, 2, 3}
    Slugs = {"a", "b"}
    Workers = {1, 2}
    Modules = {"fees", "hostel", "users"}
    CoreModules = {"users"}
    TTL = 2
    MaxClock = 2
    Catalogue <- MCCatalogue
    Bundles = {{"fees"}}
    Presets = {"owner", "teacher"}
    Defaults = {"scales", "heads"}
    TrialPlans = {"trial"}
    Founded <- MCFounded
    Orders <- MCOrders
    Doors <- MCDoors
    Pages = {"hostel"}
CHECK_DEADLOCK FALSE
INVARIANTS
    OneEnrolment
    StrengthCounted
    LeaversShutOut
    SheetSaysRows
    LearningInOrder
    MarksFollowScheme
    TripsAreTrue
    UnreadIsUnseen
    ListInOrder
    AdmittedOnRecentWord
    NothingUnbought
    ReadyWhenOffered
PROPERTIES
    AdmittedToASeat
    LockAndClosureHold
    GradedStays
