SPECIFICATION Spec
CONSTANTS
    Desks = {a, b}
    FailProne = {}
    MaxRequests = 2
    Scenarios = {{"switch", "subscribe"}}
    Pupils = {"s", "t"}
    Sections = {"p", "q"}
    Years = {1, 2}
    Guardians = {"g"}
    There = {"s"}
    Home = "p"
    ThisYear = 1
    Capacity <- MCCapacity
    MaxStudents = 2
    Holidays = {"k"}
    Closures = {{}, {"p"}}
    Assignments = {"w"}
    Lessons = {"c", "d"}
    Slots <- MCSlots
    Submissions <- MCSubmissions
    Schemes <- MCSchemes
    SubjectScheme <- MCSubjectScheme
    Scores = {5, 8}
    Cuts = {0, 60}
    Vehicles = {"v"}
    Trips = {"m", "n"}
    Stops = {3}
    Fixes <- MCFixes
    TopSpeed = 2
    GlitchWindow = 2
    Members = {"u", "v", "w"}
    Threads = {"x", "y"}
    Files = {1, 2, 3}
    Numbers = {1, 2, 3}
    Filed = {1, 2}
    Ceiling = 2
    MaxAttempts = 2
    Institutions = {1, 2, 3}
    Slugs = {"a", "b"}
    Workers = {1, 2}
    Modules = {"fees", "hostel", "users"}
    CoreModules = {"users"}
    TTL = 2
    MaxClock = 2
    Catalogue <- MCCatalogue
    Bundles = {{"hostel"}}
    Presets = {"owner", "teacher"}
    Defaults = {"scales", "heads"}
    TrialPlans = {"trial"}
    Founded <- MCFounded
    Orders <- MCOrders
    Doors <- MCDoors
    Pages = {"hostel"}
CHECK_DEADLOCK FALSE
INVARIANTS
    SwitchWithinPlan
