------------------------------ MODULE Catalogue ------------------------------
(***************************************************************************)
(* The permission catalogue, the role presets and the sidebar, as the code *)
(* lists them.  A permission "<module>:<action>" is the pair <<module,     *)
(* action>>; "*" and "<module>:*" are <<"*", "*">> and <<module, "*">>.    *)
(* Labels, icons and links are left out.                                   *)
(***************************************************************************)
EXTENDS Naturals, FiniteSets

CRUD == {"read", "create", "update", "delete"}
Having(modules, actions) == [m \in modules |-> actions]

\* Tables of different keys as one.
Merged(tables) ==
    [x \in UNION {DOMAIN t : t \in tables} |->
        (CHOOSE t \in tables : x \in DOMAIN t)[x]]

\* Every module with its actions.
MODULES == Merged({
    Having({"users", "roles", "academic_years", "departments", "programs",
            "classes", "subjects", "syllabus", "alumni", "fees", "transport",
            "hostel", "inventory", "visitors", "documents"}, CRUD),
    Having({"dashboard"}, {"read"}),
    Having({"settings"}, {"read", "update"}),
    Having({"audit", "reports"}, {"read", "export"}),
    Having({"messages"}, {"read", "create"}),
    Having({"results"}, {"read", "publish", "export"}),
    Having({"certificates"}, {"read", "create", "export"}),
    Having({"payments"}, {"read", "collect", "create", "export"}),
    Having({"timetable", "assignments", "lms", "announcements", "events"},
           CRUD \cup {"publish"}),
    Having({"students", "guardians", "staff", "attendance", "invoices",
            "staff_attendance", "library"}, CRUD \cup {"export"}),
    Having({"expenses", "scholarships", "leaves", "appraisals", "complaints"},
           CRUD \cup {"approve"}),
    Having({"admissions", "payroll"}, CRUD \cup {"approve", "export"}),
    Having({"exams"}, CRUD \cup {"publish", "export"})})

\* Modules an institution cannot switch off.
CORE_MODULE_KEYS ==
    {"dashboard", "users", "roles", "settings", "audit", "academic_years",
     "classes", "subjects", "students", "staff", "attendance"}
OPTIONAL_MODULE_KEYS == DOMAIN MODULES \ CORE_MODULE_KEYS
HIGHER_ED == {"college", "university", "institute"}

\* Faculties and programmes mean nothing to a school.
suits(m, type) ==
    m \in {"departments", "programs"} => type \in HIGHER_ED

ALL_PERMISSIONS == UNION {{m} \X MODULES[m] : m \in DOMAIN MODULES}
Anything == <<"*", "*">>
IsWildcard(p) == p[2] = "*"

\* A wildcard of a module the catalogue does not list grants nothing.
expand(granted) ==
    IF Anything \in granted THEN ALL_PERMISSIONS
    ELSE {p \in granted : ~IsWildcard(p)}
         \cup {p \in ALL_PERMISSIONS : <<p[1], "*">> \in granted}

has_permission(granted, required) ==
    {Anything, required, <<required[1], "*">>} \cap granted # {}

-----------------------------------------------------------------------------
_all(modules) == modules \X {"*"}
_read(modules) == modules \X {"read"}
RolePreset(portal, permissions) ==
    [portal |-> portal, permissions |-> permissions]

\* The roles seeded into every institution.
ROLE_PRESETS == [
    super_admin |-> RolePreset("admin", {Anything}),
    admin |-> RolePreset("admin",
        _all({"academic_years", "departments", "programs", "classes",
             "subjects", "timetable", "syllabus", "students", "guardians",
             "staff", "admissions", "attendance", "assignments", "exams",
             "lms", "certificates", "announcements", "events", "messages",
             "complaints", "documents", "library", "transport", "hostel",
             "inventory", "visitors", "alumni"})
        \cup _read({"dashboard", "users", "roles", "settings", "reports",
                   "results", "fees", "invoices", "payments"})
        \cup {"results"} \X {"publish", "export"}
        \cup {"users"} \X {"create", "update"}
        \cup {<<"reports", "export">>}),
    principal |-> RolePreset("admin",
        _read({"dashboard", "students", "guardians", "staff", "admissions",
              "attendance", "exams", "results", "fees", "invoices",
              "payments", "expenses", "payroll", "reports", "classes",
              "subjects", "timetable", "departments", "programs", "library",
              "transport", "hostel", "leaves", "staff_attendance"})
        \cup _all({"announcements", "events", "complaints", "appraisals"})
        \cup {"leaves", "admissions", "expenses"} \X {"approve"}
        \cup {<<"reports", "export">>, <<"results", "publish">>}),
    hod |-> RolePreset("admin",
        _read({"dashboard", "students", "staff", "classes", "subjects",
              "timetable", "attendance", "exams", "results", "reports"})
        \cup _all({"subjects", "syllabus", "assignments"})
        \cup {"exams"} \X {"create", "update"}
        \cup {<<"leaves", "approve">>, <<"announcements", "create">>,
              <<"reports", "export">>}),
    teacher |-> RolePreset("teacher",
        _read({"dashboard", "students", "guardians", "classes", "subjects",
              "timetable", "syllabus", "results", "events",
              "announcements", "attendance", "exams", "leaves",
              "documents"})
        \cup _all({"assignments", "lms", "messages"})
        \cup {"attendance"} \X {"create", "update"}
        \cup {<<"exams", "update">>, <<"leaves", "create">>}),
    accountant |-> RolePreset("finance",
        _all({"fees", "invoices", "payments", "expenses", "scholarships",
             "payroll"})
        \cup _read({"dashboard", "students", "guardians", "staff",
                   "classes", "reports"})
        \cup {<<"reports", "export">>}),
    librarian |-> RolePreset("admin", _all({"library"})
        \cup _read({"dashboard", "students", "staff", "classes"})
        \cup {<<"messages", "create">>}),
    transport_manager |-> RolePreset("admin", _all({"transport"})
        \cup _read({"dashboard", "students", "staff"})
        \cup {<<"messages", "create">>}),
    hostel_warden |-> RolePreset("admin", _all({"hostel"})
        \cup _read({"dashboard", "students", "guardians", "complaints"})
        \cup {<<"messages", "create">>, <<"complaints", "update">>}),
    receptionist |-> RolePreset("admin", _all({"visitors"})
        \cup _read({"admissions", "dashboard", "students", "guardians",
                   "staff", "classes", "events", "complaints"})
        \cup {"admissions"} \X {"create", "update"}
        \cup {"messages", "complaints"} \X {"create"}),
    student |-> RolePreset("student",
        _read({"dashboard", "timetable", "subjects", "syllabus",
              "attendance", "assignments", "results", "lms", "events",
              "announcements", "invoices", "library", "documents",
              "transport", "complaints", "leaves"})
        \cup _all({"messages"})
        \cup {"complaints", "leaves"} \X {"create"}),
    parent |-> RolePreset("parent",
        _read({"dashboard", "attendance", "assignments", "results",
              "timetable", "events", "announcements", "invoices",
              "payments", "documents", "transport", "complaints"})
        \cup _all({"messages"})
        \cup {"complaints", "leaves"} \X {"create"})]

PLATFORM_PERMISSIONS == [
    platform_owner |-> {Anything},
    platform_admin |-> _all({"tenants", "plans", "subscriptions", "invoices"})
        \cup _read({"platform_users", "metrics", "audit"}),
    platform_support |-> _read({"tenants", "subscriptions", "invoices",
        "metrics"}) \cup {<<"tenants", "impersonate">>}]

-----------------------------------------------------------------------------
FAMILY == {"student", "parent"}
NavItem(page, m, action, portals, not_portals) ==
    [page |-> page, permission |-> <<m, action>>, module |-> m,
     portals |-> portals, not_portals |-> not_portals]
NavItems(table, portals, not_portals) ==
    {NavItem(page, table[page], "read", portals, not_portals)
        : page \in DOMAIN table}
Namesake(modules) == [m \in modules |-> m]

\* The sidebar: a page, the permission it needs, the module it belongs to,
\* the portals it is for (none: any) and those it is hidden from.
NAVIGATION ==
    NavItems(Merged({
        Namesake({"dashboard", "students", "timetable", "exams", "staff",
               "guardians", "admissions", "alumni", "classes", "subjects",
               "departments", "programs", "syllabus", "lms", "fees",
               "scholarships", "expenses", "payroll", "leaves",
               "appraisals", "hostel", "inventory", "visitors",
               "announcements", "messages", "complaints", "reports",
               "documents", "certificates", "audit", "users", "roles",
               "settings", "academic_years", "staff_attendance"}),
        [calendar |-> "events", assistant |-> "dashboard",
         holidays |-> "academic_years", live_classes |-> "lms",
         biometrics |-> "staff_attendance"]}), {}, {})
    \cup NavItems([my_record |-> "attendance", homework |-> "assignments",
                my_fees |-> "invoices", my_library |-> "library",
                my_bus |-> "transport"], FAMILY, {})
    \cup NavItems(Merged({
        Namesake({"attendance", "assignments", "results", "invoices",
                    "payments", "library", "transport", "events"}),
        [tracking |-> "transport"]}), {}, FAMILY)
    \cup {NavItem("teaching", "subjects", "update", {}, FAMILY)}

PLATFORM_NAVIGATION ==
    NavItems([overview |-> "metrics", tenants |-> "tenants", plans |-> "plans",
           subscriptions |-> "subscriptions", billing |-> "invoices",
           team |-> "platform_users", activity |-> "audit"], {}, {})
=============================================================================
