------------------------------- MODULE Access -------------------------------
(***************************************************************************)
(* What a signed-in person is shown and may open: the sidebar and the      *)
(* route guard (app/core/navigation.py, deps.py), the academic year a      *)
(* request reads, and the row scopes every list is narrowed with           *)
(* (app/core/scoping.py, crud.py build_query).                             *)
(*                                                                         *)
(* One request is asked, then answered from the registers as they are.  A  *)
(* Mongo query is a function from its keys ("$or", "status", ...) to the   *)
(* rows the condition under that key accepts; a row is found when every    *)
(* key accepts it.  A filter chosen on the screen names a key of its own   *)
(* and the values it lets through; those on what the rows here do not show *)
(* (a gender, a kind of work) are left out, for no scope has such a key.   *)
(***************************************************************************)
EXTENDS Catalogue
CONSTANTS
    None,           \* "no such link", "no year", "not answered"
    Visits,         \* menu requests: roles and institution
    People,         \* who asks for a list: portal, links, may edit staff
    Years,          \* the institution's academic years
    Headers,        \* what X-Academic-Year may say
    Filters,        \* what may be chosen on a list: key -> values
    Sections,       \* section -> class, year, class teacher
    Allocation,     \* who teaches which section in which year
    Pupils,         \* student -> class, section
    Wards,          \* guardian -> students
    Register        \* resource -> rows

\* An assignment names sections there are, a year is not "no year", and the
\* rows of four resources carry their academic year.
Yearly == {"assignments", "sections", "syllabus", "terms"}
ASSUME AccessAssumption ==
    /\ \A v \in Visits : "roles" \in DOMAIN v
    /\ None \notin Years
    /\ \A x \in Allocation : x.section \in DOMAIN Sections
    /\ DOMAIN Register \subseteq Yearly \cup
         {"students", "subjects", "invoices", "vehicles", "staff"}
    /\ \A x \in DOMAIN Register : \A r \in Register[x] :
         /\ ("year" \in DOMAIN r) = (x \in Yearly)
         /\ x = "assignments" => None \notin r.sections

VARIABLES
    asked,          \* the request
    told            \* the answer

-----------------------------------------------------------------------------
\* The guard and the sidebar.

\* The staff-facing portal wins for somebody with several roles.
PORTAL_PRIORITY ==
    <<"platform", "admin", "finance", "teacher", "parent", "student">>
Portal(roles) ==
    LET held == {ROLE_PRESETS[r].portal : r \in roles}
        first == {i \in DOMAIN PORTAL_PRIORITY : PORTAL_PRIORITY[i] \in held}
    IN  IF roles = {} THEN "admin"
        ELSE PORTAL_PRIORITY[CHOOSE i \in first : \A j \in first : i <= j]

Granted(roles) == UNION {ROLE_PRESETS[r].permissions : r \in roles}
Permissions(roles) == expand(Granted(roles)) \cup Granted(roles)

is_usable(v) == v.status \in {"active", "trial"}

\* The type comes first; then a dedicated deployment owns everything.
module_enabled(v, m) ==
    /\ suits(m, v.type)
    /\ v.dedicated \/ m \in CORE_MODULE_KEYS \/ m \in v.enabled

\* require(permission): the institution, then the module, then the person,
\* by the permissions the session holds.
Admits(v, held, p) ==
    /\ is_usable(v)
    /\ ~(v.saas /\ v.subscription \in {"expired", "cancelled"})
    /\ module_enabled(v, p[1])
    /\ has_permission(held, p)

Shown(v, held, item) ==
    /\ has_permission(held, item.permission)
    /\ item.portals = {} \/ Portal(v.roles) \in item.portals
    /\ Portal(v.roles) \notin item.not_portals
    /\ module_enabled(v, item.module)

-----------------------------------------------------------------------------
\* Whose rows.

\* Somebody with a student or guardian link, or in a family portal.
OfFamily(who) ==
    \/ who.portal \in FAMILY
    \/ who.student # None
    \/ who.guardian # None

\* A portal account with no link owns nothing; None of the staff narrow here.
family_student_ids(who) ==
    IF who.student # None THEN {who.student}
    ELSE IF who.guardian # None THEN Wards[who.guardian]
    ELSE {}

\* An unknown year leaves the reader on the current one.
apply_academic_year(a) ==
    IF a.header \in Years \ {a.current} THEN a.header ELSE None
year_for(a) ==
    IF OfFamily(a.who) \/ apply_academic_year(a) = None THEN a.current
    ELSE apply_academic_year(a)

Teaching(who) == who.portal = "teacher" /\ who.staff # None
InYear(year, a) == year_for(a) \in {None, year}
teacher_section_ids(a) ==
    {x.section : x \in {y \in Allocation : /\ y.staff = a.who.staff
                                           /\ InYear(y.year, a)}}
    \cup {s \in DOMAIN Sections : /\ Sections[s].teacher = a.who.staff
                                  /\ InYear(Sections[s].year, a)}

-----------------------------------------------------------------------------
\* Queries.

Unnarrowed == <<>>
Under(key, rows) == [k \in {key} |-> rows]
Found(query, rows) == {r \in rows : \A k \in DOMAIN query : r \in query[k]}
Narrow(narrows, key, rows) ==
    IF narrows THEN Under(key, rows) ELSE Unnarrowed

\* Every hook has to hold; the empty ones drop out.
all_of(hooks, rows) ==
    LET parts == {i \in DOMAIN hooks : DOMAIN hooks[i] # {}}
    IN  IF parts = {} THEN Unnarrowed
        ELSE IF \E i \in parts : parts = {i}
             THEN hooks[CHOOSE i \in parts : TRUE]
        ELSE Under("$and", {r \in rows : \A i \in parts :
                                           r \in Found(hooks[i], rows)})

student_row_scope(a, R) ==
    Narrow(OfFamily(a.who), "student_id",
           {r \in R : r.student \in family_student_ids(a.who)})
own_student_scope(a, R) ==
    Narrow(OfFamily(a.who), "_id",
           {r \in R : r.student \in family_student_ids(a.who)})
teacher_student_scope(a, R) ==
    Narrow(Teaching(a.who), "current_section_id",
           {r \in R : Pupils[r.student].section \in teacher_section_ids(a)})
teacher_own_sections_scope(a, R) ==
    Narrow(Teaching(a.who), "_id",
           {r \in R : r.section \in teacher_section_ids(a)})
staff_only_scope(a, R) == Narrow(OfFamily(a.who), "_id", {})
staff_scope(a, R) ==
    Narrow(a.who.staff # None /\ ~a.who.editsStaff, "_id",
           {r \in R : r.staff = a.who.staff})
academic_year_scope(a, R) ==
    Narrow(year_for(a) # None, "academic_year_id",
           {r \in R : r.year \in {year_for(a), None}})

ClassesOf(students) == {Pupils[s].class : s \in students} \ {None}
SectionsOf(students) == {Pupils[s].section : s \in students} \ {None}

\* A row with no class belongs to every family that has a child.
family_class_scope(a, R) ==
    LET mine == family_student_ids(a.who)
    IN  Narrow(OfFamily(a.who), "class_id",
               IF mine = {} THEN {}
               ELSE {r \in R : r.class \in ClassesOf(mine) \cup {None}})

\* Work set for a whole class names no sections.
SetFor(sections, classes, R) ==
    {r \in R : \/ r.sections \cap sections # {}
               \/ r.sections = {} /\ r.class \in classes}

family_assignment_scope(a, R) ==
    LET mine == family_student_ids(a.who)
    IN  IF ~OfFamily(a.who) THEN Unnarrowed
        ELSE IF mine = {} THEN Under("_id", {})
        ELSE Merged({Under("status", {r \in R : r.status = "published"}),
                     Under("$or", SetFor(SectionsOf(mine), ClassesOf(mine), R))})

assignment_reach_scope(a, R) ==
    LET sections == teacher_section_ids(a)
        own == {r \in R : r.setter = a.who.staff}
    IN  IF OfFamily(a.who) THEN family_assignment_scope(a, R)
        ELSE IF ~Teaching(a.who) THEN Unnarrowed
        ELSE IF sections = {} THEN Under("assigned_by", own)
        ELSE Under("$or", own \cup
                 SetFor(sections, {Sections[s].class : s \in sections}, R))

\* The scope each resource is registered with.
Scope(a, R) ==
    CASE a.resource = "assignments" ->
           all_of(<<assignment_reach_scope(a, R), academic_year_scope(a, R)>>, R)
      [] a.resource = "sections" ->
           all_of(<<teacher_own_sections_scope(a, R),
                    academic_year_scope(a, R)>>, R)
      [] a.resource = "students" ->
           all_of(<<own_student_scope(a, R), teacher_student_scope(a, R)>>, R)
      [] a.resource = "syllabus" ->
           all_of(<<family_class_scope(a, R), academic_year_scope(a, R)>>, R)
      [] a.resource = "subjects" -> family_class_scope(a, R)
      [] a.resource = "terms" -> academic_year_scope(a, R)
      [] a.resource = "invoices" -> student_row_scope(a, R)
      [] a.resource = "vehicles" -> staff_only_scope(a, R)
      [] a.resource = "staff" -> staff_scope(a, R)

\* The filters each resource takes, of those its rows show here.
Filterable ==
    [assignments |-> {"class_id", "status", "assigned_by"},
     sections    |-> {"class_id", "academic_year_id", "class_teacher_id"},
     students    |-> {"current_class_id", "current_section_id"},
     syllabus    |-> {"class_id"},
     subjects    |-> {"class_id"},
     terms       |-> {"academic_year_id"},
     invoices    |-> {"student_id"},
     vehicles    |-> {},
     staff       |-> {}]

Column(resource, key, r) ==
    CASE key = "academic_year_id"   -> r.year
      [] key = "class_id"           -> IF resource = "sections"
                                       THEN Sections[r.section].class ELSE r.class
      [] key = "student_id"         -> r.student
      [] key = "current_class_id"   -> Pupils[r.student].class
      [] key = "current_section_id" -> Pupils[r.student].section
      [] key = "status"             -> r.status
      [] key = "assigned_by"        -> r.setter
      [] key = "class_teacher_id"   -> Sections[r.section].teacher

\* The filters of a request as a query; what the resource does not take is
\* dropped.
Chosen(a, R) ==
    [k \in DOMAIN a.filters \cap Filterable[a.resource] |->
        {r \in R : Column(a.resource, k, r) \in a.filters[k]}]

\* Every chosen key is assigned over the scope's own.
Overlaid(chosen, scope) ==
    [k \in DOMAIN chosen \cup DOMAIN scope |->
        IF k \in DOMAIN chosen THEN chosen[k] ELSE scope[k]]

\* build_query as it would be if the search simply took "$or".
SearchTakesOr(scope, chosen, search, R) ==
    LET query == Overlaid(chosen, scope)
    IN  IF search
        THEN Merged({Under("$or", {r \in R : r.hit}),
                     [k \in DOMAIN query \ {"$or"} |-> query[k]]})
        ELSE query

\* A scope that already claims "$or" is moved under "$and" with the search.
build_query(scope, chosen, search, R) ==
    LET query == Overlaid(chosen, scope)
        hits == {r \in R : r.hit}
        kept == {"$or", "$and"} \cap DOMAIN query
    IN  IF ~search THEN query
        ELSE IF "$or" \notin kept THEN Merged({Under("$or", hits), query})
        ELSE Merged({Under("$and", {r \in hits : \A k \in kept : r \in query[k]}),
                     [k \in DOMAIN query \ kept |-> query[k]]})

\* The routes that take an id: a section's register, a piece of work, a child.
OpensById(a, R) ==
    CASE a.resource = "sections" ->
           {r \in R : Teaching(a.who) => r.section \in teacher_section_ids(a)}
      [] a.resource = "assignments" -> Found(assignment_reach_scope(a, R), R)
      [] a.resource = "students" ->
           {r \in R : OfFamily(a.who)
                        => r.student \in family_student_ids(a.who)}
      [] OTHER -> R

\* The Homework screen, child by child: no year, the child's present place.
my_assignments(a, R) ==
    LET shown(s) == SetFor({Pupils[s].section} \ {None},
                           {Pupils[s].class} \ {None}, R)
    IN  {r \in UNION {shown(s) : s \in family_student_ids(a.who)} :
            r.status = "published"}

-----------------------------------------------------------------------------
ListRequests ==
    [who : People, current : Years \cup {None}, header : Headers,
     resource : DOMAIN Register, search : BOOLEAN, filters : Filters]
AccessInit ==
    /\ asked \in Visits \cup ListRequests
    /\ told = None
ForMenu(request) == "roles" \in DOMAIN request

AnswerMenu ==
    /\ told = None
    /\ ForMenu(asked)
    /\ LET held == Permissions(asked.roles)
       IN  told' = [pages |-> {i.page : i \in {j \in NAVIGATION :
                                                  Shown(asked, held, j)}},
                    doors |-> {p \in ALL_PERMISSIONS :
                                  Admits(asked, held, p)}]
    /\ UNCHANGED asked

AnswerList ==
    /\ told = None
    /\ ~ForMenu(asked)
    /\ LET rows == Register[asked.resource]
       IN  told' = [rows |-> Found(build_query(Scope(asked, rows),
                                               Chosen(asked, rows),
                                               asked.search, rows), rows),
                    opens |-> OpensById(asked, rows),
                    homework |-> IF asked.resource = "assignments"
                                 THEN my_assignments(asked, rows) ELSE {}]
    /\ UNCHANGED asked

Answer == AnswerMenu \/ AnswerList

AccessSpec == AccessInit /\ [][Answer]_<<asked, told>>

-----------------------------------------------------------------------------
\* A page is on the menu exactly when its own guard lets the person in and the
\* portal has that screen, for every combination of roles; what the session
\* may do is what its roles were granted, wildcards expanded or not; and no
\* deployment gives a school Faculties (navigation.py build_navigation,
\* deps.py require, permissions.py expand).
MenuHonest ==
    told # None /\ ForMenu(asked) =>
        LET granted == Granted(asked.roles)
            ended == asked.subscription \in {"expired", "cancelled"}
            open == is_usable(asked) /\ ~(asked.saas /\ ended)
            family == Portal(asked.roles) \in FAMILY
            hasScreen(i) == /\ i.portals = FAMILY => family
                            /\ i.not_portals = FAMILY => ~family
        IN  /\ open => told.pages = {i.page : i \in {j \in NAVIGATION :
                             hasScreen(j) /\ j.permission \in told.doors}}
            /\ open => \A p \in ALL_PERMISSIONS :
                 p \in told.doors <=>
                     /\ module_enabled(asked, p[1])
                     /\ has_permission(granted, p)
            /\ ~open => told.doors = {}
            /\ asked.type = "school" =>
                 told.pages \cap {"departments", "programs"} = {}

\* Which rows concern somebody, said without queries.
Concerns(a, r) ==
    LET who == a.who
        mine == family_student_ids(who)
        takes(s) == s \in teacher_section_ids(a)
        reaches(s) == \/ Pupils[s].section \in r.sections
                      \/ /\ r.sections = {} /\ r.class # None
                         /\ r.class = Pupils[s].class
    IN  CASE a.resource = "assignments" /\ OfFamily(who) ->
               r.status = "published" /\ \E s \in mine : reaches(s)
          [] a.resource = "assignments" /\ ~OfFamily(who) ->
               Teaching(who) =>
                   \/ r.setter = who.staff
                   \/ \E s \in DOMAIN Sections : takes(s) /\
                        (s \in r.sections \/
                         (r.sections = {} /\ r.class = Sections[s].class))
          [] a.resource = "sections" -> Teaching(who) => takes(r.section)
          [] a.resource = "students" ->
               /\ OfFamily(who) => r.student \in mine
               /\ Teaching(who) => takes(Pupils[r.student].section)
          [] a.resource \in {"subjects", "syllabus"} ->
               OfFamily(who) => \E s \in mine :
                                  r.class \in {None, Pupils[s].class}
          [] a.resource = "invoices" -> OfFamily(who) => r.student \in mine
          [] a.resource = "vehicles" -> ~OfFamily(who)
          [] a.resource = "staff" ->
               who.staff = None \/ who.editsStaff \/ r.staff = who.staff
          [] OTHER -> TRUE
Dated(a, r) ==
    "year" \in DOMAIN r =>
        LET read == IF OfFamily(a.who) \/ a.header \notin Years
                    THEN a.current ELSE a.header
        IN  read = None \/ r.year \in {None, read}

\* What passes the search and the filters of a request.
Sought(a, R) ==
    {r \in R : /\ a.search => r.hit
               /\ \A k \in DOMAIN Chosen(a, R) : r \in Chosen(a, R)[k]}

\* The conditions of the scope that a chosen filter is assigned over: a
\* family's student_id on invoices, its class_id on subjects, a teacher's
\* current_section_id on students, the year on terms and sections, and, while
\* there is no current year, the class, status or setter of work.
Displaced(a, R) == DOMAIN Chosen(a, R) \cap DOMAIN Scope(a, R)

\* A list never shows what the search or a filter excludes, and never leaves
\* out a row that concerns the person, is of the year they read and is sought.
\* Unless a filter displaces a condition of the scope, it shows nothing else:
\* a search is no way out of the scope (crud.py:175-177), nor is a filter on
\* another key.  Then every row on the list opens by its id, and what the list
\* shows a family of its homework the Homework screen shows too.
ListHonest ==
    told # None /\ ~ForMenu(asked) =>
        LET rows == Register[asked.resource]
            sought == Sought(asked, rows)
            theirs == {r \in sought : Concerns(asked, r) /\ Dated(asked, r)}
        IN  /\ theirs \subseteq told.rows /\ told.rows \subseteq sought
            /\ Displaced(asked, rows) = {} =>
                 /\ told.rows = theirs
                 /\ told.rows \subseteq told.opens
                 /\ asked.resource = "assignments" /\ OfFamily(asked.who)
                      => told.rows \subseteq told.homework

\* The two together.
AccessInOrder == MenuHonest /\ ListHonest
=============================================================================
