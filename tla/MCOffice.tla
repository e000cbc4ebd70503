------------------------------ MODULE MCOffice ------------------------------
(* Small instances of the back office.  Staff on the payroll differ only   *)
(* in name.                                                                *)
EXTENDS Office, TLC

CONSTANTS a, b, c, d, i1, i2, b1, b2, w1, w2, p1

Symmetric == Permutations(Staff)

MCCopies == [i \in Items |-> IF i = i1 THEN 2 ELSE 1]
MCLimit  == [p \in Borrowers |-> IF p = b1 THEN 2 ELSE 1]

-----------------------------------------------------------------------------
(* Every pair of roles in every kind of institution; a role alone where    *)
(* the institution is closed to it.                                        *)
Visit(roles, type, dedicated, enabled, subscription, status) ==
    [roles |-> roles, type |-> type, dedicated |-> dedicated,
     enabled |-> enabled, saas |-> ~dedicated,
     subscription |-> subscription, status |-> status]
MCVisits ==
    {Visit(roles, type, hosting[1], hosting[2], "active", "active") :
        roles \in {{x, y} : x, y \in DOMAIN ROLE_PRESETS},
        type \in {"school", "college"},
        hosting \in {<<TRUE, {}>>, <<FALSE, OPTIONAL_MODULE_KEYS>>,
                     <<FALSE, {"fees", "lms", "departments", "invoices"}>>}}
    \cup {Visit({x}, "school", FALSE, OPTIONAL_MODULE_KEYS, case[1], case[2]) :
        x \in DOMAIN ROLE_PRESETS,
        case \in {<<"expired", "active">>, <<"cancelled", "active">>,
                  <<"active", "suspended">>,
                  <<"trialing", "trial">>}}

Who(portal, student, staff, guardian, editsStaff) ==
    [portal |-> portal, student |-> student, staff |-> staff,
     guardian |-> guardian, editsStaff |-> editsStaff]
MCPeople ==
    {Who("admin", None, None, None, TRUE),
     Who("finance", None, "m", None, FALSE),
     Who("teacher", None, "k", None, FALSE),
     Who("teacher", None, "l", None, FALSE),
     Who("teacher", None, "k", "g", FALSE),
     Who("student", "s", None, None, FALSE),
     Who("student", "u", None, None, FALSE),
     Who("parent", None, None, "g", FALSE),
     Who("parent", None, None, "h", FALSE),
     Who("parent", None, None, None, FALSE)}
SectionIn(class, year, teacher) ==
    [class |-> class, year |-> year, teacher |-> teacher]
MCSections == [x1 |-> SectionIn("one", "y1", "k"),
               x2 |-> SectionIn("one", "y2", None),
               z2 |-> SectionIn("two", "y2", "l")]
MCAllocation == {[staff |-> "k", section |-> "z2", year |-> "y2"],
                 [staff |-> "k", section |-> "x1", year |-> "y1"]}
MCPupils == [s |-> [class |-> "one", section |-> "x2"],
             t |-> [class |-> "two", section |-> "z2"],
             u |-> [class |-> None, section |-> None]]
MCWards == [g |-> {"s", "t"}, h |-> {}]
Work(class, sections, status, setter, year, hit) ==
    [class |-> class, sections |-> sections, status |-> status,
     setter |-> setter, year |-> year, hit |-> hit]
MCRegister == [
    assignments |->
        {Work("one", {"x2"}, "published", "k", "y2", TRUE),
         Work("one", {"x2"}, "draft", "l", "y2", TRUE),
         Work("one", {}, "published", "l", "y2", FALSE),
         Work("one", {"x1"}, "published", "k", "y1", TRUE),
         Work("two", {"z2"}, "draft", "k", "y2", FALSE),
         Work("two", {"z2"}, "published", "l", "y2", TRUE),
         Work("two", {}, "published", "m", None, TRUE),
         Work("three", {}, "published", "m", None, TRUE)},
    sections |-> {[section |-> x, year |-> MCSections[x].year,
                   hit |-> x # "x2"] : x \in DOMAIN MCSections},
    students |-> {[student |-> s, hit |-> s # "t"] : s \in {"s", "t", "u"}},
    invoices |-> {[student |-> s, hit |-> s # "t"] : s \in {"s", "t", "u"}},
    subjects |-> {[class |-> x, hit |-> x # "two"] :
                     x \in {"one", "two", "three", None}},
    syllabus |-> {[class |-> x, year |-> y, hit |-> x # "one"] :
                     x \in {"one", "three", None}, y \in {"y1", "y2", None}},
    terms |-> {[year |-> y, hit |-> y # "y1"] : y \in {"y1", "y2", None}},
    vehicles |-> {[hit |-> TRUE], [hit |-> FALSE]},
    staff |-> {[staff |-> k, hit |-> k # "k"] : k \in {"k", "l", "m"}}]

\* A filter on each key, on values rows have and on none, on two keys at once,
\* and on several values.
MCFilters ==
    {<<>>, [class_id |-> {"one"}], [class_id |-> {"two", None}],
     [class_id |-> {"one"}, status |-> {"published"}], [status |-> {"draft"}],
     [assigned_by |-> {"l"}], [class_teacher_id |-> {"k"}],
     [student_id |-> {"t"}], [current_class_id |-> {"one"}],
     [current_section_id |-> {"x2", "z2"}],
     [academic_year_id |-> {"y1"}], [academic_year_id |-> {None}]}

-----------------------------------------------------------------------------
(* Families whose lines share instalments, with and without windows, one   *)
(* whose year starts in April, and one with no structure yet.              *)
Charge(head, frequency, amount, due_day) ==
    [head |-> head, frequency |-> frequency, amount |-> amount,
     due_day |-> due_day, is_optional |-> FALSE,
     opens_days_before |-> Unset, closes_days_after |-> Unset,
     collect_from |-> Unset, collect_until |-> Unset]
Windowed(line, before, after) ==
    [line EXCEPT !.opens_days_before = before, !.closes_days_after = after]
Family(start, lines) ==
    [start |-> start, lines |-> lines,
     uses_transport |-> TRUE, is_hosteller |-> FALSE]
MCFamilies == {
    Family(30, <<Charge("tuition", "quarterly", 20, 1),
                 Charge("hostel", "quarterly", 30, 1),
                 Windowed(Charge("lab", "quarterly", 10, 2), 1, 4),
                 Charge("admission", "one_time", 40, 1)>>),
    Family(24, <<Windowed(Charge("tuition", "half_yearly", 20, 1), 2, 3),
                 Windowed(Charge("transport", "half_yearly", 10, 2), 1, 5),
                 Charge("music", "semester", 30, 2),
                 [Charge("exam", "yearly", 10, 2) EXCEPT
                    !.collect_from = 30, !.collect_until = 36]>>),
    Family(30, <<Charge("tuition", "monthly", 20, 2),
                 [Charge("trip", "monthly", 20, 2) EXCEPT
                    !.is_optional = TRUE],
                 Charge("transport", "yearly", 10, 1)>>),
    Family(24, <<>>)}
MCConcession ==
    [discounts |-> {[heads |-> {"tuition"}, percentage |-> TRUE, value |-> 50],
                    [heads |-> {}, percentage |-> FALSE, value |-> 5]},
     percent |-> 10]
MCLateFee == [per_day |-> 2, grace |-> 1, cap |-> 5]
MCCycles == {<<"all", Unset>>, <<"one_time", Unset>>, <<"monthly", Unset>>,
             <<"quarterly", Unset>>, <<"quarterly", 1>>, <<"quarterly", 3>>,
             <<"half_yearly", 1>>, <<"half_yearly", 2>>, <<"semester", 2>>,
             <<"yearly", Unset>>}

-----------------------------------------------------------------------------
(* Books.  One pupil's three marked days take every status; the bills of   *)
(* two pupils every state a bill can be in.                                *)
Days(s, marks) ==
    {[student |-> s, at |-> Midnight(day), status |-> marks[day]] :
        day \in {k \in DOMAIN marks : marks[k] # None}}
AttendanceBooks ==
    {[kind |-> "attendance", start |-> 1, end |-> 2, threshold |-> threshold,
      holidays |-> holidays, rows |-> Days("s", mine) \cup Days("t", other)] :
        threshold \in {0, 67, 75},
        mine \in [1..3 -> PRESENT_LIKE \cup {"absent", "holiday", None}],
        other \in {<<"present", "excused", "leave">>,
                   <<"late", "absent">>, <<>>},
        holidays \in {{}, {[first |-> 2, last |-> 4]}}}

\* A year in which 98 days of 297 were attended, which rounds up to 33%.
LongBook ==
    [kind |-> "attendance", start |-> 1, end |-> 297, threshold |-> 33,
     holidays |-> {},
     rows |-> Days("s", [day \in 1..297 |->
                            IF day <= 98 THEN "present" ELSE "absent"])]

Bill(n, student, class, state) ==
    [n |-> n, student |-> student, class |-> class, status |-> state[1],
     total |-> 3, paid |-> state[2]]
BillStates == {<<"draft", 0>>, <<"issued", 0>>, <<"partially_paid", 1>>,
               <<"overdue", 0>>, <<"overdue", 2>>, <<"paid", 3>>,
               <<"cancelled", 0>>, <<"cancelled", 1>>}
Receipt(n, student, method, at, status) ==
    [n |-> n, student |-> student, method |-> method, at |-> at,
     amount |-> 2, status |-> status]
Receipts ==
    {{}, {Receipt(1, "s", "cash", 3, "success"),
          Receipt(2, "t", "online", 6, "success"),
          Receipt(3, "t", "cash", 7, "success")},
     {Receipt(1, "s", "cash", 1, "success"),
      Receipt(2, "t", "cash", 4, "failed"),
      Receipt(3, "t", "cash", 5, "success")}}
Owes(s, bills_) ==
    Left({i \in Of(s, bills_) : i.status \in {"issued", "partially_paid",
                                              "overdue"}})
FeeBooks ==
    {LET bills_ == {Bill(1, "s", "one", x), Bill(2, "s", "two", y),
                    Bill(3, "t", "one", z)}
         pupil(s, class, status) == [class |-> class, status |-> status,
                                     outstanding |-> Owes(s, bills_)]
     IN  [kind |-> "fees", start |-> 1, end |-> 2, bills |-> bills_,
          payments |-> payments, family |-> {"s", "gone"},
          students |-> [s |-> pupil("s", "two", "active"),
                        t |-> pupil("t", "one", "withdrawn"),
                        u |-> pupil("u", "one", "active")]] :
        x, y, z \in BillStates, payments \in Receipts}

Marking(student, subject, class, mark) ==
    [student |-> student, subject |-> subject, class |-> class,
     obtained |-> mark[1], total |-> mark[2], max |-> 10,
     is_pass |-> Value(mark[1]) >= 4]
Entered == {<<{}, {}>>, <<{0}, {}>>, <<{4}, {}>>, <<{9}, {}>>, <<{4}, {6}>>}
MarkBooks ==
    {[kind |-> "marks", class |-> class,
      marks |-> {Marking("s", "x", "one", m1), Marking("s", "y", "one", m2),
                 Marking("t", "x", elsewhere, m3),
                 Marking("v", "y", "one", <<{4}, {}>>)}] :
        class \in {{}, {"two"}}, elsewhere \in {"one", "two"},
        m1, m2, m3 \in Entered}
    \cup {[kind |-> "marks", class |-> {}, marks |-> {}]}

Lent(n, at, due, status) == [n |-> n, at |-> at, due |-> due, status |-> status]
DeskBooks ==
    {[kind |-> "desks", start |-> 1, end |-> 2, today |-> 3,
      loans |-> {Lent(1, 2, due, x), Lent(2, 6, 4, y), Lent(3, 8, 2, "issued")},
      routes |-> [north |-> 2, south |-> 0],
      seats |-> {[n |-> 1, route |-> "north", fare |-> 5, status |-> "active"],
                 [n |-> 2, route |-> r, fare |-> 5, status |-> "active"],
                 [n |-> 3, route |-> "north", fare |-> 5,
                  status |-> "cancelled"]},
      enquiries |-> {[n |-> 1, at |-> 3, status |-> stage],
                     [n |-> 2, at |-> 5, status |-> "lost"],
                     [n |-> 3, at |-> 9, status |-> "new"]}] :
        due \in {2, 3}, x, y \in {"issued", "overdue", "returned", "lost"},
        r \in {"north", "south", "closed"},
        stage \in {"new", "contacted", "visited", "converted", "lost"}}
MCBooks ==
    AttendanceBooks \cup {LongBook} \cup FeeBooks \cup MarkBooks \cup DeskBooks
=============================================================================
