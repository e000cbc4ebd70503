------------------------------ MODULE Reports ------------------------------
(***************************************************************************)
(* What the registers come to, on every screen that adds them up: the      *)
(* reports (app/modules/reports/service.py), the attendance and fees       *)
(* screens, the student's profile (app/modules/people/service.py) and the  *)
(* dashboards.  Each adds up on its own; a book is one collection's rows   *)
(* with the question asked of them, and a page what all the screens say.   *)
(*                                                                         *)
(* Time is in half days, so a date is the midnight it is stored as and a   *)
(* payment may fall inside a day.  A rate is kept as its two numbers, and  *)
(* rounded to two decimals where it is then compared.  A book is one that  *)
(* no screen cuts short: how many rows each fetches at most is left out.   *)
(*                                                                         *)
(* A definition just above another with its parameters, and used nowhere,  *)
(* is the slip a programmer could have made there.                         *)
(***************************************************************************)
EXTENDS Integers, FiniteSets, Functions

CONSTANT Books

VARIABLES book, page

-----------------------------------------------------------------------------
SumOf(f) == SumFunction(f)
Atleast0(n) == IF n < 0 THEN 0 ELSE n
Midnight(day) == 2 * day
DayOfMoment(t) == t \div 2

\* From a day's midnight to the midnight that ends the last day, both in.
_between(b, t) == Midnight(b.start) <= t /\ t <= Midnight(b.end) + 2

\* The attendance screens stop at the midnight the last day begins with.
OnScreen(b, t) == Midnight(b.start) <= t /\ t <= Midnight(b.end)

-----------------------------------------------------------------------------
(* Attendance.                                                             *)

PRESENT_LIKE == {"present", "late", "half_day"}
NON_TEACHING == {"holiday", "excused"}

Of(s, rows) == {r \in rows : r.student = s}
Named(rows) == {r.student : r \in rows}
Marked(rows, statuses) == Cardinality({r \in rows : r.status \in statuses})
Below(line, threshold) == line.present * 100 < threshold * line.total

\* A pupil's line, or a day's: rows marked, and those that count as present.
Figures(key, rows) == [of |-> key, total |-> Cardinality(rows),
                     present |-> Marked(rows, PRESENT_LIKE)]
ByPupil(rows) == {Figures(s, Of(s, rows)) : s \in Named(rows)}
ByDay(rows) ==
    {Figures(d, {r \in rows : DayOfMoment(r.at) = d}) :
        d \in {DayOfMoment(r.at) : r \in rows}}

Reported(b) == {r \in b.rows : _between(b, r.at)}
Screened(b) == {r \in b.rows : OnScreen(b, r.at)}

\* The report's percentages are rounded before they are compared.
RoundedBelow(line, threshold) ==
    20000 * line.present < (200 * threshold - 1) * line.total

attendance_register(b) == ByPupil(Reported(b))

\* The report's own total adds up two of its columns, present and late.
overall_attendance(b) ==
    LET mine == [s \in Named(Reported(b)) |-> Of(s, Reported(b))]
    IN  [days |-> SumOf([s \in DOMAIN mine |-> Cardinality(mine[s])]),
         attended |-> SumOf([s \in DOMAIN mine |->
                                Marked(mine[s], {"present", "late"})]),
         below75 |-> Cardinality({l \in attendance_register(b) :
                                     RoundedBelow(l, 75)})]

\* A threshold of nought is taken for none given.
attendance_defaulters(b) ==
    LET threshold == IF b.threshold = 0 THEN 75 ELSE b.threshold
    IN  {l \in attendance_register(b) : RoundedBelow(l, threshold)}
daily_attendance(b) == ByDay(Reported(b))

section_summary(b) ==
    LET rows == Screened(b)
        counts == [m \in {r.status : r \in rows} |-> Marked(rows, {m})]
    IN  [totals |-> counts,
         records |-> SumOf(counts),
         present |-> SumOf([m \in DOMAIN counts \cap PRESENT_LIKE |->
                               counts[m]]),
         daily |-> ByDay(rows)]
student_calendar(b, s) == Figures(s, Of(s, Screened(b)))
defaulters(b) == {l \in ByPupil(Screened(b)) : Below(l, b.threshold)}

\* The profile's figure: a holiday in neither half, a half day a half; in
\* halves, over every row there is.
attendance_summary(b, s) ==
    LET mine == Of(s, b.rows)
    IN  [total |-> Marked(mine, {r.status : r \in mine} \ NON_TEACHING),
         halves |-> 2 * Marked(mine, {"present", "late"})
                    + Marked(mine, {"half_day"})]

\* Holidays are painted where nothing was marked, between the first mark and
\* the last.
MarkedDays(rows) == {DayOfMoment(r.at) : r \in rows}
_overlay_holidays(b, days) ==
    {d \in UNION {h.first .. h.last : h \in b.holidays} :
        /\ d \notin days
        /\ \E x, y \in days : x <= d /\ d <= y}
attendance_calendar(b, s) ==
    LET mine == Of(s, b.rows)
    IN  {[day |-> DayOfMoment(r.at), status |-> r.status] : r \in mine}
        \cup {[day |-> d, status |-> "holiday"] :
                 d \in _overlay_holidays(b, MarkedDays(mine))}

\* The dashboard's day, and its last fourteen.
attendance_today(b) == Figures(b.end, {r \in b.rows : r.at = Midnight(b.end)})
attendance_trend(b) ==
    ByDay({r \in b.rows : r.at >= Midnight(b.end) - Midnight(14)})

AttendancePage(b) ==
    [kind |-> "attendance", register |-> attendance_register(b),
     overall |-> overall_attendance(b),
     below |-> attendance_defaulters(b), daily |-> daily_attendance(b),
     summary |-> section_summary(b), letters |-> defaulters(b),
     month |-> {student_calendar(b, s) : s \in Named(b.rows)},
     profile |-> [s \in Named(b.rows) |-> attendance_summary(b, s)],
     days |-> [s \in Named(b.rows) |-> attendance_calendar(b, s)],
     today |-> attendance_today(b), trend |-> attendance_trend(b)]

-----------------------------------------------------------------------------
(* Fees.  A bill's number n tells equal bills apart; so do the others'.    *)

Charged(rows) == SumOf([i \in rows |-> i.total])
Paid(rows) == SumOf([i \in rows |-> i.paid])
Left(rows) == SumOf([i \in rows |-> i.total - i.paid])
Amount(rows) == SumOf([p \in rows |-> p.amount])
Standing(rows) == {i \in rows : i.status \notin {"draft", "cancelled"}}

UnlessOverdue(b) ==
    {i \in b.bills : i.status \in {"issued", "partially_paid"}
                     /\ i.total > i.paid}
fee_outstanding(b) ==
    {i \in b.bills : i.status \in {"issued", "partially_paid", "overdue"}
                     /\ i.total > i.paid}

fee_by_class(b) ==
    {LET rows == {i \in Standing(b.bills) : i.class = c}
     IN  [class |-> c, invoices |-> Cardinality(rows),
          billed |-> Charged(rows), collected |-> Paid(rows)] :
        c \in {i.class : i \in Standing(b.bills)}}

Received(b) == {p \in b.payments : p.status = "success"}
fee_collection(b) == {p \in Received(b) : _between(b, p.at)}
By(field) == [k \in Range(field) |-> {r \in DOMAIN field : field[r] = k}]

collection_summary(b) ==
    LET rows == fee_collection(b)
        methods == By([p \in rows |-> p.method])
        days == By([p \in rows |-> DayOfMoment(p.at)])
        statuses == By([i \in Standing(b.bills) |-> i.status])
    IN  [collected |-> SumOf([m \in DOMAIN methods |-> Amount(methods[m])]),
         by_day |-> [d \in DOMAIN days |-> Amount(days[d])],
         billed |-> SumOf([t \in DOMAIN statuses |-> Charged(statuses[t])]),
         paid |-> SumOf([t \in DOMAIN statuses |-> Paid(statuses[t])])]

fee_summary(b, s) ==
    LET mine == Of(s, b.bills)
    IN  [billed |-> Charged(Standing(mine)), paid |-> Paid(Standing(mine)),
         outstanding |-> Atleast0(Charged(Standing(mine))
                                  - Paid(Standing(mine))),
         overdue |-> Cardinality({i \in mine : i.status = "overdue"})]

\* The ledger adds up what was paid on cancelled bills too.
student_ledger(b, s) ==
    LET mine == Of(s, b.bills)
    IN  [billed |-> Charged(Standing(mine)), paid |-> Paid(mine)]

\* The dashboard of the office: money since the month began.
this_month(b) ==
    Amount({p \in Received(b) : p.at >= Midnight(b.start)})

\* A family's screens look a child up among those not deleted.
Children(b) == {s \in b.family : s \in DOMAIN b.students}
family_fee_account(b) ==
    [s \in Children(b) |-> fee_summary(b, s).outstanding]
total_outstanding(b) ==
    SumOf([s \in Children(b) |-> fee_summary(b, s).outstanding])

Active(b) == {s \in DOMAIN b.students : b.students[s].status = "active"}
student_roster(b) ==
    {[student |-> s, class |-> b.students[s].class,
      dues |-> b.students[s].outstanding] : s \in Active(b)}
student_demographics(b) == By([s \in Active(b) |-> b.students[s].class])

FeesPage(b) ==
    [kind |-> "fees", unpaid |-> fee_outstanding(b),
     classes |-> fee_by_class(b), receipts |-> fee_collection(b),
     collection |-> collection_summary(b), month |-> this_month(b),
     billed |-> Charged(Standing(b.bills)), paid |-> Paid(Standing(b.bills)),
     profile |-> [s \in DOMAIN b.students |-> fee_summary(b, s)],
     ledger |-> [s \in DOMAIN b.students |-> student_ledger(b, s)],
     account |-> family_fee_account(b), family |-> total_outstanding(b),
     roster |-> student_roster(b), strength |-> student_demographics(b)]

-----------------------------------------------------------------------------
(* Marks of one exam.  A figure not given is {}, one given is {n}.         *)

Given(x) == x # {}
Value(x) == IF x = {} THEN 0 ELSE CHOOSE n \in x : TRUE

exam_performance(b) ==
    {LET rows == {m \in b.marks : m.subject = j}
         given == {m \in rows : Given(m.obtained)}
     IN  [subject |-> j, students |-> Cardinality(rows),
          sat |-> Cardinality(given),
          obtained |-> SumOf([m \in given |-> Value(m.obtained)]),
          passed |-> Cardinality({m \in rows : m.is_pass})] :
        j \in {m.subject : m \in b.marks}}

\* Without a class, the one with the most marks.
MarksIn(b, c) == {m \in b.marks : m.class = c}
busiest(b) ==
    CHOOSE c \in {m.class : m \in b.marks} :
        \A d \in {m.class : m \in b.marks} :
            Cardinality(MarksIn(b, d)) <= Cardinality(MarksIn(b, c))
OnSheet(b) == MarksIn(b, IF Given(b.class) THEN Value(b.class)
                         ELSE busiest(b))

\* A mark not given is nought out of its maximum here.
SheetLine(s, rows) ==
    [student |-> s, obtained |-> SumOf([m \in rows |-> Value(m.obtained)]),
     outof |-> SumOf([m \in rows |-> m.max])]
Better(x, y) == x.obtained * y.outof > y.obtained * x.outof

\* Best first; equals in any order.
Ranked(lines) ==
    CHOOSE q \in Bijection(1..Cardinality(lines), lines) :
        \A i, j \in DOMAIN q : i < j => ~Better(q[j], q[i])
student_marksheet(b) ==
    IF b.marks = {} THEN <<>>
    ELSE Ranked({SheetLine(s, Of(s, OnSheet(b))) : s \in Named(OnSheet(b))})

\* On the profile it does not count, and a total stands before a mark.
Obtained(m) == IF Given(m.total) THEN m.total ELSE m.obtained
exam_results(b, s) ==
    LET given == {m \in Of(s, b.marks) : Given(Obtained(m))}
    IN  [student |-> s,
         obtained |-> SumOf([m \in given |-> Value(Obtained(m))]),
         outof |-> SumOf([m \in given |-> m.max])]

MarksPage(b) ==
    [kind |-> "marks", subjects |-> exam_performance(b),
     sheet |-> student_marksheet(b),
     profile |-> [s \in Named(b.marks) |-> exam_results(b, s)]]

-----------------------------------------------------------------------------
(* The library's loans, the buses and the enquiries.                       *)

\* A loan the sweep has not reached is shown as it will find it.
Late(b, l) == l.status = "issued" /\ l.due < b.today
library_circulation(b) ==
    {[n |-> l.n, status |-> IF Late(b, l) THEN "overdue" ELSE l.status] :
        l \in {k \in b.loans : _between(b, k.at)}}
mark_overdue_loans(b) ==
    [b EXCEPT !.loans = {IF Late(b, l) THEN [l EXCEPT !.status = "overdue"]
                         ELSE l : l \in b.loans}]

transport_usage(b) ==
    [r \in DOMAIN b.routes |->
        LET seated == {a \in b.seats : a.route = r /\ a.status = "active"}
        IN  [capacity |-> b.routes[r], students |-> Cardinality(seated),
             fare |-> SumOf([a \in seated |-> a.fare])]]

admission_funnel(b) ==
    LET asked == {e \in b.enquiries : _between(b, e.at)}
        at(stages) == {e.n : e \in {d \in asked : d.status \in stages}}
    IN  <<{e.n : e \in asked}, at({"contacted", "visited", "converted"}),
          at({"visited", "converted"}), at({"converted"}), at({"lost"})>>

DesksPage(b) ==
    [kind |-> "desks", loans |-> library_circulation(b),
     swept |-> library_circulation(mark_overdue_loans(b)),
     buses |-> transport_usage(b), funnel |-> admission_funnel(b)]

-----------------------------------------------------------------------------
(* What a book may hold.  A register has one row a pupil and day, dated at  *)
(* its midnight (db/indexes.py:117); a bill is paid at most what it is for, *)
(* and the figure kept on a pupil is what the bills leave; a mark is out of *)
(* something, and a pupil sits an exam in one class.                        *)

Kept(b) ==
    CASE b.kind = "attendance" ->
           /\ b.start \in Nat /\ b.end \in Nat /\ b.start <= b.end
           /\ b.threshold \in 0..100
           /\ IsFiniteSet(b.rows)
           /\ \A r \in b.rows : /\ r.at \in Nat
                                /\ r.at = Midnight(DayOfMoment(r.at))
           /\ \A q, r \in b.rows :
                q.student = r.student /\ q.at = r.at => q = r
      [] b.kind = "fees" ->
           /\ IsFiniteSet(b.bills) /\ IsFiniteSet(b.payments)
           /\ IsFiniteSet(DOMAIN b.students)
           /\ \A i \in b.bills :
                /\ i.total \in Nat /\ i.paid \in 0..i.total
                /\ i.status = "paid" => i.paid = i.total
                /\ i.status \in {"draft", "issued", "partially_paid",
                                 "overdue", "paid", "cancelled"}
                /\ i.student \in DOMAIN b.students
           /\ \A p \in b.payments : p.amount \in Nat
           /\ \A s \in DOMAIN b.students :
                b.students[s].outstanding = Left(Standing(Of(s, b.bills)))
      [] b.kind = "marks" ->
           /\ IsFiniteSet(b.marks)
           /\ \A m \in b.marks :
                /\ m.max \in Nat \ {0}
                /\ m.obtained \subseteq Nat
           /\ \A m, n \in b.marks : m.student = n.student => m.class = n.class
      [] b.kind = "desks" ->
           /\ {"loans", "today", "start", "end"} \subseteq DOMAIN b
           /\ \A l \in b.loans : {"n", "status", "due", "at"} \subseteq DOMAIN l
           /\ IsFiniteSet(b.seats) /\ IsFiniteSet(DOMAIN b.routes)
           /\ \A d, e \in b.enquiries : d.n = e.n => d = e
      [] OTHER -> FALSE
ASSUME ReportsAssumption == \A b \in Books : Kept(b)

build(b) == CASE b.kind = "attendance" -> AttendancePage(b)
              [] b.kind = "fees" -> FeesPage(b)
              [] b.kind = "marks" -> MarksPage(b)
              [] b.kind = "desks" -> DesksPage(b)

ReportsInit == book \in Books /\ page = [kind |-> "none"]
Draw == page.kind = "none" /\ page' = build(book) /\ UNCHANGED book

ReportsSpec == ReportsInit /\ [][Draw]_<<book, page>>

-----------------------------------------------------------------------------
Both(lines) == <<SumOf([l \in lines |-> l.total]),
                 SumOf([l \in lines |-> l.present])>>

\* However attendance is grouped it is the same attendance: by pupil and by
\* day, on the report and on the screen (for the days both cover), on the
\* month's calendar and the dashboard.  The report's own total is of the same
\* days, and leaves out the half days its lines count as present.  A letter
\* goes to whom the report names and to nobody else, but for a rate that the
\* report rounds up to the threshold, which takes two hundred days; asked with
\* nought, the letters go to nobody and the report names those below 75.  The
\* profile's own percentage is the report's where neither halves nor holidays
\* enter; and no holiday covers a mark (reports/service.py
\* attendance_register, attendance_defaulters, daily_attendance;
\* attendance/service.py section_summary, student_calendar, defaulters;
\* people/service.py attendance_summary, attendance_calendar).
AttendanceAgrees ==
    page.kind = "attendance" =>
        LET after == {r \in book.rows : r.at > Midnight(book.end)}
            plain == \A r \in book.rows :
                        r.status \notin NON_TEACHING \cup {"half_day"}
            halves == Marked(Reported(book), {"half_day"})
            line(s) == CHOOSE l \in page.register : l.of = s
        IN  /\ Both(page.register) = Both(page.daily)
            /\ Both(page.register) =
                 <<page.overall.days, page.overall.attended + halves>>
            /\ {l \in page.daily : l.of <= book.end} = page.summary.daily
            /\ Both(page.month) = <<page.summary.records,
                                    page.summary.present>>
            /\ page.letters = {l \in page.month : Below(l, book.threshold)}
            /\ after = {} /\ book.threshold # 0 =>
                 /\ page.below \subseteq page.letters
                 /\ \A l \in page.letters \ page.below : l.total >= 200
            /\ book.threshold = 0 => page.letters = {}
            /\ book.threshold \in {0, 75} =>
                 page.overall.below75 = Cardinality(page.below)
            /\ page.today.total > 0 =>
                 page.today \in page.daily \cap page.trend
            /\ plain /\ (\A r \in book.rows : _between(book, r.at)) =>
                 \A s \in Named(book.rows) :
                    /\ page.profile[s].total = line(s).total
                    /\ page.profile[s].halves = 2 * line(s).present
            /\ \A r \in book.rows : \A d \in page.days[r.student] :
                 d.day = DayOfMoment(r.at) => d.status = r.status

\* What is billed, paid and owed is one sum, class by class, status by status
\* and pupil by pupil; what is owed is what the unpaid bills leave, what the
\* family's screens ask for and what the roster keeps; and money received is
\* one sum by method, by day and by receipt.  The ledger differs by what was
\* paid on a bill that was then cancelled (reports/service.py fee_outstanding,
\* fee_by_class, fee_collection; fees/service.py collection_summary,
\* student_ledger; people/service.py fee_summary).
FeesAgree ==
    page.kind = "fees" =>
        LET owed == Left(page.unpaid)
            money == page.collection
            lapsed(s) == Paid({i \in Of(s, book.bills) :
                                  i.status \in {"draft", "cancelled"}})
            due(S) == SumOf([s \in S |-> page.profile[s].outstanding])
        IN  /\ money.billed = page.billed /\ money.paid = page.paid
            /\ page.billed = SumOf([c \in page.classes |-> c.billed])
            /\ page.paid = SumOf([c \in page.classes |-> c.collected])
            /\ owed = page.billed - page.paid
            /\ owed = due(DOMAIN page.profile)
            /\ \A s \in DOMAIN page.profile :
                 page.profile[s].outstanding =
                   page.ledger[s].billed - page.ledger[s].paid + lapsed(s)
            /\ page.family = due(DOMAIN page.account)
            /\ SumOf([l \in page.roster |-> l.dues]) = due(Active(book))
            /\ Cardinality(page.roster) =
                 SumOf([c \in DOMAIN page.strength |->
                           Cardinality(page.strength[c])])
            /\ money.collected = Amount(page.receipts)
            /\ money.collected = SumOf(money.by_day)
            /\ money.collected <= page.month

\* The class marksheet ranks one class, best first, on the marks the subjects
\* add up; the profile never shows less than the sheet, and shows the same
\* where every mark is in (reports/service.py student_marksheet,
\* exam_performance; people/service.py exam_results).
MarksAgree ==
    page.kind = "marks" =>
        LET sheet == page.sheet
            plain == \A m \in book.marks : ~Given(m.total)
            whole == \A m \in book.marks : Given(m.obtained)
            oneClass == Cardinality({m.class : m \in book.marks}) = 1
            shown(i) == page.profile[sheet[i].student]
        IN  /\ \A i, j \in DOMAIN sheet : Better(sheet[i], sheet[j]) => i < j
            /\ Cardinality({m.class : m \in {k \in book.marks :
                 \E i \in DOMAIN sheet : sheet[i].student = k.student}}) <= 1
            /\ oneClass /\ sheet # <<>> =>
                 SumOf([l \in page.subjects |-> l.obtained]) =
                 SumOf([i \in DOMAIN sheet |-> sheet[i].obtained])
            /\ plain => \A i \in DOMAIN sheet :
                 /\ shown(i).outof > 0 => ~Better(sheet[i], shown(i))
                 /\ whole => shown(i) = sheet[i]

\* A loan reads the same before the sweep and after it, everyone on a bus is
\* on one route, and nobody is further along than the stage before
\* (reports/service.py library_circulation, transport_usage,
\* admission_funnel).
DesksAgree ==
    page.kind = "desks" =>
        LET f == page.funnel
        IN  /\ page.loans = page.swept
            /\ SumOf([r \in DOMAIN page.buses |-> page.buses[r].students]) =
                 Cardinality({a \in book.seats : a.status = "active" /\
                                a.route \in DOMAIN book.routes})
            /\ f[4] \subseteq f[3] /\ f[3] \subseteq f[2]
            /\ f[2] \subseteq f[1]
            /\ f[5] \subseteq f[1] \ f[2]

\* What the screens that add up the same rows have to do with each other: the
\* same figures, or figures that differ by what is named above.
ReportsAgree == AttendanceAgrees /\ FeesAgree /\ MarksAgree /\ DesksAgree

\* Restating a day as holiday "takes the day out of the percentage"
\* (attendance/service.py:129-130), and "those days no longer count for or
\* against anyone" (164): nobody is on the list of letters for one.
DayOffCountsForNobody ==
    page.kind = "attendance" =>
        \A l \in page.letters :
            Below(Figures(l.of, {r \in Of(l.of, Screened(book)) :
                                    r.status \notin NON_TEACHING}),
                  book.threshold)
=============================================================================
