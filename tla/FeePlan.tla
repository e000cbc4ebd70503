------------------------------- MODULE FeePlan -------------------------------
(***************************************************************************)
(* A family's year of fees: the instalments their structures schedule, the *)
(* runs that bill them, and the plan the family reads between the two.     *)
(* Source: app/modules/fees/service.py.                                    *)
(*                                                                         *)
(* A day is a number; every month has MonthLength days and a due day is    *)
(* within them, so no date is clamped.  Money is in units a percentage     *)
(* divides.  A label is the triple <<cycle, which, year>> the text names.  *)
(***************************************************************************)
EXTENDS Integers, Sequences, FiniteSets, FiniteSetsExt, Functions

CONSTANTS
    Unset,
    MonthLength,
    Families,       \* student's facilities, structures' lines, year's start
    Concession,     \* discounts, and the student's own percentage
    LateFee,        \* per day, grace days, cap
    Cycles,         \* the runs the office makes, with their period index
    Sums,           \* what a family pays at once
    Strides,        \* days that pass between two things that happen
    MaxBills, LastDay                          \* bounds

INSTALMENTS == [monthly |-> 12, quarterly |-> 4, half_yearly |-> 2,
                semester |-> 2, yearly |-> 1, one_time |-> 1]
CYCLE_STRIDE == [monthly |-> 1, quarterly |-> 3, half_yearly |-> 6,
                 semester |-> 6, yearly |-> 12, one_time |-> 12]

\* "Unset" is no number; amounts, days and percentages are not negative.
ASSUME FeePlanAssumption ==
    /\ Unset \notin Int
    /\ MonthLength \in Nat \ {0} /\ MaxBills \in Nat /\ LastDay \in Nat
    /\ Sums \subseteq Nat \ {0} /\ Strides \subseteq Nat \ {0}
    /\ \A f \in Families :
         /\ f.start \in Nat
         /\ IsFiniteSet(DOMAIN f.lines)
         /\ \A k \in DOMAIN f.lines :
              /\ f.lines[k].amount \in Nat
              /\ f.lines[k].due_day \in Nat
              /\ f.lines[k].frequency \in DOMAIN INSTALMENTS
    /\ IsFiniteSet(Concession.discounts)
    /\ \A d \in Concession.discounts : d.value \in Nat
    /\ Concession.percent \in Nat
    /\ {LateFee.grace, LateFee.per_day, LateFee.cap} \subseteq Nat

VARIABLES
    date,
    family,         \* who this is about; never changes
    bills           \* invoices, in the order they were raised

planVars == <<date, family, bills>>

-----------------------------------------------------------------------------
Month(d) == ((d \div MonthLength) % 12) + 1
Year(d) == d \div (12 * MonthLength)
Or(x, otherwise) == IF x = Unset THEN otherwise ELSE x
Owing(n) == IF n < 0 THEN 0 ELSE n
Total(f) == SumFunction(f)

\* The label without the index: every run by the calendar.
ByTheCalendar(cycle, on, index) ==
    LET m == Month(on) - 1
    IN  <<cycle,
          CASE cycle = "monthly" -> m + 1
            [] cycle = "quarterly" -> m \div 3 + 1
            [] cycle \in {"half_yearly", "semester"} -> m \div 6 + 1
            [] OTHER -> 0,
          Year(on)>>

\* A monthly, yearly, one-time or whole-year label takes no index.
period_label_for(cycle, on, index) ==
    LET calendar == ByTheCalendar(cycle, on, index)
        which == Or(index, calendar[2])
    IN  CASE cycle \in {"quarterly", "semester"} ->
               <<cycle, which, Year(on)>>
          [] cycle = "half_yearly" ->
               <<cycle, IF which = 1 THEN 1 ELSE 2, Year(on)>>
          [] OTHER -> calendar

\* Facility lines follow the facility; the rest bill unless optional.
_student_is_billed_for(f, line) ==
    CASE line.head = "transport" -> f.uses_transport
      [] line.head = "hostel" -> f.is_hosteller
      [] OTHER -> ~line.is_optional

\* Fixed dates win over days before and after the due date.
_collection_window(line, due) ==
    IF line.collect_from # Unset \/ line.collect_until # Unset
    THEN [opens |-> line.collect_from, closes |-> line.collect_until]
    ELSE [opens |-> IF line.opens_days_before = Unset THEN Unset
                    ELSE due - line.opens_days_before,
          closes |-> IF line.closes_days_after = Unset THEN Unset
                     ELSE due + line.closes_days_after]

-----------------------------------------------------------------------------
\* The schedule.  An occasion is a line of the structures and the number of
\* one of its instalments.
Line(f, o) == f.lines[o[1]]
Occasions(f) ==
    {o \in (DOMAIN f.lines) \X (1..12) :
        /\ _student_is_billed_for(f, Line(f, o))
        /\ o[2] <= INSTALMENTS[Line(f, o).frequency]}
DueOn(f, o) ==
    LET line == Line(f, o)
    IN  f.start + (o[2] - 1) * CYCLE_STRIDE[line.frequency] * MonthLength
        + line.due_day - 1
LabelOf(f, o) == period_label_for(Line(f, o).frequency, DueOn(f, o), o[2])
WindowOf(f, o) == _collection_window(Line(f, o), DueOn(f, o))
Inside(w, d) == (w.opens # Unset => d >= w.opens)
                /\ (w.closes # Unset => d <= w.closes)

\* The occasions that share a label are one instalment: due when the first
\* line says, open from the earliest opening to the latest closing named.
First(S) == CHOOSE o \in S : \A p \in S : o[1] < p[1] \/
                                          (o[1] = p[1] /\ o[2] <= p[2])
Window(f, S) ==
    LET opens == {WindowOf(f, o).opens : o \in S} \ {Unset}
        closes == {WindowOf(f, o).closes : o \in S} \ {Unset}
    IN  [opens |-> IF opens = {} THEN Unset ELSE Min(opens),
         closes |-> IF closes = {} THEN Unset ELSE Max(closes)]
Instalment(f, label) ==
    LET S == {o \in Occasions(f) : LabelOf(f, o) = label}
    IN  [label |-> label, occasions |-> S,
         scheduled |-> Total([o \in S |-> Line(f, o).amount]),
         due |-> DueOn(f, First(S)), window |-> Window(f, S)]
Schedule == [f \in Families |->
    {Instalment(f, label) : label \in {LabelOf(f, o) : o \in Occasions(f)}}]

BillOf(label) == {i \in DOMAIN bills : bills[i].label = label}
StatusOf(x, bill) ==
    LET balance == Owing(bill.total - bill.paid)
    IN  IF balance > 0 /\ ~Inside(x.window, date)
        THEN IF x.window.closes # Unset /\ date > x.window.closes
             THEN "closed" ELSE "not_open_yet"
        ELSE IF balance <= 0 THEN "paid"
        ELSE IF x.due < date THEN "overdue"
        ELSE IF bill.paid > 0 THEN "partially_paid" ELSE "due"

\* An instalment as the family reads it: with the bill its label finds, or
\* still to come.
Entry(x, bill) ==
    LET balance == Owing(bill.total - bill.paid)
        open == Inside(x.window, date)
    IN  [label |-> x.label, scheduled |-> x.scheduled,
         occasions |-> x.occasions, raised |-> TRUE, billed |-> bill.total,
         paid |-> bill.paid, balance |-> balance, window_open |-> open,
         payable |-> balance > 0 /\ open, status |-> StatusOf(x, bill)]
Coming(x) ==
    [label |-> x.label, scheduled |-> x.scheduled,
     occasions |-> x.occasions, raised |-> FALSE, billed |-> 0, paid |-> 0,
     balance |-> x.scheduled, window_open |-> Inside(x.window, date),
     payable |-> FALSE, status |-> "scheduled"]
fee_plan ==
    {IF BillOf(x.label) = {} THEN Coming(x)
     ELSE Entry(x, bills[Max(BillOf(x.label))]) : x \in Schedule[family]}

Raised(plan) == {e \in plan : e.raised}
Totals(plan) ==
    LET balance(S) == Total([e \in S |-> e.balance])
        scheduled(S) == Total([e \in S |-> e.scheduled])
    IN  [year |-> scheduled(plan),
         billed |-> Total([e \in Raised(plan) |-> e.billed]),
         paid |-> Total([e \in plan |-> e.paid]),
         due_now |-> balance({e \in plan : e.payable}),
         awaiting_window |-> balance({e \in Raised(plan) :
                                 e.balance > 0 /\ ~e.window_open}),
         overdue |-> balance({e \in plan : e.status = "overdue"}),
         not_yet_raised |-> scheduled(plan \ Raised(plan))]

-----------------------------------------------------------------------------
\* Concessions stack and never exceed the line.
discount_for_line(line) ==
    LET those == {d \in Concession.discounts :
                     d.heads = {} \/ line.head \in d.heads}
        worth(d) == IF d.percentage
                    THEN (line.amount * Min({d.value, 100})) \div 100
                    ELSE d.value
    IN  Min({Total([d \in those |-> worth(d)]), line.amount})
Net(line) ==
    LET own == discount_for_line(line)
               + (line.amount * Concession.percent) \div 100
    IN  line.amount - Min({own, line.amount})

\* The structure's own due day where a monthly run's lines agree on one.
_due_date_for(cycle, lines) ==
    LET days == {family.lines[k].due_day : k \in lines}
    IN  IF cycle = "monthly" /\ Cardinality(days) = 1
        THEN (date \div MonthLength) * MonthLength + Min(days) - 1
        ELSE date + MonthLength \div 2

generate_invoices(cycle, index) ==
    LET billable == {k \in DOMAIN family.lines :
                        cycle \in {"all", family.lines[k].frequency}}
        label == period_label_for(cycle, date, index)
        lines == {k \in billable :
                     _student_is_billed_for(family, family.lines[k])}
        base == Total([k \in lines |-> Net(family.lines[k])])
    IN  /\ Len(bills) < MaxBills
        /\ billable # {}
        /\ BillOf(label) = {}
        /\ bills' = Append(bills,
             [label |-> label, cycle |-> cycle, index |-> index,
              raised |-> date, due |-> _due_date_for(cycle, billable),
              base |-> base, total |-> base, paid |-> 0,
              status |-> "issued"])
        /\ UNCHANGED <<date, family>>

\* Against one bill, up to its balance.
collect_payment(i, amount) ==
    LET balance == bills[i].total - bills[i].paid
        paid == bills[i].paid + Min({balance, amount})
    IN  /\ balance > 0
        /\ bills' = [bills EXCEPT ![i] =
             [bills[i] EXCEPT !.paid = paid,
                !.status = IF paid >= bills[i].total THEN "paid"
                           ELSE "partially_paid"]]
        /\ UNCHANGED <<date, family>>

\* A bill already overdue is not looked at again.
Overdue(b) == b.status \in {"issued", "partially_paid"} /\ b.due < date
WithLateFee(b) ==
    LET days == date - b.due - LateFee.grace
        fee == IF days <= 0 THEN 0
               ELSE Min({days * LateFee.per_day, LateFee.cap})
    IN  [b EXCEPT !.status = "overdue", !.total = b.base + fee]
mark_overdue ==
    /\ \E i \in DOMAIN bills : Overdue(bills[i])
    /\ bills' = [i \in DOMAIN bills |-> IF Overdue(bills[i])
                                        THEN WithLateFee(bills[i])
                                        ELSE bills[i]]
    /\ UNCHANGED <<date, family>>

Pass(days) ==
    /\ date + days <= LastDay
    /\ date' = date + days
    /\ UNCHANGED <<family, bills>>

PlanInit == /\ family \in Families
            /\ date = family.start
            /\ bills = <<>>
PlanNext ==
    \/ \E run \in Cycles : generate_invoices(run[1], run[2])
    \/ \E i \in DOMAIN bills, amount \in Sums : collect_payment(i, amount)
    \/ mark_overdue
    \/ \E days \in Strides : Pass(days)

PlanSpec == PlanInit /\ [][PlanNext]_planVars

-----------------------------------------------------------------------------
\* The outstanding the three screens show: the family's account, the
\* student's ledger, and the figure kept on the student.
AccountDue == Owing(Total([i \in DOMAIN bills |-> bills[i].total])
                    - Total([i \in DOMAIN bills |-> bills[i].paid]))
KeptDue == Total([i \in {j \in DOMAIN bills : bills[j].status # "paid"} |->
                     bills[i].total - bills[i].paid])

\* The year a plan shows is what the lines come to, each as often as its
\* frequency says; what is raised and open, or waiting for its window, is what
\* is unpaid of the bills found; what is called overdue can be paid; and the
\* plan never asks for more than the account owes (fees/service.py fee_plan,
\* family_fee_account, _refresh_outstanding).
PlanAddsUp ==
    LET plan == fee_plan
        totals == Totals(plan)
        theirs == {k \in DOMAIN family.lines :
                      _student_is_billed_for(family, family.lines[k])}
    IN  /\ totals.year = Total([k \in theirs |->
             family.lines[k].amount * INSTALMENTS[family.lines[k].frequency]])
        /\ totals.due_now + totals.awaiting_window
             = totals.billed - totals.paid
        /\ totals.overdue <= totals.due_now
        /\ totals.due_now + totals.awaiting_window <= AccountDue
        /\ AccountDue = KeptDue

\* A bill raised for an instalment, named by its number in the calendar year
\* it falls in, is the bill that instalment shows, and no other instalment
\* shows it (fees/service.py period_label_for, fee_plan).
BillFindsInstalment ==
    LET shown(b) == {e \in Raised(fee_plan) : e.label = b.label}
        meant(b) == {o \in Occasions(family) :
            /\ Line(family, o).frequency = b.cycle
            /\ Year(DueOn(family, o)) = Year(b.raised)
            /\ IF b.cycle = "monthly"
               THEN Month(DueOn(family, o)) = Month(b.raised)
               ELSE /\ Or(b.index, 1) = o[2]
                    /\ INSTALMENTS[b.cycle] > 1 => b.index # Unset}
    IN  \A i \in DOMAIN bills : meant(bills[i]) # {} =>
            /\ Cardinality(shown(bills[i])) = 1
            /\ \A e \in shown(bills[i]) : /\ e.billed = bills[i].total
                                         /\ meant(bills[i]) \subseteq e.occasions

\* The two together.
PlanInOrder == PlanAddsUp /\ BillFindsInstalment
=============================================================================
