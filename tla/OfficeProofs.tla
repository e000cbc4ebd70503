---------------------------- MODULE OfficeProofs ----------------------------
(***************************************************************************)
(* Theorems about the office: its payroll, for any number of clerks,       *)
(* periods and people and any salaries, with any request overlapping any   *)
(* other or failing at any of its calls; its screens, for any roles,       *)
(* sections, children, rows and years; a family's bills, for any fees,     *)
(* discounts, late fees and dates; and its figures, for any registers.     *)
(***************************************************************************)
EXTENDS Payroll, Access, FeePlan, Reports, SumTheorems

-----------------------------------------------------------------------------
(* What a request holds while it stands at one of its calls.               *)

Singles  == {{p} : p \in Periods}
Idling   == [period : {{}}, crossed : BOOLEAN]
Choosing == [period : Singles, crossed : BOOLEAN, chosen : SUBSET Staff,
             known : BOOLEAN]
Writing  == [period : Singles, crossed : BOOLEAN, todo : SUBSET Staff,
             due : [Staff -> Nat], count : Nat, net : Nat]
Marking  == [period : Singles, crossed : BOOLEAN, status : Frozen]

Calls == {"idle", "staff", "clear", "create", "slips", "mark", "stamp"}

JobTyped(h) ==
    /\ next[h] \in Calls
    /\ next[h] = "idle" => job[h] \in Idling
    /\ next[h] = "staff" => job[h] \in Choosing
    /\ next[h] \in {"clear", "create", "slips"} => job[h] \in Writing
    /\ next[h] \in {"mark", "stamp"} => job[h] \in Marking
    /\ next[h] \in {"clear", "slips", "mark", "stamp"} =>
         job[h].period \subseteq DOMAIN run
    /\ next[h] = "staff" /\ job[h].known => job[h].period \subseteq DOMAIN run
    /\ next[h] \in {"clear", "create"} => job[h].count = 0 /\ job[h].net = 0

\* A payslip is of a run that exists, and a draft has no figures.
PayrollTyped ==
    /\ DOMAIN run \subseteq Periods /\ run \in [DOMAIN run -> Run]
    /\ DOMAIN slip \subseteq (DOMAIN run) \X Staff /\ slip \in [DOMAIN slip -> Slip]
    /\ \A p \in Periods : IsFiniteSet(SlipsOf(p))
    /\ \A p \in DOMAIN run : run[p].status = "draft" => run[p].count = 0
    /\ roll \subseteq Staff /\ owed \in [Staff -> Nat]
    /\ next = [h \in Clerks |-> next[h]] /\ job = [h \in Clerks |-> job[h]]
    /\ \A h \in Clerks : JobTyped(h)
    /\ shaken \subseteq Periods /\ approvals \subseteq Periods

-----------------------------------------------------------------------------
(* The books of a period.                                                  *)

RunFigures(p) == /\ run[p].count = Cardinality(SlipsOf(p))
              /\ run[p].net = NetOf(p)

Statuses(p) ==
    \A s \in SlipsOf(p) :
        slip[<<p, s>>].status = IF run[p].status \in Frozen
                                THEN run[p].status ELSE "generated"

\* A period that is not shaken is in the hands of one request at most, and is
\* out of step only between the first and the last write of that request.
PeriodInOrder(p) ==
    p \notin shaken =>
        /\ \A h \in Serving(p) : ~job[h].crossed
        /\ /\ p \in DOMAIN run /\ run[p].status # "draft"
           /\ \A h \in Serving(p) : next[h] # "slips"
           => /\ RunFigures(p)
              /\ (\A h \in Serving(p) : next[h] # "stamp") => Statuses(p)

\* A request no other crossed has its period to itself; what it read of the
\* run is still so, and what it has counted is what it has written.
JobInOrder(h) ==
    ~AtRest(h) /\ ~job[h].crossed =>
        /\ \A g \in Clerks \ {h} : job[g].period # job[h].period
        /\ \A p \in Periods : job[h].period = {p} =>
             /\ next[h] \in {"staff", "clear", "create", "slips"} =>
                  (p \in DOMAIN run => run[p].status \notin Frozen)
             /\ next[h] = "slips" =>
                  /\ job[h].count = Cardinality(SlipsOf(p))
                  /\ job[h].net = NetOf(p)
                  /\ \A s \in SlipsOf(p) :
                       s \notin job[h].todo /\ slip[<<p, s>>].status = "generated"
             /\ next[h] = "mark" =>
                  /\ run[p].status # "draft"
                  /\ run[p].status \in Frozen => job[h].status = "paid"
             /\ next[h] = "stamp" => run[p].status = job[h].status

InOrder == /\ \A p \in Periods : PeriodInOrder(p)
           /\ \A h \in Clerks : JobInOrder(h)

\* What is approved or paid, or about to be paid, is of an approved period.
ApprovalsKnown ==
    /\ \A p \in DOMAIN run : run[p].status \in Frozen => p \in approvals
    /\ \A k \in DOMAIN slip : slip[k].status \in Frozen => k[1] \in approvals
    /\ \A h \in Clerks :
         next[h] = "stamp" \/ (next[h] = "mark" /\ job[h].status = "paid") =>
             job[h].period \subseteq approvals

-----------------------------------------------------------------------------
(* Typing.                                                                 *)

LEMMA PeriodIs ==
    ASSUME NEW h, NEW p \in Periods, job[h].period = {p}
    PROVE  Period(h) = p
<1>1. \A q \in Periods : job[h].period = {q} => q = p
  OBVIOUS
<1>2. QED
  BY <1>1 DEF Period

LEMMA ServedPeriod ==
    ASSUME PayrollTyped, NEW h \in Clerks, ~AtRest(h)
    PROVE  \E p \in Periods : job[h].period = {p} /\ Period(h) = p
<1>1. \E p \in Periods : job[h].period = {p}
  BY DEF PayrollTyped, JobTyped, AtRest, Calls, Choosing, Writing, Marking,
         Singles
<1>2. QED
  BY <1>1, PeriodIs

\* A step of h that leaves the jobs of the others alone, and every run there.
StepOf(h) ==
    /\ next' = [g \in Clerks |-> next'[g]] /\ job' = [g \in Clerks |-> job'[g]]
    /\ \A g \in Clerks \ {h} : next'[g] = next[g] /\ job'[g] = job[g]
    /\ DOMAIN run \subseteq DOMAIN run'

LEMMA OthersTyped ==
    ASSUME PayrollTyped, NEW h \in Clerks, StepOf(h), JobTyped(h)'
    PROVE  \A g \in Clerks : JobTyped(g)'
<1>1. ASSUME NEW g \in Clerks, g # h PROVE JobTyped(g)'
  BY <1>1 DEF PayrollTyped, StepOf, JobTyped
<1>2. QED
  BY <1>1

LEMMA IdleTyped ==
    ASSUME NEW h, next'[h] = "idle", job'[h] = NoJob
    PROVE  JobTyped(h)'
  BY DEF JobTyped, NoJob, Idling, Calls

LEMMA RestTyped == 
    ASSUME PayrollTyped, NEW h \in Clerks, Done(h)
    PROVE  /\ next' = [g \in Clerks |-> next'[g]] /\ job' = [g \in Clerks |-> job'[g]]
           /\ \A g \in Clerks \ {h} : next'[g] = next[g] /\ job'[g] = job[g]
           /\ JobTyped(h)'
           /\ next'[h] = "idle" /\ job'[h] = NoJob
<1>1. next'[h] = "idle" /\ job'[h] = NoJob
  BY DEF PayrollTyped, Done
<1>2. QED
  BY <1>1, IdleTyped DEF PayrollTyped, Done

\* The others keep what they hold; at most they learn that they are crossed.
LEMMA StartTyped ==
    ASSUME PayrollTyped, NEW h \in Clerks, NEW p, NEW label, NEW locals,
           Start(h, label, p, locals), UNCHANGED run,
           locals.period = {p}
    PROVE  /\ next' = [g \in Clerks |-> next'[g]] /\ job' = [g \in Clerks |-> job'[g]]
           /\ next'[h] = label /\ job'[h] = locals
           /\ \A g \in Clerks \ {h} :
                /\ next'[g] = next[g] /\ job'[g].period = job[g].period
                /\ IF g \in Serving(p) THEN job'[g].crossed ELSE job'[g] = job[g]
                /\ JobTyped(g)'
<1>1. /\ next' = [g \in Clerks |-> next'[g]] /\ job' = [g \in Clerks |-> job'[g]]
      /\ next'[h] = label /\ job'[h] = locals
      /\ \A g \in Clerks \ {h} : next'[g] = next[g]
  BY DEF PayrollTyped, Start
<1>2. ASSUME NEW g \in Clerks, g # h
      PROVE  /\ job'[g].period = job[g].period
             /\ IF g \in Serving(p) THEN job'[g].crossed ELSE job'[g] = job[g]
             /\ JobTyped(g)'
  <2> DEFINE crossed == job[g].crossed \/ g \in Serving(p)
             old == job[g]
  <2>1. job'[g] = [old EXCEPT !.crossed = crossed]
    BY <1>2 DEF Start
  <2>2. JobTyped(g) /\ crossed \in BOOLEAN /\ old.crossed \in BOOLEAN
    BY DEF PayrollTyped, JobTyped, Calls, Idling, Choosing, Writing, Marking
  <2>3. g \notin Serving(p) => crossed = old.crossed
    BY <2>2
  <2>4. g \in Serving(p) => crossed
    OBVIOUS
  <2>5. next'[g] = next[g] /\ run' = run
    BY <1>1, <1>2
  <2> HIDE DEF crossed
  <2>6. ASSUME old \in Idling
        PROVE  /\ job'[g] \in Idling
               /\ job'[g].period = old.period /\ job'[g].crossed = crossed
               /\ crossed = old.crossed => job'[g] = old
    BY <2>1, <2>2, <2>6 DEF Idling
  <2>7. ASSUME old \in Choosing
        PROVE  /\ job'[g] \in Choosing /\ job'[g].known = old.known
               /\ job'[g].period = old.period /\ job'[g].crossed = crossed
               /\ crossed = old.crossed => job'[g] = old
    BY <2>1, <2>2, <2>7 DEF Choosing
  <2>8. ASSUME old \in Writing
        PROVE  /\ job'[g] \in Writing
               /\ job'[g].count = old.count /\ job'[g].net = old.net
               /\ job'[g].period = old.period /\ job'[g].crossed = crossed
               /\ crossed = old.crossed => job'[g] = old
    BY <2>1, <2>2, <2>8 DEF Writing
  <2>9. ASSUME old \in Marking
        PROVE  /\ job'[g] \in Marking
               /\ job'[g].period = old.period /\ job'[g].crossed = crossed
               /\ crossed = old.crossed => job'[g] = old
    BY <2>1, <2>2, <2>9 DEF Marking
  <2>10. old \in Idling \/ old \in Choosing \/ old \in Writing \/ old \in Marking
    BY <2>2 DEF JobTyped, Calls
  <2>11. /\ job'[g].period = old.period /\ job'[g].crossed = crossed
         /\ crossed = old.crossed => job'[g] = old
    BY <2>6, <2>7, <2>8, <2>9, <2>10
  <2>12. JobTyped(g)'
    BY <2>2, <2>5, <2>6, <2>7, <2>8, <2>9 DEF JobTyped
  <2>13. QED
    BY <2>3, <2>4, <2>11, <2>12
<1>3. QED
  BY <1>1, <1>2

\* What a step that begins nothing must do for PayrollTyped to hold.
LEMMA TypedByParts ==
    ASSUME PayrollTyped, NEW h \in Clerks, StepOf(h), JobTyped(h)',
           DOMAIN run' \subseteq Periods, run' \in [DOMAIN run' -> Run],
           \A p \in DOMAIN run' : run'[p].status = "draft" => run'[p].count = 0,
           DOMAIN slip' \subseteq (DOMAIN run') \X Staff,
           slip' \in [DOMAIN slip' -> Slip],
           \A p \in Periods : IsFiniteSet(SlipsOf(p)'),
           UNCHANGED <<roll, owed>>, shaken' \subseteq Periods,
           approvals' \subseteq Periods
    PROVE  PayrollTyped'
<1>1. (\A g \in Clerks : JobTyped(g))'
  BY OthersTyped
<1>2. (\A p \in Periods : IsFiniteSet(SlipsOf(p)))'
  OBVIOUS
<1>3. QED
  BY <1>1, <1>2 DEF PayrollTyped, StepOf

\* A step that leaves the books alone.
LEMMA BooksLeft ==
    ASSUME PayrollTyped, NEW h \in Clerks, StepOf(h), JobTyped(h)',
           UNCHANGED <<run, slip, roll, owed>>, shaken' \subseteq Periods,
           approvals' \subseteq Periods
    PROVE  PayrollTyped'
<1>1. \A p \in Periods : IsFiniteSet(SlipsOf(p)')
  BY DEF PayrollTyped, SlipsOf
<1>2. QED
  BY <1>1, TypedByParts DEF PayrollTyped

LEMMA ReadStaffTyped ==
    ASSUME PayrollTyped, NEW h \in Clerks, ReadStaff(h)
    PROVE  PayrollTyped'
<1> DEFINE members == roll \cap job[h].chosen
           todo == {s \in members : owed[s] > 0}
<1>1. CASE members = {}
  <2>1. Done(h)
    BY <1>1 DEF ReadStaff
  <2>2. StepOf(h) /\ JobTyped(h)'
    BY <2>1, RestTyped DEF ReadStaff, StepOf
  <2>3. QED
    BY <2>2, BooksLeft DEF ReadStaff, PayrollTyped
<1>2. CASE members # {}
  <2> DEFINE label == IF job[h].known THEN "clear" ELSE "create"
             new == [period |-> job[h].period, crossed |-> job[h].crossed,
                     todo |-> todo, due |-> owed, count |-> 0, net |-> 0]
  <2>1. next' = [next EXCEPT ![h] = label] /\ job' = [job EXCEPT ![h] = new]
    BY <1>2 DEF ReadStaff, Go
  <2>2. job[h] \in Choosing /\ (job[h].known => job[h].period \subseteq DOMAIN run)
    BY DEF ReadStaff, PayrollTyped, JobTyped
  <2>3. todo \subseteq Staff /\ owed \in [Staff -> Nat]
    BY DEF PayrollTyped
  <2> HIDE DEF todo
  <2>4. new \in Writing
    BY <2>2, <2>3 DEF Choosing, Writing
  <2>5. new.count = 0 /\ new.net = 0 /\ new.period = job[h].period
    OBVIOUS
  <2> HIDE DEF new
  <2>6. StepOf(h) /\ next'[h] = label /\ job'[h] = new /\ run' = run
    BY <2>1 DEF PayrollTyped, ReadStaff, StepOf
  <2>7. JobTyped(h)'
    BY <2>2, <2>4, <2>5, <2>6 DEF JobTyped, Calls
  <2>8. QED
    BY <2>6, <2>7, BooksLeft DEF ReadStaff, PayrollTyped
<1>3. QED
  BY <1>1, <1>2

LEMMA ClearSlipsTyped ==
    ASSUME PayrollTyped, NEW h \in Clerks, ClearSlips(h)
    PROVE  PayrollTyped'
<1>1. PICK p \in Periods : job[h].period = {p} /\ Period(h) = p
  BY ServedPeriod DEF ClearSlips, AtRest
<1>2. /\ StepOf(h) /\ next'[h] = "slips" /\ job'[h] = job[h] /\ run' = run
      /\ next[h] = "clear"
  BY DEF ClearSlips, Go, PayrollTyped, StepOf
<1>3. JobTyped(h)'
  BY <1>2 DEF PayrollTyped, JobTyped, Calls
<1>4. /\ DOMAIN slip' \subseteq DOMAIN slip
      /\ slip' \in [DOMAIN slip' -> Slip]
      /\ shaken' \subseteq Periods
  BY <1>1 DEF ClearSlips, PayrollTyped, SlipsOfOthers
<1>5. ASSUME NEW q \in Periods PROVE IsFiniteSet(SlipsOf(q)')
  <2>1. SlipsOf(q)' \subseteq SlipsOf(q)
    BY <1>4 DEF SlipsOf
  <2>2. QED
    BY <2>1, FS_Subset DEF PayrollTyped
<1>6. QED
  BY <1>2, <1>3, <1>4, <1>5, TypedByParts DEF PayrollTyped, ClearSlips

LEMMA CreateRunTyped ==
    ASSUME PayrollTyped, NEW h \in Clerks, CreateRun(h)
    PROVE  PayrollTyped'
<1>1. PICK p \in Periods : job[h].period = {p} /\ Period(h) = p
  BY ServedPeriod DEF CreateRun, AtRest
<1>2. CASE p \in DOMAIN run
  <2>1. Done(h) /\ UNCHANGED <<run, slip, roll, owed, shaken, approvals>>
    BY <1>1, <1>2 DEF CreateRun
  <2>2. StepOf(h) /\ JobTyped(h)'
    BY <2>1, RestTyped DEF StepOf
  <2>3. QED
    BY <2>1, <2>2, BooksLeft DEF PayrollTyped
<1>3. CASE p \notin DOMAIN run
  <2> DEFINE draft == [status |-> "draft", count |-> 0, net |-> 0]
  <2>1. /\ run' = [q \in DOMAIN run \cup {p} |-> IF q = p THEN draft ELSE run[q]]
        /\ Go(h, "slips") /\ UNCHANGED <<job, slip, roll, owed, shaken, approvals>>
        /\ next[h] = "create"
    BY <1>1, <1>3 DEF CreateRun
  <2>2. draft \in Run /\ draft.count = 0
    BY DEF Run
  <2> HIDE DEF draft
  <2>3. /\ DOMAIN run' = DOMAIN run \cup {p} /\ run' \in [DOMAIN run' -> Run]
        /\ \A q \in DOMAIN run' : run'[q].status = "draft" => run'[q].count = 0
    BY <2>1, <2>2 DEF PayrollTyped
  <2>4. /\ StepOf(h) /\ next'[h] = "slips" /\ job'[h] = job[h]
    BY <2>1, <2>3 DEF Go, PayrollTyped, StepOf
  <2>5. JobTyped(h)'
    BY <1>1, <2>1, <2>3, <2>4 DEF PayrollTyped, JobTyped, Calls
  <2>6. \A q \in Periods : IsFiniteSet(SlipsOf(q)')
    BY <2>1 DEF PayrollTyped, SlipsOf
  <2>7. DOMAIN slip' \subseteq (DOMAIN run') \X Staff
    BY <2>1, <2>3 DEF PayrollTyped
  <2>8. DOMAIN run' \subseteq Periods /\ slip' \in [DOMAIN slip' -> Slip]
        /\ UNCHANGED <<roll, owed>> /\ shaken' \subseteq Periods
        /\ approvals' \subseteq Periods
    BY <2>1, <2>3 DEF PayrollTyped
  <2>9. QED
    BY <2>3, <2>4, <2>5, <2>6, <2>7, <2>8, TypedByParts
<1>4. QED
  BY <1>2, <1>3

\* The payslips of a period gain s when s is written.
LEMMA SlipsWithOneMore ==
    ASSUME NEW p, NEW s \in Staff, DOMAIN slip' = DOMAIN slip \cup {<<p, s>>}
    PROVE  /\ SlipsOf(p)' = SlipsOf(p) \cup {s}
           /\ \A q : q # p => SlipsOf(q)' = SlipsOf(q)
  BY DEF SlipsOf

LEMMA WriteSlipTyped ==
    ASSUME PayrollTyped, NEW h \in Clerks, WriteSlip(h)
    PROVE  PayrollTyped'
<1>1. PICK p \in Periods : job[h].period = {p} /\ Period(h) = p
  BY ServedPeriod DEF WriteSlip, AtRest
<1>2. /\ next[h] = "slips" /\ job[h] \in Writing /\ p \in DOMAIN run
      /\ UNCHANGED <<run, roll, owed, shaken, approvals>>
  BY <1>1 DEF WriteSlip, PayrollTyped, JobTyped
<1>3. PICK s \in job[h].todo :
        IF <<p, s>> \in DOMAIN slip THEN Done(h) /\ UNCHANGED slip ELSE
          /\ slip' = [k \in DOMAIN slip \cup {<<p, s>>} |->
               IF k = <<p, s>> THEN [net |-> job[h].due[s], status |-> "generated"]
               ELSE slip[k]]
          /\ job' = [job EXCEPT ![h].todo = job[h].todo \ {s},
                                ![h].count = job[h].count + 1,
                                ![h].net = job[h].net + job[h].due[s]]
          /\ UNCHANGED next
  BY <1>1 DEF WriteSlip
<1>4. s \in Staff /\ job[h].due[s] \in Nat
  BY <1>2, <1>3 DEF Writing
<1>5. CASE <<p, s>> \in DOMAIN slip
  <2>1. Done(h) /\ UNCHANGED slip
    BY <1>3, <1>5
  <2>2. StepOf(h) /\ JobTyped(h)'
    BY <1>2, <2>1, RestTyped DEF StepOf
  <2>3. QED
    BY <1>2, <2>1, <2>2, BooksLeft DEF PayrollTyped
<1>6. CASE <<p, s>> \notin DOMAIN slip
  <2> DEFINE new == [net |-> job[h].due[s], status |-> "generated"]
  <2>1. new \in Slip
    BY <1>4 DEF Slip
  <2>2. /\ slip' = [k \in DOMAIN slip \cup {<<p, s>>} |->
               IF k = <<p, s>> THEN new ELSE slip[k]]
        /\ job' = [job EXCEPT ![h].todo = job[h].todo \ {s},
                              ![h].count = job[h].count + 1,
                              ![h].net = job[h].net + job[h].due[s]]
        /\ UNCHANGED next
    BY <1>3, <1>6
  <2> HIDE DEF new
  <2>3. /\ DOMAIN slip' = DOMAIN slip \cup {<<p, s>>}
        /\ slip' \in [DOMAIN slip' -> Slip]
        /\ DOMAIN slip' \subseteq (DOMAIN run') \X Staff
    BY <1>2, <1>4, <2>1, <2>2 DEF PayrollTyped
  <2>4. StepOf(h) /\ next'[h] = "slips"
    BY <1>2, <2>2 DEF PayrollTyped, StepOf
  <2>5. job'[h] \in Writing /\ job'[h].period = job[h].period
    <3>1. job'[h] = [job[h] EXCEPT !.todo = job[h].todo \ {s},
                                   !.count = job[h].count + 1,
                                   !.net = job[h].net + job[h].due[s]]
      BY <2>2 DEF PayrollTyped
    <3>2. job[h].count + 1 \in Nat /\ job[h].net + job[h].due[s] \in Nat
          /\ job[h].todo \ {s} \in SUBSET Staff
      BY <1>2, <1>4 DEF Writing
    <3>3. QED
      BY <1>2, <3>1, <3>2 DEF Writing
  <2>6. JobTyped(h)'
    BY <1>1, <1>2, <2>4, <2>5 DEF JobTyped, Calls
  <2>7. ASSUME NEW q \in Periods PROVE IsFiniteSet(SlipsOf(q)')
    <3>1. SlipsOf(q)' = SlipsOf(q) \/ SlipsOf(q)' = SlipsOf(q) \cup {s}
      BY <1>4, <2>3, SlipsWithOneMore
    <3>2. IsFiniteSet(SlipsOf(q))
      BY DEF PayrollTyped
    <3>3. QED
      BY <3>1, <3>2, FS_AddElement
  <2>8. QED
    BY <1>2, <2>3, <2>4, <2>6, <2>7, TypedByParts DEF PayrollTyped
<1>7. QED
  BY <1>5, <1>6

LEMMA WriteTotalsTyped ==
    ASSUME PayrollTyped, NEW h \in Clerks, WriteTotals(h)
    PROVE  PayrollTyped'
<1>1. PICK p \in Periods : job[h].period = {p} /\ Period(h) = p
  BY ServedPeriod DEF WriteTotals, AtRest
<1> DEFINE new == [status |-> "processing", count |-> job[h].count,
                   net |-> job[h].net]
<1>2. /\ run' = [run EXCEPT ![p] = new] /\ Done(h)
      /\ UNCHANGED <<slip, roll, owed, shaken, approvals>> /\ next[h] = "slips"
  BY <1>1 DEF WriteTotals
<1>3. job[h].count \in Nat /\ job[h].net \in Nat
  BY <1>2 DEF PayrollTyped, JobTyped, Writing
<1>4. new \in Run /\ new.status = "processing"
  BY <1>3 DEF Run
<1> HIDE DEF new
<1>5. /\ DOMAIN run' = DOMAIN run /\ run' \in [DOMAIN run' -> Run]
      /\ \A q \in DOMAIN run' : run'[q].status = "draft" => run'[q].count = 0
  BY <1>2, <1>4 DEF PayrollTyped
<1>6. StepOf(h) /\ JobTyped(h)'
  BY <1>2, <1>5, RestTyped DEF StepOf
<1>7. \A q \in Periods : IsFiniteSet(SlipsOf(q)')
  BY <1>2 DEF PayrollTyped, SlipsOf
<1>8. QED
  BY <1>2, <1>5, <1>6, <1>7, TypedByParts DEF PayrollTyped

LEMMA MarkRunTyped ==
    ASSUME PayrollTyped, NEW h \in Clerks, MarkRun(h)
    PROVE  PayrollTyped'
<1>1. PICK p \in Periods : job[h].period = {p} /\ Period(h) = p
  BY ServedPeriod DEF MarkRun, AtRest
<1>2. /\ run' = [run EXCEPT ![p].status = job[h].status] /\ Go(h, "stamp")
      /\ UNCHANGED <<slip, roll, owed, job, shaken>> /\ next[h] = "mark"
      /\ approvals' \subseteq approvals \cup {p}
  BY <1>1 DEF MarkRun
<1>3. job[h] \in Marking /\ job[h].status \in Frozen
  BY <1>2 DEF PayrollTyped, JobTyped, Marking
<1>4. /\ DOMAIN run' = DOMAIN run /\ run' \in [DOMAIN run' -> Run]
      /\ \A q \in DOMAIN run' : run'[q].status = "draft" => run'[q].count = 0
  BY <1>2, <1>3 DEF PayrollTyped, Run, Frozen
<1>5. StepOf(h) /\ next'[h] = "stamp" /\ job'[h] = job[h]
  BY <1>2, <1>4 DEF Go, PayrollTyped, StepOf
<1>6. JobTyped(h)'
  BY <1>2, <1>3, <1>4, <1>5 DEF PayrollTyped, JobTyped, Calls
<1>7. \A q \in Periods : IsFiniteSet(SlipsOf(q)')
  BY <1>2 DEF PayrollTyped, SlipsOf
<1>8. QED
  BY <1>2, <1>4, <1>5, <1>6, <1>7, TypedByParts DEF PayrollTyped

LEMMA StampSlipsTyped ==
    ASSUME PayrollTyped, NEW h \in Clerks, StampSlips(h)
    PROVE  PayrollTyped'
<1>1. PICK p \in Periods : job[h].period = {p} /\ Period(h) = p
  BY ServedPeriod DEF StampSlips, AtRest
<1>2. /\ slip' = [k \in DOMAIN slip |->
               IF k[1] = p THEN [slip[k] EXCEPT !.status = job[h].status]
               ELSE slip[k]]
      /\ Done(h) /\ UNCHANGED <<run, roll, owed, shaken, approvals>>
      /\ next[h] = "stamp"
  BY <1>1 DEF StampSlips
<1>3. job[h].status \in Frozen
  BY <1>2 DEF PayrollTyped, JobTyped, Marking
<1>4. DOMAIN slip' = DOMAIN slip /\ slip' \in [DOMAIN slip' -> Slip]
  BY <1>2, <1>3 DEF PayrollTyped, Slip
<1>5. StepOf(h) /\ JobTyped(h)'
  BY <1>2, RestTyped DEF StepOf
<1>6. \A q \in Periods : IsFiniteSet(SlipsOf(q)')
  BY <1>4 DEF PayrollTyped, SlipsOf
<1>7. QED
  BY <1>2, <1>4, <1>5, <1>6, TypedByParts DEF PayrollTyped

LEMMA BeginTyped ==
    ASSUME PayrollTyped, NEW h \in Clerks, NEW p \in Periods,
           NEW chosen \in SUBSET Staff, NEW status \in Frozen,
           BeginGenerate(h, p, chosen) \/ BeginMark(h, p, status)
    PROVE  PayrollTyped'
<1> DEFINE choosing == [period |-> {p}, crossed |-> Serving(p) # {},
                        chosen |-> chosen, known |-> p \in DOMAIN run]
           marking  == [period |-> {p}, crossed |-> Serving(p) # {},
                        status |-> status]
<1>1. PICK label, locals :
        /\ Start(h, label, p, locals) /\ locals.period = {p}
        /\ UNCHANGED <<run, slip, roll, owed, approvals>>
        /\ \/ /\ label = "staff" /\ locals \in Choosing
              /\ locals.known => {p} \subseteq DOMAIN run
           \/ label = "mark" /\ locals \in Marking /\ {p} \subseteq DOMAIN run
  <2>1. CASE BeginGenerate(h, p, chosen)
    <3>1. choosing \in Choosing /\ choosing.period = {p}
          /\ (choosing.known => {p} \subseteq DOMAIN run)
      <4> DEFINE crossed == Serving(p) # {}
                 known == p \in DOMAIN run
      <4>1. crossed \in BOOLEAN /\ known \in BOOLEAN /\ {p} \in Singles
            /\ (known => {p} \subseteq DOMAIN run)
        BY DEF Singles
      <4> HIDE DEF crossed, known
      <4>2. QED
        BY <4>1 DEF Choosing
    <3>2. QED
      BY <2>1, <3>1 DEF BeginGenerate
  <2>2. CASE BeginMark(h, p, status)
    <3>1. marking \in Marking /\ marking.period = {p}
      BY DEF Marking, Singles
    <3>2. QED
      BY <2>2, <3>1 DEF BeginMark
  <2>3. QED
    BY <2>1, <2>2
<1>2. /\ next' = [g \in Clerks |-> next'[g]] /\ job' = [g \in Clerks |-> job'[g]]
      /\ next'[h] = label /\ job'[h] = locals
      /\ \A g \in Clerks \ {h} : JobTyped(g)'
  BY <1>1, StartTyped
<1>3. JobTyped(h)'
  BY <1>1, <1>2 DEF JobTyped, Calls
<1>4. (\A g \in Clerks : JobTyped(g))'
  BY <1>2, <1>3
<1>5. (\A q \in Periods : IsFiniteSet(SlipsOf(q)))'
  BY <1>1 DEF PayrollTyped, SlipsOf
<1>6. shaken' \subseteq Periods
  BY <1>1 DEF PayrollTyped, Start
<1>7. QED
  BY <1>1, <1>2, <1>4, <1>5, <1>6 DEF PayrollTyped

LEMMA FailTyped ==
    ASSUME PayrollTyped, NEW h \in Clerks, Fail(h)
    PROVE  PayrollTyped'
<1>1. PICK p \in Periods : job[h].period = {p} /\ Period(h) = p
  BY ServedPeriod DEF Fail
<1>2. StepOf(h) /\ JobTyped(h)'
  BY RestTyped DEF StepOf, Fail
<1>3. shaken' \subseteq Periods
  BY <1>1 DEF PayrollTyped, Fail
<1>4. QED
  BY <1>2, <1>3, BooksLeft DEF PayrollTyped, Fail

LEMMA ReviseTyped ==
    ASSUME PayrollTyped, Revise \/ UNCHANGED payroll
    PROVE  PayrollTyped'
<1>1. UNCHANGED <<run, slip, next, job, shaken, approvals>>
  BY DEF Revise, payroll
<1>2. roll' \subseteq Staff /\ owed' \in [Staff -> Nat]
  BY PayrollAssumption DEF PayrollTyped, PayrollAssumption, Revise, payroll
<1>3. (\A h \in Clerks : JobTyped(h))' /\ (\A p \in Periods : IsFiniteSet(SlipsOf(p)))'
  BY <1>1 DEF PayrollTyped, JobTyped, SlipsOf
<1>4. QED
  BY <1>1, <1>2, <1>3 DEF PayrollTyped

LEMMA PayrollTypedInit == PayrollInit => PayrollTyped
<1> SUFFICES ASSUME PayrollInit PROVE PayrollTyped
  OBVIOUS
<1>1. \A h \in Clerks : JobTyped(h)
  BY DEF PayrollInit, JobTyped, NoJob, Idling, Calls
<1>2. ASSUME NEW p \in Periods PROVE IsFiniteSet(SlipsOf(p))
  <2>1. SlipsOf(p) = {}
    BY DEF PayrollInit, SlipsOf
  <2>2. QED
    BY <2>1, FS_EmptySet
<1>3. owed \in [Staff -> Nat]
  BY PayrollAssumption DEF PayrollInit, PayrollAssumption
<1>4. QED
  BY <1>1, <1>2, <1>3 DEF PayrollInit, PayrollTyped

LEMMA PayrollTypedStep ==
    PayrollTyped /\ [PayrollNext]_payroll => PayrollTyped'
<1> SUFFICES ASSUME PayrollTyped, [PayrollNext]_payroll PROVE PayrollTyped'
  OBVIOUS
<1>1. ASSUME NEW h \in Clerks, Serve(h) PROVE PayrollTyped'
  <2>1. CASE \E p \in Periods, chosen \in SUBSET Staff \ {{}} :
               BeginGenerate(h, p, chosen)
    <3>1. "paid" \in Frozen
      BY DEF Frozen
    <3>2. QED
      BY <2>1, <3>1, BeginTyped
  <2>2. CASE \E p \in Periods, status \in Frozen : BeginMark(h, p, status)
    BY <2>2, BeginTyped
  <2>3. CASE ReadStaff(h) \/ ClearSlips(h) \/ CreateRun(h) \/ WriteSlip(h)
    BY <2>3, ReadStaffTyped, ClearSlipsTyped, CreateRunTyped, WriteSlipTyped
  <2>4. CASE WriteTotals(h) \/ MarkRun(h) \/ StampSlips(h)
    BY <2>4, WriteTotalsTyped, MarkRunTyped, StampSlipsTyped
  <2>5. QED
    BY <1>1, <2>1, <2>2, <2>3, <2>4 DEF Serve
<1>2. QED
  BY <1>1, ReviseTyped, FailTyped DEF PayrollNext

-----------------------------------------------------------------------------
(* InOrder.                                                                *)

\* A step of h that concerns period p alone.  The requests it finds there are
\* crossed.
Touches(h, p) ==
    /\ job[h].period \in {{}, {p}} /\ job'[h].period \in {{}, {p}}
    /\ \A g \in Clerks \ {h} :
         /\ next'[g] = next[g] /\ job'[g].period = job[g].period
         /\ IF job[g].period = {p} THEN job'[g].crossed ELSE job'[g] = job[g]
    /\ \A q \in Periods \ {p} :
         /\ q \in DOMAIN run' <=> q \in DOMAIN run
         /\ q \in DOMAIN run => run'[q] = run[q]
         /\ SlipsOf(q)' = SlipsOf(q)
         /\ \A s \in SlipsOf(q) : slip'[<<q, s>>] = slip[<<q, s>>]
         /\ q \in shaken' <=> q \in shaken

LEMMA NetLeft ==
    ASSUME NEW q, SlipsOf(q)' = SlipsOf(q),
           \A s \in SlipsOf(q) : slip'[<<q, s>>].net = slip[<<q, s>>].net
    PROVE  NetOf(q)' = NetOf(q)
<1>1. [s \in SlipsOf(q)' |-> slip'[<<q, s>>].net]
        = [s \in SlipsOf(q) |-> slip[<<q, s>>].net]
  OBVIOUS
<1>2. QED
  BY <1>1 DEF NetOf

LEMMA OtherPeriodsInOrder ==
    ASSUME PayrollTyped, InOrder, NEW h \in Clerks, NEW p \in Periods,
           Touches(h, p), NEW q \in Periods \ {p}
    PROVE  PeriodInOrder(q)'
<1>1. Serving(q)' = Serving(q) /\ h \notin Serving(q)
  BY DEF Touches, Serving
<1>2. \A g \in Serving(q) : g \in Clerks \ {h} /\ job[g].period # {p}
  BY <1>1 DEF Serving
<1>3. \A g \in Serving(q) : next'[g] = next[g] /\ job'[g] = job[g]
  BY <1>2 DEF Touches
<1>4. NetOf(q)' = NetOf(q)
  BY NetLeft DEF Touches
<1>5. RunFigures(q) /\ q \in DOMAIN run => RunFigures(q)'
  BY <1>4 DEF RunFigures, Touches
<1>6. Statuses(q) /\ q \in DOMAIN run => Statuses(q)'
  BY DEF Statuses, Touches
<1>7. PeriodInOrder(q)
  BY DEF InOrder
<1>8. QED
  BY <1>1, <1>3, <1>5, <1>6, <1>7 DEF PeriodInOrder, Touches

LEMMA OtherJobsInOrder ==
    ASSUME PayrollTyped, InOrder, NEW h \in Clerks, NEW p \in Periods,
           Touches(h, p), NEW g \in Clerks \ {h}
    PROVE  JobInOrder(g)'
<1>1. SUFFICES ASSUME next'[g] # "idle", ~job'[g].crossed
               PROVE  JobInOrder(g)'
  BY DEF JobInOrder, AtRest
<1>2. next'[g] = next[g] /\ job'[g] = job[g] /\ job[g].period # {p}
  BY <1>1 DEF Touches
<1>3. PICK q \in Periods : job[g].period = {q}
  BY <1>1, <1>2, ServedPeriod DEF AtRest
<1>4. JobInOrder(g) /\ q \in Periods \ {p}
  BY <1>2, <1>3 DEF InOrder
<1>5. \A f \in Clerks \ {g} : job'[f].period # job'[g].period
  BY <1>1, <1>2, <1>3, <1>4 DEF JobInOrder, AtRest, Touches
<1>6. NetOf(q)' = NetOf(q)
  BY <1>4, NetLeft DEF Touches
<1>7. \A r \in Periods : job'[g].period = {r} => r = q
  BY <1>2, <1>3
<1>8. /\ SlipsOf(q)' = SlipsOf(q)
      /\ \A s \in SlipsOf(q) : slip'[<<q, s>>] = slip[<<q, s>>]
      /\ q \in DOMAIN run' <=> q \in DOMAIN run
      /\ q \in DOMAIN run => run'[q] = run[q]
  BY <1>4 DEF Touches
<1>9. next[g] \in {"mark", "stamp"} => q \in DOMAIN run
  BY <1>3 DEF PayrollTyped, JobTyped
<1>10. QED
  BY <1>1, <1>2, <1>3, <1>4, <1>5, <1>6, <1>7, <1>8, <1>9 DEF JobInOrder, AtRest

LEMMA InOrderByParts ==
    ASSUME PayrollTyped, InOrder, NEW h \in Clerks, NEW p \in Periods,
           Touches(h, p), PeriodInOrder(p)', JobInOrder(h)'
    PROVE  InOrder'
<1>1. \A q \in Periods : PeriodInOrder(q)'
  BY OtherPeriodsInOrder
<1>2. \A g \in Clerks : JobInOrder(g)'
  BY OtherJobsInOrder
<1>3. QED
  BY <1>1, <1>2 DEF InOrder

\* The requests h finds on its period are crossed, unless h is: then it is not
\* alone in being so.
LEMMA CrossedTogether ==
    ASSUME PayrollTyped, InOrder, NEW h \in Clerks, NEW p \in Periods,
           ~AtRest(h), job[h].period = {p}
    PROVE  /\ \A g \in Clerks \ {h} : job[g].period = {p} => job[g].crossed
           /\ ~job[h].crossed => Serving(p) = {h}
           /\ p \notin shaken => ~job[h].crossed
<1>1. ASSUME NEW g \in Clerks \ {h}, job[g].period = {p} PROVE job[g].crossed
  <2>1. ~AtRest(g)
    BY <1>1 DEF PayrollTyped, JobTyped, Idling, AtRest
  <2>2. QED
    BY ZenonT(40), <1>1, <2>1 DEF InOrder, JobInOrder
<1>2. ASSUME ~job[h].crossed PROVE Serving(p) = {h}
  <2>1. \A g \in Clerks \ {h} : job[g].period # {p}
    BY ZenonT(40), <1>2 DEF InOrder, JobInOrder
  <2>2. QED
    BY <2>1 DEF Serving
<1>3. p \notin shaken => ~job[h].crossed
  BY DEF InOrder, PeriodInOrder, Serving
<1>4. QED
  BY <1>1, <1>2, <1>3

\* A step that ends the request of h.
LEMMA DoneInOrder ==
    ASSUME PayrollTyped, NEW h \in Clerks, Done(h)
    PROVE  /\ next'[h] = "idle" /\ job'[h] = NoJob /\ JobInOrder(h)'
           /\ \A g \in Clerks \ {h} : next'[g] = next[g] /\ job'[g] = job[g]
           /\ \A p \in Periods : Serving(p)' = Serving(p) \ {h}
<1>1. /\ next'[h] = "idle" /\ job'[h] = NoJob
      /\ \A g \in Clerks \ {h} : next'[g] = next[g] /\ job'[g] = job[g]
  BY DEF PayrollTyped, Done
<1>2. JobInOrder(h)'
  BY <1>1 DEF JobInOrder, AtRest
<1>3. \A p \in Periods : {p} # {}
  OBVIOUS
<1>4. ASSUME NEW p \in Periods PROVE Serving(p)' = Serving(p) \ {h}
  BY <1>1, <1>3 DEF Serving, NoJob
<1>5. QED
  BY <1>1, <1>2, <1>4

\* A step on the books of p alone, by the request that has p.
OtherBooksKept(p) ==
    \A q \in Periods \ {p} :
         /\ q \in DOMAIN run' <=> q \in DOMAIN run
         /\ q \in DOMAIN run => run'[q] = run[q]
         /\ SlipsOf(q)' = SlipsOf(q)
         /\ \A s \in SlipsOf(q) : slip'[<<q, s>>] = slip[<<q, s>>]
         /\ q \in shaken' <=> q \in shaken

LEMMA TouchesOne ==
    ASSUME PayrollTyped, InOrder, NEW h \in Clerks, NEW p \in Periods,
           ~AtRest(h), job[h].period = {p}, job'[h].period \in {{}, {p}},
           \A g \in Clerks \ {h} : next'[g] = next[g] /\ job'[g] = job[g],
           OtherBooksKept(p)
    PROVE  Touches(h, p)
  BY CrossedTogether DEF Touches, OtherBooksKept

LEMMA BeginInOrder ==
    ASSUME PayrollTyped, PayrollTyped', InOrder, NEW h \in Clerks,
           NEW p \in Periods, NEW chosen, NEW status \in Frozen,
           BeginGenerate(h, p, chosen) \/ BeginMark(h, p, status)
    PROVE  InOrder'
<1>1. PICK label, locals :
        /\ Start(h, label, p, locals) /\ locals.period = {p}
        /\ locals.crossed <=> Serving(p) # {}
        /\ UNCHANGED <<run, slip, roll, owed, approvals>>
        /\ \/ label = "staff" /\ (p \in DOMAIN run => run[p].status \notin Frozen)
           \/ /\ label = "mark" /\ p \in DOMAIN run /\ run[p].status # "draft"
              /\ run[p].status \in Frozen => locals.status = "paid"
  <2>1. CASE BeginGenerate(h, p, chosen)
    <3> DEFINE choosing == [period |-> {p}, crossed |-> Serving(p) # {},
                            chosen |-> chosen, known |-> p \in DOMAIN run]
    <3>1. choosing.period = {p} /\ (choosing.crossed <=> Serving(p) # {})
      OBVIOUS
    <3>2. /\ Start(h, "staff", p, choosing)
          /\ UNCHANGED <<run, slip, roll, owed, approvals>>
          /\ p \in DOMAIN run => run[p].status \notin Frozen
      BY <2>1 DEF BeginGenerate, Regenerable
    <3> HIDE DEF choosing
    <3>3. QED
      BY <3>1, <3>2
  <2>2. CASE BeginMark(h, p, status)
    <3> DEFINE marking == [period |-> {p}, crossed |-> Serving(p) # {},
                           status |-> status]
    <3>1. /\ marking.period = {p} /\ (marking.crossed <=> Serving(p) # {})
          /\ marking.status = status
      OBVIOUS
    <3>2. /\ Start(h, "mark", p, marking) /\ p \in DOMAIN run
          /\ UNCHANGED <<run, slip, roll, owed, approvals>>
      BY <2>2 DEF BeginMark
    <3>3. run[p].status # "draft" /\ (run[p].status \in Frozen => status = "paid")
      BY <2>2 DEF BeginMark, Approvable, Payable, Frozen, PayrollTyped
    <3> HIDE DEF marking
    <3>4. QED
      BY <3>1, <3>2, <3>3
  <2>3. QED
    BY <2>1, <2>2
<1>2. /\ next'[h] = label /\ job'[h] = locals
      /\ \A g \in Clerks \ {h} :
           /\ next'[g] = next[g] /\ job'[g].period = job[g].period
           /\ IF g \in Serving(p) THEN job'[g].crossed ELSE job'[g] = job[g]
  BY <1>1, StartTyped
<1>3. job[h].period = {} /\ h \notin Serving(p)
  BY <1>1 DEF Start, AtRest, PayrollTyped, JobTyped, Idling, Serving
<1>4. shaken' = IF Serving(p) = {} THEN shaken ELSE shaken \cup {p}
  BY <1>1 DEF Start
<1>5. Touches(h, p)
  BY <1>1, <1>2, <1>3, <1>4 DEF Touches, Serving, SlipsOf
<1>6. NetOf(p)' = NetOf(p) /\ SlipsOf(p)' = SlipsOf(p)
  BY <1>1, NetLeft DEF SlipsOf
<1>7. p \notin shaken' => Serving(p)' = {h} /\ Serving(p) = {}
  BY <1>1, <1>2, <1>3, <1>4 DEF Serving
<1>8. PeriodInOrder(p)
  BY DEF InOrder
<1>9. PeriodInOrder(p)'
  <2> SUFFICES ASSUME p \notin shaken' PROVE PeriodInOrder(p)'
    BY DEF PeriodInOrder
  <2>1. p \notin shaken /\ Serving(p)' = {h} /\ Serving(p) = {} /\ ~job'[h].crossed
    BY <1>1, <1>2, <1>4, <1>7
  <2>2. p \in DOMAIN run /\ run[p].status # "draft" => RunFigures(p) /\ Statuses(p)
    BY <1>8, <2>1 DEF PeriodInOrder
  <2>3. /\ RunFigures(p) => RunFigures(p)'
        /\ Statuses(p) => Statuses(p)'
    BY <1>1, <1>6 DEF RunFigures, Statuses
  <2>4. QED
    BY <1>1, <2>1, <2>2, <2>3 DEF PeriodInOrder
<1>10. JobInOrder(h)'
  <2> SUFFICES ASSUME ~locals.crossed PROVE JobInOrder(h)'
    BY <1>2 DEF JobInOrder
  <2>1. Serving(p) = {}
    BY <1>1
  <2>2. \A g \in Clerks \ {h} : job'[g].period # {p}
    BY <1>2, <2>1 DEF Serving
  <2>4. \A q \in Periods : job'[h].period = {q} => q = p
    BY <1>1, <1>2
  <2>5. QED
    BY <1>1, <1>2, <2>2, <2>4 DEF JobInOrder, AtRest
<1>11. QED
  BY <1>5, <1>9, <1>10, InOrderByParts

\* A step of h that leaves its period's books as they are, while it stands
\* before the first write.
LEMMA BeforeWritesInOrder ==
    ASSUME PayrollTyped, InOrder, NEW h \in Clerks, NEW p \in Periods,
           job[h].period = {p}, next[h] \in {"staff", "clear", "create", "mark"},
           UNCHANGED <<run, slip, shaken>>,
           job'[h].period \in {{}, {p}}, next'[h] \notin {"slips", "stamp"},
           job'[h].crossed => job[h].crossed,
           \A g \in Clerks \ {h} : next'[g] = next[g] /\ job'[g] = job[g],
           JobInOrder(h)'
    PROVE  InOrder'
<1>1. ~AtRest(h)
  BY DEF AtRest
<1>2. OtherBooksKept(p)
  BY DEF OtherBooksKept, SlipsOf
<1>3. Touches(h, p)
  BY <1>1, <1>2, TouchesOne
<1>4. PeriodInOrder(p)'
  <2> SUFFICES ASSUME p \notin shaken' PROVE PeriodInOrder(p)'
    BY DEF PeriodInOrder
  <2>1. p \notin shaken /\ Serving(p) = {h} /\ ~job[h].crossed
    BY <1>1, CrossedTogether
  <2>2. Serving(p)' \subseteq {h}
    BY <2>1 DEF Serving
  <2>3. PeriodInOrder(p)
    BY DEF InOrder
  <2>4. p \in DOMAIN run /\ run[p].status # "draft" => RunFigures(p) /\ Statuses(p)
    BY <2>1, <2>3 DEF PeriodInOrder
  <2>5. NetOf(p)' = NetOf(p) /\ SlipsOf(p)' = SlipsOf(p)
    BY NetLeft DEF SlipsOf
  <2>6. /\ RunFigures(p) => RunFigures(p)'
        /\ Statuses(p) => Statuses(p)'
    BY <2>5 DEF RunFigures, Statuses
  <2>7. QED
    BY <2>1, <2>2, <2>4, <2>6 DEF PeriodInOrder
<1>5. QED
  BY <1>3, <1>4, InOrderByParts

LEMMA ReadStaffInOrder ==
    ASSUME PayrollTyped, InOrder, NEW h \in Clerks, ReadStaff(h)
    PROVE  InOrder'
<1>1. PICK p \in Periods : job[h].period = {p} /\ Period(h) = p
  BY ServedPeriod DEF ReadStaff, AtRest
<1>2. next[h] = "staff" /\ UNCHANGED <<run, slip, shaken>>
  BY DEF ReadStaff
<1>3. CASE Done(h)
  BY <1>1, <1>2, <1>3, DoneInOrder, BeforeWritesInOrder DEF NoJob
<1>4. CASE ~Done(h)
  <2>1. /\ next'[h] \in {"clear", "create"}
        /\ job'[h].period = job[h].period /\ job'[h].crossed = job[h].crossed
        /\ \A g \in Clerks \ {h} : next'[g] = next[g] /\ job'[g] = job[g]
    BY <1>4 DEF ReadStaff, Go, PayrollTyped
  <2>2. JobInOrder(h)
    BY DEF InOrder
  <2>3. JobInOrder(h)'
    BY <1>2, <2>1, <2>2 DEF JobInOrder, AtRest
  <2>4. QED
    BY <1>1, <1>2, <2>1, <2>3, BeforeWritesInOrder
<1>5. QED
  BY <1>3, <1>4

\* Once cleared, the period has no payslip, and this request has written none.
LEMMA ClearSlipsInOrder ==
    ASSUME PayrollTyped, InOrder, NEW h \in Clerks, ClearSlips(h)
    PROVE  InOrder'
<1>1. PICK p \in Periods : job[h].period = {p} /\ Period(h) = p
  BY ServedPeriod DEF ClearSlips, AtRest
<1>2. /\ next[h] = "clear" /\ next'[h] = "slips" /\ UNCHANGED <<run, job>>
      /\ \A g \in Clerks \ {h} : next'[g] = next[g]
      /\ slip' = [k \in SlipsOfOthers(p) |-> slip[k]]
      /\ shaken' = IF job[h].crossed THEN shaken ELSE shaken \ {p}
  BY <1>1 DEF ClearSlips, Go, PayrollTyped
<1>3. ~AtRest(h) /\ job[h].count = 0 /\ job[h].net = 0
  BY <1>2 DEF AtRest, PayrollTyped, JobTyped
<1>4. SlipsOf(p)' = {}
  BY <1>2 DEF SlipsOf, SlipsOfOthers
<1>5. OtherBooksKept(p)
  BY <1>2 DEF OtherBooksKept, SlipsOf, SlipsOfOthers
<1>6. Touches(h, p)
  BY <1>1, <1>2, <1>3, <1>5, TouchesOne
<1>7. NetOf(p)' = 0 /\ Cardinality(SlipsOf(p)') = 0
  BY <1>4, SumOfNone, FS_EmptySet DEF NetOf
<1>8. PeriodInOrder(p)'
  <2> SUFFICES ASSUME p \notin shaken' PROVE PeriodInOrder(p)'
    BY DEF PeriodInOrder
  <2>1. ~job[h].crossed
    BY <1>1, <1>2, <1>3, CrossedTogether
  <2>2. Serving(p)' = {h}
    BY <1>1, <1>2, <1>3, <2>1, CrossedTogether DEF Serving
  <2>3. QED
    BY <1>2, <2>1, <2>2 DEF PeriodInOrder
<1>9. JobInOrder(h)'
  <2>1. JobInOrder(h)
    BY DEF InOrder
  <2>2. \A q \in Periods : job[h].period = {q} => q = p
    BY <1>1
  <2>3. QED
    BY <1>1, <1>2, <1>3, <1>4, <1>7, <2>1, <2>2 DEF JobInOrder, AtRest
<1>10. QED
  BY <1>6, <1>8, <1>9, InOrderByParts

LEMMA CreateRunInOrder ==
    ASSUME PayrollTyped, InOrder, NEW h \in Clerks, CreateRun(h)
    PROVE  InOrder'
<1>1. PICK p \in Periods : job[h].period = {p} /\ Period(h) = p
  BY ServedPeriod DEF CreateRun, AtRest
<1>2. next[h] = "create" /\ UNCHANGED <<slip, shaken>>
  BY DEF CreateRun
<1>3. CASE p \in DOMAIN run
  <2>1. Done(h) /\ UNCHANGED run
    BY <1>1, <1>3 DEF CreateRun
  <2>2. QED
    BY <1>1, <1>2, <2>1, DoneInOrder, BeforeWritesInOrder DEF NoJob
<1>4. CASE p \notin DOMAIN run
  <2>1. /\ run' = [q \in DOMAIN run \cup {p} |->
              IF q = p THEN [status |-> "draft", count |-> 0, net |-> 0]
              ELSE run[q]]
        /\ Go(h, "slips") /\ UNCHANGED job
    BY <1>1, <1>4 DEF CreateRun
  <2>2. /\ next'[h] = "slips"
        /\ \A g \in Clerks \ {h} : next'[g] = next[g]
        /\ run'[p].status = "draft"
    BY <2>1 DEF Go, PayrollTyped
  <2>3. ~AtRest(h) /\ job[h].count = 0 /\ job[h].net = 0
    BY <1>2 DEF AtRest, PayrollTyped, JobTyped
  <2>4. SlipsOf(p)' = {}
    BY <1>2, <1>4 DEF SlipsOf, PayrollTyped
  <2>5. OtherBooksKept(p)
    BY <1>2, <2>1 DEF OtherBooksKept, SlipsOf
  <2>6. Touches(h, p)
    BY <1>1, <2>1, <2>2, <2>3, <2>5, TouchesOne
  <2>7. NetOf(p)' = 0 /\ Cardinality(SlipsOf(p)') = 0
    BY <2>4, SumOfNone, FS_EmptySet DEF NetOf
  <2>8. PeriodInOrder(p)'
    BY <1>1, <1>2, <2>1, <2>2, <2>3, CrossedTogether
       DEF InOrder, PeriodInOrder, Serving
  <2>9. JobInOrder(h)'
    <3>1. JobInOrder(h)
      BY DEF InOrder
    <3>2. \A q \in Periods : job[h].period = {q} => q = p
      BY <1>1
    <3>3. "draft" \notin Frozen
      BY DEF Frozen
    <3>4. QED
      BY <1>1, <1>2, <2>1, <2>2, <2>3, <2>4, <2>7, <3>1, <3>2, <3>3
         DEF JobInOrder, AtRest
  <2>10. QED
    BY <2>6, <2>8, <2>9, InOrderByParts
<1>5. QED
  BY <1>3, <1>4

\* The figures of a period when a payslip is added to it.
LEMMA FiguresWithOneMore ==
    ASSUME PayrollTyped, NEW p \in Periods, NEW s \in Staff, s \notin SlipsOf(p),
           NEW new \in Slip,
           slip' = [k \in DOMAIN slip \cup {<<p, s>>} |->
                      IF k = <<p, s>> THEN new ELSE slip[k]]
    PROVE  /\ SlipsOf(p)' = SlipsOf(p) \cup {s}
           /\ Cardinality(SlipsOf(p)') = Cardinality(SlipsOf(p)) + 1
           /\ NetOf(p)' = NetOf(p) + new.net
           /\ NetOf(p) \in Nat /\ Cardinality(SlipsOf(p)) \in Nat
<1> DEFINE S == SlipsOf(p)
           f == [x \in S |-> slip[<<p, x>>].net]
           g == [x \in S \cup {s} |-> slip'[<<p, x>>].net]
<1>1. SlipsOf(p)' = S \cup {s}
  BY SlipsWithOneMore
<1>2. IsFiniteSet(S)
  BY DEF PayrollTyped
<1>3. Cardinality(S \cup {s}) = Cardinality(S) + 1 /\ Cardinality(S) \in Nat
  BY <1>2, FS_AddElement, FS_CardinalityType
<1>4. f \in [S -> Nat] /\ new.net \in Nat
  BY DEF PayrollTyped, Slip, SlipsOf
<1>5. \A x \in S : slip'[<<p, x>>] = slip[<<p, x>>]
  BY DEF SlipsOf
<1>6. slip'[<<p, s>>] = new
  OBVIOUS
<1>7. g[s] = new.net /\ \A x \in S : g[x] = f[x]
  <2>1. g[s] = slip'[<<p, s>>].net
    OBVIOUS
  <2>2. ASSUME NEW x \in S PROVE g[x] = f[x]
    <3>1. g[x] = slip'[<<p, x>>].net /\ f[x] = slip[<<p, x>>].net
      OBVIOUS
    <3>2. QED
      BY <1>5, <3>1
  <2>3. QED
    BY <1>6, <2>1, <2>2
<1>8. g \in [S \cup {s} -> Int]
  BY <1>4, <1>7
<1>9. [x \in S |-> g[x]] = f
  BY <1>7
<1>10. NetOf(p) = SumFunction(f) /\ NetOf(p)' = SumFunction(g)
  BY <1>1 DEF NetOf
<1>11. SumFunction(f) \in Nat
  BY <1>2, <1>4, SumNat
<1> HIDE DEF f, g, S
<1>12. SumFunction(g) = g[s] + SumFunction([x \in S |-> g[x]])
  BY <1>2, <1>8, SumWithOneMore DEF S
<1>13. SumFunction(g) = SumFunction(f) + new.net
  BY <1>4, <1>7, <1>9, <1>11, <1>12
<1>14. QED
  BY <1>1, <1>3, <1>10, <1>11, <1>13 DEF S

LEMMA WriteSlipInOrder ==
    ASSUME PayrollTyped, InOrder, NEW h \in Clerks, WriteSlip(h)
    PROVE  InOrder'
<1>1. PICK p \in Periods : job[h].period = {p} /\ Period(h) = p
  BY ServedPeriod DEF WriteSlip, AtRest
<1>2. /\ next[h] = "slips" /\ job[h] \in Writing /\ UNCHANGED <<run, shaken>>
      /\ ~AtRest(h)
  BY DEF WriteSlip, PayrollTyped, JobTyped, AtRest
<1>3. PICK s \in job[h].todo :
        IF <<p, s>> \in DOMAIN slip THEN Done(h) /\ UNCHANGED slip ELSE
          /\ slip' = [k \in DOMAIN slip \cup {<<p, s>>} |->
               IF k = <<p, s>> THEN [net |-> job[h].due[s], status |-> "generated"]
               ELSE slip[k]]
          /\ job' = [job EXCEPT ![h].todo = job[h].todo \ {s},
                                ![h].count = job[h].count + 1,
                                ![h].net = job[h].net + job[h].due[s]]
          /\ UNCHANGED next
  BY <1>1 DEF WriteSlip
<1>4. s \in Staff /\ job[h].due[s] \in Nat
  BY <1>2, <1>3 DEF Writing
<1>5. JobInOrder(h)
  BY DEF InOrder
<1>6. CASE <<p, s>> \in DOMAIN slip
  <2>1. Done(h) /\ UNCHANGED slip
    BY <1>3, <1>6
  <2>2. OtherBooksKept(p)
    BY <1>2, <2>1 DEF OtherBooksKept, SlipsOf
  <2>3. Touches(h, p) /\ JobInOrder(h)'
    BY <1>1, <1>2, <2>1, <2>2, DoneInOrder, TouchesOne DEF NoJob
  <2>4. job[h].crossed
    BY <1>1, <1>2, <1>3, <1>4, <1>5, <1>6 DEF JobInOrder, SlipsOf
  <2>5. p \in shaken'
    BY <1>1, <1>2, <2>4, CrossedTogether
  <2>6. PeriodInOrder(p)'
    BY <2>5 DEF PeriodInOrder
  <2>7. QED
    BY <2>3, <2>6, InOrderByParts
<1>7. CASE <<p, s>> \notin DOMAIN slip
  <2> DEFINE new == [net |-> job[h].due[s], status |-> "generated"]
  <2>1. new \in Slip /\ new.net = job[h].due[s] /\ new.status = "generated"
    BY <1>4 DEF Slip
  <2>2. /\ slip' = [k \in DOMAIN slip \cup {<<p, s>>} |->
               IF k = <<p, s>> THEN new ELSE slip[k]]
        /\ job' = [job EXCEPT ![h].todo = job[h].todo \ {s},
                              ![h].count = job[h].count + 1,
                              ![h].net = job[h].net + job[h].due[s]]
        /\ UNCHANGED next
    BY <1>3, <1>7
  <2> HIDE DEF new
  <2>3. /\ next' = next /\ job'[h].period = job[h].period
        /\ job'[h].crossed = job[h].crossed
        /\ job'[h].todo = job[h].todo \ {s}
        /\ job'[h].count = job[h].count + 1
        /\ job'[h].net = job[h].net + job[h].due[s]
        /\ \A g \in Clerks \ {h} : job'[g] = job[g]
    BY <1>2, <2>2 DEF PayrollTyped, Writing
  <2>4. OtherBooksKept(p)
    <3>1. DOMAIN slip' = DOMAIN slip \cup {<<p, s>>}
      BY <2>2
    <3>2. \A q \in Periods \ {p} : SlipsOf(q)' = SlipsOf(q)
      BY <1>4, <3>1, SlipsWithOneMore
    <3>3. \A q \in Periods \ {p} : \A x \in SlipsOf(q) :
            slip'[<<q, x>>] = slip[<<q, x>>]
      BY <2>2 DEF SlipsOf
    <3>4. QED
      BY <1>2, <3>2, <3>3 DEF OtherBooksKept
  <2>5. Touches(h, p)
    BY <1>1, <1>2, <2>3, <2>4, TouchesOne
  <2>6. PeriodInOrder(p)'
    <3>1. h \in Serving(p)' /\ Serving(p)' = Serving(p)
      BY <1>1, <2>3 DEF Serving
    <3>2. p \notin shaken => \A g \in Serving(p) : ~job'[g].crossed
      BY <2>3 DEF InOrder, PeriodInOrder, Serving
    <3>3. QED
      BY <1>2, <2>3, <3>1, <3>2 DEF PeriodInOrder
  <2>7. s \notin SlipsOf(p)
    BY <1>7 DEF SlipsOf
  <2>8. /\ SlipsOf(p)' = SlipsOf(p) \cup {s}
        /\ Cardinality(SlipsOf(p)') = Cardinality(SlipsOf(p)) + 1
        /\ NetOf(p)' = NetOf(p) + new.net
    BY <1>4, <2>1, <2>2, <2>7, FiguresWithOneMore
  <2>9. /\ slip'[<<p, s>>].status = "generated"
        /\ \A x \in SlipsOf(p) : slip'[<<p, x>>] = slip[<<p, x>>]
    BY <2>1, <2>2, <2>7 DEF SlipsOf
  <2>10. JobInOrder(h)'
    <3> SUFFICES ASSUME ~job[h].crossed PROVE JobInOrder(h)'
      BY <2>3 DEF JobInOrder
    <3>1. /\ job[h].count = Cardinality(SlipsOf(p)) /\ job[h].net = NetOf(p)
          /\ \A x \in SlipsOf(p) : /\ x \notin job[h].todo
                                   /\ slip[<<p, x>>].status = "generated"
          /\ p \in DOMAIN run => run[p].status \notin Frozen
          /\ \A g \in Clerks \ {h} : job[g].period # {p}
      BY <1>1, <1>2, <1>5 DEF JobInOrder
    <3>2. /\ job'[h].count = Cardinality(SlipsOf(p)')
          /\ job'[h].net = NetOf(p)'
      BY <2>1, <2>3, <2>8, <3>1
    <3>3. ASSUME NEW x \in SlipsOf(p)'
          PROVE  x \notin job'[h].todo /\ slip'[<<p, x>>].status = "generated"
      BY <2>3, <2>8, <2>9, <3>1, <3>3
    <3>4. \A q \in Periods : job'[h].period = {q} => q = p
      BY <1>1, <2>3
    <3>5. QED
      BY <1>1, <1>2, <2>3, <3>1, <3>2, <3>3, <3>4 DEF JobInOrder, AtRest
  <2>11. QED
    BY <2>5, <2>6, <2>10, InOrderByParts
<1>8. QED
  BY <1>6, <1>7

\* The run gets the figures of the payslips this request wrote.
LEMMA WriteTotalsInOrder ==
    ASSUME PayrollTyped, InOrder, NEW h \in Clerks, WriteTotals(h)
    PROVE  InOrder'
<1>1. PICK p \in Periods : job[h].period = {p} /\ Period(h) = p
  BY ServedPeriod DEF WriteTotals, AtRest
<1>2. /\ next[h] = "slips" /\ UNCHANGED <<slip, shaken>> /\ ~AtRest(h) /\ Done(h)
      /\ run' = [run EXCEPT ![p] = [status |-> "processing",
                                    count |-> job[h].count, net |-> job[h].net]]
      /\ p \in DOMAIN run
  BY <1>1 DEF WriteTotals, AtRest, PayrollTyped, JobTyped
<1>3. OtherBooksKept(p)
  BY <1>2 DEF OtherBooksKept, SlipsOf
<1>4. Touches(h, p) /\ JobInOrder(h)'
  BY <1>1, <1>2, <1>3, DoneInOrder, TouchesOne DEF NoJob
<1>5. PeriodInOrder(p)'
  <2> SUFFICES ASSUME p \notin shaken' PROVE PeriodInOrder(p)'
    BY DEF PeriodInOrder
  <2>1. ~job[h].crossed /\ Serving(p) = {h} /\ JobInOrder(h)
    BY <1>1, <1>2, CrossedTogether DEF InOrder
  <2>2. Serving(p)' = {}
    BY <1>2, <2>1, DoneInOrder
  <2>3. /\ job[h].count = Cardinality(SlipsOf(p)) /\ job[h].net = NetOf(p)
        /\ \A s \in SlipsOf(p) : slip[<<p, s>>].status = "generated"
    BY <1>1, <1>2, <2>1 DEF JobInOrder
  <2>4. NetOf(p)' = NetOf(p) /\ SlipsOf(p)' = SlipsOf(p)
    BY <1>2, NetLeft DEF SlipsOf
  <2>5. /\ run'[p].count = job[h].count /\ run'[p].net = job[h].net
        /\ run'[p].status \notin Frozen
    BY <1>2 DEF Frozen
  <2>6. RunFigures(p)' /\ Statuses(p)'
    BY <1>2, <2>3, <2>4, <2>5 DEF RunFigures, Statuses
  <2>7. QED
    BY <2>2, <2>6 DEF PeriodInOrder
<1>6. QED
  BY <1>4, <1>5, InOrderByParts

LEMMA MarkRunInOrder ==
    ASSUME PayrollTyped, InOrder, NEW h \in Clerks, MarkRun(h)
    PROVE  InOrder'
<1>1. PICK p \in Periods : job[h].period = {p} /\ Period(h) = p
  BY ServedPeriod DEF MarkRun, AtRest
<1>2. /\ next[h] = "mark" /\ UNCHANGED <<slip, job, shaken>> /\ ~AtRest(h)
      /\ run' = [run EXCEPT ![p].status = job[h].status]
      /\ next'[h] = "stamp" /\ p \in DOMAIN run
      /\ \A g \in Clerks \ {h} : next'[g] = next[g]
  BY <1>1 DEF MarkRun, Go, AtRest, PayrollTyped, JobTyped
<1>3. OtherBooksKept(p)
  BY <1>2 DEF OtherBooksKept, SlipsOf
<1>4. Touches(h, p)
  BY <1>1, <1>2, <1>3, TouchesOne
<1>5. /\ run'[p].count = run[p].count /\ run'[p].net = run[p].net
      /\ run'[p].status = job[h].status
  BY <1>2 DEF PayrollTyped, Run
<1>6. JobInOrder(h)
  BY DEF InOrder
<1>7. PeriodInOrder(p)'
  <2> SUFFICES ASSUME p \notin shaken' PROVE PeriodInOrder(p)'
    BY DEF PeriodInOrder
  <2>1. ~job[h].crossed /\ Serving(p) = {h}
    BY <1>1, <1>2, CrossedTogether
  <2>2. Serving(p)' = {h}
    BY <1>2, <2>1 DEF Serving
  <2>3. run[p].status # "draft"
    BY <1>1, <1>2, <1>6, <2>1 DEF JobInOrder
  <2>4. RunFigures(p)
    BY <1>2, <2>1, <2>3 DEF InOrder, PeriodInOrder
  <2>5. NetOf(p)' = NetOf(p) /\ SlipsOf(p)' = SlipsOf(p)
    BY <1>2, NetLeft DEF SlipsOf
  <2>6. RunFigures(p)'
    BY <1>5, <2>4, <2>5 DEF RunFigures
  <2>7. QED
    BY <1>2, <2>1, <2>2, <2>6 DEF PeriodInOrder
<1>8. JobInOrder(h)'
  <2>1. \A q \in Periods : job[h].period = {q} => q = p
    BY <1>1
  <2>2. QED
    BY <1>1, <1>2, <1>5, <1>6, <2>1 DEF JobInOrder, AtRest
<1>9. QED
  BY <1>4, <1>7, <1>8, InOrderByParts

LEMMA StampSlipsInOrder ==
    ASSUME PayrollTyped, InOrder, NEW h \in Clerks, StampSlips(h)
    PROVE  InOrder'
<1>1. PICK p \in Periods : job[h].period = {p} /\ Period(h) = p
  BY ServedPeriod DEF StampSlips, AtRest
<1>2. /\ next[h] = "stamp" /\ UNCHANGED <<run, shaken>> /\ ~AtRest(h) /\ Done(h)
      /\ slip' = [k \in DOMAIN slip |->
                    IF k[1] = p THEN [slip[k] EXCEPT !.status = job[h].status]
                    ELSE slip[k]]
      /\ p \in DOMAIN run /\ job[h].status \in Frozen
  BY <1>1 DEF StampSlips, AtRest, PayrollTyped, JobTyped, Marking
<1>3. OtherBooksKept(p)
  BY <1>2 DEF OtherBooksKept, SlipsOf
<1>4. Touches(h, p) /\ JobInOrder(h)'
  BY <1>1, <1>2, <1>3, DoneInOrder, TouchesOne DEF NoJob
<1>5. /\ SlipsOf(p)' = SlipsOf(p)
      /\ \A s \in SlipsOf(p) : /\ slip'[<<p, s>>].net = slip[<<p, s>>].net
                               /\ slip'[<<p, s>>].status = job[h].status
  BY <1>2 DEF SlipsOf, PayrollTyped, Slip
<1>6. PeriodInOrder(p)'
  <2> SUFFICES ASSUME p \notin shaken' PROVE PeriodInOrder(p)'
    BY DEF PeriodInOrder
  <2>1. ~job[h].crossed /\ Serving(p) = {h} /\ JobInOrder(h)
    BY <1>1, <1>2, CrossedTogether DEF InOrder
  <2>2. Serving(p)' = {}
    BY <1>2, <2>1, DoneInOrder
  <2>3. run[p].status = job[h].status
    BY <1>1, <1>2, <2>1 DEF JobInOrder
  <2>4. run[p].status # "draft"
    BY <1>2, <2>3 DEF Frozen
  <2>5. RunFigures(p)
    BY <1>2, <2>1, <2>4 DEF InOrder, PeriodInOrder
  <2>6. NetOf(p)' = NetOf(p)
    BY <1>5, NetLeft
  <2>7. RunFigures(p)' /\ Statuses(p)'
    BY <1>2, <1>5, <2>3, <2>5, <2>6 DEF RunFigures, Statuses
  <2>8. QED
    BY <2>2, <2>7 DEF PeriodInOrder
<1>7. QED
  BY <1>4, <1>6, InOrderByParts

\* A request that fails between its first write and its last shakes the period.
LEMMA FailInOrder ==
    ASSUME PayrollTyped, InOrder, NEW h \in Clerks, Fail(h)
    PROVE  InOrder'
<1>1. PICK p \in Periods : job[h].period = {p} /\ Period(h) = p
  BY ServedPeriod DEF Fail
<1>2. /\ UNCHANGED <<run, slip>> /\ ~AtRest(h) /\ Done(h)
      /\ shaken' = IF next[h] \in {"slips", "stamp"} THEN shaken \cup {p}
                   ELSE shaken
  BY <1>1 DEF Fail
<1>3. CASE next[h] \in {"slips", "stamp"}
  <2>1. OtherBooksKept(p)
    BY <1>2 DEF OtherBooksKept, SlipsOf
  <2>2. Touches(h, p) /\ JobInOrder(h)'
    BY <1>1, <1>2, <2>1, DoneInOrder, TouchesOne DEF NoJob
  <2>3. PeriodInOrder(p)'
    BY <1>2, <1>3 DEF PeriodInOrder
  <2>4. QED
    BY <2>2, <2>3, InOrderByParts
<1>4. CASE next[h] \notin {"slips", "stamp"}
  <2>1. next[h] \in {"staff", "clear", "create", "mark"} /\ shaken' = shaken
    BY <1>2, <1>4 DEF PayrollTyped, JobTyped, Calls, AtRest
  <2>2. QED
    BY <1>1, <1>2, <2>1, DoneInOrder, BeforeWritesInOrder DEF NoJob
<1>5. QED
  BY <1>3, <1>4

LEMMA ReviseInOrder ==
    ASSUME PayrollTyped, InOrder, Revise \/ UNCHANGED payroll
    PROVE  InOrder'
<1>1. UNCHANGED <<run, slip, next, job, shaken>>
  BY DEF Revise, payroll
<1>2. \A p : SlipsOf(p)' = SlipsOf(p) /\ NetOf(p)' = NetOf(p) /\ Serving(p)' = Serving(p)
  BY <1>1 DEF SlipsOf, NetOf, Serving
<1>3. \A p \in Periods : PeriodInOrder(p)'
  BY <1>1, <1>2 DEF InOrder, PeriodInOrder, RunFigures, Statuses
<1>4. \A h \in Clerks : JobInOrder(h)'
  BY <1>1, <1>2 DEF InOrder, JobInOrder, AtRest
<1>5. QED
  BY <1>3, <1>4 DEF InOrder

LEMMA InOrderInit == PayrollInit => InOrder
  BY DEF PayrollInit, InOrder, PeriodInOrder, JobInOrder, AtRest, Serving, NoJob

LEMMA InOrderStep ==
    PayrollTyped /\ PayrollTyped' /\ InOrder /\ [PayrollNext]_payroll => InOrder'
<1> SUFFICES ASSUME PayrollTyped, PayrollTyped', InOrder, [PayrollNext]_payroll
             PROVE  InOrder'
  OBVIOUS
<1>1. ASSUME NEW h \in Clerks, Serve(h) PROVE InOrder'
  <2>1. CASE \E p \in Periods, chosen \in SUBSET Staff \ {{}} :
               BeginGenerate(h, p, chosen)
    <3>1. "paid" \in Frozen
      BY DEF Frozen
    <3>2. QED
      BY <2>1, <3>1, BeginInOrder
  <2>2. CASE \E p \in Periods, status \in Frozen : BeginMark(h, p, status)
    BY <2>2, BeginInOrder
  <2>3. CASE ReadStaff(h) \/ ClearSlips(h) \/ CreateRun(h) \/ WriteSlip(h)
    BY <2>3, ReadStaffInOrder, ClearSlipsInOrder, CreateRunInOrder,
       WriteSlipInOrder
  <2>4. CASE WriteTotals(h) \/ MarkRun(h) \/ StampSlips(h)
    BY <2>4, WriteTotalsInOrder, MarkRunInOrder, StampSlipsInOrder
  <2>5. QED
    BY <1>1, <2>1, <2>2, <2>3, <2>4 DEF Serve
<1>2. QED
  BY <1>1, ReviseInOrder, FailInOrder DEF PayrollNext

\* However requests for a month overlap and fail, once nobody is at it and the
\* last regeneration ran undisturbed, the totals of the run are the number and
\* the sum of the payslips and every payslip shows the status of the run.
THEOREM TotalsAreOfPayslips == PayrollSpec => []RunMatchesSlips
<1>1. PayrollTyped /\ InOrder => RunMatchesSlips
  <2> SUFFICES ASSUME PayrollTyped, InOrder, NEW p \in Periods, Settled(p),
                      run[p].status # "draft"
               PROVE  RunFigures(p) /\ Statuses(p)
    BY DEF RunMatchesSlips, RunFigures, Statuses
  <2>1. QED
    BY DEF InOrder, PeriodInOrder, Settled
<1>2. QED
  BY <1>1, PayrollTypedInit, PayrollTypedStep, InOrderInit, InOrderStep, PTL
     DEF PayrollSpec

-----------------------------------------------------------------------------
(* What a step may not do to a frozen run.                                 *)

KeepsFrozen(p) ==
    run[p].status \in Frozen =>
        /\ run'[p].net = run[p].net /\ run'[p].count = run[p].count
        /\ run[p].status # run'[p].status => run'[p].status = "paid"
        /\ SlipsOf(p)' = SlipsOf(p)
        /\ \A s \in SlipsOf(p) : slip'[<<p, s>>].net = slip[<<p, s>>].net

\* A request that still has to write payslips or totals was let in because
\* the run was not frozen, and nobody has frozen it since.
LEMMA GeneratingIsNotFrozen ==
    ASSUME PayrollTyped, InOrder, NEW h \in Clerks, NEW p \in Periods,
           job[h].period = {p}, p \in DOMAIN run, p \notin shaken,
           next[h] \in {"staff", "clear", "create", "slips"}
    PROVE  run[p].status \notin Frozen
<1>1. ~AtRest(h)
  BY DEF AtRest
<1>2. ~job[h].crossed /\ JobInOrder(h)
  BY <1>1, CrossedTogether DEF InOrder
<1>3. QED
  BY <1>1, <1>2 DEF JobInOrder

LEMMA ServeKeepsFrozen ==
    ASSUME PayrollTyped, InOrder, NEW h \in Clerks, Serve(h),
           NEW p \in DOMAIN run, p \notin shaken
    PROVE  KeepsFrozen(p)
<1> SUFFICES ASSUME run[p].status \in Frozen PROVE KeepsFrozen(p)
  BY DEF KeepsFrozen
<1>1. CASE UNCHANGED <<run, slip>>
  BY <1>1 DEF KeepsFrozen, SlipsOf
<1>2. CASE ClearSlips(h) \/ CreateRun(h) \/ WriteSlip(h) \/ WriteTotals(h)
  <2>1. next[h] \in {"clear", "create", "slips"} /\ ~AtRest(h)
    BY <1>2 DEF ClearSlips, CreateRun, WriteSlip, WriteTotals, AtRest
  <2>2. PICK q \in Periods : job[h].period = {q} /\ Period(h) = q
    BY <2>1, ServedPeriod
  <2>3. q # p
    BY <2>1, <2>2, GeneratingIsNotFrozen
  <2>4. CASE ClearSlips(h)
    BY <2>2, <2>3, <2>4 DEF ClearSlips, KeepsFrozen, SlipsOf, SlipsOfOthers
  <2>5. CASE CreateRun(h)
    BY <2>2, <2>3, <2>5 DEF CreateRun, KeepsFrozen, SlipsOf
  <2>6. CASE WriteSlip(h)
    <3>1. PICK s : \/ UNCHANGED slip
                   \/ slip' = [k \in DOMAIN slip \cup {<<q, s>>} |->
                        IF k = <<q, s>>
                        THEN [net |-> job[h].due[s], status |-> "generated"]
                        ELSE slip[k]]
      BY ZenonT(40), <2>2, <2>6 DEF WriteSlip
    <3>2. /\ SlipsOf(p)' = SlipsOf(p)
          /\ \A x \in SlipsOf(p) : slip'[<<p, x>>] = slip[<<p, x>>]
      BY <2>3, <3>1 DEF SlipsOf
    <3>3. QED
      BY <2>6, <3>2 DEF WriteSlip, KeepsFrozen
  <2>7. CASE WriteTotals(h)
    BY <2>2, <2>3, <2>7 DEF WriteTotals, KeepsFrozen, SlipsOf
  <2>8. QED
    BY <1>2, <2>4, <2>5, <2>6, <2>7
<1>3. CASE MarkRun(h) \/ StampSlips(h)
  <2>1. next[h] \in {"mark", "stamp"} /\ ~AtRest(h)
    BY <1>3 DEF MarkRun, StampSlips, AtRest
  <2>2. PICK q \in Periods : job[h].period = {q} /\ Period(h) = q
    BY <2>1, ServedPeriod
  <2>3. CASE MarkRun(h)
    <3>1. run' = [run EXCEPT ![q].status = job[h].status] /\ UNCHANGED slip
          /\ next[h] = "mark"
      BY <2>2, <2>3 DEF MarkRun
    <3>2. q = p => job[h].status = "paid"
      BY <2>1, <2>2, <3>1, CrossedTogether DEF InOrder, JobInOrder
    <3>3. /\ run'[p].net = run[p].net /\ run'[p].count = run[p].count
          /\ run'[p].status = IF q = p THEN job[h].status ELSE run[p].status
      BY <3>1 DEF PayrollTyped, Run
    <3>4. QED
      BY <3>1, <3>2, <3>3 DEF KeepsFrozen, SlipsOf
  <2>4. CASE StampSlips(h)
    <3>1. /\ slip' = [k \in DOMAIN slip |->
                IF k[1] = q THEN [slip[k] EXCEPT !.status = job[h].status]
                ELSE slip[k]]
          /\ UNCHANGED run
      BY <2>2, <2>4 DEF StampSlips
    <3>2. \A s \in SlipsOf(p) : slip'[<<p, s>>].net = slip[<<p, s>>].net
      BY <3>1 DEF SlipsOf, PayrollTyped, Slip
    <3>3. QED
      BY <3>1, <3>2 DEF KeepsFrozen, SlipsOf
  <2>5. QED
    BY <1>3, <2>3, <2>4
<1>4. QED
  BY <1>1, <1>2, <1>3 DEF Serve, BeginGenerate, BeginMark, ReadStaff

\* Nothing that overlaps an approved month undisturbed, and no step of it,
\* moves a figure of its run or adds, drops or alters a payslip; its status
\* only goes on to paid.
THEOREM ApprovalFreezes == PayrollSpec => FrozenStaysFrozen
<1>1. ASSUME PayrollTyped, InOrder, [PayrollNext]_payroll,
             NEW p \in DOMAIN run \ (shaken \cup shaken')
      PROVE  KeepsFrozen(p)
  <2>1. CASE UNCHANGED <<run, slip>>
    BY <2>1 DEF KeepsFrozen, SlipsOf
  <2>2. CASE \E h \in Clerks : Serve(h)
    BY <1>1, <2>2, ServeKeepsFrozen
  <2>3. QED
    BY <1>1, <2>1, <2>2 DEF PayrollNext, Revise, Fail, payroll
<1>2. PayrollTyped /\ InOrder /\ [PayrollNext]_payroll =>
        [\A p \in DOMAIN run \ (shaken \cup shaken') :
           run[p].status \in Frozen =>
             /\ run'[p].net = run[p].net /\ run'[p].count = run[p].count
             /\ run[p].status # run'[p].status => run'[p].status = "paid"
             /\ SlipsOf(p)' = SlipsOf(p)
             /\ \A s \in SlipsOf(p) : slip'[<<p, s>>].net = slip[<<p, s>>].net]_payroll
  BY <1>1 DEF KeepsFrozen
<1>3. QED
  BY <1>2, PayrollTypedInit, PayrollTypedStep, InOrderInit, InOrderStep, PTL
     DEF PayrollSpec, FrozenStaysFrozen

-----------------------------------------------------------------------------
(* Approvals.                                                              *)

\* A step that marks nothing, as far as approvals go.
LEMMA ApprovalsLeft ==
    ASSUME PayrollTyped, ApprovalsKnown, approvals' = approvals,
           \A p \in DOMAIN run' : run'[p].status \in Frozen =>
             p \in DOMAIN run /\ run'[p].status = run[p].status,
           \A k \in DOMAIN slip' : slip'[k].status \in Frozen =>
             k \in DOMAIN slip /\ slip'[k].status = slip[k].status,
           \A h \in Clerks :
             \/ next'[h] \notin {"stamp", "mark"}
             \/ /\ next'[h] = next[h] /\ job'[h].period = job[h].period
                /\ next[h] = "mark" => job'[h].status = job[h].status
    PROVE  ApprovalsKnown'
  BY DEF ApprovalsKnown

LEMMA StartApprovals ==
    ASSUME PayrollTyped, ApprovalsKnown, NEW h \in Clerks, NEW p \in Periods,
           NEW chosen, NEW status \in Frozen,
           BeginGenerate(h, p, chosen) \/ BeginMark(h, p, status)
    PROVE  ApprovalsKnown'
<1>1. PICK label, locals :
        /\ Start(h, label, p, locals) /\ locals.period = {p}
        /\ UNCHANGED <<run, slip, roll, owed, approvals>>
        /\ label # "stamp"
        /\ label = "mark" /\ locals.status = "paid" => p \in approvals
  <2>1. CASE BeginGenerate(h, p, chosen)
    <3> DEFINE choosing == [period |-> {p}, crossed |-> Serving(p) # {},
                            chosen |-> chosen, known |-> p \in DOMAIN run]
    <3>1. choosing.period = {p} /\ Start(h, "staff", p, choosing)
          /\ UNCHANGED <<run, slip, roll, owed, approvals>>
      BY <2>1 DEF BeginGenerate
    <3> HIDE DEF choosing
    <3>2. QED
      BY <3>1
  <2>2. CASE BeginMark(h, p, status)
    <3> DEFINE marking == [period |-> {p}, crossed |-> Serving(p) # {},
                           status |-> status]
    <3>1. /\ marking.period = {p} /\ marking.status = status
          /\ Start(h, "mark", p, marking)
          /\ UNCHANGED <<run, slip, roll, owed, approvals>>
      BY <2>2 DEF BeginMark
    <3>2. status = "paid" => p \in approvals
      BY <2>2 DEF BeginMark, Payable, ApprovalsKnown, Frozen
    <3> HIDE DEF marking
    <3>3. QED
      BY <3>1, <3>2
  <2>3. QED
    BY <2>1, <2>2
<1>2. /\ next'[h] = label /\ job'[h] = locals
      /\ \A g \in Clerks \ {h} :
           /\ next'[g] = next[g] /\ job'[g].period = job[g].period
           /\ next[g] = "mark" => job'[g].status = job[g].status
  <2>1. /\ next'[h] = label /\ job'[h] = locals
        /\ \A g \in Clerks \ {h} :
             next'[g] = next[g] /\ job'[g].period = job[g].period
    BY <1>1, StartTyped
  <2>2. ASSUME NEW g \in Clerks \ {h}, next[g] = "mark"
        PROVE  job'[g].status = job[g].status
    <3>1. job[g] \in Marking
      BY <2>2 DEF PayrollTyped, JobTyped
    <3>2. job'[g] = [job[g] EXCEPT
                       !.crossed = job[g].crossed \/ g \in Serving(p)]
      BY <1>1, <2>2 DEF Start
    <3>3. QED
      BY <3>1, <3>2 DEF Marking
  <2>3. QED
    BY <2>1, <2>2
<1>3. (\A g \in Clerks :
         next[g] = "stamp" \/ (next[g] = "mark" /\ job[g].status = "paid") =>
             job[g].period \subseteq approvals)'
  BY <1>1, <1>2 DEF ApprovalsKnown
<1>4. QED
  BY <1>1, <1>3 DEF ApprovalsKnown

LEMMA ServeApprovals ==
    ASSUME PayrollTyped, PayrollTyped', ApprovalsKnown, NEW h \in Clerks,
           Serve(h)
    PROVE  ApprovalsKnown'
<1> USE DEF Frozen
<1>1. CASE \/ \E p \in Periods, chosen \in SUBSET Staff \ {{}} :
                BeginGenerate(h, p, chosen)
           \/ \E p \in Periods, status \in Frozen : BeginMark(h, p, status)
  BY <1>1, StartApprovals
<1>2. CASE ReadStaff(h)
  BY <1>2, ApprovalsLeft DEF ReadStaff, Done, Go, PayrollTyped
<1>3. CASE ClearSlips(h)
  BY <1>3, ApprovalsLeft DEF ClearSlips, Go, PayrollTyped, SlipsOfOthers
<1>4. CASE CreateRun(h)
  BY <1>4, ApprovalsLeft DEF CreateRun, Done, Go, PayrollTyped
<1>5. CASE WriteSlip(h)
  <2>1. UNCHANGED <<run, approvals>> /\ next[h] = "slips"
    BY <1>5 DEF WriteSlip
  <2>2. \A k \in DOMAIN slip' : slip'[k].status \in Frozen =>
          k \in DOMAIN slip /\ slip'[k].status = slip[k].status
    BY <1>5 DEF WriteSlip
  <2>3. /\ next'[h] \in {"slips", "idle"}
        /\ \A g \in Clerks \ {h} : next'[g] = next[g] /\ job'[g] = job[g]
    BY <1>5 DEF WriteSlip, Done, PayrollTyped
  <2>4. QED
    BY <2>1, <2>2, <2>3, ApprovalsLeft
<1>6. CASE WriteTotals(h)
  BY <1>6, ApprovalsLeft DEF WriteTotals, Done, PayrollTyped
<1>7. CASE MarkRun(h)
  <2>1. PICK p \in Periods : job[h].period = {p} /\ Period(h) = p
    BY <1>7, ServedPeriod DEF MarkRun, AtRest
  <2>2. /\ next[h] = "mark" /\ run' = [run EXCEPT ![p].status = job[h].status]
        /\ approvals' = IF job[h].status = "approved" THEN approvals \cup {p}
                        ELSE approvals
        /\ UNCHANGED <<slip, job>>
    BY <1>7, <2>1 DEF MarkRun
  <2>3. p \in approvals'
    BY <2>1, <2>2 DEF ApprovalsKnown, PayrollTyped, JobTyped, Marking
  <2>4. next'[h] = "stamp" /\ \A g \in Clerks \ {h} : next'[g] = next[g]
    BY <1>7 DEF MarkRun, Go, PayrollTyped
  <2>5. \A q \in DOMAIN run' : q # p => run'[q] = run[q]
    BY <2>2
  <2>6. QED
    BY <2>1, <2>2, <2>3, <2>4, <2>5 DEF ApprovalsKnown
<1>8. CASE StampSlips(h)
  <2>1. PICK p \in Periods : job[h].period = {p} /\ Period(h) = p
    BY <1>8, ServedPeriod DEF StampSlips, AtRest
  <2>2. /\ slip' = [k \in DOMAIN slip |->
              IF k[1] = p THEN [slip[k] EXCEPT !.status = job[h].status]
              ELSE slip[k]]
        /\ UNCHANGED <<run, approvals>> /\ p \in approvals
    BY <1>8, <2>1 DEF StampSlips, ApprovalsKnown
  <2>3. \A k \in DOMAIN slip' : slip'[k].status \in Frozen => k[1] \in approvals'
    BY <2>2 DEF ApprovalsKnown
  <2>4. /\ next'[h] = "idle"
        /\ \A g \in Clerks \ {h} : next'[g] = next[g] /\ job'[g] = job[g]
    BY <1>8 DEF StampSlips, Done, PayrollTyped
  <2>5. QED
    BY <2>2, <2>3, <2>4 DEF ApprovalsKnown
<1>9. QED
  BY <1>1, <1>2, <1>3, <1>4, <1>5, <1>6, <1>7, <1>8 DEF Serve

LEMMA ApprovalsStep ==
    PayrollTyped /\ PayrollTyped' /\ ApprovalsKnown /\ [PayrollNext]_payroll =>
      ApprovalsKnown'
<1> SUFFICES ASSUME PayrollTyped, PayrollTyped', ApprovalsKnown,
                    [PayrollNext]_payroll
             PROVE  ApprovalsKnown'
  OBVIOUS
<1>1. ASSUME NEW h \in Clerks, Fail(h) PROVE ApprovalsKnown'
  BY <1>1, ApprovalsLeft DEF Fail, Done, PayrollTyped
<1>2. CASE Revise \/ UNCHANGED payroll
  BY <1>2, ApprovalsLeft DEF Revise, payroll
<1>3. QED
  BY <1>1, <1>2, ServeApprovals DEF PayrollNext

\* However requests overlap or fail, a run or a payslip is marked paid only in
\* a period whose run somebody approved.
THEOREM PaidIsApproved == PayrollSpec => []PaidWasApproved
<1>1. PayrollInit => ApprovalsKnown
  BY DEF PayrollInit, ApprovalsKnown
<1>2. ApprovalsKnown => PaidWasApproved
  BY DEF ApprovalsKnown, PaidWasApproved, SlipsOf, Frozen
<1>3. QED
  BY <1>1, <1>2, PayrollTypedInit, PayrollTypedStep, ApprovalsStep, PTL
     DEF PayrollSpec

-----------------------------------------------------------------------------
(* Queries.                                                                *)

LEMMA FoundOf ==
    ASSUME NEW q, NEW rows
    PROVE  \A r : r \in Found(q, rows) <=> r \in rows /\ \A k \in DOMAIN q : r \in q[k]
  BY DEF Found

LEMMA FoundUnnarrowed == ASSUME NEW rows PROVE Found(Unnarrowed, rows) = rows
  BY DEF Found, Unnarrowed

LEMMA UnderHas ==
    ASSUME NEW key, NEW rows
    PROVE  DOMAIN Under(key, rows) = {key} /\ Under(key, rows)[key] = rows
<1>1. DOMAIN Under(key, rows) = {key}
      BY DEF Under
<1>2. key \in {key}
      OBVIOUS
<1>3. Under(key, rows)[key] = rows
      BY <1>2 DEF Under
<1>. QED BY <1>1, <1>3

LEMMA FoundUnder ==
    ASSUME NEW key, NEW rows, NEW R
    PROVE  Found(Under(key, R), rows) = {r \in rows : r \in R}
<1>. DEFINE q == Under(key, R)
<1>1. DOMAIN q = {key} /\ q[key] = R
      BY UnderHas
<1>2. Found(q, rows) = {r \in rows : \A k \in {key} : r \in q[k]}
      BY <1>1 DEF Found
<1>. HIDE DEF q
<1>. QED BY <1>1, <1>2 DEF q

\* Tables of different keys: each entry of each is in the whole.
LEMMA MergedHas ==
    ASSUME NEW tables,
           \A t, u \in tables : t # u => DOMAIN t \cap DOMAIN u = {}
    PROVE  /\ DOMAIN Merged(tables) = UNION {DOMAIN t : t \in tables}
           /\ \A t \in tables : \A x \in DOMAIN t : Merged(tables)[x] = t[x]
<1>1. DOMAIN Merged(tables) = UNION {DOMAIN t : t \in tables}
      BY DEF Merged
<1>2. ASSUME NEW t \in tables, NEW x \in DOMAIN t
      PROVE  Merged(tables)[x] = t[x]
  <2>1. (CHOOSE u \in tables : x \in DOMAIN u) = t
    <3>1. \A u \in tables : x \in DOMAIN u => u = t
          BY <1>2
    <3>. QED BY <3>1
  <2>2. x \in UNION {DOMAIN u : u \in tables}
        BY <1>2
  <2>. QED BY <2>1, <2>2 DEF Merged
<1>. QED BY <1>1, <1>2

\* Two conditions under different keys both hold.
LEMMA FoundBoth ==
    ASSUME NEW f, NEW g, NEW rows, DOMAIN f \cap DOMAIN g = {}
    PROVE  Found(Merged({f, g}), rows) = Found(f, rows) \cap Found(g, rows)
<1>. DEFINE q == Merged({f, g})
<1>1. \A t, u \in {f, g} : t # u => DOMAIN t \cap DOMAIN u = {}
      OBVIOUS
<1>2. /\ DOMAIN q = UNION {DOMAIN t : t \in {f, g}}
      /\ \A t \in {f, g} : \A x \in DOMAIN t : q[x] = t[x]
      BY <1>1, MergedHas
<1>3. /\ DOMAIN q = DOMAIN f \cup DOMAIN g
      /\ \A k \in DOMAIN f : q[k] = f[k]
      /\ \A k \in DOMAIN g : q[k] = g[k]
      BY <1>2
<1>. HIDE DEF q
<1>. QED BY <1>3 DEF Found, q

\* A query that combines two finds what both find.
LEMMA AllOfBoth ==
    ASSUME NEW p, NEW q, NEW rows
    PROVE  Found(all_of(<<p, q>>, rows), rows) = Found(p, rows) \cap Found(q, rows)
<1>. DEFINE hooks == <<p, q>>
            parts == {i \in DOMAIN hooks : DOMAIN hooks[i] # {}}
            both == {r \in rows : \A i \in parts : r \in Found(hooks[i], rows)}
<1>1. DOMAIN hooks = {1, 2} /\ hooks[1] = p /\ hooks[2] = q
      OBVIOUS
<1>2. \A i \in DOMAIN hooks \ parts : Found(hooks[i], rows) = rows
      BY DEF Found
<1>3. both = Found(p, rows) \cap Found(q, rows)
  <2>1. Found(p, rows) \subseteq rows /\ Found(q, rows) \subseteq rows
        BY DEF Found
  <2>2. 1 \notin parts => Found(p, rows) = rows
        BY <1>1, <1>2
  <2>3. 2 \notin parts => Found(q, rows) = rows
        BY <1>1, <1>2
  <2>4. parts \subseteq {1, 2}
        BY <1>1
  <2>. HIDE DEF hooks
  <2>. QED BY <1>1, <2>1, <2>2, <2>3, <2>4
<1>4. all_of(hooks, rows) =
        IF parts = {} THEN Unnarrowed
        ELSE IF \E i \in parts : parts = {i}
             THEN hooks[CHOOSE i \in parts : TRUE]
        ELSE Under("$and", both)
      BY Zenon DEF all_of
<1>5. both \subseteq rows
      OBVIOUS
<1>. HIDE DEF hooks, parts, both
<1>6. CASE parts = {}
  <2>1. both = rows
        BY <1>6 DEF both
  <2>. QED BY <1>3, <1>4, <1>6, <2>1, FoundUnnarrowed DEF hooks
<1>7. CASE \E i \in parts : parts = {i}
  <2>1. PICK i \in parts : parts = {i}
        BY <1>7
  <2>2. (CHOOSE j \in parts : TRUE) = i
        BY <2>1
  <2>3. all_of(hooks, rows) = hooks[i]
        BY <1>4, <2>1, <2>2
  <2>4. both = {r \in rows : r \in Found(hooks[i], rows)}
        BY <2>1 DEF both
  <2>5. Found(hooks[i], rows) \subseteq rows
        BY DEF Found
  <2>. QED BY <1>3, <2>3, <2>4, <2>5 DEF hooks
<1>8. CASE parts # {} /\ ~\E i \in parts : parts = {i}
  <2>1. all_of(hooks, rows) = Under("$and", both)
        BY <1>4, <1>8
  <2>2. Found(Under("$and", both), rows) = both
        BY <1>5, FoundUnder
  <2>. QED BY <1>3, <2>1, <2>2 DEF hooks
<1>. QED BY <1>6, <1>7, <1>8

\* Filters laid over a scope find what passes them; what the scope finds and
\* they let through; and nothing else, unless they displace a condition of it.
LEMMA OverlaidFinds ==
    ASSUME NEW chosen, NEW scope, NEW rows
    PROVE  /\ Found(Overlaid(chosen, scope), rows) \subseteq Found(chosen, rows)
           /\ Found(chosen, rows) \cap Found(scope, rows)
                \subseteq Found(Overlaid(chosen, scope), rows)
           /\ DOMAIN chosen \cap DOMAIN scope = {} =>
                Found(Overlaid(chosen, scope), rows)
                  = Found(chosen, rows) \cap Found(scope, rows)
<1>1. /\ DOMAIN Overlaid(chosen, scope) = DOMAIN chosen \cup DOMAIN scope
      /\ \A k \in DOMAIN chosen : Overlaid(chosen, scope)[k] = chosen[k]
      /\ \A k \in DOMAIN scope \ DOMAIN chosen : Overlaid(chosen, scope)[k] = scope[k]
      BY DEF Overlaid
<1>. QED BY <1>1 DEF Found

\* Whatever keys a query claims, a search keeps all of it and adds its own.
LEMMA SearchNarrows ==
    ASSUME NEW chosen, NEW scope, NEW search \in BOOLEAN, NEW rows
    PROVE  Found(build_query(scope, chosen, search, rows), rows)
             = {r \in Found(Overlaid(chosen, scope), rows) : search => r.hit}
<1>. DEFINE query == Overlaid(chosen, scope)
            built == build_query(scope, chosen, search, rows)
            hits == {r \in rows : r.hit}
            kept == {"$or", "$and"} \cap DOMAIN query
            moved == {r \in hits : \A k \in kept : r \in query[k]}
            rest == [k \in DOMAIN query \ kept |-> query[k]]
<1>1. CASE ~search
      BY <1>1 DEF build_query, Found
<1>2. CASE search /\ "$or" \notin kept
  <2>1. built = Merged({Under("$or", hits), query})
        BY <1>2 DEF build_query
  <2>2. DOMAIN Under("$or", hits) = {"$or"}
        BY UnderHas
  <2>3. DOMAIN Under("$or", hits) \cap DOMAIN query = {}
        BY <1>2, <2>2
  <2>4. Found(Merged({Under("$or", hits), query}), rows)
          = Found(Under("$or", hits), rows) \cap Found(query, rows)
        BY <2>3, FoundBoth
  <2>5. Found(Under("$or", hits), rows) = hits
        BY FoundUnder
  <2>6. Found(query, rows) \subseteq rows
        BY DEF Found
  <2>. QED BY <1>2, <2>1, <2>4, <2>5, <2>6
<1>3. CASE search /\ "$or" \in kept
  <2>1. built = Merged({Under("$and", moved), rest})
        BY <1>3 DEF build_query
  <2>2. DOMAIN Under("$and", moved) = {"$and"} /\ DOMAIN rest = DOMAIN query \ kept
        BY UnderHas
  <2>3. DOMAIN Under("$and", moved) \cap DOMAIN rest = {}
        BY <2>2
  <2>4. Found(Merged({Under("$and", moved), rest}), rows)
          = Found(Under("$and", moved), rows) \cap Found(rest, rows)
    <3>. HIDE DEF moved, rest
    <3>. QED BY <2>3, FoundBoth
  <2>5. Found(Under("$and", moved), rows) = moved
        BY FoundUnder
  <2>6. Found(rest, rows) = {r \in rows : \A k \in DOMAIN query \ kept : r \in query[k]}
        BY DEF Found
  <2>7. Found(query, rows) = {r \in rows : \A k \in DOMAIN query : r \in query[k]}
        BY DEF Found
  <2>. QED BY <1>3, <2>1, <2>4, <2>5, <2>6, <2>7
<1>. QED BY <1>1, <1>2, <1>3

-----------------------------------------------------------------------------
(* What each scope finds.                                                  *)

LEMMA StudentRows ==
    ASSUME NEW a, NEW R
    PROVE  Found(student_row_scope(a, R), R) = {r \in R : OfFamily(a.who) => r.student \in family_student_ids(a.who)}
<1>. DEFINE own == {r \in R : r.student \in family_student_ids(a.who)}
<1>1. CASE OfFamily(a.who)
  <2>1. student_row_scope(a, R) = Under("student_id", own)
        BY <1>1 DEF student_row_scope, Narrow
  <2>. QED BY <1>1, <2>1, FoundUnder
<1>2. CASE ~OfFamily(a.who)
  <2>1. student_row_scope(a, R) = Unnarrowed
        BY <1>2 DEF student_row_scope, Narrow
  <2>. QED BY <1>2, <2>1, FoundUnnarrowed
<1>. QED BY <1>1, <1>2

LEMMA OwnStudents ==
    ASSUME NEW a, NEW R
    PROVE  Found(own_student_scope(a, R), R) = {r \in R : OfFamily(a.who) => r.student \in family_student_ids(a.who)}
<1>. DEFINE own == {r \in R : r.student \in family_student_ids(a.who)}
<1>1. CASE OfFamily(a.who)
  <2>1. own_student_scope(a, R) = Under("_id", own)
        BY <1>1 DEF own_student_scope, Narrow
  <2>. QED BY <1>1, <2>1, FoundUnder
<1>2. CASE ~OfFamily(a.who)
  <2>1. own_student_scope(a, R) = Unnarrowed
        BY <1>2 DEF own_student_scope, Narrow
  <2>. QED BY <1>2, <2>1, FoundUnnarrowed
<1>. QED BY <1>1, <1>2

LEMMA TaughtStudents ==
    ASSUME NEW a, NEW R
    PROVE  Found(teacher_student_scope(a, R), R) = {r \in R : Teaching(a.who) => Pupils[r.student].section \in teacher_section_ids(a)}
<1>. DEFINE own == {r \in R : Pupils[r.student].section \in teacher_section_ids(a)}
<1>1. CASE Teaching(a.who)
  <2>1. teacher_student_scope(a, R) = Under("current_section_id", own)
        BY <1>1 DEF teacher_student_scope, Narrow
  <2>. QED BY <1>1, <2>1, FoundUnder
<1>2. CASE ~Teaching(a.who)
  <2>1. teacher_student_scope(a, R) = Unnarrowed
        BY <1>2 DEF teacher_student_scope, Narrow
  <2>. QED BY <1>2, <2>1, FoundUnnarrowed
<1>. QED BY <1>1, <1>2

LEMMA TaughtSections ==
    ASSUME NEW a, NEW R
    PROVE  Found(teacher_own_sections_scope(a, R), R) = {r \in R : Teaching(a.who) => r.section \in teacher_section_ids(a)}
<1>. DEFINE own == {r \in R : r.section \in teacher_section_ids(a)}
<1>1. CASE Teaching(a.who)
  <2>1. teacher_own_sections_scope(a, R) = Under("_id", own)
        BY <1>1 DEF teacher_own_sections_scope, Narrow
  <2>. QED BY <1>1, <2>1, FoundUnder
<1>2. CASE ~Teaching(a.who)
  <2>1. teacher_own_sections_scope(a, R) = Unnarrowed
        BY <1>2 DEF teacher_own_sections_scope, Narrow
  <2>. QED BY <1>2, <2>1, FoundUnnarrowed
<1>. QED BY <1>1, <1>2

LEMMA OneselfOnly ==
    ASSUME NEW a, NEW R
    PROVE  Found(staff_scope(a, R), R) = {r \in R : (a.who.staff # None /\ ~a.who.editsStaff) => r.staff = a.who.staff}
<1>. DEFINE own == {r \in R : r.staff = a.who.staff}
<1>1. CASE (a.who.staff # None /\ ~a.who.editsStaff)
  <2>1. staff_scope(a, R) = Under("_id", own)
        BY <1>1 DEF staff_scope, Narrow
  <2>. QED BY <1>1, <2>1, FoundUnder
<1>2. CASE ~(a.who.staff # None /\ ~a.who.editsStaff)
  <2>1. staff_scope(a, R) = Unnarrowed
        BY <1>2 DEF staff_scope, Narrow
  <2>. QED BY <1>2, <2>1, FoundUnnarrowed
<1>. QED BY <1>1, <1>2

LEMMA OneYear ==
    ASSUME NEW a, NEW R
    PROVE  Found(academic_year_scope(a, R), R) = {r \in R : (year_for(a) # None) => r.year \in {year_for(a), None}}
<1>. DEFINE own == {r \in R : r.year \in {year_for(a), None}}
<1>1. CASE (year_for(a) # None)
  <2>1. academic_year_scope(a, R) = Under("academic_year_id", own)
        BY <1>1 DEF academic_year_scope, Narrow
  <2>. QED BY <1>1, <2>1, FoundUnder
<1>2. CASE ~(year_for(a) # None)
  <2>1. academic_year_scope(a, R) = Unnarrowed
        BY <1>2 DEF academic_year_scope, Narrow
  <2>. QED BY <1>2, <2>1, FoundUnnarrowed
<1>. QED BY <1>1, <1>2

LEMMA NoFamily ==
    ASSUME NEW a, NEW R
    PROVE  Found(staff_only_scope(a, R), R) = {r \in R : OfFamily(a.who) => r \in {}}
<1>. DEFINE own == {r \in R : r \in {}}
<1>1. CASE OfFamily(a.who)
  <2>1. staff_only_scope(a, R) = Under("_id", own)
        BY <1>1 DEF staff_only_scope, Narrow
  <2>. QED BY <1>1, <2>1, FoundUnder
<1>2. CASE ~OfFamily(a.who)
  <2>1. staff_only_scope(a, R) = Unnarrowed
        BY <1>2 DEF staff_only_scope, Narrow
  <2>. QED BY <1>2, <2>1, FoundUnnarrowed
<1>. QED BY <1>1, <1>2

LEMMA FamilyClasses ==
    ASSUME NEW a, NEW R
    PROVE  Found(family_class_scope(a, R), R) =
             {r \in R : OfFamily(a.who) =>
                \E s \in family_student_ids(a.who) :
                   r.class \in {None, Pupils[s].class}}
<1>. DEFINE mine == family_student_ids(a.who)
            theirs == IF mine = {} THEN {}
                      ELSE {r \in R : r.class \in ClassesOf(mine) \cup {None}}
<1>1. theirs = {r \in R : \E s \in mine : r.class \in {None, Pupils[s].class}}
      BY DEF ClassesOf
<1>2. CASE OfFamily(a.who)
  <2>1. family_class_scope(a, R) = Under("class_id", theirs)
        BY <1>2 DEF family_class_scope, Narrow
  <2>2. Found(Under("class_id", theirs), R) = {r \in R : r \in theirs}
        BY FoundUnder
  <2>. QED BY <1>1, <1>2, <2>1, <2>2
<1>3. CASE ~OfFamily(a.who)
  <2>1. family_class_scope(a, R) = Unnarrowed
        BY <1>3 DEF family_class_scope, Narrow
  <2>. QED BY <1>3, <2>1, FoundUnnarrowed
<1>. QED BY <1>2, <1>3

\* A pupil is reached by work for their section, or for the whole of their class.
Reaches(r, s) == \/ Pupils[s].section \in r.sections
                 \/ /\ r.sections = {} /\ r.class # None
                    /\ r.class = Pupils[s].class

LEMMA SetForMine ==
    ASSUME NEW mine, NEW R, \A r \in R : None \notin r.sections
    PROVE  SetFor(SectionsOf(mine), ClassesOf(mine), R)
             = {r \in R : \E s \in mine : Reaches(r, s)}
<1>1. ASSUME NEW r \in R
      PROVE  r.sections \cap SectionsOf(mine) # {}
               <=> \E s \in mine : Pupils[s].section \in r.sections
      BY DEF SectionsOf
<1>2. ASSUME NEW r \in R
      PROVE  r.class \in ClassesOf(mine)
               <=> \E s \in mine : r.class # None /\ r.class = Pupils[s].class
      BY DEF ClassesOf
<1>. QED BY <1>1, <1>2 DEF SetFor, Reaches

LEMMA FamilyWork ==
    ASSUME NEW a, NEW R, OfFamily(a.who), \A r \in R : None \notin r.sections
    PROVE  Found(family_assignment_scope(a, R), R) =
             {r \in R : /\ r.status = "published"
                        /\ \E s \in family_student_ids(a.who) : Reaches(r, s)}
<1>. DEFINE mine == family_student_ids(a.who)
            published == {r \in R : r.status = "published"}
            set == SetFor(SectionsOf(mine), ClassesOf(mine), R)
<1>1. CASE mine = {}
  <2>1. family_assignment_scope(a, R) = Under("_id", {})
        BY <1>1 DEF family_assignment_scope
  <2>2. Found(Under("_id", {}), R) = {r \in R : r \in {}}
        BY FoundUnder
  <2>. QED BY <1>1, <2>1, <2>2
<1>2. CASE mine # {}
  <2>1. family_assignment_scope(a, R)
          = Merged({Under("status", published), Under("$or", set)})
        BY <1>2 DEF family_assignment_scope
  <2>2. DOMAIN Under("status", published) \cap DOMAIN Under("$or", set) = {}
    <3>1. DOMAIN Under("status", published) = {"status"}
          BY UnderHas
    <3>2. DOMAIN Under("$or", set) = {"$or"}
          BY UnderHas
    <3>. QED BY <3>1, <3>2
  <2>3. Found(Merged({Under("status", published), Under("$or", set)}), R)
          = Found(Under("status", published), R) \cap Found(Under("$or", set), R)
    <3>. HIDE DEF published, set
    <3>. QED BY <2>2, FoundBoth
  <2>4. set = {r \in R : \E s \in mine : Reaches(r, s)}
        BY SetForMine
  <2>5. Found(Under("status", published), R) = {r \in R : r \in published}
        BY FoundUnder
  <2>6. Found(Under("$or", set), R) = {r \in R : r \in set}
        BY FoundUnder
  <2>. QED BY <2>1, <2>3, <2>4, <2>5, <2>6
<1>. QED BY <1>1, <1>2

LEMMA TaughtThere ==
    ASSUME NEW a
    PROVE  teacher_section_ids(a) \subseteq DOMAIN Sections
  BY AccessAssumption DEF teacher_section_ids

\* A teacher takes what they set themselves, and the work of their sections.
Teaches(a, r) ==
    \/ r.setter = a.who.staff
    \/ \E s \in DOMAIN Sections :
         /\ s \in teacher_section_ids(a)
         /\ s \in r.sections \/ (r.sections = {} /\ r.class = Sections[s].class)

LEMMA WorkWithinReach ==
    ASSUME NEW a, NEW R, \A r \in R : None \notin r.sections
    PROVE  Found(assignment_reach_scope(a, R), R) =
             {r \in R :
                /\ OfFamily(a.who) =>
                     /\ r.status = "published"
                     /\ \E s \in family_student_ids(a.who) : Reaches(r, s)
                /\ ~OfFamily(a.who) /\ Teaching(a.who) => Teaches(a, r)}
<1>. DEFINE sections == teacher_section_ids(a)
            own == {r \in R : r.setter = a.who.staff}
            set == SetFor(sections, {Sections[s].class : s \in sections}, R)
<1>1. CASE OfFamily(a.who)
      BY <1>1, FamilyWork DEF assignment_reach_scope
<1>2. CASE ~OfFamily(a.who) /\ ~Teaching(a.who)
  <2>1. assignment_reach_scope(a, R) = Unnarrowed
        BY <1>2 DEF assignment_reach_scope
  <2>. QED BY <1>2, <2>1, FoundUnnarrowed
<1>3. CASE ~OfFamily(a.who) /\ Teaching(a.who) /\ sections = {}
  <2>1. assignment_reach_scope(a, R) = Under("assigned_by", own)
        BY <1>3 DEF assignment_reach_scope
  <2>2. \A r : Teaches(a, r) <=> r.setter = a.who.staff
        BY <1>3 DEF Teaches
  <2>. QED BY <1>3, <2>1, <2>2, FoundUnder
<1>4. CASE ~OfFamily(a.who) /\ Teaching(a.who) /\ sections # {}
  <2>1. assignment_reach_scope(a, R) = Under("$or", own \cup set)
        BY <1>4 DEF assignment_reach_scope
  <2>2. ASSUME NEW r \in R PROVE r \in own \cup set <=> Teaches(a, r)
        BY TaughtThere DEF Teaches, SetFor
  <2>3. Found(Under("$or", own \cup set), R) = {r \in R : r \in own \cup set}
        BY FoundUnder
  <2>. QED BY <1>4, <2>1, <2>2, <2>3
<1>. QED BY <1>1, <1>2, <1>3, <1>4

-----------------------------------------------------------------------------
(* Lists.                                                                  *)

LEMMA YearRead ==
    ASSUME NEW a
    PROVE  year_for(a) = IF OfFamily(a.who) \/ a.header \notin Years
                         THEN a.current ELSE a.header
  BY AccessAssumption DEF year_for, apply_academic_year

LEMMA DatedAsScoped ==
    ASSUME NEW a, NEW r, "year" \in DOMAIN r
    PROVE  Dated(a, r) <=> (year_for(a) # None => r.year \in {year_for(a), None})
  BY YearRead DEF Dated

LEMMA Undated == ASSUME NEW a, NEW r, "year" \notin DOMAIN r PROVE Dated(a, r)
  BY DEF Dated

\* The scope a resource is registered with finds whose rows they are.
LEMMA ScopeConcerns ==
    ASSUME NEW a, a.resource \in DOMAIN Register, NEW R, R = Register[a.resource]
    PROVE  Found(Scope(a, R), R) = {r \in R : Concerns(a, r) /\ Dated(a, r)}
<1>. DEFINE Wanted == {r \in R : Concerns(a, r) /\ Dated(a, r)}
<1>1. a.resource \in {"assignments", "sections", "syllabus", "terms", "students",
                      "subjects", "invoices", "vehicles", "staff"}
      BY AccessAssumption DEF Yearly
<1>2. \A r \in R : ("year" \in DOMAIN r) <=> a.resource \in Yearly
      BY AccessAssumption
<1>3. ASSUME a.resource \in Yearly, NEW r \in R
      PROVE  Dated(a, r) <=> (year_for(a) # None => r.year \in {year_for(a), None})
      BY <1>2, <1>3, DatedAsScoped
<1>4. ASSUME a.resource \notin Yearly, NEW r \in R
      PROVE  Dated(a, r)
      BY <1>2, <1>4, Undated
<1>5. CASE a.resource = "assignments"
  <2>1. \A r \in R : None \notin r.sections
        BY <1>5, AccessAssumption
  <2>2. Scope(a, R) =
          all_of(<<assignment_reach_scope(a, R), academic_year_scope(a, R)>>, R)
        BY <1>5 DEF Scope
  <2>3. Found(Scope(a, R), R) =
          Found(assignment_reach_scope(a, R), R) \cap Found(academic_year_scope(a, R), R)
        BY <2>2, AllOfBoth
  <2>4. ASSUME NEW r
        PROVE  Concerns(a, r) <=>
                 /\ OfFamily(a.who) =>
                      /\ r.status = "published"
                      /\ \E s \in family_student_ids(a.who) : Reaches(r, s)
                 /\ ~OfFamily(a.who) /\ Teaching(a.who) => Teaches(a, r)
        BY <1>5 DEF Concerns, Reaches, Teaches
  <2>. QED BY <1>3, <1>5, <2>1, <2>3, <2>4, WorkWithinReach, OneYear DEF Yearly
<1>6. CASE a.resource = "sections"
  <2>1. Found(Scope(a, R), R) = Found(teacher_own_sections_scope(a, R), R)
                                  \cap Found(academic_year_scope(a, R), R)
        BY <1>6, AllOfBoth DEF Scope
  <2>2. \A r : Concerns(a, r) <=>
                 (Teaching(a.who) => r.section \in teacher_section_ids(a))
        BY <1>6 DEF Concerns
  <2>. QED BY <1>3, <1>6, <2>1, <2>2, TaughtSections, OneYear DEF Yearly
<1>7. CASE a.resource = "students"
  <2>1. Found(Scope(a, R), R) = Found(own_student_scope(a, R), R)
                                  \cap Found(teacher_student_scope(a, R), R)
        BY <1>7, AllOfBoth DEF Scope
  <2>2. \A r : Concerns(a, r) <=>
          /\ OfFamily(a.who) => r.student \in family_student_ids(a.who)
          /\ Teaching(a.who) => Pupils[r.student].section \in teacher_section_ids(a)
        BY <1>7 DEF Concerns
  <2>. QED BY <1>4, <1>7, <2>1, <2>2, OwnStudents, TaughtStudents DEF Yearly
<1>8. CASE a.resource = "syllabus"
  <2>1. Found(Scope(a, R), R) = Found(family_class_scope(a, R), R)
                                  \cap Found(academic_year_scope(a, R), R)
        BY <1>8, AllOfBoth DEF Scope
  <2>2. \A r : Concerns(a, r) <=>
          (OfFamily(a.who) => \E s \in family_student_ids(a.who) :
                                r.class \in {None, Pupils[s].class})
        BY <1>8 DEF Concerns
  <2>. QED BY <1>3, <1>8, <2>1, <2>2, FamilyClasses, OneYear DEF Yearly
<1>9. CASE a.resource = "subjects"
  <2>1. Scope(a, R) = family_class_scope(a, R)
        BY <1>9 DEF Scope
  <2>2. \A r : Concerns(a, r) <=>
          (OfFamily(a.who) => \E s \in family_student_ids(a.who) :
                                r.class \in {None, Pupils[s].class})
        BY <1>9 DEF Concerns
  <2>. QED BY <1>4, <1>9, <2>1, <2>2, FamilyClasses DEF Yearly
<1>10. CASE a.resource = "terms"
  <2>1. Scope(a, R) = academic_year_scope(a, R)
        BY <1>10 DEF Scope
  <2>2. \A r : Concerns(a, r)
        BY <1>10 DEF Concerns
  <2>. QED BY <1>3, <1>10, <2>1, <2>2, OneYear DEF Yearly
<1>11. CASE a.resource = "invoices"
  <2>1. Scope(a, R) = student_row_scope(a, R)
        BY <1>11 DEF Scope
  <2>2. \A r : Concerns(a, r) <=>
          (OfFamily(a.who) => r.student \in family_student_ids(a.who))
        BY <1>11 DEF Concerns
  <2>. QED BY <1>4, <1>11, <2>1, <2>2, StudentRows DEF Yearly
<1>12. CASE a.resource = "vehicles"
  <2>1. Scope(a, R) = staff_only_scope(a, R)
        BY <1>12 DEF Scope
  <2>2. \A r : Concerns(a, r) <=> ~OfFamily(a.who)
        BY <1>12 DEF Concerns
  <2>. QED BY <1>4, <1>12, <2>1, <2>2, NoFamily DEF Yearly
<1>13. CASE a.resource = "staff"
  <2>1. Scope(a, R) = staff_scope(a, R)
        BY <1>13 DEF Scope
  <2>2. \A r : Concerns(a, r) <=>
          (a.who.staff # None /\ ~a.who.editsStaff => r.staff = a.who.staff)
        BY <1>13 DEF Concerns
  <2>. QED BY <1>4, <1>13, <2>1, <2>2, OneselfOnly DEF Yearly
<1>. QED BY <1>1, <1>5, <1>6, <1>7, <1>8, <1>9, <1>10, <1>11, <1>12, <1>13

\* What is listed is found by the list's scope: it opens by its id, and what
\* a family is listed of its homework is on the Homework screen.
LEMMA ListedOpens ==
    ASSUME NEW a, a.resource \in DOMAIN Register, NEW R, R = Register[a.resource]
    PROVE  Found(Scope(a, R), R) \subseteq OpensById(a, R)
<1>1. Found(Scope(a, R), R) = {r \in R : Concerns(a, r) /\ Dated(a, r)}
      BY ScopeConcerns
<1>2. CASE a.resource = "sections"
      BY <1>1, <1>2 DEF OpensById, Concerns
<1>3. CASE a.resource = "assignments"
  <2>1. Scope(a, R) =
          all_of(<<assignment_reach_scope(a, R), academic_year_scope(a, R)>>, R)
        BY <1>3 DEF Scope
  <2>2. Found(Scope(a, R), R) \subseteq Found(assignment_reach_scope(a, R), R)
        BY <2>1, AllOfBoth
  <2>. QED BY <1>3, <2>2 DEF OpensById
<1>4. CASE a.resource = "students"
      BY <1>1, <1>4 DEF OpensById, Concerns
<1>5. CASE a.resource \notin {"sections", "assignments", "students"}
      BY <1>1, <1>5 DEF OpensById
<1>. QED BY <1>2, <1>3, <1>4, <1>5

LEMMA ListedIsHomework ==
    ASSUME NEW a, a.resource = "assignments", "assignments" \in DOMAIN Register,
           NEW R, R = Register["assignments"], OfFamily(a.who)
    PROVE  Found(Scope(a, R), R) \subseteq my_assignments(a, R)
<1>1. Found(Scope(a, R), R) = {r \in R : Concerns(a, r) /\ Dated(a, r)}
      BY ScopeConcerns
<1>2. SUFFICES ASSUME NEW r \in R, Concerns(a, r)
      PROVE  r \in my_assignments(a, R)
      BY <1>1
<1>3. r.status = "published" /\ \E s \in family_student_ids(a.who) : Reaches(r, s)
      BY <1>2 DEF Concerns, Reaches
<1>4. PICK s \in family_student_ids(a.who) : Reaches(r, s)
      BY <1>3
<1>5. r \in SetFor({Pupils[s].section} \ {None}, {Pupils[s].class} \ {None}, R)
      BY <1>2, <1>4, AccessAssumption DEF SetFor, Reaches
<1>. QED BY <1>3, <1>5 DEF my_assignments

-----------------------------------------------------------------------------
(* The menu.                                                               *)

\* Wildcards expanded or not, the same is permitted.
LEMMA ExpandedPermits ==
    ASSUME NEW G, NEW p
    PROVE  has_permission(expand(G) \cup G, p) <=> has_permission(G, p)
<1>. DEFINE whole == <<p[1], "*">>
            all == ALL_PERMISSIONS
<1>1. expand(G) \subseteq all \cup G
      BY DEF expand
<1>2. Anything \in expand(G) => Anything \in G
  <2>1. Anything \notin G => expand(G) = {q \in G : ~IsWildcard(q)}
                                           \cup {q \in all : <<q[1], "*">> \in G}
        BY DEF expand
  <2>2. <<Anything[1], "*">> = Anything
        BY DEF Anything
  <2>. QED BY <2>1, <2>2
<1>3. ASSUME Anything \notin G, NEW q \in expand(G)
      PROVE  q \in G \/ <<q[1], "*">> \in G
      BY <1>3 DEF expand
<1>4. <<whole[1], "*">> = whole
      OBVIOUS
<1>5. Anything \in G \cup expand(G) \/ p \in G \cup expand(G) \/ whole \in G \cup expand(G)
      => Anything \in G \/ p \in G \/ whole \in G
      BY <1>2, <1>3, <1>4
<1>6. \A S : has_permission(S, p) <=> Anything \in S \/ p \in S \/ whole \in S
      BY DEF has_permission
<1>. HIDE DEF whole
<1>. QED BY <1>5, <1>6

\* Every table the modules are merged of lets each of its modules be read.
LEMMA ModulesAreRead ==
    \A m \in DOMAIN MODULES : "read" \in MODULES[m]
<1>. DEFINE Table(t) == \A m \in DOMAIN t : "read" \in t[m]
<1>1. ASSUME NEW ms, NEW actions, "read" \in actions
      PROVE  Table(Having(ms, actions))
      BY <1>1 DEF Having
<1>2. ASSUME NEW tables, \A t \in tables : Table(t)
      PROVE  \A m \in DOMAIN Merged(tables) : "read" \in Merged(tables)[m]
  <2>1. TAKE m \in DOMAIN Merged(tables)
  <2>2. \E t \in tables : m \in DOMAIN t
        BY DEF Merged
  <2>. QED BY <1>2, <2>1, <2>2 DEF Merged
<1>3. "read" \in CRUD
      BY DEF CRUD
<1>. HIDE DEF Table
<1>. QED BY <1>1, <1>2, <1>3 DEF MODULES

LEMMA ModulesNamed ==
    {"users", "roles", "academic_years", "departments", "programs", "classes",
     "subjects", "syllabus", "alumni", "fees", "transport", "hostel",
     "inventory", "visitors", "documents", "dashboard", "settings", "audit",
     "reports", "messages", "results", "certificates", "payments", "timetable",
     "assignments", "lms", "announcements", "events", "students", "guardians",
     "staff", "attendance", "invoices", "staff_attendance", "library",
     "expenses", "scholarships", "leaves", "appraisals", "complaints",
     "admissions", "payroll", "exams"} \subseteq DOMAIN MODULES
<1>1. \A tables, ms, actions :
         Having(ms, actions) \in tables => ms \subseteq DOMAIN Merged(tables)
      BY DEF Merged, Having
<1>2. {"users", "roles", "academic_years", "departments", "programs",
       "classes", "subjects", "syllabus", "alumni", "fees", "transport",
       "hostel", "inventory", "visitors", "documents"} \subseteq DOMAIN MODULES
      BY <1>1 DEF MODULES
<1>3. {"dashboard"} \subseteq DOMAIN MODULES
      BY <1>1 DEF MODULES
<1>4. {"settings"} \subseteq DOMAIN MODULES
      BY <1>1 DEF MODULES
<1>5. {"audit", "reports"} \subseteq DOMAIN MODULES
      BY <1>1 DEF MODULES
<1>6. {"messages"} \subseteq DOMAIN MODULES
      BY <1>1 DEF MODULES
<1>7. {"results"} \subseteq DOMAIN MODULES
      BY <1>1 DEF MODULES
<1>8. {"certificates"} \subseteq DOMAIN MODULES
      BY <1>1 DEF MODULES
<1>9. {"payments"} \subseteq DOMAIN MODULES
      BY <1>1 DEF MODULES
<1>10. {"timetable", "assignments", "lms", "announcements", "events"}
         \subseteq DOMAIN MODULES
      BY <1>1 DEF MODULES
<1>11. {"students", "guardians", "staff", "attendance", "invoices",
        "staff_attendance", "library"} \subseteq DOMAIN MODULES
      BY <1>1 DEF MODULES
<1>12. {"expenses", "scholarships", "leaves", "appraisals", "complaints"}
         \subseteq DOMAIN MODULES
      BY <1>1 DEF MODULES
<1>13. {"admissions", "payroll"} \subseteq DOMAIN MODULES
      BY <1>1 DEF MODULES
<1>14. {"exams"} \subseteq DOMAIN MODULES
      BY <1>1 DEF MODULES
<1>. QED BY <1>2, <1>3, <1>4, <1>5, <1>6, <1>7, <1>8, <1>9, <1>10, <1>11, <1>12, <1>13, <1>14

\* A page of the sidebar: its permission is of the module it belongs to and is
\* in the catalogue, it is for families, against them or for anyone, and the
\* pages of Faculties are of those modules.
Fits(i) ==
    /\ i.permission \in ALL_PERMISSIONS /\ i.permission[1] = i.module
    /\ i.portals \in {{}, FAMILY} /\ i.not_portals \in {{}, FAMILY}
    /\ i.page \in {"departments", "programs"} => i.module = i.page

LEMMA TableFits ==
    ASSUME NEW table, NEW portals \in {{}, FAMILY}, NEW others \in {{}, FAMILY},
           \A x \in DOMAIN table :
             /\ table[x] \in DOMAIN MODULES
             /\ x \in {"departments", "programs"} => table[x] = x
    PROVE  \A i \in NavItems(table, portals, others) : Fits(i)
<1>1. SUFFICES ASSUME NEW x \in DOMAIN table
      PROVE  Fits(NavItem(x, table[x], "read", portals, others))
      BY DEF NavItems
<1>. DEFINE i == NavItem(x, table[x], "read", portals, others)
<1>2. /\ i.page = x /\ i.permission = <<table[x], "read">> /\ i.module = table[x]
      /\ i.portals = portals /\ i.not_portals = others
      BY DEF NavItem
<1>3. <<table[x], "read">> \in ALL_PERMISSIONS
  <2>1. table[x] \in DOMAIN MODULES /\ "read" \in MODULES[table[x]]
        BY <1>1, ModulesAreRead
  <2>2. <<table[x], "read">> \in {table[x]} \X MODULES[table[x]]
        BY <2>1
  <2>. QED BY <2>1, <2>2, Zenon DEF ALL_PERMISSIONS
<1>. QED BY <1>1, <1>2, <1>3 DEF Fits

LEMMA NavigationFits == \A i \in NAVIGATION : Fits(i)
<1>1. ASSUME NEW tables, NEW x \in DOMAIN Merged(tables)
      PROVE  \E t \in tables : x \in DOMAIN t /\ Merged(tables)[x] = t[x]
  <2>1. \E t \in tables : x \in DOMAIN t
        BY DEF Merged
  <2>. QED BY <2>1 DEF Merged
<1>. DEFINE Sound(t) == \A x \in DOMAIN t :
              /\ t[x] \in DOMAIN MODULES
              /\ x \in {"departments", "programs"} => t[x] = x
<1>2. ASSUME NEW tables, \A t \in tables : Sound(t)
      PROVE  Sound(Merged(tables))
      BY <1>1, <1>2
<1>3. ASSUME NEW ms \in SUBSET DOMAIN MODULES PROVE Sound(Namesake(ms))
      BY DEF Namesake
<1>4. Sound([calendar |-> "events", assistant |-> "dashboard",
             holidays |-> "academic_years", live_classes |-> "lms",
             biometrics |-> "staff_attendance"])
      BY ModulesNamed
<1>5. Sound([my_record |-> "attendance", homework |-> "assignments",
             my_fees |-> "invoices", my_library |-> "library",
             my_bus |-> "transport"])
      BY ModulesNamed
<1>6. Sound([tracking |-> "transport"])
      BY ModulesNamed
<1>7. Fits(NavItem("teaching", "subjects", "update", {}, FAMILY))
  <2>1. "update" \in MODULES["subjects"] /\ "subjects" \in DOMAIN MODULES
    <3>1. "subjects" \in DOMAIN MODULES
          BY ModulesNamed
    <3>2. \A ms, actions : /\ DOMAIN Having(ms, actions) = ms
                          /\ \A m \in ms : Having(ms, actions)[m] = actions
          BY DEF Having
    <3>3. "update" \in MODULES["subjects"]
          BY <1>1, <3>1, <3>2 DEF MODULES, CRUD
    <3>. QED BY <3>1, <3>3
  <2>2. <<"subjects", "update">> \in {"subjects"} \X MODULES["subjects"]
        BY <2>1
  <2>3. <<"subjects", "update">> \in ALL_PERMISSIONS
        BY <2>1, <2>2, Zenon DEF ALL_PERMISSIONS
  <2>. QED BY <2>3 DEF Fits, NavItem
<1>8. ASSUME NEW t, Sound(t), NEW p \in {{}, FAMILY}, NEW o \in {{}, FAMILY}
      PROVE  \A i \in NavItems(t, p, o) : Fits(i)
      BY <1>8, TableFits
<1>. HIDE DEF Sound
<1>9. /\ Sound(Merged({
           Namesake({"dashboard", "students", "timetable", "exams", "staff",
               "guardians", "admissions", "alumni", "classes", "subjects",
               "departments", "programs", "syllabus", "lms", "fees",
               "scholarships", "expenses", "payroll", "leaves",
               "appraisals", "hostel", "inventory", "visitors",
               "announcements", "messages", "complaints", "reports",
               "documents", "certificates", "audit", "users", "roles",
               "settings", "academic_years", "staff_attendance"}),
           [calendar |-> "events", assistant |-> "dashboard",
            holidays |-> "academic_years", live_classes |-> "lms",
            biometrics |-> "staff_attendance"]}))
      /\ Sound(Merged({
           Namesake({"attendance", "assignments", "results", "invoices",
                    "payments", "library", "transport", "events"}),
           [tracking |-> "transport"]}))
      BY <1>2, <1>3, <1>4, <1>6, ModulesNamed
<1>. QED BY <1>5, <1>7, <1>8, <1>9 DEF NAVIGATION

\* What a menu request is told is honest.
LEMMA MenuAnswered ==
    ASSUME ForMenu(asked), AnswerMenu PROVE MenuHonest'
<1>. DEFINE G == Granted(asked.roles)
            held == Permissions(asked.roles)
            pages == {i.page : i \in {j \in NAVIGATION : Shown(asked, held, j)}}
            doors == {p \in ALL_PERMISSIONS : Admits(asked, held, p)}
            ended == asked.subscription \in {"expired", "cancelled"}
            open == is_usable(asked) /\ ~(asked.saas /\ ended)
            kin == Portal(asked.roles) \in FAMILY
            hasScreen(i) == /\ i.portals = FAMILY => kin
                            /\ i.not_portals = FAMILY => ~kin
<1>1. /\ told' = [pages |-> pages, doors |-> doors] /\ asked' = asked
      BY DEF AnswerMenu
<1>2. told'.pages = pages /\ told'.doors = doors
      BY <1>1
<1>3. ASSUME NEW p PROVE has_permission(held, p) <=> has_permission(G, p)
      BY ExpandedPermits DEF Permissions
<1>4. ASSUME open, NEW p \in ALL_PERMISSIONS
      PROVE  p \in doors <=> module_enabled(asked, p[1]) /\ has_permission(G, p)
      BY <1>3, <1>4 DEF Admits
<1>5. ~open => doors = {}
      BY DEF Admits
<1>6. ASSUME open, NEW j \in NAVIGATION
      PROVE  Shown(asked, held, j) <=> hasScreen(j) /\ j.permission \in doors
  <2>1. Fits(j)
        BY NavigationFits
  <2>2. FAMILY # {}
        BY DEF FAMILY
  <2>3. /\ (j.portals = {} \/ Portal(asked.roles) \in j.portals)
             <=> (j.portals = FAMILY => kin)
        /\ Portal(asked.roles) \notin j.not_portals
             <=> (j.not_portals = FAMILY => ~kin)
        BY <2>1, <2>2 DEF Fits
  <2>4. j.permission \in doors
          <=> module_enabled(asked, j.module) /\ has_permission(held, j.permission)
        BY <1>3, <1>4, <1>6, <2>1 DEF Fits
  <2>. HIDE DEF doors, held, kin
  <2>. QED BY <2>3, <2>4 DEF Shown
<1>7. open => pages = {i.page : i \in {j \in NAVIGATION :
                                          hasScreen(j) /\ j.permission \in doors}}
  <2>. HIDE DEF doors, held, hasScreen, open
  <2>. QED BY <1>6
<1>8. asked.type = "school" => pages \cap {"departments", "programs"} = {}
  <2>1. ASSUME asked.type = "school", NEW j \in NAVIGATION,
               j.page \in {"departments", "programs"}
        PROVE  ~Shown(asked, held, j)
    <3>1. j.module \in {"departments", "programs"}
          BY <2>1, NavigationFits DEF Fits
    <3>2. ~module_enabled(asked, j.module)
          BY <2>1, <3>1 DEF module_enabled, suits, HIGHER_ED
    <3>. QED BY <3>2 DEF Shown
  <2>. QED BY <2>1
<1>. HIDE DEF pages, doors, G, held
<1>9. MenuHonest' =
        (told' # None /\ ForMenu(asked') =>
           /\ open => told'.pages = {i.page : i \in {j \in NAVIGATION :
                         hasScreen(j) /\ j.permission \in told'.doors}}
           /\ open => \A p \in ALL_PERMISSIONS :
                 p \in told'.doors <=> module_enabled(asked, p[1])
                                         /\ has_permission(G, p)
           /\ ~open => told'.doors = {}
           /\ asked.type = "school" =>
                 told'.pages \cap {"departments", "programs"} = {})
      BY <1>1, Zenon DEF MenuHonest, G
<1>. QED BY <1>2, <1>4, <1>5, <1>7, <1>8, <1>9

LEMMA ListAnswered ==
    ASSUME asked \in ListRequests, AnswerList PROVE ListHonest'
<1>. DEFINE R == Register[asked.resource]
            scope == Scope(asked, R)
            chosen == Chosen(asked, R)
            rows == Found(build_query(scope, chosen, asked.search, R), R)
            sought == Sought(asked, R)
            theirs == {r \in sought : Concerns(asked, r) /\ Dated(asked, r)}
<1>1. asked' = asked /\ told'.rows = rows /\ told'.opens = OpensById(asked, R)
      BY DEF AnswerList
<1>2. asked.resource = "assignments" => told'.homework = my_assignments(asked, R)
      BY DEF AnswerList
<1>3. asked.resource \in DOMAIN Register /\ asked.search \in BOOLEAN
      BY DEF ListRequests
<1>4. rows = {r \in Found(Overlaid(chosen, scope), R) : asked.search => r.hit}
      BY <1>3, SearchNarrows
<1>5. Found(scope, R) = {r \in R : Concerns(asked, r) /\ Dated(asked, r)}
      BY <1>3, ScopeConcerns
<1>6. /\ sought = {r \in Found(chosen, R) : asked.search => r.hit}
      /\ theirs = {r \in sought : r \in Found(scope, R)}
  <2>1. Found(chosen, R) = {r \in R : \A k \in DOMAIN chosen : r \in chosen[k]}
        BY DEF Found
  <2>2. sought = {r \in R : /\ asked.search => r.hit
                            /\ \A k \in DOMAIN chosen : r \in chosen[k]}
        BY DEF Sought
  <2>. HIDE DEF chosen, scope
  <2>. QED BY <1>5, <2>1, <2>2
<1>7. Displaced(asked, R) = DOMAIN chosen \cap DOMAIN scope
      BY DEF Displaced
<1>8. theirs \subseteq rows /\ rows \subseteq sought
  <2>. HIDE DEF chosen, scope, rows, sought, theirs
  <2>. QED BY <1>4, <1>6, OverlaidFinds
<1>9. Displaced(asked, R) = {} => rows = theirs
  <2>. HIDE DEF chosen, scope, rows, sought, theirs
  <2>. QED BY <1>4, <1>6, <1>7, OverlaidFinds
<1>10. theirs \subseteq Found(scope, R)
      BY <1>6
<1>11. theirs \subseteq OpensById(asked, R)
      BY <1>3, <1>10, ListedOpens
<1>12. asked.resource = "assignments" /\ OfFamily(asked.who)
         => theirs \subseteq my_assignments(asked, R)
      BY <1>3, <1>10, ListedIsHomework
<1>13. ListHonest' =
         (told' # None /\ ~ForMenu(asked) =>
            /\ theirs \subseteq told'.rows /\ told'.rows \subseteq sought
            /\ Displaced(asked, R) = {} =>
                 /\ told'.rows = theirs
                 /\ told'.rows \subseteq told'.opens
                 /\ asked.resource = "assignments" /\ OfFamily(asked.who)
                      => told'.rows \subseteq told'.homework)
      BY <1>1, Zenon DEF ListHonest
<1>. HIDE DEF scope, chosen, rows, sought, theirs
<1>. QED BY <1>1, <1>2, <1>8, <1>9, <1>11, <1>12, <1>13

AccessSound == asked \in Visits \cup ListRequests /\ AccessInOrder

\* Whoever asks, for any registers, allocations, families, years and filters:
\* the menu shows the pages whose guard opens; a list shows every row that
\* concerns the person, is of the year they read and is sought, and nothing a
\* search or a filter excludes; and as long as no filter displaces a condition
\* of the scope it shows no other row, and each of its rows opens by its id.
THEOREM EverybodySeesTheirOwn == AccessSpec => []AccessInOrder
<1>1. AccessInit => AccessSound
      BY DEF AccessInit, AccessSound, AccessInOrder, MenuHonest, ListHonest
<1>2. AccessSound /\ [Answer]_<<asked, told>> => AccessSound'
  <2>1. SUFFICES ASSUME AccessSound, [Answer]_<<asked, told>>
        PROVE  AccessSound'
        OBVIOUS
  <2>2. ForMenu(asked) \/ asked \in ListRequests
        BY <2>1, AccessAssumption DEF AccessSound, ForMenu
  <2>4. CASE AnswerMenu
    <3>1. asked' = asked /\ ForMenu(asked)
          BY <2>4 DEF AnswerMenu
    <3>2. ListHonest'
          BY <3>1 DEF ListHonest, ForMenu
    <3>. QED BY <2>1, <2>4, <3>1, <3>2, MenuAnswered DEF AccessSound, AccessInOrder
  <2>5. CASE AnswerList
    <3>1. asked' = asked /\ ~ForMenu(asked)
          BY <2>5 DEF AnswerList
    <3>2. MenuHonest'
          BY <3>1 DEF MenuHonest, ForMenu
    <3>. QED BY <2>1, <2>2, <2>5, <3>1, <3>2, ListAnswered
             DEF AccessSound, AccessInOrder
  <2>6. CASE UNCHANGED <<asked, told>>
        BY <2>1, <2>6 DEF AccessSound, AccessInOrder, MenuHonest, ListHonest, ForMenu
  <2>. QED BY <2>1, <2>4, <2>5, <2>6 DEF Answer
<1>3. AccessSound => AccessInOrder
      BY DEF AccessSound
<1>. QED BY <1>1, <1>2, <1>3, PTL DEF AccessSpec

-----------------------------------------------------------------------------
(* A family's bills: what a bill has been charged is what it was raised    *)
(* for and at most the late fee of today; what was paid is at most that;   *)
(* and the label says the run that raised it, one bill to a label.         *)

LateFeeOn(d, due) ==
    LET days == d - due - LateFee.grace
    IN  IF days <= 0 THEN 0 ELSE Min({days * LateFee.per_day, LateFee.cap})

BillFields == {"label", "cycle", "index", "raised", "due", "base", "total",
               "paid", "status"}
BillSound(b, d) ==
    /\ DOMAIN b = BillFields
    /\ b.label = period_label_for(b.cycle, b.raised, b.index)
    /\ b.due \in Int
    /\ b.base \in Nat /\ b.total \in Nat /\ b.paid \in Nat
    /\ b.base <= b.total
    /\ b.total <= b.base + LateFeeOn(d, b.due)
    /\ b.paid <= b.total
    /\ b.status = "paid" => b.paid = b.total

PlanSound ==
    /\ family \in Families
    /\ date \in Nat
    /\ bills \in Seq(Range(bills))
    /\ \A i \in DOMAIN bills : BillSound(bills[i], date)
    /\ \A i, j \in DOMAIN bills : bills[i].label = bills[j].label => i = j

-----------------------------------------------------------------------------
(* The invariant.                                                          *)

LEMMA MinOfTwo ==
    ASSUME NEW m \in Int, NEW n \in Int
    PROVE  Min({m, n}) \in {m, n} /\ Min({m, n}) <= m /\ Min({m, n}) <= n
<1>1. \E x \in {m, n} : \A y \in {m, n} : x <= y
  <2>1. CASE m <= n
    BY <2>1
  <2>2. CASE ~(m <= n)
    BY <2>2
  <2>. QED BY <2>1, <2>2
<1>2. Min({m, n}) \in {m, n} /\ \A y \in {m, n} : Min({m, n}) <= y
  BY <1>1 DEF Min
<1>. QED BY <1>2

LEMMA MinOfOne == ASSUME NEW n \in Int PROVE Min({n}) = n
  BY DEF Min

LEMMA MaxOfOne == ASSUME NEW n \in Int PROVE Max({n}) = n
  BY DEF Max

\* What is owed for being late only grows with the days.
LEMMA LateFeeGrows ==
    ASSUME NEW d \in Nat, NEW e \in Nat, d <= e, NEW due \in Int
    PROVE  /\ LateFeeOn(d, due) \in Nat /\ LateFeeOn(e, due) \in Nat
           /\ LateFeeOn(d, due) <= LateFeeOn(e, due)
<1>. DEFINE p == LateFee.per_day
            g == LateFee.grace
            c == LateFee.cap
            m == d - due - g
            n == e - due - g
<1>1. p \in Nat /\ g \in Nat /\ c \in Nat
  BY FeePlanAssumption
<1>2. m \in Int /\ n \in Int /\ m <= n
  BY <1>1
<1>3. /\ LateFeeOn(d, due) = IF m <= 0 THEN 0 ELSE Min({m * p, c})
      /\ LateFeeOn(e, due) = IF n <= 0 THEN 0 ELSE Min({n * p, c})
  BY DEF LateFeeOn
<1>. HIDE DEF m, n, p, g, c
<1>4. m * p \in Int /\ n * p \in Int
  BY <1>1, <1>2
<1>5. m > 0 => m * p >= 0 /\ n * p >= m * p
  <2>1. ASSUME m > 0 PROVE m * p >= 0 /\ n * p >= m * p
    <3>1. m \in Nat /\ n - m \in Nat
      BY <1>2, <2>1
    <3>2. m * p \in Nat /\ (n - m) * p \in Nat
      BY <1>1, <3>1
    <3>3. n * p = m * p + (n - m) * p
      BY <1>1, <1>2
    <3>. QED BY <1>4, <3>2, <3>3
  <2>. QED BY <2>1
<1>6. n > 0 => n * p >= 0
  BY <1>1, <1>2
<1>. DEFINE mp == m * p
            np == n * p
            a == Min({mp, c})
            b == Min({np, c})
<1>. HIDE DEF mp, np
<1>7. /\ a \in {mp, c} /\ a <= mp /\ a <= c
      /\ b \in {np, c} /\ b <= np /\ b <= c
  <2>1. mp \in Int /\ np \in Int /\ c \in Int
    BY <1>1, <1>4 DEF mp, np
  <2>. QED BY <2>1, MinOfTwo
<1>. HIDE DEF a, b
<1>. QED BY <1>1, <1>2, <1>3, <1>4, <1>5, <1>6, <1>7 DEF a, b, mp, np

LEMMA LateFeeIsNat ==
    ASSUME NEW d \in Nat, NEW due \in Int PROVE LateFeeOn(d, due) \in Nat
<1>1. d <= d
  OBVIOUS
<1>. QED BY <1>1, LateFeeGrows

\* What a line comes to after the discounts is no debt the other way.
LEMMA NetIsNat ==
    ASSUME NEW f \in Families, NEW k \in DOMAIN f.lines
    PROVE  Net(f.lines[k]) \in Nat
<1>. DEFINE line == f.lines[k]
            those == {d \in Concession.discounts :
                         d.heads = {} \/ line.head \in d.heads}
            worth(d) == IF d.percentage
                        THEN (line.amount * Min({d.value, 100})) \div 100
                        ELSE d.value
            w == [d \in those |-> worth(d)]
            own == discount_for_line(line)
                   + (line.amount * Concession.percent) \div 100
<1>1. line.amount \in Nat /\ Concession.percent \in Nat
  BY FeePlanAssumption
<1>2. \A d \in those : d.value \in Nat
  BY FeePlanAssumption
<1>3. ASSUME NEW d \in those PROVE worth(d) \in Nat
  <2>1. d.value \in Nat
    BY <1>2
  <2>2. Min({d.value, 100}) \in Nat
    <3>. DEFINE v == d.value
                h == 100
    <3>1. v \in Nat /\ h \in Nat
      BY <2>1
    <3>. HIDE DEF v, h
    <3>2. v \in Int /\ h \in Int => Min({v, h}) \in {v, h}
      BY MinOfTwo
    <3>3. Min({v, h}) \in Nat
      BY <3>1, <3>2
    <3>. QED BY <3>3 DEF v, h
  <2>. DEFINE x == Min({d.value, 100})
  <2>3. x \in Nat
    BY <2>2
  <2>. HIDE DEF x
  <2>4. line.amount * x \in Nat
    BY <1>1, <2>3
  <2>5. (line.amount * x) \div 100 \in Nat
    BY <2>4
  <2>. QED BY <2>1, <2>5 DEF x
<1>4. IsFiniteSet(those)
  BY FeePlanAssumption, FS_Subset
<1>5. Total(w) \in Nat
  <2>1. w \in [those -> Nat]
    BY <1>3
  <2>. HIDE DEF w, those
  <2>. QED BY <1>4, <2>1, SumNat DEF Total
<1>6. discount_for_line(line) = Min({Total(w), line.amount})
  BY DEF discount_for_line
<1>. HIDE DEF w, those
<1>7. discount_for_line(line) \in Nat
  <2>. DEFINE t == Total(w)
              u == line.amount
  <2>. HIDE DEF t, u
  <2>1. t \in Int /\ u \in Int => Min({t, u}) \in {t, u}
    BY MinOfTwo
  <2>2. t \in Nat /\ u \in Nat
    BY <1>1, <1>5 DEF t, u
  <2>3. Min({t, u}) \in Nat
    BY <2>1, <2>2
  <2>. QED BY <1>6, <2>3 DEF t, u
<1>8. (line.amount * Concession.percent) \div 100 \in Nat
  <2>1. line.amount * Concession.percent \in Nat
    BY <1>1
  <2>. DEFINE x == line.amount * Concession.percent
  <2>. HIDE DEF x
  <2>2. x \in Nat => x \div 100 \in Nat
    OBVIOUS
  <2>. QED BY <2>1, <2>2 DEF x
<1>9. own \in Nat
  BY <1>7, <1>8
<1>10. Net(line) = line.amount - Min({own, line.amount})
  BY DEF Net
<1>. DEFINE u == line.amount
<1>. HIDE DEF own, u
<1>11. own \in Int /\ u \in Int => Min({own, u}) <= u /\ Min({own, u}) \in {own, u}
  BY MinOfTwo
<1>12. u \in Nat /\ Net(line) = u - Min({own, u})
  BY <1>1, <1>10 DEF u
<1>. HIDE DEF line
<1>. QED BY <1>9, <1>11, <1>12 DEF line
\* A run's figure is not negative.
LEMMA BaseIsNat ==
    ASSUME NEW f \in Families, NEW lines \in SUBSET (DOMAIN f.lines)
    PROVE  Total([k \in lines |-> Net(f.lines[k])]) \in Nat
<1>. DEFINE g == [k \in lines |-> Net(f.lines[k])]
<1>1. g \in [lines -> Nat]
  BY NetIsNat
<1>2. IsFiniteSet(lines)
  BY FeePlanAssumption, FS_Subset
<1>. HIDE DEF g
<1>3. Total(g) \in Nat
  BY <1>1, <1>2, SumNat DEF Total
<1>. QED BY <1>3 DEF g

\* A day passes over a bill.
LEMMA BillAges ==
    ASSUME NEW b, NEW d \in Nat, NEW e \in Nat, d <= e, BillSound(b, d)
    PROVE  BillSound(b, e)
<1>1. b.due \in Int /\ b.base \in Nat /\ b.total \in Nat
      /\ b.total <= b.base + LateFeeOn(d, b.due)
  BY DEF BillSound
<1>2. /\ LateFeeOn(d, b.due) \in Nat /\ LateFeeOn(e, b.due) \in Nat
      /\ LateFeeOn(d, b.due) <= LateFeeOn(e, b.due)
  BY <1>1, LateFeeGrows
<1>3. b.total <= b.base + LateFeeOn(e, b.due)
  BY <1>1, <1>2
<1>. QED BY <1>3 DEF BillSound

LEMMA PlanInitSound == ASSUME PlanInit PROVE PlanSound
<1>1. bills = <<>> /\ DOMAIN bills = {}
  BY DEF PlanInit
<1>2. bills \in Seq(Range(bills))
  BY <1>1
<1>. QED BY <1>1, <1>2, FeePlanAssumption DEF PlanSound, PlanInit

\* Bills keep their labels and go on being sound.
LEMMA BillsKept ==
    ASSUME PlanSound, UNCHANGED <<date, family>>,
           bills' = [i \in DOMAIN bills |-> bills'[i]],
           \A i \in DOMAIN bills : BillSound(bills'[i], date)
                                   /\ bills'[i].label = bills[i].label
    PROVE  PlanSound'
<1>1. DOMAIN bills' = DOMAIN bills
  OBVIOUS
<1>2. Len(bills) \in Nat /\ DOMAIN bills = 1..Len(bills)
  BY DEF PlanSound
<1>3. bills' \in Seq(Range(bills'))
  <2>1. bills' = [i \in 1..Len(bills) |-> bills'[i]]
    BY <1>2
  <2>2. \A i \in 1..Len(bills) : bills'[i] \in Range(bills')
    BY <1>1, <1>2 DEF Range
  <2>. QED BY <1>2, <2>1, <2>2
<1>. QED BY <1>1, <1>3 DEF PlanSound

LEMMA GenerateSound ==
    ASSUME PlanSound, NEW cycle, NEW index, generate_invoices(cycle, index)
    PROVE  PlanSound'
<1>. DEFINE label == period_label_for(cycle, date, index)
            billable == {k \in DOMAIN family.lines :
                           cycle \in {"all", family.lines[k].frequency}}
            lines == {k \in billable :
                        _student_is_billed_for(family, family.lines[k])}
            base == Total([k \in lines |-> Net(family.lines[k])])
            due == _due_date_for(cycle, billable)
            new == [label |-> label, cycle |-> cycle, index |-> index,
                    raised |-> date, due |-> due, base |-> base,
                    total |-> base, paid |-> 0, status |-> "issued"]
<1>1. /\ BillOf(label) = {}
      /\ bills' = Append(bills, new)
      /\ UNCHANGED <<date, family>>
  BY DEF generate_invoices
<1>2. base \in Nat
  <2>1. lines \in SUBSET DOMAIN family.lines /\ family \in Families
    BY DEF PlanSound
  <2>. HIDE DEF lines
  <2>. QED BY <2>1, BaseIsNat
<1>3. due \in Int
  <2>. DEFINE days == {family.lines[k].due_day : k \in billable}
              m == date \div MonthLength
              h == MonthLength \div 2
  <2>1. MonthLength \in Nat /\ MonthLength > 0 /\ date \in Nat /\ family \in Families
    BY FeePlanAssumption DEF PlanSound
  <2>2. days \subseteq Nat
    BY <2>1, FeePlanAssumption
  <2>3. m \in Int /\ h \in Int
    BY <2>1
  <2>4. due = IF cycle = "monthly" /\ Cardinality(days) = 1
              THEN m * MonthLength + Min(days) - 1 ELSE date + h
    BY DEF _due_date_for
  <2>. HIDE DEF days, m, h, due
  <2>5. Cardinality(days) = 1 => Min(days) \in Nat
    <3>1. ASSUME Cardinality(days) = 1 PROVE Min(days) \in Nat
      <4>1. PICK x : days = {x}
        <5>1. IsFiniteSet(days)
          <6>1. IsFiniteSet(billable)
            BY <2>1, FeePlanAssumption, FS_Subset
          <6>. DEFINE k == [x \in billable |-> family.lines[x].due_day]
          <6>2. k \in Surjection(billable, days)
            BY DEF Surjection, days
          <6>. QED BY <6>1, <6>2, FS_Surjection
        <5>. QED BY <3>1, <5>1, FS_Singleton
      <4>. QED BY <2>2, <4>1, MinOfOne
    <3>. QED BY <3>1
  <2>6. m * MonthLength \in Int
    BY <2>1, <2>3
  <2>. QED BY <2>1, <2>3, <2>4, <2>5, <2>6
<1>. HIDE DEF base, due
<1>4. BillSound(new, date)
  <2>1. LateFeeOn(date, due) \in Nat
    BY <1>3, LateFeeIsNat DEF PlanSound
  <2>2. DOMAIN new = BillFields
    BY DEF BillFields
  <2>. QED BY <1>2, <1>3, <2>1, <2>2 DEF BillSound
<1>. HIDE DEF new
<1>5. bills \in Seq(Range(bills)) /\ DOMAIN bills = 1..Len(bills) /\ Len(bills) \in Nat
  BY DEF PlanSound
<1>6. bills \in Seq(Range(bills) \cup {new})
  <2>1. \A i \in 1..Len(bills) : bills[i] \in Range(bills) \cup {new}
    BY <1>5 DEF Range
  <2>2. bills = [i \in 1..Len(bills) |-> bills[i]]
    BY <1>5
  <2>. QED BY <1>5, <2>1, <2>2
<1>7. /\ bills' \in Seq(Range(bills) \cup {new})
      /\ DOMAIN bills' = 1..(Len(bills) + 1)
      /\ \A i \in DOMAIN bills : bills'[i] = bills[i]
      /\ bills'[Len(bills) + 1] = new
  BY <1>1, <1>5, <1>6
<1>8. bills' \in Seq(Range(bills'))
  <2>1. \A i \in DOMAIN bills' : bills'[i] \in Range(bills')
    BY DEF Range
  <2>2. Len(bills') \in Nat /\ DOMAIN bills' = 1..Len(bills')
        /\ bills' = [i \in 1..Len(bills') |-> bills'[i]]
    BY <1>7
  <2>. QED BY <2>1, <2>2
<1>9. \A i \in DOMAIN bills' : i \in DOMAIN bills \/ i = Len(bills) + 1
  BY <1>5, <1>7
<1>10. \A i \in DOMAIN bills' : BillSound(bills'[i], date')
  BY <1>1, <1>4, <1>7, <1>9 DEF PlanSound
<1>11. new.label = label /\ \A i \in DOMAIN bills : bills[i].label # label
  BY <1>1 DEF BillOf, new
<1>12. \A i, j \in DOMAIN bills' : bills'[i].label = bills'[j].label => i = j
  <2>. HIDE DEF label
  <2>. QED BY <1>7, <1>9, <1>11 DEF PlanSound
<1>. QED BY <1>1, <1>8, <1>10, <1>12 DEF PlanSound

LEMMA CollectSound ==
    ASSUME PlanSound, NEW i \in DOMAIN bills, NEW amount \in Sums,
           collect_payment(i, amount)
    PROVE  PlanSound'
<1>. DEFINE b == bills[i]
            balance == b.total - b.paid
            paid == b.paid + Min({balance, amount})
            c == [b EXCEPT !.paid = paid,
                           !.status = IF paid >= b.total THEN "paid"
                                      ELSE "partially_paid"]
<1>1. /\ balance > 0
      /\ bills' = [bills EXCEPT ![i] = c]
      /\ UNCHANGED <<date, family>>
  BY DEF collect_payment
<1>2. BillSound(b, date)
  BY DEF PlanSound
<1>3. amount \in Nat /\ b.total \in Nat /\ b.paid \in Nat
  BY <1>2, FeePlanAssumption DEF BillSound
<1>4. paid \in Nat /\ paid <= b.total
  <2>1. balance \in Int /\ amount \in Int
    BY <1>3
  <2>2. b.total = b.paid + balance
    BY <1>3
  <2>. HIDE DEF balance, b
  <2>3. Min({balance, amount}) \in {balance, amount} /\ Min({balance, amount}) <= balance
    BY <2>1, MinOfTwo
  <2>. QED BY <1>1, <1>3, <2>1, <2>2, <2>3
<1>. HIDE DEF paid, b
<1>5. BillSound(c, date) /\ c.label = b.label
  <2>1. DOMAIN c = DOMAIN b /\ DOMAIN b = BillFields
    BY <1>2 DEF BillSound
  <2>2. /\ c.label = b.label /\ c.cycle = b.cycle /\ c.raised = b.raised
        /\ c.index = b.index /\ c.due = b.due /\ c.base = b.base
        /\ c.total = b.total /\ c.paid = paid
        /\ c.status = IF paid >= b.total THEN "paid" ELSE "partially_paid"
    BY <2>1 DEF BillFields
  <2>. HIDE DEF c
  <2>. QED BY <1>2, <1>3, <1>4, <2>1, <2>2 DEF BillSound
<1>. HIDE DEF c
<1>6. /\ bills' = [j \in DOMAIN bills |-> bills'[j]]
      /\ bills'[i] = c /\ \A j \in DOMAIN bills \ {i} : bills'[j] = bills[j]
  BY <1>1
<1>7. \A j \in DOMAIN bills : BillSound(bills'[j], date)
                                /\ bills'[j].label = bills[j].label
  BY <1>5, <1>6 DEF PlanSound, b
<1>. QED BY <1>1, <1>6, <1>7, BillsKept

LEMMA OverdueSound == ASSUME PlanSound, mark_overdue PROVE PlanSound'
<1>1. /\ bills' = [i \in DOMAIN bills |-> IF Overdue(bills[i])
                                          THEN WithLateFee(bills[i])
                                          ELSE bills[i]]
      /\ UNCHANGED <<date, family>>
  BY DEF mark_overdue
<1>2. ASSUME NEW b, BillSound(b, date), Overdue(b)
      PROVE  BillSound(WithLateFee(b), date) /\ WithLateFee(b).label = b.label
  <2>. DEFINE fee == LateFeeOn(date, b.due)
              c == [b EXCEPT !.status = "overdue", !.total = b.base + fee]
  <2>1. WithLateFee(b) = c
    BY DEF WithLateFee, LateFeeOn
  <2>2. fee \in Nat
    BY <1>2, LateFeeIsNat DEF PlanSound, BillSound
  <2>3. b.total <= b.base + fee
    BY <1>2 DEF BillSound
  <2>. HIDE DEF fee
  <2>4. DOMAIN c = DOMAIN b /\ DOMAIN b = BillFields
    BY <1>2 DEF BillSound
  <2>5. /\ c.label = b.label /\ c.cycle = b.cycle /\ c.raised = b.raised
        /\ c.index = b.index /\ c.due = b.due /\ c.base = b.base
        /\ c.total = b.base + fee /\ c.paid = b.paid /\ c.status = "overdue"
    BY <2>4 DEF BillFields
  <2>. HIDE DEF c
  <2>6. BillSound(c, date)
    BY <1>2, <2>2, <2>3, <2>4, <2>5 DEF BillSound, fee
  <2>. QED BY <2>1, <2>5, <2>6
<1>3. \A i \in DOMAIN bills : BillSound(bills'[i], date)
                                /\ bills'[i].label = bills[i].label
  BY <1>1, <1>2 DEF PlanSound
<1>. QED BY <1>1, <1>3, BillsKept

LEMMA PlanStepSound == ASSUME PlanSound, [PlanNext]_planVars PROVE PlanSound'
<1>1. CASE UNCHANGED planVars
  BY <1>1 DEF PlanSound, planVars
<1>2. ASSUME NEW c \in Cycles, generate_invoices(c[1], c[2]) PROVE PlanSound'
  BY <1>2, GenerateSound
<1>3. ASSUME NEW i \in DOMAIN bills, NEW amount \in Sums, collect_payment(i, amount)
      PROVE  PlanSound'
  BY <1>3, CollectSound
<1>4. CASE mark_overdue
  BY <1>4, OverdueSound
<1>5. ASSUME NEW days \in Strides, Pass(days) PROVE PlanSound'
  <2>1. date' = date + days /\ UNCHANGED <<family, bills>>
    BY <1>5 DEF Pass
  <2>2. date \in Nat /\ days \in Nat
    BY FeePlanAssumption DEF PlanSound
  <2>3. date' \in Nat /\ date <= date'
    BY <2>1, <2>2
  <2>4. \A i \in DOMAIN bills : BillSound(bills[i], date')
    BY <2>2, <2>3, BillAges DEF PlanSound
  <2>. QED BY <2>1, <2>3, <2>4 DEF PlanSound
<1>. QED BY <1>1, <1>2, <1>3, <1>4, <1>5 DEF PlanNext
-----------------------------------------------------------------------------
(* The plan.                                                               *)

Labels == {LabelOf(family, o) : o \in Occasions(family)}
Sharing(label) == {o \in Occasions(family) : LabelOf(family, o) = label}
EntryFor(label) ==
    LET x == Instalment(family, label)
    IN  IF BillOf(label) = {} THEN Coming(x)
        ELSE Entry(x, bills[Max(BillOf(label))])

LEMMA PlanIsEntries ==
    ASSUME PlanSound
    PROVE  fee_plan = {EntryFor(label) : label \in Labels}
<1>1. Schedule[family] = {Instalment(family, label) : label \in Labels}
  BY DEF Schedule, PlanSound, Labels
<1>2. \A label : Instalment(family, label).label = label
  BY DEF Instalment
<1>3. fee_plan = {IF BillOf(x.label) = {} THEN Coming(x)
                  ELSE Entry(x, bills[Max(BillOf(x.label))]) : x \in Schedule[family]}
  BY DEF fee_plan
<1>4. \A label : LET x == Instalment(family, label)
                  IN  (IF BillOf(x.label) = {} THEN Coming(x)
                       ELSE Entry(x, bills[Max(BillOf(x.label))])) = EntryFor(label)
  BY <1>2 DEF EntryFor
<1>5. ASSUME NEW e PROVE e \in fee_plan <=> \E label \in Labels : e = EntryFor(label)
  <2>1. e \in fee_plan <=> \E x \in Schedule[family] :
                                e = IF BillOf(x.label) = {} THEN Coming(x)
                                    ELSE Entry(x, bills[Max(BillOf(x.label))])
    BY <1>3
  <2>2. \A x : x \in Schedule[family]
                 <=> \E label \in Labels : x = Instalment(family, label)
    BY <1>1
  <2>. QED BY <2>1, <2>2, <1>4
<1>. QED BY <1>5

\* A label finds one bill at most.
LEMMA OneBill ==
    ASSUME PlanSound, NEW i \in DOMAIN bills
    PROVE  BillOf(bills[i].label) = {i} /\ Max(BillOf(bills[i].label)) = i
<1>1. BillOf(bills[i].label) = {i}
  BY DEF PlanSound, BillOf
<1>2. i \in Int
  BY DEF PlanSound
<1>. QED BY <1>1, <1>2, MaxOfOne

LEMMA EntryShowsBill ==
    ASSUME PlanSound, NEW i \in DOMAIN bills, NEW e,
           e = EntryFor(bills[i].label)
    PROVE  /\ e.label = bills[i].label
           /\ e.occasions = Sharing(bills[i].label)
           /\ e.scheduled = Total([o \in e.occasions |-> Line(family, o).amount])
           /\ e.raised = TRUE
           /\ e.billed = bills[i].total /\ e.paid = bills[i].paid
           /\ e.balance = bills[i].total - bills[i].paid
           /\ e.payable \in BOOLEAN /\ e.window_open \in BOOLEAN
           /\ e.payable <=> e.balance > 0 /\ e.window_open
           /\ e.status = "overdue" => e.payable
<1>. DEFINE b == bills[i]
            x == Instalment(family, b.label)
            balance == Owing(b.total - b.paid)
<1>1. e = Entry(x, b)
  BY OneBill DEF EntryFor
<1>2. /\ x.label = b.label /\ x.occasions = Sharing(b.label)
      /\ x.scheduled = Total([o \in x.occasions |-> Line(family, o).amount])
  BY DEF Instalment, Sharing
<1>3. b.total \in Nat /\ b.paid \in Nat /\ b.paid <= b.total
  BY DEF PlanSound, BillSound
<1>4. balance = b.total - b.paid /\ balance \in Nat
  BY <1>3 DEF Owing
<1>5. StatusOf(x, b) = "overdue" => balance > 0 /\ Inside(x.window, date)
  BY <1>4 DEF StatusOf
<1>6. Inside(x.window, date) \in BOOLEAN /\ (balance > 0) \in BOOLEAN
  BY DEF Inside
<1>. HIDE DEF x, b
<1>7. /\ e.label = x.label /\ e.occasions = x.occasions
      /\ e.scheduled = x.scheduled /\ e.raised = TRUE
      /\ e.billed = b.total /\ e.paid = b.paid /\ e.balance = balance
      /\ e.window_open = Inside(x.window, date)
      /\ e.payable = (balance > 0 /\ Inside(x.window, date))
      /\ e.status = StatusOf(x, b)
  BY <1>1 DEF Entry
<1>. HIDE DEF balance
<1>. QED BY <1>2, <1>3, <1>4, <1>5, <1>6, <1>7 DEF b

LEMMA EntryToCome ==
    ASSUME PlanSound, NEW label, BillOf(label) = {}, NEW e, e = EntryFor(label)
    PROVE  /\ e.label = label
           /\ e.occasions = Sharing(label)
           /\ e.scheduled = Total([o \in e.occasions |-> Line(family, o).amount])
           /\ e.raised = FALSE
           /\ e.paid = 0
           /\ e.payable = FALSE /\ e.status # "overdue"
<1>. DEFINE x == Instalment(family, label)
<1>1. e = Coming(x)
  BY DEF EntryFor
<1>2. /\ x.label = label /\ x.occasions = Sharing(label)
      /\ x.scheduled = Total([o \in x.occasions |-> Line(family, o).amount])
  BY DEF Instalment, Sharing
<1>. HIDE DEF x
<1>. QED BY <1>1, <1>2 DEF Coming

LEMMA EntryNames ==
    ASSUME PlanSound, NEW label
    PROVE  /\ EntryFor(label).label = label
           /\ EntryFor(label).occasions = Sharing(label)
           /\ EntryFor(label).scheduled =
                Total([o \in Sharing(label) |-> Line(family, o).amount])
<1>. DEFINE e == EntryFor(label)
<1>. HIDE DEF e
<1>1. /\ e.label = label /\ e.occasions = Sharing(label)
      /\ e.scheduled = Total([o \in e.occasions |-> Line(family, o).amount])
  <2>1. CASE BillOf(label) = {}
    BY <2>1, EntryToCome DEF e
  <2>2. CASE BillOf(label) # {}
    <3>1. PICK i \in DOMAIN bills : bills[i].label = label
      BY <2>2 DEF BillOf
    <3>2. e = EntryFor(bills[i].label)
      BY <3>1 DEF e
    <3>. QED BY <3>1, <3>2, EntryShowsBill
  <2>. QED BY <2>1, <2>2
<1>2. e.scheduled = Total([o \in Sharing(label) |-> Line(family, o).amount])
  BY <1>1
<1>. QED BY <1>1, <1>2 DEF e

\* An instalment of the year carries the label of the run that bills it.
LEMMA InstalmentIsLabelled ==
    ASSUME PlanSound, NEW b, BillSound(b, date), NEW o \in Occasions(family),
           Line(family, o).frequency = b.cycle,
           Year(DueOn(family, o)) = Year(b.raised),
           IF b.cycle = "monthly"
           THEN Month(DueOn(family, o)) = Month(b.raised)
           ELSE /\ Or(b.index, 1) = o[2]
                /\ INSTALMENTS[b.cycle] > 1 => b.index # Unset
    PROVE  LabelOf(family, o) = b.label
<1>. DEFINE on == DueOn(family, o)
<1>1. o[2] \in 1..12 /\ o[2] # Unset
  BY FeePlanAssumption DEF Occasions
<1>2. /\ b.label = period_label_for(b.cycle, b.raised, b.index)
      /\ LabelOf(family, o) = period_label_for(b.cycle, on, o[2])
      /\ Year(on) = Year(b.raised)
  BY DEF BillSound, LabelOf
<1>3. b.cycle \in DOMAIN INSTALMENTS
  BY FeePlanAssumption DEF Occasions, Line, PlanSound
<1>4. b.cycle \in {"monthly", "quarterly", "half_yearly", "semester", "yearly", "one_time"}
  BY <1>3 DEF INSTALMENTS
<1>5. CASE b.cycle = "monthly"
  <2>1. Month(on) = Month(b.raised)
    BY <1>5
  <2>. HIDE DEF on
  <2>. QED BY <1>2, <1>5, <2>1 DEF period_label_for, ByTheCalendar
<1>6. CASE b.cycle \in {"quarterly", "half_yearly", "semester"}
  <2>1. b.index = o[2]
    <3>1. INSTALMENTS[b.cycle] > 1
      BY <1>6 DEF INSTALMENTS
    <3>. QED BY <1>6, <3>1 DEF Or
  <2>. HIDE DEF on
  <2>2. \A c : Or(o[2], c) = o[2]
    BY <1>1 DEF Or
  <2>. QED BY <1>2, <1>6, <2>1, <2>2 DEF period_label_for
<1>7. CASE b.cycle \in {"yearly", "one_time"}
  <2>. HIDE DEF on
  <2>. QED BY <1>2, <1>7 DEF period_label_for, ByTheCalendar
<1>. QED BY <1>4, <1>5, <1>6, <1>7

\* BillFindsInstalment: the entry of the bill's label is the one that shows it.
LEMMA InstalmentsAreFound == ASSUME PlanSound PROVE BillFindsInstalment
<1>. DEFINE shown(b) == {e \in Raised(fee_plan) : e.label = b.label}
            meant(b) == {o \in Occasions(family) :
                /\ Line(family, o).frequency = b.cycle
                /\ Year(DueOn(family, o)) = Year(b.raised)
                /\ IF b.cycle = "monthly"
                   THEN Month(DueOn(family, o)) = Month(b.raised)
                   ELSE /\ Or(b.index, 1) = o[2]
                        /\ INSTALMENTS[b.cycle] > 1 => b.index # Unset}
<1>1. ASSUME NEW i \in DOMAIN bills, meant(bills[i]) # {}
      PROVE  /\ Cardinality(shown(bills[i])) = 1
             /\ \A e \in shown(bills[i]) : /\ e.billed = bills[i].total
                                          /\ meant(bills[i]) \subseteq e.occasions
  <2>. DEFINE b == bills[i]
              it == EntryFor(b.label)
  <2>1. BillSound(b, date)
    BY DEF PlanSound
  <2>2. \A o \in meant(b) : LabelOf(family, o) = b.label
    <3>. HIDE DEF b
    <3>. QED BY <2>1, InstalmentIsLabelled
  <2>3. b.label \in Labels
    BY <1>1, <2>2 DEF Labels
  <2>4. meant(b) \subseteq Sharing(b.label)
    BY <2>2 DEF Sharing
  <2>. HIDE DEF meant
  <2>5. /\ it.label = b.label /\ it.raised = TRUE /\ it.billed = b.total
        /\ it.occasions = Sharing(b.label)
    BY EntryShowsBill
  <2>6. it \in fee_plan
    BY <2>3, PlanIsEntries
  <2>7. \A e \in fee_plan : e.label = b.label => e = it
    <3>1. ASSUME NEW e \in fee_plan, e.label = b.label PROVE e = it
      <4>1. PICK label \in Labels : e = EntryFor(label)
        BY PlanIsEntries
      <4>2. label = b.label
        BY <3>1, <4>1, EntryNames
      <4>. QED BY <4>1, <4>2
    <3>. QED BY <3>1
  <2>. HIDE DEF it, b
  <2>8. shown(b) = {it}
    BY <2>5, <2>6, <2>7 DEF Raised
  <2>. HIDE DEF shown
  <2>9. Cardinality(shown(b)) = 1
    BY <2>8, FS_Singleton
  <2>. QED BY <2>4, <2>5, <2>8, <2>9 DEF b
<1>. QED BY <1>1 DEF BillFindsInstalment
-----------------------------------------------------------------------------
(* What the plan adds up to.                                               *)

LEMMA PlanIsFinite ==
    ASSUME PlanSound
    PROVE  IsFiniteSet(Occasions(family)) /\ IsFiniteSet(Labels) /\ IsFiniteSet(fee_plan)
<1>. DEFINE all == (DOMAIN family.lines) \X (1..12)
<1>1. IsFiniteSet(all)
  <2>1. IsFiniteSet(DOMAIN family.lines) /\ IsFiniteSet(1..12)
    <3>1. 1 \in Int /\ 12 \in Int
      OBVIOUS
    <3>2. IsFiniteSet(1..12)
      BY <3>1, FS_Interval
    <3>. QED BY <3>2, FeePlanAssumption DEF PlanSound
  <2>. QED BY <2>1, FS_Product
<1>2. IsFiniteSet(Occasions(family))
  <2>1. Occasions(family) \subseteq all
    BY DEF Occasions
  <2>. HIDE DEF all
  <2>. QED BY <1>1, <2>1, FS_Subset
<1>3. IsFiniteSet(Labels)
  <2>. DEFINE k == [o \in Occasions(family) |-> LabelOf(family, o)]
  <2>1. k \in Surjection(Occasions(family), Labels)
    BY DEF Surjection, Labels
  <2>. QED BY <1>2, <2>1, FS_Surjection
<1>4. IsFiniteSet(fee_plan)
  <2>. DEFINE k == [l \in Labels |-> EntryFor(l)]
  <2>1. fee_plan = {k[l] : l \in Labels}
    BY PlanIsEntries
  <2>2. k \in Surjection(Labels, fee_plan)
    BY <2>1 DEF Surjection
  <2>. QED BY <1>3, <2>2, FS_Surjection
<1>. QED BY <1>2, <1>3, <1>4

\* The amounts of a year, occasion by occasion.
Amounts == [o \in Occasions(family) |-> Line(family, o).amount]

LEMMA AmountsAreNat ==
    ASSUME PlanSound, NEW o \in Occasions(family)
    PROVE  o[1] \in DOMAIN family.lines /\ Amounts[o] = family.lines[o[1]].amount
           /\ Amounts[o] \in Nat
<1>1. o[1] \in DOMAIN family.lines
  BY DEF Occasions
<1>2. Amounts[o] = family.lines[o[1]].amount
  BY DEF Amounts, Line
<1>. QED BY <1>1, <1>2, FeePlanAssumption DEF PlanSound

\* The instalments divide the occasions between them.
LEMMA YearByInstalment ==
    ASSUME PlanSound
    PROVE  Totals(fee_plan).year = SumFunctionOnSet(Amounts, Occasions(family))
<1>. DEFINE f == [e \in fee_plan |-> e.scheduled]
            h == [l \in Labels |-> EntryFor(l)]
            key == [o \in Occasions(family) |-> LabelOf(family, o)]
            byLabel == [l \in Labels |-> SumFunctionOnSet(Amounts,
                            {o \in Occasions(family) : key[o] = l})]
<1>1. Totals(fee_plan).year = SumFunctionOnSet(f, fee_plan)
  BY DEF Totals, Total, SumFunction
<1>2. \A o \in Occasions(family) : Amounts[o] \in Int /\ key[o] \in Labels
  BY AmountsAreNat DEF Labels
<1>3. SumFunctionOnSet(Amounts, Occasions(family)) = SumFunctionOnSet(byLabel, Labels)
  <2>. HIDE DEF key
  <2>. QED BY <1>2, PlanIsFinite, SumByGroup
<1>4. ASSUME NEW l \in Labels
      PROVE  h[l] \in fee_plan /\ f[h[l]] = byLabel[l] /\ byLabel[l] \in Int
  <2>1. h[l] \in fee_plan
    BY PlanIsEntries
  <2>2. f[h[l]] = Total([o \in Sharing(l) |-> Line(family, o).amount])
    BY <2>1, EntryNames
  <2>3. {o \in Occasions(family) : key[o] = l} = Sharing(l)
    BY DEF Sharing
  <2>4. Sharing(l) \in SUBSET Occasions(family)
    BY DEF Sharing
  <2>5. [o \in Sharing(l) |-> Line(family, o).amount] = [o \in Sharing(l) |-> Amounts[o]]
    BY <2>4 DEF Amounts
  <2>6. Total([o \in Sharing(l) |-> Amounts[o]]) = SumFunctionOnSet(Amounts, Sharing(l))
    BY <2>4, PlanIsFinite, SumOfRest DEF Total
  <2>7. SumFunctionOnSet(Amounts, Sharing(l)) \in Int
    BY <1>2, <2>4, PlanIsFinite, FS_Subset, SumInt
  <2>. QED BY <2>1, <2>2, <2>3, <2>5, <2>6, <2>7
<1>5. fee_plan = {h[l] : l \in Labels}
  BY PlanIsEntries
<1>6. \A l, m \in Labels : h[l] = h[m] => l = m
  <2>1. ASSUME NEW l \in Labels, NEW m \in Labels, h[l] = h[m] PROVE l = m
    <3>1. EntryFor(l).label = l /\ EntryFor(m).label = m
      BY EntryNames
    <3>2. EntryFor(l) = EntryFor(m)
      BY <2>1
    <3>. QED BY <3>1, <3>2
  <2>. QED BY <2>1
<1>7. SumFunctionOnSet(f, fee_plan) = SumFunctionOnSet([l \in Labels |-> f[h[l]]], Labels)
  <2>1. \A l \in Labels : f[h[l]] \in Int
    BY <1>4
  <2>. HIDE DEF f, h
  <2>2. SumFunctionOnSet(f, {h[l] : l \in Labels})
          = SumFunctionOnSet([l \in Labels |-> f[h[l]]], Labels)
    BY <1>6, <2>1, PlanIsFinite, SumOfImages
  <2>. QED BY <1>5, <2>2
<1>8. [l \in Labels |-> f[h[l]]] = byLabel
  <2>. HIDE DEF f, h
  <2>. QED BY <1>4
<1>. QED BY <1>1, <1>3, <1>7, <1>8

\* And so do the lines: each as often as its frequency says.
LEMMA YearByLine ==
    ASSUME PlanSound
    PROVE  LET theirs == {k \in DOMAIN family.lines :
                             _student_is_billed_for(family, family.lines[k])}
           IN  SumFunctionOnSet(Amounts, Occasions(family)) =
                 Total([k \in theirs |-> family.lines[k].amount
                          * INSTALMENTS[family.lines[k].frequency]])
<1>. DEFINE theirs == {k \in DOMAIN family.lines :
                          _student_is_billed_for(family, family.lines[k])}
            times(k) == INSTALMENTS[family.lines[k].frequency]
            g == [k \in theirs |-> family.lines[k].amount * times(k)]
            key == [o \in Occasions(family) |-> o[1]]
            byLine == [k \in theirs |-> SumFunctionOnSet(Amounts,
                            {o \in Occasions(family) : key[o] = k})]
<1>1. \A o \in Occasions(family) : Amounts[o] \in Int /\ key[o] \in theirs
  BY AmountsAreNat DEF Occasions, Line
<1>2. IsFiniteSet(theirs)
  BY FeePlanAssumption, FS_Subset DEF PlanSound
<1>3. SumFunctionOnSet(Amounts, Occasions(family)) = SumFunctionOnSet(byLine, theirs)
  <2>. HIDE DEF key, theirs
  <2>. QED BY <1>1, <1>2, PlanIsFinite, SumByGroup
<1>4. ASSUME NEW k \in theirs PROVE byLine[k] = g[k]
  <2>. DEFINE G == {o \in Occasions(family) : key[o] = k}
              a == family.lines[k].amount
              n == times(k)
  <2>1. a \in Nat
    BY FeePlanAssumption DEF PlanSound
  <2>2. n \in 1..12
    <3>1. family.lines[k].frequency \in DOMAIN INSTALMENTS
      BY FeePlanAssumption DEF PlanSound
    <3>. QED BY <3>1 DEF INSTALMENTS
  <2>3. G = {k} \X (1..n)
    <3>1. ASSUME NEW o \in G PROVE o \in {k} \X (1..n)
      BY DEF Occasions, Line
    <3>2. ASSUME NEW i \in 1..n PROVE <<k, i>> \in G
      <4>1. <<k, i>> \in Occasions(family)
        BY <2>2 DEF Occasions, Line
      <4>. QED BY <4>1
    <3>. QED BY <3>1, <3>2
  <2>4. \A o \in G : Amounts[o] = a
    BY DEF Amounts, Line
  <2>. HIDE DEF G, a, n, theirs, key
  <2>5. IsFiniteSet(G) /\ Cardinality(G) = n
    <3>1. IsFiniteSet({k}) /\ Cardinality({k}) = 1
      BY FS_Singleton
    <3>2. IsFiniteSet(1..n) /\ Cardinality(1..n) = n
      <4>1. 1 \in Int /\ n \in Int
        BY <2>2
      <4>2. IsFiniteSet(1..n) /\ Cardinality(1..n) = IF 1 > n THEN 0 ELSE n - 1 + 1
        BY <4>1, FS_Interval
      <4>. QED BY <2>2, <4>2
    <3>3. IsFiniteSet({k} \X (1..n)) /\ Cardinality({k} \X (1..n)) = 1 * n
      <4>. DEFINE A == {k}
                  B == 1..n
      <4>1. IsFiniteSet(A) /\ Cardinality(A) = 1 /\ IsFiniteSet(B) /\ Cardinality(B) = n
        BY <3>1, <3>2
      <4>. HIDE DEF A, B
      <4>2. IsFiniteSet(A \X B) /\ Cardinality(A \X B) = Cardinality(A) * Cardinality(B)
        BY <4>1, FS_Product
      <4>3. Cardinality(A \X B) = 1 * n
        BY <4>1, <4>2
      <4>. QED BY <4>2, <4>3 DEF A, B
    <3>. QED BY <2>2, <2>3, <3>3
  <2>6. SumFunctionOnSet(Amounts, G) = a * Cardinality(G)
    BY <2>1, <2>4, <2>5, SumOfSame
  <2>. QED BY <2>5, <2>6 DEF G, a, n
<1>5. Total(g) = SumFunctionOnSet(g, theirs)
  BY DEF Total, SumFunction
<1>6. SumFunctionOnSet(byLine, theirs) = SumFunctionOnSet(g, theirs)
  <2>. HIDE DEF byLine, g, theirs
  <2>. QED BY <1>2, <1>4, SumAgree
<1>. QED BY <1>3, <1>5, <1>6
\* An entry shows a bill or is still to come.
LEMMA EntrySums ==
    ASSUME PlanSound, NEW e \in fee_plan
    PROVE  /\ e.raised \in BOOLEAN
           /\ e.raised =>
                /\ e.billed \in Nat /\ e.paid \in Nat /\ e.balance \in Nat
                /\ e.billed = e.balance + e.paid
                /\ e.payable <=> e.balance > 0 /\ e.window_open
                /\ e.status = "overdue" => e.payable
           /\ ~e.raised => e.paid = 0 /\ ~e.payable /\ e.status # "overdue"
<1>1. PICK label \in Labels : e = EntryFor(label)
  BY PlanIsEntries
<1>2. CASE BillOf(label) = {}
  <2>1. e.raised = FALSE /\ e.paid = 0 /\ e.payable = FALSE /\ e.status # "overdue"
    BY <1>1, <1>2, EntryToCome
  <2>. QED BY <2>1
<1>3. CASE BillOf(label) # {}
  <2>1. PICK i \in DOMAIN bills : bills[i].label = label
    BY <1>3 DEF BillOf
  <2>2. /\ e.raised = TRUE
        /\ e.billed = bills[i].total /\ e.paid = bills[i].paid
        /\ e.balance = bills[i].total - bills[i].paid
        /\ e.payable <=> e.balance > 0 /\ e.window_open
        /\ e.status = "overdue" => e.payable
    BY <1>1, <2>1, EntryShowsBill
  <2>3. bills[i].total \in Nat /\ bills[i].paid \in Nat /\ bills[i].paid <= bills[i].total
    BY DEF PlanSound, BillSound
  <2>4. /\ e.billed \in Nat /\ e.paid \in Nat /\ e.balance \in Nat
        /\ e.billed = e.balance + e.paid
    BY <2>2, <2>3
  <2>5. e.raised \in BOOLEAN /\ e.raised
    BY <2>2
  <2>. QED BY <2>2, <2>4, <2>5, Zenon
<1>. QED BY <1>2, <1>3, Zenon

\* What is unpaid of the bills the plan shows, entry by entry.
Unpaid == [e \in fee_plan |-> IF e.raised THEN e.balance ELSE 0]
\* What is unpaid of every bill.
Balances == [i \in DOMAIN bills |-> bills[i].total - bills[i].paid]

\* Open or waiting is unpaid; overdue is open.
LEMMA UnpaidIsOpenOrWaiting ==
    ASSUME PlanSound
    PROVE  LET totals == Totals(fee_plan)
           IN  /\ totals.due_now + totals.awaiting_window
                    = SumFunctionOnSet(Unpaid, fee_plan)
               /\ totals.billed - totals.paid = SumFunctionOnSet(Unpaid, fee_plan)
               /\ totals.overdue <= totals.due_now
<1>. DEFINE P == fee_plan
            Open == {e \in P : e.payable}
            Wait == {e \in Raised(P) : e.balance > 0 /\ ~e.window_open}
            LateOnes == {e \in P : e.status = "overdue"}
            d == [e \in P |-> IF e.payable THEN e.balance ELSE 0]
            w == [e \in P |-> IF e \in Wait THEN e.balance ELSE 0]
            l == [e \in P |-> IF e.status = "overdue" THEN e.balance ELSE 0]
            b == [e \in P |-> IF e.raised THEN e.billed ELSE 0]
            p == [e \in P |-> e.paid]
            bal(S) == [e \in S |-> e.balance]
            bil == [e \in Raised(P) |-> e.billed]
            totals == Totals(P)
<1>1. /\ totals.due_now = Total(bal(Open)) /\ totals.awaiting_window = Total(bal(Wait))
      /\ totals.overdue = Total(bal(LateOnes)) /\ totals.billed = Total(bil)
      /\ totals.paid = Total(p)
  BY DEF Totals
<1>2. IsFiniteSet(P)
  BY PlanIsFinite
<1>3. /\ Open \in SUBSET P /\ Wait \in SUBSET P /\ LateOnes \in SUBSET P
      /\ Raised(P) \in SUBSET P
  BY DEF Raised
<1>4. ASSUME NEW e \in P
      PROVE  /\ Unpaid[e] = IF e.raised THEN e.balance ELSE 0
             /\ e \in Wait <=> e.raised /\ e.balance > 0 /\ ~e.window_open
             /\ e \in Open <=> e.payable
             /\ e \in LateOnes <=> e.status = "overdue"
             /\ e \in Raised(P) <=> e.raised
  BY DEF Unpaid, Raised
<1>5. ASSUME NEW e \in P
      PROVE  /\ d[e] \in Nat /\ w[e] \in Nat /\ l[e] \in Nat
             /\ b[e] \in Nat /\ p[e] \in Nat /\ Unpaid[e] \in Nat
             /\ Unpaid[e] = d[e] + w[e]
             /\ b[e] = Unpaid[e] + p[e]
             /\ l[e] <= d[e]
  <2>. HIDE DEF P, Wait
  <2>1. CASE e.raised
    BY <1>4, <2>1, EntrySums DEF P
  <2>2. CASE ~e.raised
    BY <1>4, <2>2, EntrySums DEF P
  <2>. QED BY <2>1, <2>2
<1>6. Total(bal(Open)) = SumFunctionOnSet(d, P)
  <2>1. /\ DOMAIN bal(Open) = Open
        /\ \A e \in Open : d[e] = bal(Open)[e] /\ bal(Open)[e] \in Int
        /\ \A e \in P \ Open : d[e] = 0
    BY <1>5
  <2>. HIDE DEF bal, d, Open, P
  <2>. QED BY <1>2, <1>3, <2>1, SumLifted DEF Total
<1>7. Total(bal(Wait)) = SumFunctionOnSet(w, P)
  <2>1. /\ DOMAIN bal(Wait) = Wait
        /\ \A e \in Wait : w[e] = bal(Wait)[e] /\ bal(Wait)[e] \in Int
        /\ \A e \in P \ Wait : w[e] = 0
    BY <1>3, <1>5
  <2>. HIDE DEF bal, w, Wait, P
  <2>. QED BY <1>2, <1>3, <2>1, SumLifted DEF Total
<1>8. Total(bal(LateOnes)) = SumFunctionOnSet(l, P)
  <2>1. /\ DOMAIN bal(LateOnes) = LateOnes
        /\ \A e \in LateOnes : l[e] = bal(LateOnes)[e] /\ bal(LateOnes)[e] \in Int
        /\ \A e \in P \ LateOnes : l[e] = 0
    BY <1>5
  <2>. HIDE DEF bal, l, LateOnes, P
  <2>. QED BY <1>2, <1>3, <2>1, SumLifted DEF Total
<1>9. Total(bil) = SumFunctionOnSet(b, P)
  <2>1. /\ DOMAIN bil = Raised(P)
        /\ \A e \in Raised(P) : b[e] = bil[e] /\ bil[e] \in Int
        /\ \A e \in P \ Raised(P) : b[e] = 0
    BY <1>3, <1>4, <1>5
  <2>. HIDE DEF bil, b, P
  <2>. QED BY <1>2, <1>3, <2>1, SumLifted DEF Total
<1>10. Total(p) = SumFunctionOnSet(p, P)
  BY DEF Total, SumFunction
<1>. HIDE DEF d, w, l, b, p, P, totals
<1>11. SumFunctionOnSet(Unpaid, P) = SumFunctionOnSet(d, P) + SumFunctionOnSet(w, P)
  BY <1>2, <1>5, SumPlus
<1>12. SumFunctionOnSet(b, P) = SumFunctionOnSet(Unpaid, P) + SumFunctionOnSet(p, P)
  BY <1>2, <1>5, SumPlus
<1>13. SumFunctionOnSet(l, P) <= SumFunctionOnSet(d, P)
  BY <1>2, <1>5, SumLeq
<1>14. SumFunctionOnSet(p, P) \in Int /\ SumFunctionOnSet(Unpaid, P) \in Int
  BY <1>2, <1>5, SumInt
<1>. QED BY <1>1, <1>6, <1>7, <1>8, <1>9, <1>10, <1>11, <1>12, <1>13, <1>14 DEF P, totals

\* What the plan shows as unpaid is of the bills.
LEMMA UnpaidIsOfBills ==
    ASSUME PlanSound
    PROVE  SumFunctionOnSet(Unpaid, fee_plan) <= SumFunctionOnSet(Balances, DOMAIN bills)
<1>. DEFINE R == {i \in DOMAIN bills : bills[i].label \in Labels}
            h == [i \in R |-> EntryFor(bills[i].label)]
            uh == [i \in R |-> Unpaid[h[i]]]
<1>1. IsFiniteSet(DOMAIN bills) /\ IsFiniteSet(R)
  <2>1. DOMAIN bills = 1..Len(bills) /\ Len(bills) \in Int /\ 1 \in Int
    BY DEF PlanSound
  <2>2. IsFiniteSet(DOMAIN bills)
    BY <2>1, FS_Interval
  <2>. QED BY <2>2, FS_Subset
<1>2. \A i \in DOMAIN bills : Balances[i] \in Nat
  BY DEF Balances, PlanSound, BillSound
<1>3. ASSUME NEW i \in R
      PROVE  /\ h[i] \in fee_plan /\ h[i].raised = TRUE
             /\ h[i].label = bills[i].label
             /\ Unpaid[h[i]] = Balances[i] /\ Unpaid[h[i]] \in Int
  <2>1. h[i] = EntryFor(bills[i].label) /\ h[i] \in fee_plan
    BY PlanIsEntries
  <2>2. /\ h[i].label = bills[i].label /\ h[i].raised = TRUE
        /\ h[i].balance = bills[i].total - bills[i].paid
    BY <2>1, EntryShowsBill
  <2>3. Unpaid[h[i]] = h[i].balance
    BY <2>1, <2>2 DEF Unpaid
  <2>4. Unpaid[h[i]] = Balances[i]
    BY <2>2, <2>3 DEF Balances
  <2>. QED BY <1>2, <2>1, <2>2, <2>4
<1>4. Raised(fee_plan) = {h[i] : i \in R}
  <2>1. ASSUME NEW e \in Raised(fee_plan) PROVE \E i \in R : e = h[i]
    <3>1. PICK label \in Labels : e = EntryFor(label)
      BY PlanIsEntries DEF Raised
    <3>2. BillOf(label) # {}
      <4>1. ASSUME BillOf(label) = {} PROVE FALSE
        <5>1. e.raised = FALSE
          BY <3>1, <4>1, EntryToCome
        <5>. QED BY <5>1 DEF Raised
      <4>. QED BY <4>1
    <3>3. PICK i \in DOMAIN bills : bills[i].label = label
      BY <3>2 DEF BillOf
    <3>. QED BY <3>1, <3>3
  <2>2. ASSUME NEW i \in R PROVE h[i] \in Raised(fee_plan)
    BY <1>3 DEF Raised
  <2>. QED BY <2>1, <2>2
<1>5. \A i, j \in R : h[i] = h[j] => i = j
  <2>1. ASSUME NEW i \in R, NEW j \in R, h[i] = h[j] PROVE i = j
    <3>1. bills[i].label = bills[j].label
      BY <1>3, <2>1
    <3>. QED BY <3>1 DEF PlanSound
  <2>. QED BY <2>1
<1>6. SumFunctionOnSet(Unpaid, Raised(fee_plan)) = SumFunctionOnSet(uh, R)
  <2>0. \A i \in R : Unpaid[h[i]] \in Int
    BY <1>3
  <2>. HIDE DEF h, R
  <2>1. SumFunctionOnSet(Unpaid, {h[i] : i \in R})
          = SumFunctionOnSet([i \in R |-> Unpaid[h[i]]], R)
    BY <1>1, <1>5, <2>0, SumOfImages
  <2>. QED BY <1>4, <2>1
<1>7. SumFunctionOnSet(Unpaid, fee_plan) = SumFunctionOnSet(Unpaid, Raised(fee_plan))
  <2>1. \A e \in fee_plan : Unpaid[e] \in Int
    BY EntrySums DEF Unpaid
  <2>2. /\ Raised(fee_plan) \in SUBSET fee_plan
        /\ \A e \in fee_plan \ Raised(fee_plan) : Unpaid[e] = 0
    BY DEF Unpaid, Raised
  <2>. QED BY <2>1, <2>2, PlanIsFinite, SumWithoutZeros
<1>. DEFINE z == [i \in DOMAIN bills |-> IF i \in R THEN Balances[i] ELSE 0]
<1>8. SumFunctionOnSet(uh, R) = SumFunctionOnSet(z, DOMAIN bills)
  <2>1. /\ DOMAIN uh = R /\ R \in SUBSET DOMAIN bills
        /\ \A i \in R : z[i] = uh[i] /\ uh[i] \in Int
        /\ \A i \in (DOMAIN bills) \ R : z[i] = 0
    BY <1>3
  <2>. HIDE DEF uh, z, R
  <2>2. Total(uh) = SumFunctionOnSet(z, DOMAIN bills)
    BY <1>1, <2>1, SumLifted DEF Total
  <2>. QED BY <2>1, <2>2 DEF Total, SumFunction
<1>9. \A i \in DOMAIN bills : z[i] \in Int /\ Balances[i] \in Int /\ z[i] <= Balances[i]
  BY <1>2
<1>. HIDE DEF z, uh, R
<1>10. SumFunctionOnSet(z, DOMAIN bills) <= SumFunctionOnSet(Balances, DOMAIN bills)
  BY <1>1, <1>9, SumLeq
<1>. QED BY <1>6, <1>7, <1>8, <1>10

\* The account and the figure kept on the student are what is unpaid.
LEMMA AccountsAgree ==
    ASSUME PlanSound
    PROVE  /\ AccountDue = SumFunctionOnSet(Balances, DOMAIN bills)
           /\ KeptDue = SumFunctionOnSet(Balances, DOMAIN bills)
<1>. DEFINE D == DOMAIN bills
            t == [i \in D |-> bills[i].total]
            p == [i \in D |-> bills[i].paid]
            R == {i \in D : bills[i].status # "paid"}
            k == [i \in R |-> bills[i].total - bills[i].paid]
<1>1. IsFiniteSet(D)
  <2>1. DOMAIN bills = 1..Len(bills) /\ Len(bills) \in Int /\ 1 \in Int
    BY DEF PlanSound
  <2>. QED BY <2>1, FS_Interval
<1>2. ASSUME NEW i \in D
      PROVE  /\ Balances[i] \in Nat /\ t[i] \in Nat /\ p[i] \in Nat
             /\ t[i] = Balances[i] + p[i]
             /\ bills[i].status = "paid" => Balances[i] = 0
  BY DEF Balances, PlanSound, BillSound
<1>3. AccountDue = Owing(SumFunctionOnSet(t, D) - SumFunctionOnSet(p, D))
  BY DEF AccountDue, Total, SumFunction
<1>4. KeptDue = SumFunctionOnSet(Balances, D)
  <2>1. /\ KeptDue = Total(k)
        /\ DOMAIN k = R /\ R \in SUBSET D
        /\ \A i \in R : Balances[i] = k[i] /\ k[i] \in Int
        /\ \A i \in D \ R : Balances[i] = 0
    BY <1>2 DEF KeptDue, Balances
  <2>. HIDE DEF k, R, D
  <2>. QED BY <1>1, <2>1, SumLifted DEF Total
<1>5. SumFunctionOnSet(Balances, D) \in Nat
  <2>1. Balances \in [D -> Nat]
    BY <1>2 DEF Balances
  <2>2. DOMAIN Balances = D
    BY DEF Balances
  <2>. HIDE DEF D
  <2>. QED BY <1>1, <2>1, <2>2, SumNat DEF SumFunction
<1>. HIDE DEF t, p, D
<1>6. SumFunctionOnSet(t, D) = SumFunctionOnSet(Balances, D) + SumFunctionOnSet(p, D)
  BY <1>1, <1>2, SumPlus
<1>7. SumFunctionOnSet(p, D) \in Int
  BY <1>1, <1>2, SumInt
<1>. QED BY <1>3, <1>4, <1>5, <1>6, <1>7 DEF Owing, D

LEMMA PlanAdds == ASSUME PlanSound PROVE PlanAddsUp
<1>. DEFINE totals == Totals(fee_plan)
            theirs == {k \in DOMAIN family.lines :
                          _student_is_billed_for(family, family.lines[k])}
<1>1. totals.year = Total([k \in theirs |-> family.lines[k].amount
                                  * INSTALMENTS[family.lines[k].frequency]])
  BY YearByInstalment, YearByLine
<1>2. /\ totals.due_now + totals.awaiting_window = totals.billed - totals.paid
      /\ totals.overdue <= totals.due_now
      /\ totals.due_now + totals.awaiting_window = SumFunctionOnSet(Unpaid, fee_plan)
  BY UnpaidIsOpenOrWaiting
<1>3. SumFunctionOnSet(Unpaid, fee_plan) <= AccountDue /\ AccountDue = KeptDue
  BY UnpaidIsOfBills, AccountsAgree
<1>. HIDE DEF totals, theirs
<1>4. totals.due_now + totals.awaiting_window <= AccountDue
  BY <1>2, <1>3
<1>. QED BY <1>1, <1>2, <1>3, <1>4 DEF PlanAddsUp, totals, theirs

\* The plan a family reads is the year its structures schedule, what it calls
\* unpaid is what its bills say, and a bill raised for an instalment is the one
\* that instalment shows (fees/service.py fee_plan, generate_invoices).
THEOREM PlanStaysInOrder == PlanSpec => []PlanInOrder
<1>1. PlanInit => PlanSound
  BY PlanInitSound
<1>2. PlanSound /\ [PlanNext]_planVars => PlanSound'
  BY PlanStepSound
<1>3. PlanSound => PlanInOrder
  BY PlanAdds, InstalmentsAreFound DEF PlanInOrder
<1>. QED BY <1>1, <1>2, <1>3, PTL DEF PlanSpec

-----------------------------------------------------------------------------
(* A page is what the screens make of the book.                            *)

PageSound ==
    /\ book \in Books
    /\ page \in {[kind |-> "none"], build(book)}

LEMMA KindsAre ==
    ASSUME NEW b, Kept(b)
    PROVE  b.kind \in {"attendance", "fees", "marks", "desks"}
  BY DEF Kept

LEMMA PageKind ==
    ASSUME PageSound, page.kind # "none"
    PROVE  /\ Kept(book) /\ page = build(book) /\ page.kind = book.kind
<1>1. page = build(book)
  BY DEF PageSound
<1>2. Kept(book)
  BY ReportsAssumption DEF PageSound
<1>3. book.kind \in {"attendance", "fees", "marks", "desks"}
  BY <1>2, KindsAre
<1>4. build(book).kind = book.kind
  BY <1>3 DEF build, AttendancePage, FeesPage, MarksPage, DesksPage
<1>. QED BY <1>1, <1>2, <1>4

-----------------------------------------------------------------------------
(* Attendance: lines add up to the rows they are of.                       *)

LEMMA MarkedIsNat ==
    ASSUME NEW R, IsFiniteSet(R), NEW statuses
    PROVE  Marked(R, statuses) \in Nat /\ IsFiniteSet({r \in R : r.status \in statuses})
<1>1. IsFiniteSet({r \in R : r.status \in statuses})
  BY FS_Subset
<1>. QED BY <1>1, FS_CardinalityType DEF Marked

\* Rows under keys, a line to a key.
LEMMA LinesAddUp ==
    ASSUME NEW R, IsFiniteSet(R), NEW lines, NEW key, NEW h,
           IsFiniteSet(DOMAIN h), \A r \in R : key[r] \in DOMAIN h,
           \A k \in DOMAIN h : /\ h[k] = Figures(k, {r \in R : key[r] = k})
                               /\ h[k] \in lines,
           \A l \in lines : \E k \in DOMAIN h : h[k] = l
    PROVE  Both(lines) = <<Cardinality(R), Marked(R, PRESENT_LIKE)>>
<1>. DEFINE Grp(k) == {r \in R : key[r] = k}
            K == DOMAIN h
            t == [l \in lines |-> l.total]
            p == [l \in lines |-> l.present]
            ct == [k \in K |-> Cardinality(Grp(k))]
            cp == [k \in K |-> Marked(Grp(k), PRESENT_LIKE)]
            P == {r \in R : r.status \in PRESENT_LIKE}
<1>1. \A k \in K : h[k].of = k /\ h[k].total = ct[k] /\ h[k].present = cp[k]
  <2>1. ASSUME NEW k \in K
        PROVE  h[k].of = k /\ h[k].total = ct[k] /\ h[k].present = cp[k]
    <3>1. h[k] = Figures(k, Grp(k)) /\ ct[k] = Cardinality(Grp(k))
          /\ cp[k] = Marked(Grp(k), PRESENT_LIKE)
      OBVIOUS
    <3>. HIDE DEF Grp, ct, cp
    <3>. QED BY <3>1 DEF Figures
  <2>. QED BY <2>1
<1>2. \A j, k \in K : h[j] = h[k] => j = k
  BY <1>1
<1>3. (\A k \in K : h[k] \in lines) /\ \A l \in lines : \E k \in K : h[k] = l
  OBVIOUS
<1>4. Cardinality(R) = SumFunction(ct) /\ \A k \in K : ct[k] \in Nat
  <2>1. \A k \in K : ct[k] = Cardinality({r \in R : key[r] = k})
    OBVIOUS
  <2>2. DOMAIN ct = K
    OBVIOUS
  <2>. HIDE DEF ct
  <2>. QED BY <2>1, <2>2, CountByGroup
<1>5. Cardinality(P) = SumFunction(cp) /\ \A k \in K : cp[k] \in Nat
  <2>1. \A k \in K : cp[k] = Cardinality({r \in P : key[r] = k})
    <3>1. ASSUME NEW k \in K PROVE cp[k] = Cardinality({r \in P : key[r] = k})
      <4>1. {r \in Grp(k) : r.status \in PRESENT_LIKE} = {r \in P : key[r] = k}
        OBVIOUS
      <4>. QED BY <4>1 DEF Marked
    <3>. QED BY <3>1
  <2>2. DOMAIN cp = K /\ \A r \in P : key[r] \in K
    OBVIOUS
  <2>3. IsFiniteSet(P)
    BY FS_Subset
  <2>. HIDE DEF cp, P
  <2>. QED BY <2>1, <2>2, <2>3, CountByGroup
<1>6. SumFunction(t) = SumFunction(ct)
  <2>2. (\A l \in lines : t[l] = l.total) /\ DOMAIN t = lines /\ DOMAIN ct = K
    OBVIOUS
  <2>. HIDE DEF t, ct, p, cp, Grp
  <2>3. ASSUME NEW k \in K PROVE t[h[k]] = ct[k] /\ ct[k] \in Int
    <3>1. h[k] \in lines /\ h[k].total = ct[k] /\ ct[k] \in Int
      BY <1>1, <1>3, <1>4
    <3>. QED BY <2>2, <3>1
  <2>. QED BY <1>2, <1>3, <2>2, <2>3, SumOfLines
<1>7. SumFunction(p) = SumFunction(cp)
  <2>2. (\A l \in lines : p[l] = l.present) /\ DOMAIN p = lines /\ DOMAIN cp = K
    OBVIOUS
  <2>. HIDE DEF t, ct, p, cp, Grp
  <2>3. ASSUME NEW k \in K PROVE p[h[k]] = cp[k] /\ cp[k] \in Int
    <3>1. h[k] \in lines /\ h[k].present = cp[k] /\ cp[k] \in Int
      BY <1>1, <1>3, <1>5
    <3>. QED BY <2>2, <3>1
  <2>. QED BY <1>2, <1>3, <2>2, <2>3, SumOfLines
<1>8. Both(lines) = <<SumFunction(t), SumFunction(p)>>
  BY DEF Both, SumOf
<1>9. Marked(R, PRESENT_LIKE) = Cardinality(P)
  BY DEF Marked
<1>. HIDE DEF t, p, ct, cp, P
<1>. QED BY <1>4, <1>5, <1>6, <1>7, <1>8, <1>9

LEMMA NamesAreFinite ==
    ASSUME NEW R, IsFiniteSet(R)
    PROVE  /\ IsFiniteSet(Named(R))
           /\ IsFiniteSet({DayOfMoment(r.at) : r \in R})
           /\ IsFiniteSet({r.status : r \in R})
<1>. DEFINE s == [r \in R |-> r.student]
            d == [r \in R |-> DayOfMoment(r.at)]
            t == [r \in R |-> r.status]
<1>1. s \in Surjection(R, Named(R))
  BY DEF Surjection, Named
<1>2. d \in Surjection(R, {DayOfMoment(r.at) : r \in R})
  BY DEF Surjection
<1>3. t \in Surjection(R, {r.status : r \in R})
  BY DEF Surjection
<1>. HIDE DEF s, d, t
<1>. QED BY <1>1, <1>2, <1>3, FS_Surjection

LEMMA PupilsAddUp ==
    ASSUME NEW R, IsFiniteSet(R)
    PROVE  Both(ByPupil(R)) = <<Cardinality(R), Marked(R, PRESENT_LIKE)>>
<1>. DEFINE key == [r \in R |-> r.student]
            K == Named(R)
            lines == ByPupil(R)
            h == [k \in K |-> Figures(k, {r \in R : key[r] = k})]
<1>1. lines = {Figures(k, {r \in R : key[r] = k}) : k \in K}
  <2>1. \A k : {r \in R : key[r] = k} = Of(k, R)
    BY DEF Of
  <2>. QED BY <2>1 DEF ByPupil
<1>2. IsFiniteSet(K) /\ \A r \in R : key[r] \in K
  BY NamesAreFinite DEF Named
<1>3. Both(lines) = <<Cardinality(R), Marked(R, PRESENT_LIKE)>>
  <2>1. \A k \in K : h[k] = Figures(k, {r \in R : key[r] = k})
    OBVIOUS
  <2>2. /\ (\A k \in K : h[k] \in lines) /\ DOMAIN h = K
        /\ \A l \in lines : \E k \in K : h[k] = l
    BY <1>1
  <2>. HIDE DEF key, K, lines, h
  <2>. QED BY <1>1, <1>2, <2>1, <2>2, LinesAddUp
<1>. QED BY <1>3 DEF lines

LEMMA DaysAddUp ==
    ASSUME NEW R, IsFiniteSet(R)
    PROVE  Both(ByDay(R)) = <<Cardinality(R), Marked(R, PRESENT_LIKE)>>
<1>. DEFINE key == [r \in R |-> DayOfMoment(r.at)]
            K == {DayOfMoment(r.at) : r \in R}
            lines == ByDay(R)
            h == [k \in K |-> Figures(k, {r \in R : key[r] = k})]
<1>1. lines = {Figures(k, {r \in R : key[r] = k}) : k \in K}
  <2>1. \A k : {r \in R : key[r] = k} = {r \in R : DayOfMoment(r.at) = k}
    OBVIOUS
  <2>. QED BY <2>1 DEF ByDay
<1>2. IsFiniteSet(K) /\ \A r \in R : key[r] \in K
  BY NamesAreFinite
<1>3. Both(lines) = <<Cardinality(R), Marked(R, PRESENT_LIKE)>>
  <2>1. \A k \in K : h[k] = Figures(k, {r \in R : key[r] = k})
    OBVIOUS
  <2>2. /\ (\A k \in K : h[k] \in lines) /\ DOMAIN h = K
        /\ \A l \in lines : \E k \in K : h[k] = l
    BY <1>1
  <2>. HIDE DEF key, K, lines, h
  <2>. QED BY <1>1, <1>2, <2>1, <2>2, LinesAddUp
<1>. QED BY <1>3 DEF lines

\* A line's two numbers are counts.
LEMMA LinesCount ==
    ASSUME NEW R, IsFiniteSet(R), NEW l \in ByPupil(R)
    PROVE  l.total \in Nat /\ l.present \in Nat
<1>1. PICK s \in Named(R) : l = Figures(s, Of(s, R))
  BY DEF ByPupil
<1>2. IsFiniteSet(Of(s, R))
  BY FS_Subset DEF Of
<1>3. l.total = Cardinality(Of(s, R)) /\ l.present = Marked(Of(s, R), PRESENT_LIKE)
  BY <1>1 DEF Figures
<1>. QED BY <1>2, <1>3, MarkedIsNat, FS_CardinalityType

\* A month's calendars: a line for every pupil, also without rows.
LEMMA CalendarsAddUp ==
    ASSUME NEW b, IsFiniteSet(b.rows)
    PROVE  Both({student_calendar(b, s) : s \in Named(b.rows)})
             = <<Cardinality(Screened(b)), Marked(Screened(b), PRESENT_LIKE)>>
<1>. DEFINE R == Screened(b)
            key == [r \in R |-> r.student]
            K == Named(b.rows)
            lines == {student_calendar(b, s) : s \in K}
            h == [k \in K |-> Figures(k, {r \in R : key[r] = k})]
<1>1. lines = {Figures(k, {r \in R : key[r] = k}) : k \in K}
  <2>1. \A k : {r \in R : key[r] = k} = Of(k, R)
    BY DEF Of
  <2>. QED BY <2>1 DEF student_calendar
<1>2. R \in SUBSET b.rows
  BY DEF Screened
<1>3. IsFiniteSet(K) /\ IsFiniteSet(R) /\ \A r \in R : key[r] \in K
  <2>1. \A r \in R : key[r] \in K
    BY <1>2 DEF Named
  <2>. QED BY <1>2, <2>1, NamesAreFinite, FS_Subset
<1>4. Both(lines) = <<Cardinality(R), Marked(R, PRESENT_LIKE)>>
  <2>1. \A k \in K : h[k] = Figures(k, {r \in R : key[r] = k})
    OBVIOUS
  <2>2. /\ (\A k \in K : h[k] \in lines) /\ DOMAIN h = K
        /\ \A l \in lines : \E k \in K : h[k] = l
    BY <1>1
  <2>. HIDE DEF key, K, R, lines, h
  <2>. QED BY <1>1, <1>3, <2>1, <2>2, LinesAddUp
<1>. QED BY <1>4 DEF lines, K, R

\* The summary counts by status.
LEMMA StatusesAddUp ==
    ASSUME NEW b, IsFiniteSet(b.rows)
    PROVE  /\ section_summary(b).records = Cardinality(Screened(b))
           /\ section_summary(b).present = Marked(Screened(b), PRESENT_LIKE)
<1>. DEFINE R == Screened(b)
            M == {r.status : r \in R}
            counts == [m \in M |-> Marked(R, {m})]
            key == [r \in R |-> r.status]
            P == {r \in R : r.status \in PRESENT_LIKE}
            some == [m \in M \cap PRESENT_LIKE |-> counts[m]]
<1>1. section_summary(b).records = SumFunction(counts)
      /\ section_summary(b).present = SumFunction(some)
  BY DEF section_summary, SumOf
<1>2. IsFiniteSet(R) /\ IsFiniteSet(M) /\ IsFiniteSet(P)
  <2>1. R \in SUBSET b.rows /\ P \in SUBSET b.rows
    BY DEF Screened
  <2>2. IsFiniteSet(R) /\ IsFiniteSet(P)
    BY <2>1, FS_Subset
  <2>. QED BY <2>2, NamesAreFinite
<1>3. Cardinality(R) = SumFunction(counts)
  <2>1. \A m \in M : counts[m] = Cardinality({r \in R : key[r] = m})
    <3>1. ASSUME NEW m \in M PROVE counts[m] = Cardinality({r \in R : key[r] = m})
      <4>1. {r \in R : r.status \in {m}} = {r \in R : key[r] = m}
        OBVIOUS
      <4>. QED BY <4>1 DEF Marked
    <3>. QED BY <3>1
  <2>2. DOMAIN counts = M /\ \A r \in R : key[r] \in M
    OBVIOUS
  <2>3. IsFiniteSet(R) /\ IsFiniteSet(M)
    BY <1>2
  <2>. HIDE DEF counts, key, R, M
  <2>. QED BY <2>1, <2>2, <2>3, CountByGroup
<1>4. Cardinality(P) = SumFunction(some)
  <2>. DEFINE K == M \cap PRESENT_LIKE
  <2>1. \A m \in K : some[m] = Cardinality({r \in P : key[r] = m})
    <3>1. ASSUME NEW m \in K PROVE some[m] = Cardinality({r \in P : key[r] = m})
      <4>1. {r \in R : r.status \in {m}} = {r \in P : key[r] = m}
        OBVIOUS
      <4>. QED BY <4>1 DEF Marked
    <3>. QED BY <3>1
  <2>2. DOMAIN some = K /\ \A r \in P : key[r] \in K
    OBVIOUS
  <2>3. IsFiniteSet(K)
    BY <1>2, FS_Subset
  <2>4. IsFiniteSet(P)
    BY <1>2
  <2>. HIDE DEF some, key, counts, P, K, M, R
  <2>. QED BY <2>1, <2>2, <2>3, <2>4, CountByGroup
<1>5. Marked(R, PRESENT_LIKE) = Cardinality(P)
  BY DEF Marked
<1>. HIDE DEF counts, some, P, R
<1>6. section_summary(b).records = Cardinality(R)
      /\ section_summary(b).present = Marked(R, PRESENT_LIKE)
  BY <1>1, <1>3, <1>4, <1>5
<1>. QED BY <1>6 DEF R

-----------------------------------------------------------------------------
(* Attendance: a book's screens against each other.                        *)

AttendanceBook(b) ==
    /\ b.start \in Nat /\ b.end \in Nat /\ b.start <= b.end
    /\ b.threshold \in Nat
    /\ IsFiniteSet(b.rows)
    /\ \A r \in b.rows : r.at \in Nat /\ r.at = Midnight(DayOfMoment(r.at))
    /\ \A q, r \in b.rows : q.student = r.student /\ q.at = r.at => q = r

LEMMA DaysOfMoments ==
    ASSUME NEW b, AttendanceBook(b), NEW r \in b.rows
    PROVE  /\ DayOfMoment(r.at) \in Nat /\ r.at = 2 * DayOfMoment(r.at)
           /\ _between(b, r.at) <=> b.start <= DayOfMoment(r.at)
                                    /\ DayOfMoment(r.at) <= b.end + 1
           /\ OnScreen(b, r.at) <=> b.start <= DayOfMoment(r.at)
                                    /\ DayOfMoment(r.at) <= b.end
<1>1. r.at \in Nat /\ r.at = 2 * DayOfMoment(r.at)
  BY DEF AttendanceBook, Midnight
<1>2. DayOfMoment(r.at) \in Nat
  BY <1>1 DEF DayOfMoment
<1>3. b.start \in Nat /\ b.end \in Nat
  BY DEF AttendanceBook
<1>. QED BY <1>1, <1>2, <1>3 DEF _between, OnScreen, Midnight

\* The screen's days are the report's days up to the last asked for.
LEMMA DaysUpToTheEnd ==
    ASSUME NEW b, AttendanceBook(b)
    PROVE  {l \in daily_attendance(b) : l.of <= b.end} = ByDay(Screened(b))
<1>. DEFINE On(d, R) == {r \in R : DayOfMoment(r.at) = d}
            line(d, R) == Figures(d, On(d, R))
            Days(R) == {DayOfMoment(r.at) : r \in R}
<1>1. \A d, R : line(d, R).of = d
  BY DEF Figures
<1>2. \A R : ByDay(R) = {line(d, R) : d \in Days(R)}
  BY DEF ByDay
<1>3. \A r \in b.rows : r \in Screened(b) <=>
        r \in Reported(b) /\ DayOfMoment(r.at) <= b.end
  <2>1. ASSUME NEW r \in b.rows
        PROVE  r \in Screened(b) <=> r \in Reported(b) /\ DayOfMoment(r.at) <= b.end
    <3>1. DayOfMoment(r.at) \in Nat /\ b.end \in Nat
      BY DaysOfMoments DEF AttendanceBook
    <3>. QED BY <3>1, DaysOfMoments DEF Screened, Reported
  <2>. QED BY <2>1
<1>4. Screened(b) \subseteq b.rows /\ Reported(b) \subseteq b.rows
  BY DEF Screened, Reported
<1>5. \A d : d \in Days(Screened(b)) <=> d \in Days(Reported(b)) /\ d <= b.end
  BY <1>3, <1>4
<1>6. \A d : d <= b.end => On(d, Reported(b)) = On(d, Screened(b))
  BY <1>3, <1>4
<1>7. \A d : d <= b.end => line(d, Reported(b)) = line(d, Screened(b))
  BY <1>6
<1>. HIDE DEF line, Days
<1>8. {l \in ByDay(Reported(b)) : l.of <= b.end} = ByDay(Screened(b))
  BY <1>1, <1>2, <1>5, <1>7
<1>. QED BY <1>8 DEF daily_attendance

\* A pupil with nothing in the month is below no threshold.
LEMMA LettersAreOfTheMonth ==
    ASSUME NEW b, AttendanceBook(b)
    PROVE  defaulters(b) = {l \in {student_calendar(b, s) : s \in Named(b.rows)} :
                              Below(l, b.threshold)}
<1>. DEFINE line(s) == Figures(s, Of(s, Screened(b)))
<1>1. Named(Screened(b)) \subseteq Named(b.rows)
  BY DEF Named, Screened
<1>2. ASSUME NEW s, s \notin Named(Screened(b)) PROVE ~Below(line(s), b.threshold)
  <2>1. Of(s, Screened(b)) = {}
    BY <1>2 DEF Of, Named
  <2>2. \A S : S = {} => Cardinality(S) = 0
    BY FS_EmptySet
  <2>3. Marked({}, PRESENT_LIKE) = 0
    BY <2>2 DEF Marked
  <2>4. line(s).total = 0 /\ line(s).present = 0
    BY <2>1, <2>2, <2>3 DEF Figures
  <2>5. b.threshold * 0 = 0 /\ 0 * 100 = 0
    BY DEF AttendanceBook
  <2>. QED BY <2>4, <2>5 DEF Below
<1>3. defaulters(b) = {l \in {line(s) : s \in Named(Screened(b))} : Below(l, b.threshold)}
  BY DEF defaulters, ByPupil
<1>4. {student_calendar(b, s) : s \in Named(b.rows)} = {line(s) : s \in Named(b.rows)}
  BY DEF student_calendar
<1>. HIDE DEF line
<1>. QED BY <1>1, <1>2, <1>3, <1>4

\* The report's own total: the days of its lines, and what its lines count as
\* present but for the half days.
LEMMA OverallAddsUp ==
    ASSUME NEW b, IsFiniteSet(Reported(b))
    PROVE  /\ overall_attendance(b).days = Cardinality(Reported(b))
           /\ overall_attendance(b).attended + Marked(Reported(b), {"half_day"})
                = Marked(Reported(b), PRESENT_LIKE)
<1>. DEFINE R == Reported(b)
            K == Named(R)
            key == [r \in R |-> r.student]
            mine == [s \in K |-> Of(s, R)]
            all == [s \in K |-> Cardinality(mine[s])]
            full == [s \in K |-> Marked(mine[s], {"present", "late"})]
            P == {r \in R : r.status \in {"present", "late"}}
            H == {r \in R : r.status \in {"half_day"}}
<1>1. overall_attendance(b).days = SumFunction(all)
      /\ overall_attendance(b).attended = SumFunction(full)
  BY DEF overall_attendance, SumOf
<1>2. /\ IsFiniteSet(R) /\ IsFiniteSet(K) /\ IsFiniteSet(P) /\ IsFiniteSet(H)
      /\ \A r \in R : key[r] \in K
  BY NamesAreFinite, FS_Subset DEF Named
<1>3. Cardinality(R) = SumFunction(all)
  <2>1. \A s \in K : all[s] = Cardinality({r \in R : key[r] = s})
    <3>1. \A s : Of(s, R) = {r \in R : key[r] = s}
      BY DEF Of
    <3>. QED BY <3>1
  <2>2. DOMAIN all = K /\ \A r \in R : key[r] \in K
    BY <1>2
  <2>3. IsFiniteSet(R) /\ IsFiniteSet(K)
    BY <1>2
  <2>. HIDE DEF all, mine, full, P, H, key, K, R
  <2>. QED BY <2>1, <2>2, <2>3, CountByGroup
<1>4. Cardinality(P) = SumFunction(full)
  <2>1. ASSUME NEW s \in K PROVE full[s] = Cardinality({r \in P : key[r] = s})
    <3>1. {r \in Of(s, R) : r.status \in {"present", "late"}} = {r \in P : key[r] = s}
      BY DEF Of
    <3>. QED BY <3>1 DEF Marked
  <2>2. DOMAIN full = K /\ \A r \in P : key[r] \in K
    BY <1>2
  <2>3. \A s \in K : full[s] = Cardinality({r \in P : key[r] = s})
    BY <2>1
  <2>4. IsFiniteSet(P) /\ IsFiniteSet(K)
    BY <1>2
  <2>. HIDE DEF full, mine, all, key, K, R, P, H
  <2>. QED BY <2>2, <2>3, <2>4, CountByGroup
<1>5. Cardinality(P \cup H) = Cardinality(P) + Cardinality(H)
  <2>1. P \cap H = {}
    OBVIOUS
  <2>2. IsFiniteSet(P) /\ IsFiniteSet(H)
    BY <1>2
  <2>. HIDE DEF P, H
  <2>3. Cardinality(P \cup H) = Cardinality(P) + Cardinality(H) - Cardinality(P \cap H)
    BY <2>2, FS_Union
  <2>4. Cardinality(P \cap H) = 0
    BY <2>1, FS_EmptySet
  <2>5. Cardinality(P) \in Nat /\ Cardinality(H) \in Nat
    BY <2>2, FS_CardinalityType
  <2>. QED BY <2>3, <2>4, <2>5
<1>6. P \cup H = {r \in R : r.status \in PRESENT_LIKE}
  BY DEF PRESENT_LIKE
<1>7. Marked(R, PRESENT_LIKE) = Cardinality(P \cup H)
      /\ Marked(R, {"half_day"}) = Cardinality(H)
  BY <1>6 DEF Marked
<1>. HIDE DEF all, full, P, H
<1>8. /\ overall_attendance(b).days = Cardinality(R)
      /\ overall_attendance(b).attended + Marked(R, {"half_day"}) = Marked(R, PRESENT_LIKE)
  BY <1>1, <1>3, <1>4, <1>5, <1>7
<1>. QED BY <1>8 DEF R

\* A line below a whole threshold that the rounded rate is not below has two
\* hundred days; one that the rounded rate is below is below.
LEMMA RoundingTakesDays ==
    ASSUME NEW t \in Nat, NEW p \in Nat, NEW threshold \in Nat, NEW l,
           l.total = t, l.present = p
    PROVE  /\ RoundedBelow(l, threshold) => Below(l, threshold)
           /\ Below(l, threshold) /\ ~RoundedBelow(l, threshold) => t >= 200
<1>. DEFINE m == threshold * t
<1>1. m \in Nat
  OBVIOUS
<1>2. (200 * threshold - 1) * t = 200 * m - t
  OBVIOUS
<1>3. Below(l, threshold) <=> p * 100 < m
  BY DEF Below
<1>4. RoundedBelow(l, threshold) <=> 20000 * p < 200 * m - t
  BY <1>2 DEF RoundedBelow
<1>. HIDE DEF m
<1>. QED BY <1>1, <1>3, <1>4

\* The dashboard's day is a day of the report and of its own trend.
LEMMA TodayIsADay ==
    ASSUME NEW b, AttendanceBook(b), attendance_today(b).total > 0
    PROVE  attendance_today(b) \in daily_attendance(b) \cap attendance_trend(b)
<1>. DEFINE T == {r \in b.rows : r.at = Midnight(b.end)}
            late == {r \in b.rows : r.at >= Midnight(b.end) - Midnight(14)}
            On(R) == {r \in R : DayOfMoment(r.at) = b.end}
<1>1. attendance_today(b) = Figures(b.end, T)
  BY DEF attendance_today
<1>2. T # {}
  <2>1. attendance_today(b).total = Cardinality(T)
    BY <1>1 DEF Figures
  <2>2. Cardinality({}) = 0
    BY FS_EmptySet
  <2>3. ASSUME T = {} PROVE FALSE
    <3>1. Cardinality(T) = 0
      BY <2>2, <2>3
    <3>. HIDE DEF T
    <3>. QED BY <2>1, <3>1
  <2>. QED BY <2>3
<1>3. \A r \in b.rows : (r \in T <=> DayOfMoment(r.at) = b.end)
                        /\ (r \in T => r \in Reported(b) /\ r \in late)
  <2>1. ASSUME NEW r \in b.rows
        PROVE  /\ r \in T <=> DayOfMoment(r.at) = b.end
               /\ r \in T => r \in Reported(b) /\ r \in late
    <3>1. DayOfMoment(r.at) \in Nat /\ r.at = 2 * DayOfMoment(r.at)
      BY DaysOfMoments
    <3>2. b.start \in Nat /\ b.end \in Nat /\ b.start <= b.end
      BY DEF AttendanceBook
    <3>3. r \in T <=> DayOfMoment(r.at) = b.end
      BY <3>1, <3>2 DEF Midnight
    <3>4. r \in T => r \in Reported(b)
      BY <3>1, <3>2, <3>3, DaysOfMoments DEF Reported
    <3>5. r \in T => r \in late
      BY <3>1, <3>2 DEF Midnight
    <3>. QED BY <3>3, <3>4, <3>5
  <2>. QED BY <2>1
<1>4. Reported(b) \subseteq b.rows /\ late \subseteq b.rows /\ T \subseteq b.rows
  BY DEF Reported
<1>. HIDE DEF T, late
<1>5. On(Reported(b)) = T /\ On(late) = T
  BY <1>3, <1>4
<1>6. \A R : On(R) # {} => Figures(b.end, On(R)) \in ByDay(R)
  BY DEF ByDay
<1>. HIDE DEF On
<1>7. Figures(b.end, T) \in ByDay(Reported(b)) /\ Figures(b.end, T) \in ByDay(late)
  BY <1>2, <1>5, <1>6
<1>. QED BY <1>1, <1>7 DEF daily_attendance, attendance_trend, late

\* Without half days and holidays the profile counts what the report counts.
LEMMA PlainProfile ==
    ASSUME NEW b, AttendanceBook(b), NEW s \in Named(b.rows),
           \A r \in b.rows : r.status \notin NON_TEACHING \cup {"half_day"},
           \A r \in b.rows : _between(b, r.at)
    PROVE  LET line == CHOOSE l \in attendance_register(b) : l.of = s
           IN  /\ attendance_summary(b, s).total = line.total
               /\ attendance_summary(b, s).halves = 2 * line.present
<1>. DEFINE mine == Of(s, b.rows)
            l0 == Figures(s, mine)
<1>1. Reported(b) = b.rows
  BY DEF Reported
<1>2. (CHOOSE l \in attendance_register(b) : l.of = s) = l0
  <2>1. l0 \in attendance_register(b)
    BY <1>1 DEF attendance_register, ByPupil
  <2>2. \A l \in attendance_register(b) : l.of = s => l = l0
    BY <1>1 DEF attendance_register, ByPupil, Figures
  <2>3. l0.of = s
    BY DEF Figures
  <2>. HIDE DEF l0
  <2>. QED BY <2>1, <2>2, <2>3
<1>3. mine \subseteq b.rows
  BY DEF Of
<1>4. IsFiniteSet(mine)
  BY <1>3, FS_Subset DEF AttendanceBook
<1>5. l0.total = Cardinality(mine) /\ l0.present = Marked(mine, PRESENT_LIKE)
  BY DEF Figures
<1>6. attendance_summary(b, s).total = Cardinality(mine)
  <2>1. {r \in mine : r.status \in {q.status : q \in mine} \ NON_TEACHING} = mine
    BY <1>3
  <2>2. Marked(mine, {q.status : q \in mine} \ NON_TEACHING) = Cardinality(mine)
    BY <2>1 DEF Marked
  <2>. QED BY <2>2 DEF attendance_summary
<1>7. attendance_summary(b, s).halves = 2 * Marked(mine, PRESENT_LIKE)
  <2>1. {r \in mine : r.status \in {"present", "late"}}
          = {r \in mine : r.status \in PRESENT_LIKE}
    BY <1>3 DEF PRESENT_LIKE
  <2>2. {r \in mine : r.status \in {"half_day"}} = {}
    BY <1>3
  <2>3. Marked(mine, {"present", "late"}) = Marked(mine, PRESENT_LIKE)
    BY <2>1 DEF Marked
  <2>4. Marked(mine, {"half_day"}) = 0
    BY <2>2, FS_EmptySet DEF Marked
  <2>5. Marked(mine, PRESENT_LIKE) \in Nat
    BY <1>4, MarkedIsNat
  <2>6. attendance_summary(b, s).halves
          = 2 * Marked(mine, {"present", "late"}) + Marked(mine, {"half_day"})
    BY DEF attendance_summary
  <2>. QED BY <2>3, <2>4, <2>5, <2>6
<1>. HIDE DEF l0
<1>. QED BY <1>2, <1>5, <1>6, <1>7

\* A day with a mark shows the mark.
LEMMA MarksAreShown ==
    ASSUME NEW b, AttendanceBook(b), NEW r \in b.rows,
           NEW d \in attendance_calendar(b, r.student), d.day = DayOfMoment(r.at)
    PROVE  d.status = r.status
<1>. DEFINE mine == Of(r.student, b.rows)
<1>1. r \in mine /\ mine \subseteq b.rows /\ \A q \in mine : q.student = r.student
  BY DEF Of
<1>2. CASE \E q \in mine : d = [day |-> DayOfMoment(q.at), status |-> q.status]
  <2>1. PICK q \in mine : d = [day |-> DayOfMoment(q.at), status |-> q.status]
    BY <1>2
  <2>2. q \in b.rows /\ q.student = r.student
    BY <1>1
  <2>3. DayOfMoment(q.at) = DayOfMoment(r.at)
    BY <2>1
  <2>4. q.at = r.at
    BY <2>2, <2>3 DEF AttendanceBook
  <2>5. q = r
    BY <2>2, <2>4 DEF AttendanceBook
  <2>. QED BY <2>1, <2>5
<1>3. CASE \E e \in _overlay_holidays(b, MarkedDays(mine)) :
             d = [day |-> e, status |-> "holiday"]
  <2>1. DayOfMoment(r.at) \in MarkedDays(mine)
    BY <1>1 DEF MarkedDays
  <2>. QED BY <1>3, <2>1 DEF _overlay_holidays
<1>. QED BY <1>2, <1>3 DEF attendance_calendar

LEMMA AttendanceHolds ==
    ASSUME PageSound PROVE AttendanceAgrees
<1>. DEFINE month == {student_calendar(book, s) : s \in Named(book.rows)}
<1>. SUFFICES ASSUME page.kind = "attendance" PROVE AttendanceAgrees
  BY DEF AttendanceAgrees
<1>1. Kept(book) /\ page = build(book) /\ book.kind = "attendance"
  BY PageKind
<1>2. page = AttendancePage(book)
  BY <1>1 DEF build
<1>3. AttendanceBook(book)
  BY <1>1 DEF Kept, AttendanceBook
<1>4. /\ page.register = attendance_register(book) /\ page.below = attendance_defaulters(book)
      /\ page.daily = daily_attendance(book) /\ page.summary = section_summary(book)
      /\ page.letters = defaulters(book) /\ page.month = month
      /\ page.profile = [s \in Named(book.rows) |-> attendance_summary(book, s)]
      /\ page.days = [s \in Named(book.rows) |-> attendance_calendar(book, s)]
      /\ page.today = attendance_today(book) /\ page.trend = attendance_trend(book)
      /\ page.overall = overall_attendance(book)
  BY <1>2 DEF AttendancePage
<1>5. IsFiniteSet(book.rows) /\ IsFiniteSet(Reported(book))
  BY <1>3, FS_Subset DEF AttendanceBook, Reported
<1>6. Both(page.register) = Both(page.daily)
  BY <1>4, <1>5, PupilsAddUp, DaysAddUp DEF attendance_register, daily_attendance
<1>7. {l \in page.daily : l.of <= book.end} = page.summary.daily
  BY <1>3, <1>4, DaysUpToTheEnd DEF section_summary
<1>8. Both(page.month) = <<page.summary.records, page.summary.present>>
  <2>1. Both(month) = <<Cardinality(Screened(book)), Marked(Screened(book), PRESENT_LIKE)>>
    BY <1>5, CalendarsAddUp
  <2>. HIDE DEF month
  <2>. QED BY <1>4, <1>5, <2>1, StatusesAddUp
<1>9. page.letters = {l \in page.month : Below(l, book.threshold)}
  BY <1>3, <1>4, LettersAreOfTheMonth
<1>10. ASSUME {r \in book.rows : r.at > Midnight(book.end)} = {}, book.threshold # 0
       PROVE  /\ page.below \subseteq page.letters
              /\ \A l \in page.letters \ page.below : l.total >= 200
  <2>1. Reported(book) = Screened(book)
    <3>1. ASSUME NEW r \in book.rows PROVE r.at \in Nat /\ book.end \in Nat /\ r.at <= 2 * book.end
      <4>1. r.at \in Nat /\ book.end \in Nat
        BY <1>3 DEF AttendanceBook
      <4>. QED BY <1>10, <4>1 DEF Midnight
    <3>. QED BY <3>1 DEF Reported, Screened, _between, OnScreen, Midnight
  <2>2. page.letters = {l \in ByPupil(Reported(book)) : Below(l, book.threshold)}
    BY <1>4, <2>1 DEF defaulters
  <2>3. page.below = {l \in ByPupil(Reported(book)) : RoundedBelow(l, book.threshold)}
    BY <1>4, <1>10 DEF attendance_defaulters, attendance_register
  <2>4. ASSUME NEW l \in ByPupil(Reported(book))
        PROVE  l.total \in Nat /\ l.present \in Nat
    BY <1>5, LinesCount
  <2>5. book.threshold \in Nat
    BY <1>3 DEF AttendanceBook
  <2>. QED BY <2>2, <2>3, <2>4, <2>5, RoundingTakesDays
<1>14. Both(page.register) =
         <<page.overall.days, page.overall.attended
                                + Marked(Reported(book), {"half_day"})>>
  BY <1>4, <1>5, PupilsAddUp, OverallAddsUp DEF attendance_register
<1>15. ASSUME book.threshold = 0 PROVE page.letters = {}
  <2>1. ASSUME NEW l \in ByPupil(Screened(book)) PROVE ~Below(l, 0)
    <3>1. IsFiniteSet(Screened(book))
      BY <1>5, FS_Subset DEF Screened
    <3>2. l.total \in Nat /\ l.present \in Nat
      BY <3>1, LinesCount
    <3>. QED BY <3>2 DEF Below
  <2>. QED BY <1>4, <1>15, <2>1 DEF defaulters
<1>16. ASSUME book.threshold \in {0, 75}
       PROVE  page.overall.below75 = Cardinality(page.below)
  <2>1. attendance_defaulters(book)
          = {l \in attendance_register(book) : RoundedBelow(l, 75)}
    BY <1>16 DEF attendance_defaulters
  <2>2. overall_attendance(book).below75
          = Cardinality({l \in attendance_register(book) : RoundedBelow(l, 75)})
    BY DEF overall_attendance
  <2>. QED BY <1>4, <2>1, <2>2
<1>11. page.today.total > 0 => page.today \in page.daily \cap page.trend
  BY <1>3, <1>4, TodayIsADay
<1>12. ASSUME \A r \in book.rows : r.status \notin NON_TEACHING \cup {"half_day"},
              \A r \in book.rows : _between(book, r.at),
              NEW s \in Named(book.rows)
       PROVE  LET line == CHOOSE l \in page.register : l.of = s
              IN  /\ page.profile[s].total = line.total
                  /\ page.profile[s].halves = 2 * line.present
  BY <1>3, <1>4, <1>12, PlainProfile
<1>13. ASSUME NEW r \in book.rows, NEW d \in page.days[r.student],
              d.day = DayOfMoment(r.at)
       PROVE  d.status = r.status
  <2>1. r.student \in Named(book.rows)
    BY DEF Named
  <2>2. d \in attendance_calendar(book, r.student)
    BY <1>4, <2>1
  <2>. QED BY <1>3, <1>13, <2>2, MarksAreShown
<1>. QED BY <1>6, <1>7, <1>8, <1>9, <1>10, <1>11, <1>12, <1>13,
            <1>14, <1>15, <1>16 DEF AttendanceAgrees

-----------------------------------------------------------------------------
(* Fees: what bills come to, all of them, in part and in groups.           *)

GoodBills(R) ==
    IsFiniteSet(R) /\ \A i \in R : i.total \in Nat /\ i.paid \in 0..i.total

LEMMA FewerBills ==
    ASSUME NEW R, GoodBills(R), NEW T, T \subseteq R PROVE GoodBills(T)
  BY FS_Subset DEF GoodBills

LEMMA SumsOfBills ==
    ASSUME NEW R, GoodBills(R)
    PROVE  /\ Charged(R) \in Nat /\ Paid(R) \in Nat /\ Left(R) \in Nat
           /\ Left(R) = Charged(R) - Paid(R)
<1>. DEFINE c == [i \in R |-> i.total]
            p == [i \in R |-> i.paid]
            l == [i \in R |-> i.total - i.paid]
<1>1. DOMAIN c = R /\ DOMAIN p = R /\ DOMAIN l = R /\ IsFiniteSet(R)
  BY DEF GoodBills
<1>2. ASSUME NEW i \in R
      PROVE  c[i] \in Nat /\ p[i] \in Nat /\ l[i] \in Nat /\ c[i] = p[i] + l[i]
  BY DEF GoodBills
<1>3. Charged(R) = SumFunction(c) /\ Paid(R) = SumFunction(p) /\ Left(R) = SumFunction(l)
  BY DEF Charged, Paid, Left, SumOf
<1>. HIDE DEF c, p, l
<1>4. SumFunction(c) \in Nat /\ SumFunction(p) \in Nat /\ SumFunction(l) \in Nat
  BY <1>1, <1>2, SumIsNat
<1>5. SumFunction(c) = SumFunction(p) + SumFunction(l)
  BY <1>1, <1>2, SumAdds
<1>. QED BY <1>3, <1>4, <1>5

\* In parts: what some leave and what the others leave.
LEMMA PaidInTwo ==
    ASSUME NEW R, GoodBills(R), NEW T, T \subseteq R
    PROVE  Paid(R) = Paid(T) + Paid(R \ T)
<1>. DEFINE p == [i \in R |-> i.paid]
<1>1. \A i \in R : p[i] \in Int
  BY DEF GoodBills
<1>2. DOMAIN p = R /\ IsFiniteSet(R) /\ R \ T \subseteq R
  BY DEF GoodBills
<1>3. [i \in T |-> i.paid] = [i \in T |-> p[i]]
      /\ [i \in R \ T |-> i.paid] = [i \in R \ T |-> p[i]]
  OBVIOUS
<1>. HIDE DEF p
<1>4. SumFunctionOnSet(p, R) = SumFunctionOnSet(p, T) + SumFunctionOnSet(p, R \ T)
  BY <1>1, <1>2, SumInTwo
<1>5. SumFunction([i \in T |-> p[i]]) = SumFunctionOnSet(p, T)
      /\ SumFunction([i \in R \ T |-> p[i]]) = SumFunctionOnSet(p, R \ T)
  BY <1>2, SumOfRest
<1>6. Paid(T) = SumFunctionOnSet(p, T) /\ Paid(R \ T) = SumFunctionOnSet(p, R \ T)
  BY <1>3, <1>5 DEF Paid, SumOf
<1>7. Paid(R) = SumFunctionOnSet(p, R)
  BY <1>2 DEF Paid, SumOf, SumFunction, p
<1>. QED BY <1>4, <1>6, <1>7

\* Bills that leave nothing do not matter to what is left.
LEMMA LeftOfOpen ==
    ASSUME NEW R, GoodBills(R), NEW T, T \subseteq R,
           \A i \in R \ T : i.total = i.paid
    PROVE  Left(R) = Left(T)
<1>. DEFINE f == [i \in R |-> i.total - i.paid]
            g == [i \in T |-> i.total - i.paid]
<1>1. IsFiniteSet(R) /\ DOMAIN f = R /\ DOMAIN g = T
  BY DEF GoodBills
<1>2. \A i \in T : f[i] = g[i] /\ g[i] \in Int
  BY DEF GoodBills
<1>3. \A i \in R \ T : f[i] = 0
  BY DEF GoodBills
<1>4. Left(R) = SumFunction(f) /\ Left(T) = SumFunction(g)
  BY DEF Left, SumOf
<1>. HIDE DEF f, g
<1>5. SumFunction(g) = SumFunctionOnSet(f, R)
  BY <1>1, <1>2, <1>3, SumLifted
<1>. QED BY <1>1, <1>4, <1>5 DEF SumFunction

\* Groups under a key add up to the whole.
LEMMA GroupsAddUp ==
    ASSUME NEW v, IsFiniteSet(DOMAIN v), \A x \in DOMAIN v : v[x] \in Int,
           NEW key, DOMAIN key = DOMAIN v, NEW g, DOMAIN g = DOMAIN By(key),
           \A k \in DOMAIN g : g[k] = SumFunction([x \in By(key)[k] |-> v[x]])
    PROVE  SumFunction(v) = SumFunction(g)
<1>. DEFINE R == DOMAIN v
            K == DOMAIN g
<1>1. K = {key[x] : x \in R}
  BY DEF By, Range
<1>2. \A k \in K : By(key)[k] = {x \in R : key[x] = k}
  BY <1>1 DEF By, Range
<1>3. IsFiniteSet(K)
  <2>. DEFINE m == [x \in R |-> key[x]]
  <2>1. m \in Surjection(R, K)
    BY <1>1 DEF Surjection
  <2>. HIDE DEF K, m, R
  <2>2. IsFiniteSet(R)
    BY DEF R
  <2>. QED BY <2>1, <2>2, FS_Surjection
<1>4. \A k \in K : g[k] = SumFunction([x \in {y \in R : key[y] = k} |-> v[x]])
  BY <1>2
<1>5. (\A x \in R : key[x] \in K) /\ IsFiniteSet(R) /\ (\A x \in R : v[x] \in Int)
      /\ DOMAIN v = R /\ DOMAIN g = K
  BY <1>1
<1>. HIDE DEF R, K
<1>. QED BY <1>3, <1>4, <1>5, SumGrouped

\* Bills under a key: what each group is charged and has paid.
LEMMA BillsByKey ==
    ASSUME NEW R, GoodBills(R), NEW key, DOMAIN key = R
    PROVE  /\ SumFunction([t \in DOMAIN By(key) |-> Charged(By(key)[t])]) = Charged(R)
           /\ SumFunction([t \in DOMAIN By(key) |-> Paid(By(key)[t])]) = Paid(R)
           /\ \A t \in DOMAIN By(key) : /\ By(key)[t] = {x \in R : key[x] = t}
                                        /\ Charged(By(key)[t]) \in Int
                                        /\ Paid(By(key)[t]) \in Int
<1>. DEFINE c == [i \in R |-> i.total]
            p == [i \in R |-> i.paid]
            gc == [t \in DOMAIN By(key) |-> Charged(By(key)[t])]
            gp == [t \in DOMAIN By(key) |-> Paid(By(key)[t])]
<1>1. \A t \in DOMAIN By(key) : By(key)[t] = {x \in R : key[x] = t}
  BY DEF By
<1>2. ASSUME NEW t \in DOMAIN By(key)
      PROVE  /\ Charged(By(key)[t]) = SumFunction([x \in By(key)[t] |-> c[x]])
             /\ Paid(By(key)[t]) = SumFunction([x \in By(key)[t] |-> p[x]])
             /\ Charged(By(key)[t]) \in Int /\ Paid(By(key)[t]) \in Int
  <2>1. By(key)[t] \subseteq R
    BY <1>1
  <2>. DEFINE G == By(key)[t]
  <2>2. [x \in G |-> c[x]] = [x \in G |-> x.total] /\ [x \in G |-> p[x]] = [x \in G |-> x.paid]
    BY <2>1
  <2>3. GoodBills(G)
    BY <2>1, FewerBills
  <2>. HIDE DEF G
  <2>4. Charged(G) \in Int /\ Paid(G) \in Int
    BY <2>3, SumsOfBills
  <2>5. Charged(G) = SumFunction([x \in G |-> c[x]]) /\ Paid(G) = SumFunction([x \in G |-> p[x]])
    BY <2>2 DEF Charged, Paid, SumOf
  <2>. QED BY <2>4, <2>5 DEF G
<1>3. IsFiniteSet(DOMAIN c) /\ (\A x \in DOMAIN c : c[x] \in Int) /\ DOMAIN key = DOMAIN c
  BY DEF GoodBills
<1>4. IsFiniteSet(DOMAIN p) /\ (\A x \in DOMAIN p : p[x] \in Int) /\ DOMAIN key = DOMAIN p
  BY DEF GoodBills
<1>5. DOMAIN gc = DOMAIN By(key)
      /\ \A t \in DOMAIN gc : gc[t] = SumFunction([x \in By(key)[t] |-> c[x]])
  BY <1>2
<1>6. DOMAIN gp = DOMAIN By(key)
      /\ \A t \in DOMAIN gp : gp[t] = SumFunction([x \in By(key)[t] |-> p[x]])
  BY <1>2
<1>7. Charged(R) = SumFunction(c) /\ Paid(R) = SumFunction(p)
  BY DEF Charged, Paid, SumOf
<1>. HIDE DEF c, p, gc, gp
<1>8. SumFunction(c) = SumFunction(gc)
  BY <1>3, <1>5, GroupsAddUp
<1>9. SumFunction(p) = SumFunction(gp)
  BY <1>4, <1>6, GroupsAddUp
<1>. QED BY <1>1, <1>2, <1>7, <1>8, <1>9 DEF gc, gp

\* Receipts under a key.
LEMMA ReceiptsByKey ==
    ASSUME NEW R, IsFiniteSet(R), \A q \in R : q.amount \in Nat,
           NEW key, DOMAIN key = R
    PROVE  SumFunction([t \in DOMAIN By(key) |-> Amount(By(key)[t])]) = Amount(R)
<1>. DEFINE a == [x \in R |-> x.amount]
            g == [t \in DOMAIN By(key) |-> Amount(By(key)[t])]
<1>1. \A t \in DOMAIN By(key) : By(key)[t] \subseteq R
  BY DEF By
<1>2. ASSUME NEW t \in DOMAIN By(key)
      PROVE  Amount(By(key)[t]) = SumFunction([x \in By(key)[t] |-> a[x]])
  <2>1. [x \in By(key)[t] |-> a[x]] = [x \in By(key)[t] |-> x.amount]
    BY <1>1
  <2>. QED BY <2>1 DEF Amount, SumOf
<1>3. IsFiniteSet(DOMAIN a) /\ (\A x \in DOMAIN a : a[x] \in Int) /\ DOMAIN key = DOMAIN a
  OBVIOUS
<1>4. DOMAIN g = DOMAIN By(key)
      /\ \A t \in DOMAIN g : g[t] = SumFunction([x \in By(key)[t] |-> a[x]])
  BY <1>2
<1>5. Amount(R) = SumFunction(a)
  BY DEF Amount, SumOf
<1>. HIDE DEF a, g
<1>6. SumFunction(a) = SumFunction(g)
  BY <1>3, <1>4, GroupsAddUp
<1>. QED BY <1>5, <1>6 DEF g

\* Fewer receipts are no more money.
LEMMA FewerReceipts ==
    ASSUME NEW R, IsFiniteSet(R), \A q \in R : q.amount \in Nat, NEW T, T \subseteq R
    PROVE  Amount(T) <= Amount(R)
<1>. DEFINE f == [x \in R |-> x.amount]
            g == [x \in T |-> x.amount]
<1>1. /\ IsFiniteSet(DOMAIN f) /\ (\A x \in DOMAIN f : f[x] \in Nat)
      /\ DOMAIN g \subseteq DOMAIN f /\ \A x \in DOMAIN g : g[x] = f[x]
  OBVIOUS
<1>2. Amount(T) = SumFunction(g) /\ Amount(R) = SumFunction(f)
  BY DEF Amount, SumOf
<1>. HIDE DEF f, g
<1>. QED BY <1>1, <1>2, SumFewer

-----------------------------------------------------------------------------
(* Fees: a book's screens against each other.                              *)

FeesBook(b) ==
    /\ GoodBills(b.bills)
    /\ IsFiniteSet(b.payments) /\ IsFiniteSet(DOMAIN b.students)
    /\ \A i \in b.bills :
         /\ i.status = "paid" => i.paid = i.total
         /\ i.status \in {"draft", "issued", "partially_paid", "overdue",
                          "paid", "cancelled"}
         /\ i.student \in DOMAIN b.students
    /\ \A q \in b.payments : q.amount \in Nat
    /\ \A s \in DOMAIN b.students :
         b.students[s].outstanding = Left(Standing(Of(s, b.bills)))

LEMMA PartsOfTheBook ==
    ASSUME NEW b, FeesBook(b), NEW s
    PROVE  /\ GoodBills(Standing(b.bills)) /\ GoodBills(Of(s, b.bills))
           /\ GoodBills(Standing(Of(s, b.bills)))
           /\ Standing(b.bills) \subseteq b.bills
           /\ Standing(Of(s, b.bills)) \subseteq Of(s, b.bills)
<1>1. Standing(b.bills) \subseteq b.bills /\ Of(s, b.bills) \subseteq b.bills
      /\ Standing(Of(s, b.bills)) \subseteq Of(s, b.bills)
  BY DEF Standing, Of
<1>2. GoodBills(b.bills)
  BY DEF FeesBook
<1>. QED BY <1>1, <1>2, FewerBills

\* A pupil owes what the bills leave.
LEMMA DuesOfAPupil ==
    ASSUME NEW b, FeesBook(b), NEW s
    PROVE  /\ fee_summary(b, s).outstanding = Left(Standing(Of(s, b.bills)))
           /\ fee_summary(b, s).outstanding \in Nat
<1>. DEFINE R == Standing(Of(s, b.bills))
<1>1. Charged(R) \in Nat /\ Paid(R) \in Nat /\ Left(R) \in Nat
      /\ Left(R) = Charged(R) - Paid(R)
  BY PartsOfTheBook, SumsOfBills
<1>2. fee_summary(b, s).outstanding = Atleast0(Charged(R) - Paid(R))
  BY DEF fee_summary
<1>. HIDE DEF R
<1>3. fee_summary(b, s).outstanding = Left(R) /\ Left(R) \in Nat
  BY <1>1, <1>2 DEF Atleast0
<1>. QED BY <1>3 DEF R

\* What is owed, pupil by pupil.
LEMMA OwedByPupil ==
    ASSUME NEW b, FeesBook(b)
    PROVE  Left(Standing(b.bills)) =
             SumFunction([s \in DOMAIN b.students |-> fee_summary(b, s).outstanding])
<1>. DEFINE R == Standing(b.bills)
            v == [i \in R |-> i.total - i.paid]
            key == [i \in R |-> i.student]
            K == DOMAIN b.students
            g == [s \in K |-> fee_summary(b, s).outstanding]
<1>1. GoodBills(R) /\ R \subseteq b.bills
  BY PartsOfTheBook
<1>2. DOMAIN v = R /\ IsFiniteSet(R) /\ \A x \in R : v[x] \in Int
  BY <1>1 DEF GoodBills
<1>3. IsFiniteSet(K) /\ \A x \in R : key[x] \in K
  BY <1>1 DEF FeesBook
<1>4. ASSUME NEW s \in K
      PROVE  g[s] = SumFunction([x \in {y \in R : key[y] = s} |-> v[x]])
  <2>. DEFINE G == {y \in R : key[y] = s}
  <2>1. G = Standing(Of(s, b.bills)) /\ G \subseteq R
    BY DEF Standing, Of
  <2>2. [x \in G |-> v[x]] = [x \in G |-> x.total - x.paid]
    OBVIOUS
  <2>3. g[s] = Left(Standing(Of(s, b.bills)))
    BY DuesOfAPupil
  <2>4. Left(G) = SumFunction([x \in G |-> v[x]])
    BY <2>2 DEF Left, SumOf
  <2>. QED BY <2>1, <2>3, <2>4
<1>5. Left(R) = SumFunction(v)
  BY DEF Left, SumOf
<1>6. DOMAIN g = K
  OBVIOUS
<1>. HIDE DEF R, v, key, K, g
<1>7. SumFunction(v) = SumFunction(g)
  BY <1>2, <1>3, <1>4, <1>6, SumGrouped
<1>. QED BY <1>5, <1>7 DEF R, g, K

\* What is owed is what the unpaid bills leave.
LEMMA OwedOnTheUnpaid ==
    ASSUME NEW b, FeesBook(b)
    PROVE  Left(fee_outstanding(b)) = Left(Standing(b.bills))
<1>1. fee_outstanding(b) \subseteq Standing(b.bills)
  BY DEF fee_outstanding, Standing
<1>2. ASSUME NEW i \in Standing(b.bills) \ fee_outstanding(b) PROVE i.total = i.paid
  <2>1. i \in b.bills /\ i.status \notin {"draft", "cancelled"}
    BY <1>2 DEF Standing
  <2>2. i.total \in Nat /\ i.paid \in 0..i.total
    BY <2>1 DEF FeesBook, GoodBills
  <2>3. i.status \in {"issued", "partially_paid", "overdue", "paid"}
    BY <2>1 DEF FeesBook
  <2>4. CASE i.status = "paid"
    BY <2>1, <2>4 DEF FeesBook
  <2>5. CASE i.status # "paid"
    <3>1. ~(i.total > i.paid)
      BY <1>2, <2>1, <2>3, <2>5 DEF fee_outstanding
    <3>. QED BY <2>2, <3>1
  <2>. QED BY <2>4, <2>5
<1>3. GoodBills(Standing(b.bills))
  BY PartsOfTheBook
<1>. QED BY <1>1, <1>2, <1>3, LeftOfOpen

\* The classes' lines add up to the bills.
LEMMA ClassesAddUp ==
    ASSUME NEW b, FeesBook(b)
    PROVE  /\ SumFunction([c \in fee_by_class(b) |-> c.billed]) = Charged(Standing(b.bills))
           /\ SumFunction([c \in fee_by_class(b) |-> c.collected]) = Paid(Standing(b.bills))
<1>. DEFINE R == Standing(b.bills)
            key == [i \in R |-> i.class]
            K == DOMAIN By(key)
            gc == [t \in K |-> Charged(By(key)[t])]
            gp == [t \in K |-> Paid(By(key)[t])]
            h == [t \in K |-> [class |-> t, invoices |-> Cardinality(By(key)[t]),
                               billed |-> gc[t], collected |-> gp[t]]]
            L == fee_by_class(b)
            fc == [c \in L |-> c.billed]
            fp == [c \in L |-> c.collected]
<1>1. GoodBills(R) /\ DOMAIN key = R
  BY PartsOfTheBook
<1>2. /\ SumFunction(gc) = Charged(R) /\ SumFunction(gp) = Paid(R)
      /\ \A t \in K : /\ By(key)[t] = {x \in R : key[x] = t}
                      /\ gc[t] \in Int /\ gp[t] \in Int
  <2>. HIDE DEF R, key
  <2>. QED BY <1>1, BillsByKey
<1>3. K = {i.class : i \in R}
  BY DEF By, Range
<1>4. L = {h[t] : t \in K}
  <2>1. ASSUME NEW t \in K PROVE By(key)[t] = {i \in R : i.class = t}
    BY <1>2
  <2>2. L = {[class |-> t, invoices |-> Cardinality({i \in R : i.class = t}),
              billed |-> Charged({i \in R : i.class = t}),
              collected |-> Paid({i \in R : i.class = t})] : t \in K}
    BY <1>3 DEF fee_by_class
  <2>. HIDE DEF K, R, key, L
  <2>. QED BY <2>1, <2>2
<1>5. IsFiniteSet(K)
  <2>. DEFINE m == [i \in R |-> i.class]
  <2>1. m \in Surjection(R, K)
    BY <1>3 DEF Surjection
  <2>2. IsFiniteSet(R)
    BY <1>1 DEF GoodBills
  <2>. HIDE DEF m, R, K
  <2>. QED BY <2>1, <2>2, FS_Surjection
<1>6. \A t \in K : h[t].class = t /\ h[t].billed = gc[t] /\ h[t].collected = gp[t]
  OBVIOUS
<1>. HIDE DEF h, L, R, K, key
<1>7. DOMAIN gc = K /\ DOMAIN gp = K /\ DOMAIN fc = L /\ DOMAIN fp = L
  OBVIOUS
<1>8. \A t \in K : /\ h[t] \in L /\ fc[h[t]] = gc[t] /\ fp[h[t]] = gp[t]
                   /\ gc[t] \in Int /\ gp[t] \in Int
  BY <1>2, <1>4, <1>6
<1>9. (\A l \in L : \E t \in K : h[t] = l) /\ \A s, t \in K : h[s] = h[t] => s = t
  BY <1>4, <1>6
<1>. HIDE DEF fc, fp, gc, gp
<1>10. SumFunction(fc) = SumFunction(gc)
  BY <1>5, <1>7, <1>8, <1>9, SumOfLines
<1>11. SumFunction(fp) = SumFunction(gp)
  BY <1>5, <1>7, <1>8, <1>9, SumOfLines
<1>. QED BY <1>2, <1>10, <1>11 DEF fc, fp, L, R

\* The roster has a line for each active pupil, in one class each.
LEMMA RosterAddsUp ==
    ASSUME NEW b, FeesBook(b)
    PROVE  /\ SumFunction([l \in student_roster(b) |-> l.dues]) =
                SumFunction([s \in Active(b) |-> fee_summary(b, s).outstanding])
           /\ Cardinality(student_roster(b)) =
                SumFunction([c \in DOMAIN student_demographics(b) |->
                               Cardinality(student_demographics(b)[c])])
<1>. DEFINE A == Active(b)
            L == student_roster(b)
            h == [s \in A |-> [student |-> s, class |-> b.students[s].class,
                               dues |-> b.students[s].outstanding]]
            f == [l \in L |-> l.dues]
            g == [s \in A |-> fee_summary(b, s).outstanding]
            key == [s \in A |-> b.students[s].class]
            K == DOMAIN By(key)
            n == [c \in K |-> Cardinality(By(key)[c])]
<1>1. A \subseteq DOMAIN b.students /\ IsFiniteSet(A)
  <2>1. A \subseteq DOMAIN b.students
    BY DEF Active
  <2>. QED BY <2>1, FS_Subset DEF FeesBook
<1>2. L = {h[s] : s \in A} /\ \A s \in A : h[s].student = s
  BY DEF student_roster
<1>3. \A s \in A : h[s].dues = g[s] /\ g[s] \in Int
  <2>1. ASSUME NEW s \in A PROVE h[s].dues = g[s] /\ g[s] \in Int
    <3>1. h[s].dues = b.students[s].outstanding /\ g[s] = fee_summary(b, s).outstanding
      OBVIOUS
    <3>2. b.students[s].outstanding = Left(Standing(Of(s, b.bills)))
      BY <1>1 DEF FeesBook
    <3>. QED BY <3>1, <3>2, DuesOfAPupil
  <2>. QED BY <2>1
<1>4. h \in Bijection(A, L)
  <2>1. h \in [A -> L] /\ \A l \in L : \E s \in A : h[s] = l
    BY <1>2
  <2>2. \A s, t \in A : h[s] = h[t] => s = t
    BY <1>2
  <2>. HIDE DEF h, L, A
  <2>. QED BY <2>1, <2>2 DEF Bijection, Injection, Surjection, IsInjective
<1>5. SumFunction(f) = SumFunction(g)
  <2>1. \A l \in L : f[l] = l.dues
    OBVIOUS
  <2>2. DOMAIN f = L /\ DOMAIN g = A
    OBVIOUS
  <2>. HIDE DEF h, f, g, L, A
  <2>3. ASSUME NEW s \in A PROVE h[s] \in L /\ f[h[s]] = g[s] /\ g[s] \in Int
    <3>1. h[s] \in L
      BY <1>2
    <3>. QED BY <1>3, <2>1, <3>1
  <2>4. (\A l \in L : \E s \in A : h[s] = l) /\ \A s, t \in A : h[s] = h[t] => s = t
    BY <1>2
  <2>. QED BY <1>1, <2>2, <2>3, <2>4, SumOfLines
<1>6. Cardinality(L) = Cardinality(A)
  <2>. HIDE DEF h, L, A
  <2>. QED BY <1>1, <1>4, FS_Bijection DEF ExistsBijection
<1>7. Cardinality(A) = SumFunction(n)
  <2>1. \A c \in K : n[c] = Cardinality({s \in A : key[s] = c})
    BY DEF By
  <2>2. (\A s \in A : key[s] \in K) /\ DOMAIN n = K
    BY DEF By, Range
  <2>3. IsFiniteSet(K)
    <3>1. key \in Surjection(A, K)
      BY DEF Surjection, By, Range
    <3>. HIDE DEF key, K, A
    <3>. QED BY <1>1, <3>1, FS_Surjection
  <2>. HIDE DEF n, key, K, A
  <2>. QED BY <1>1, <2>1, <2>2, <2>3, CountByGroup
<1>8. student_demographics(b) = By(key)
  BY DEF student_demographics
<1>. QED BY <1>5, <1>6, <1>7, <1>8

LEMMA FeesHold ==
    ASSUME PageSound PROVE FeesAgree
<1>. SUFFICES ASSUME page.kind = "fees" PROVE FeesAgree
  BY DEF FeesAgree
<1>. DEFINE b == book
            R == Standing(b.bills)
            mine(s) == Of(s, b.bills)
            lapsed(s) == Paid({i \in mine(s) : i.status \in {"draft", "cancelled"}})
            dues(S) == [s \in S |-> fee_summary(b, s).outstanding]
            due(S) == SumOf([s \in S |-> page.profile[s].outstanding])
            money == page.collection
            ok == fee_collection(b)
<1>1. Kept(book) /\ page = build(book) /\ book.kind = "fees"
  BY PageKind
<1>2. page = FeesPage(book)
  BY <1>1 DEF build
<1>3. FeesBook(b)
  BY <1>1 DEF Kept, FeesBook, GoodBills
<1>4. /\ page.unpaid = fee_outstanding(b) /\ page.classes = fee_by_class(b)
      /\ page.receipts = fee_collection(b) /\ money = collection_summary(b)
      /\ page.month = this_month(b) /\ page.billed = Charged(R) /\ page.paid = Paid(R)
      /\ page.account = family_fee_account(b) /\ page.family = total_outstanding(b)
      /\ page.roster = student_roster(b) /\ page.strength = student_demographics(b)
  BY <1>2 DEF FeesPage
<1>5. /\ page.profile = [s \in DOMAIN b.students |-> fee_summary(b, s)]
      /\ page.ledger = [s \in DOMAIN b.students |-> student_ledger(b, s)]
  BY <1>2 DEF FeesPage
<1>6. ASSUME NEW S, S \subseteq DOMAIN b.students PROVE due(S) = SumFunction(dues(S))
  <2>1. [s \in S |-> page.profile[s].outstanding] = dues(S)
    BY <1>5, <1>6
  <2>. QED BY <2>1 DEF SumOf
<1>7. GoodBills(R)
  BY <1>3, PartsOfTheBook
<1>8. money.billed = page.billed /\ money.paid = page.paid
  <2>. DEFINE key == [i \in R |-> i.status]
  <2>1. money.billed = SumFunction([t \in DOMAIN By(key) |-> Charged(By(key)[t])])
        /\ money.paid = SumFunction([t \in DOMAIN By(key) |-> Paid(By(key)[t])])
    BY <1>4 DEF collection_summary, SumOf
  <2>2. DOMAIN key = R
    OBVIOUS
  <2>. HIDE DEF key, R, money
  <2>. QED BY <1>4, <1>7, <2>1, <2>2, BillsByKey
<1>9. page.billed = SumOf([c \in page.classes |-> c.billed])
      /\ page.paid = SumOf([c \in page.classes |-> c.collected])
  BY <1>3, <1>4, ClassesAddUp DEF SumOf
<1>10. Left(page.unpaid) = page.billed - page.paid
  <2>1. Left(R) = Charged(R) - Paid(R)
    BY <1>7, SumsOfBills
  <2>. QED BY <1>3, <1>4, <2>1, OwedOnTheUnpaid
<1>11. Left(page.unpaid) = due(DOMAIN page.profile)
  <2>1. Left(R) = SumFunction(dues(DOMAIN b.students))
    BY <1>3, OwedByPupil
  <2>2. DOMAIN page.profile = DOMAIN b.students
    BY <1>5
  <2>3. due(DOMAIN b.students) = SumFunction(dues(DOMAIN b.students))
    BY <1>6
  <2>. HIDE DEF due, dues
  <2>. QED BY <1>3, <1>4, <2>1, <2>2, <2>3, OwedOnTheUnpaid
<1>12. ASSUME NEW s \in DOMAIN page.profile
       PROVE  page.profile[s].outstanding =
                page.ledger[s].billed - page.ledger[s].paid + lapsed(s)
  <2>. DEFINE T == Standing(mine(s))
  <2>1. s \in DOMAIN b.students
    BY <1>5
  <2>2. page.profile[s].outstanding = fee_summary(b, s).outstanding
        /\ page.ledger[s] = student_ledger(b, s)
    BY <1>5, <2>1
  <2>3. fee_summary(b, s).outstanding = Left(T)
    BY <1>3, DuesOfAPupil
  <2>4. page.ledger[s].billed = Charged(T) /\ page.ledger[s].paid = Paid(mine(s))
    BY <2>2 DEF student_ledger
  <2>5. GoodBills(mine(s)) /\ GoodBills(T) /\ T \subseteq mine(s)
    BY <1>3, PartsOfTheBook
  <2>6. mine(s) \ T = {i \in mine(s) : i.status \in {"draft", "cancelled"}}
    BY DEF Standing
  <2>. DEFINE M == mine(s)
  <2>7. lapsed(s) = Paid(M \ T)
    BY <2>6
  <2>. HIDE DEF T, lapsed, M
  <2>8. Paid(M) = Paid(T) + Paid(M \ T)
    BY <2>5, PaidInTwo DEF M
  <2>9. Left(T) = Charged(T) - Paid(T) /\ Charged(T) \in Nat /\ Paid(T) \in Nat
    BY <2>5, SumsOfBills
  <2>10. Paid(M \ T) \in Nat
    <3>1. GoodBills(M \ T)
      BY <2>5, FewerBills DEF M
    <3>. QED BY <3>1, SumsOfBills
  <2>11. page.ledger[s].paid = Paid(M)
    BY <2>4 DEF M
  <2>. QED BY <2>2, <2>3, <2>4, <2>7, <2>8, <2>9, <2>10, <2>11
<1>13. page.family = due(DOMAIN page.account)
  <2>1. DOMAIN page.account = Children(b) /\ Children(b) \subseteq DOMAIN b.students
    BY <1>4 DEF family_fee_account, Children
  <2>2. page.family = SumFunction(dues(Children(b)))
    BY <1>4 DEF total_outstanding, SumOf
  <2>3. due(Children(b)) = SumFunction(dues(Children(b)))
    BY <1>6, <2>1
  <2>. QED BY <2>1, <2>2, <2>3
<1>14. SumOf([l \in page.roster |-> l.dues]) = due(Active(book))
  <2>1. Active(b) \subseteq DOMAIN b.students
    BY DEF Active
  <2>2. SumFunction([l \in page.roster |-> l.dues]) = SumFunction(dues(Active(b)))
    BY <1>3, <1>4, RosterAddsUp
  <2>3. due(Active(b)) = SumFunction(dues(Active(b)))
    BY <1>6, <2>1
  <2>. HIDE DEF due, dues
  <2>. QED BY <2>2, <2>3 DEF SumOf
<1>15. Cardinality(page.roster) =
         SumOf([c \in DOMAIN page.strength |-> Cardinality(page.strength[c])])
  BY <1>3, <1>4, RosterAddsUp DEF SumOf
<1>16. IsFiniteSet(Received(b)) /\ IsFiniteSet(ok)
       /\ \A q \in Received(b) : q.amount \in Nat /\ q \in b.payments
  <2>1. Received(b) \subseteq b.payments /\ ok \subseteq Received(b)
    BY DEF Received, fee_collection
  <2>. QED BY <1>3, <2>1, FS_Subset DEF FeesBook
<1>17. money.collected = Amount(page.receipts)
  <2>. DEFINE key == [q \in ok |-> q.method]
  <2>1. money.collected = SumFunction([t \in DOMAIN By(key) |-> Amount(By(key)[t])])
    BY <1>4 DEF collection_summary, SumOf
  <2>2. (\A q \in ok : q.amount \in Nat) /\ DOMAIN key = ok
    BY <1>16 DEF fee_collection
  <2>. HIDE DEF key, ok, money
  <2>3. money.collected = Amount(ok)
    BY <1>16, <2>1, <2>2, ReceiptsByKey
  <2>. QED BY <1>4, <2>3 DEF ok
<1>18. Amount(page.receipts) = SumOf(money.by_day)
  <2>. DEFINE key == [q \in ok |-> DayOfMoment(q.at)]
  <2>1. SumOf(money.by_day) = SumFunction([t \in DOMAIN By(key) |-> Amount(By(key)[t])])
    BY <1>4 DEF collection_summary, SumOf
  <2>2. (\A q \in ok : q.amount \in Nat) /\ DOMAIN key = ok
    BY <1>16 DEF fee_collection
  <2>. HIDE DEF key, ok, money
  <2>3. SumOf(money.by_day) = Amount(ok)
    BY <1>16, <2>1, <2>2, ReceiptsByKey
  <2>. QED BY <1>4, <2>3 DEF ok
<1>19. money.collected <= page.month
  <2>. DEFINE since == {q \in Received(b) : q.at >= Midnight(b.start)}
  <2>1. page.month = Amount(since)
    BY <1>4 DEF this_month
  <2>2. ok \subseteq since
    BY DEF fee_collection, _between
  <2>3. IsFiniteSet(since) /\ \A q \in since : q.amount \in Nat
    BY <1>16, FS_Subset
  <2>. HIDE DEF since, ok
  <2>4. Amount(ok) <= Amount(since)
    BY <2>2, <2>3, FewerReceipts
  <2>. QED BY <1>4, <1>17, <2>1, <2>4 DEF ok
<1>. HIDE DEF due, dues, lapsed, money
<1>20. /\ money.billed = page.billed /\ money.paid = page.paid
       /\ money.collected = SumOf(money.by_day)
  BY <1>8, <1>17, <1>18
<1>. QED
  BY <1>9, <1>10, <1>11, <1>12, <1>13, <1>14, <1>15, <1>17, <1>19, <1>20
  DEF FeesAgree, due, lapsed, money

-----------------------------------------------------------------------------
(* Loans, buses and enquiries.                                             *)

\* The sweep changes no loan's reading.
LEMMA SweptReadsTheSame ==
    ASSUME NEW b, {"loans", "today", "start", "end"} \subseteq DOMAIN b,
           \A l \in b.loans : {"n", "status", "due", "at"} \subseteq DOMAIN l
    PROVE  library_circulation(mark_overdue_loans(b)) = library_circulation(b)
<1>. DEFINE w == mark_overdue_loans(b)
            sweep(l) == IF Late(b, l) THEN [l EXCEPT !.status = "overdue"] ELSE l
            read(c, l) == [n |-> l.n, status |-> IF Late(c, l) THEN "overdue" ELSE l.status]
<1>1. w.loans = {sweep(l) : l \in b.loans}
      /\ w.today = b.today /\ w.start = b.start /\ w.end = b.end
  BY DEF mark_overdue_loans
<1>2. ASSUME NEW l \in b.loans
      PROVE  read(w, sweep(l)) = read(b, l) /\ sweep(l).at = l.at
  <2>1. CASE Late(b, l)
    <3>1. /\ sweep(l).n = l.n /\ sweep(l).status = "overdue" /\ sweep(l).at = l.at
      BY <2>1
    <3>2. ~Late(w, sweep(l))
      BY <3>1 DEF Late
    <3>. HIDE DEF sweep, w
    <3>. QED BY <2>1, <3>1, <3>2
  <2>2. CASE ~Late(b, l)
    <3>1. sweep(l) = l
      BY <2>2
    <3>2. ~Late(w, l)
      BY <1>1, <2>2 DEF Late
    <3>. HIDE DEF sweep, w
    <3>. QED BY <2>2, <3>1, <3>2
  <2>. QED BY <2>1, <2>2
<1>3. \A t : _between(w, t) <=> _between(b, t)
  BY <1>1 DEF _between
<1>4. library_circulation(w) = {read(w, l) : l \in {k \in w.loans : _between(w, k.at)}}
      /\ library_circulation(b) = {read(b, l) : l \in {k \in b.loans : _between(b, k.at)}}
  BY DEF library_circulation
<1>. HIDE DEF sweep, read, w
<1>5. library_circulation(w) \subseteq library_circulation(b)
  <2>1. ASSUME NEW l \in w.loans, _between(w, l.at)
        PROVE  \E k \in b.loans : _between(b, k.at) /\ read(w, l) = read(b, k)
    <3>1. PICK k \in b.loans : l = sweep(k)
      BY <1>1
    <3>. QED BY <1>2, <1>3, <2>1, <3>1
  <2>. QED BY <1>4, <2>1
<1>6. library_circulation(b) \subseteq library_circulation(w)
  <2>1. ASSUME NEW k \in b.loans, _between(b, k.at)
        PROVE  sweep(k) \in w.loans /\ _between(w, sweep(k).at) /\ read(w, sweep(k)) = read(b, k)
    BY <1>1, <1>2, <1>3, <2>1
  <2>. QED BY <1>4, <2>1
<1>. QED BY <1>5, <1>6 DEF w

\* Everyone on a bus is on one route.
LEMMA SeatsAddUp ==
    ASSUME NEW b, IsFiniteSet(b.seats), IsFiniteSet(DOMAIN b.routes)
    PROVE  SumFunction([r \in DOMAIN b.routes |-> transport_usage(b)[r].students]) =
             Cardinality({a \in b.seats : a.status = "active" /\ a.route \in DOMAIN b.routes})
<1>. DEFINE S == {a \in b.seats : a.status = "active" /\ a.route \in DOMAIN b.routes}
            key == [a \in S |-> a.route]
            K == DOMAIN b.routes
            g == [r \in K |-> transport_usage(b)[r].students]
<1>1. \A r \in K : g[r] = Cardinality({a \in S : key[a] = r})
  <2>1. ASSUME NEW r \in K PROVE g[r] = Cardinality({a \in S : key[a] = r})
    <3>1. g[r] = Cardinality({a \in b.seats : a.route = r /\ a.status = "active"})
      BY DEF transport_usage
    <3>2. {a \in b.seats : a.route = r /\ a.status = "active"} = {a \in S : key[a] = r}
      OBVIOUS
    <3>. QED BY <3>1, <3>2
  <2>. QED BY <2>1
<1>2. IsFiniteSet(S) /\ (\A a \in S : key[a] \in K) /\ DOMAIN g = K
  BY FS_Subset
<1>. HIDE DEF S, key, K, g
<1>3. IsFiniteSet(K)
  BY DEF K
<1>4. Cardinality(S) = SumFunction(g)
  BY <1>1, <1>2, <1>3, CountByGroup
<1>. QED BY <1>4 DEF S, g, K

LEMMA DesksHold ==
    ASSUME PageSound PROVE DesksAgree
<1>. SUFFICES ASSUME page.kind = "desks" PROVE DesksAgree
  BY DEF DesksAgree
<1>. DEFINE asked0 == {e \in book.enquiries : _between(book, e.at)}
            at(stages) == {e.n : e \in {d \in asked0 : d.status \in stages}}
            all == {e.n : e \in asked0}
            f == page.funnel
<1>1. Kept(book) /\ page = build(book) /\ book.kind = "desks"
  BY PageKind
<1>2. page = DesksPage(book)
  BY <1>1 DEF build
<1>3. /\ {"loans", "today", "start", "end"} \subseteq DOMAIN book
      /\ \A l \in book.loans : {"n", "status", "due", "at"} \subseteq DOMAIN l
      /\ IsFiniteSet(book.seats) /\ IsFiniteSet(DOMAIN book.routes)
      /\ \A d, e \in book.enquiries : d.n = e.n => d = e
  BY <1>1 DEF Kept
<1>4. /\ page.loans = library_circulation(book)
      /\ page.swept = library_circulation(mark_overdue_loans(book))
      /\ page.buses = transport_usage(book) /\ f = admission_funnel(book)
  BY <1>2 DEF DesksPage
<1>5. page.loans = page.swept
  BY <1>3, <1>4, SweptReadsTheSame
<1>6. SumOf([r \in DOMAIN page.buses |-> page.buses[r].students]) =
        Cardinality({a \in book.seats : a.status = "active" /\ a.route \in DOMAIN book.routes})
  <2>1. DOMAIN page.buses = DOMAIN book.routes
    BY <1>4 DEF transport_usage
  <2>. QED BY <1>3, <1>4, <2>1, SeatsAddUp DEF SumOf
<1>7. f = <<all, at({"contacted", "visited", "converted"}),
            at({"visited", "converted"}), at({"converted"}), at({"lost"})>>
  BY <1>4 DEF admission_funnel
<1>8. f[4] \subseteq f[3] /\ f[3] \subseteq f[2] /\ f[2] \subseteq f[1]
  BY <1>7
<1>9. f[5] \subseteq f[1] \ f[2]
  <2>1. f[5] = at({"lost"}) /\ f[1] = all /\ f[2] = at({"contacted", "visited", "converted"})
    BY <1>7
  <2>2. ASSUME NEW d \in asked0, NEW e \in asked0, d.n = e.n PROVE d = e
    BY <1>3, <2>2
  <2>3. ASSUME NEW e \in asked0, e.status = "lost" PROVE e.n \in f[1] /\ e.n \notin f[2]
    BY <2>1, <2>2, <2>3
  <2>. QED BY <2>1, <2>3
<1>. QED BY <1>5, <1>6, <1>8, <1>9 DEF DesksAgree

-----------------------------------------------------------------------------
(* Marks: a ranking of finitely many lines there always is.                *)

GoodLines(L) ==
    IsFiniteSet(L) /\ \A x \in L : x.obtained \in Nat /\ x.outof \in Nat \ {0}

LEMMA TimesGreater ==
    ASSUME NEW m \in Nat, NEW n \in Nat, NEW k \in Nat \ {0}
    PROVE  m * k > n * k <=> m > n
<1>1. CASE m > n
  <2>1. m - n \in Nat \ {0} /\ m = n + (m - n)
    BY <1>1
  <2>2. m * k = n * k + (m - n) * k
    BY <2>1
  <2>3. (m - n) * k > 0
    BY <2>1
  <2>. QED BY <1>1, <2>2, <2>3
<1>2. CASE m <= n
  <2>1. n - m \in Nat /\ n = m + (n - m)
    BY <1>2
  <2>2. n * k = m * k + (n - m) * k
    BY <2>1
  <2>3. (n - m) * k >= 0
    BY <2>1
  <2>. QED BY <1>2, <2>2, <2>3
<1>. QED BY <1>1, <1>2

LEMMA BetterIsAnOrder ==
    ASSUME NEW x, x.obtained \in Nat, x.outof \in Nat \ {0}
    PROVE  /\ ~Better(x, x)
           /\ \A y, z : /\ y.obtained \in Nat /\ y.outof \in Nat \ {0}
                        /\ z.obtained \in Nat /\ z.outof \in Nat \ {0}
                        /\ Better(x, y) /\ Better(y, z)
                        => Better(x, z)
<1>1. ~Better(x, x)
  BY DEF Better
<1>2. ASSUME NEW y, NEW z, y.obtained \in Nat, y.outof \in Nat \ {0},
             z.obtained \in Nat, z.outof \in Nat \ {0}, Better(x, y), Better(y, z)
      PROVE  Better(x, z)
  <2>. DEFINE ox == x.obtained  ux == x.outof  oy == y.obtained  uy == y.outof
              oz == z.obtained  uz == z.outof
  <2>1. ox * uy > oy * ux /\ oy * uz > oz * uy
    BY <1>2 DEF Better
  <2>2. ox \in Nat /\ oy \in Nat /\ oz \in Nat
        /\ ux \in Nat \ {0} /\ uy \in Nat \ {0} /\ uz \in Nat \ {0}
    BY <1>2
  <2>. HIDE DEF ox, ux, oy, uy, oz, uz
  <2>3. ox * uy \in Nat /\ oy * ux \in Nat /\ oy * uz \in Nat /\ oz * uy \in Nat
        /\ ox * uz \in Nat /\ oz * ux \in Nat
    BY <2>2
  <2>4. (ox * uy) * uz > (oy * ux) * uz
    BY <2>1, <2>2, <2>3, TimesGreater
  <2>5. (oy * uz) * ux > (oz * uy) * ux
    BY <2>1, <2>2, <2>3, TimesGreater
  <2>6. (oy * ux) * uz = (oy * uz) * ux
    BY <2>2
  <2>7. (ox * uy) * uz = (ox * uz) * uy /\ (oz * uy) * ux = (oz * ux) * uy
    BY <2>2
  <2>8. (ox * uz) * uy \in Nat /\ (oz * ux) * uy \in Nat /\ (oy * uz) * ux \in Nat
    BY <2>2, <2>3
  <2>9. (ox * uz) * uy > (oz * ux) * uy
    BY <2>4, <2>5, <2>6, <2>7, <2>8
  <2>10. ox * uz > oz * ux
    BY <2>2, <2>3, <2>9, TimesGreater
  <2>. QED BY <2>10 DEF Better, ox, ux, oz, uz
<1>. QED BY <1>1, <1>2

LEMMA SomeLineIsWorst ==
    ASSUME NEW L, GoodLines(L), L # {}
    PROVE  \E w \in L : \A x \in L : ~Better(w, x)
<1>. DEFINE Worst(T, w) == \A x \in T : ~Better(w, x)
            W == {T \in SUBSET L : T # {} /\ \A w \in T : ~Worst(T, w)}
<1>1. SUFFICES ASSUME W # {} PROVE FALSE
  <2>1. L \notin W
    BY <1>1
  <2>. QED BY <2>1
<1>2. PICK T \in W : \A U \in SUBSET T : U # T => U \notin W
  <2>1. W \in SUBSET (SUBSET L) /\ IsFiniteSet(L)
    BY DEF GoodLines
  <2>. HIDE DEF W
  <2>. QED BY <1>1, <2>1, SmallestSubset
<1>3. T # {} /\ T \subseteq L /\ \A w \in T : ~Worst(T, w)
  OBVIOUS
<1>4. PICK a \in T : TRUE
  BY <1>3
<1>5. \A x \in T : x.obtained \in Nat /\ x.outof \in Nat \ {0}
  BY <1>3 DEF GoodLines
<1>6. ASSUME T \ {a} = {} PROVE FALSE
  <2>1. \A x \in T : x = a
    BY <1>6
  <2>2. ~Better(a, a)
    BY <1>5, BetterIsAnOrder
  <2>. QED BY <1>3, <2>1, <2>2
<1>7. PICK w \in T \ {a} : Worst(T \ {a}, w)
  BY <1>2, <1>3, <1>6
<1>8. CASE ~Better(w, a)
  BY <1>3, <1>7, <1>8
<1>9. CASE Better(w, a)
  <2>1. PICK x \in T : Better(a, x)
    BY <1>3
  <2>2. x # a
    BY <1>5, <2>1, BetterIsAnOrder
  <2>3. Better(w, x)
    BY <1>5, <1>9, <2>1, BetterIsAnOrder
  <2>. QED BY <1>7, <2>2, <2>3
<1>. QED BY <1>8, <1>9

Ranking(q, L) ==
    /\ q \in Bijection(1..Cardinality(L), L)
    /\ \A i, j \in DOMAIN q : i < j => ~Better(q[j], q[i])

LEMMA RankingExists ==
    ASSUME NEW L, GoodLines(L)
    PROVE  \E q : Ranking(q, L)
<1>. DEFINE W == {T \in SUBSET L : ~\E q : Ranking(q, T)}
<1>1. SUFFICES ASSUME W # {} PROVE FALSE
  <2>1. L \notin W
    BY <1>1
  <2>. QED BY <2>1
<1>2. PICK T \in W : \A U \in SUBSET T : U # T => U \notin W
  <2>1. W \in SUBSET (SUBSET L) /\ IsFiniteSet(L)
    BY DEF GoodLines
  <2>. HIDE DEF W
  <2>. QED BY <1>1, <2>1, SmallestSubset
<1>3. T \subseteq L /\ ~\E q : Ranking(q, T)
  OBVIOUS
<1>4. GoodLines(T) /\ IsFiniteSet(T)
  BY <1>3, FS_Subset DEF GoodLines
<1>5. ASSUME T = {} PROVE FALSE
  <2>. DEFINE q == [i \in 1..0 |-> i]
  <2>1. Cardinality(T) = 0
    BY <1>5, FS_EmptySet
  <2>2. \A i \in 1..0 : FALSE
    OBVIOUS
  <2>3. q \in Bijection(1..0, T)
    BY <1>5, <2>2 DEF Bijection, Injection, Surjection, IsInjective
  <2>4. Ranking(q, T)
    BY <2>1, <2>2, <2>3 DEF Ranking
  <2>. QED BY <1>3, <2>4
<1>6. PICK w \in T : \A x \in T : ~Better(w, x)
  BY <1>4, <1>5, SomeLineIsWorst
<1>7. PICK p : Ranking(p, T \ {w})
  BY <1>2, <1>3
<1>. DEFINE n == Cardinality(T)
            q == [i \in 1..n |-> IF i = n THEN w ELSE p[i]]
<1>8. n \in Nat \ {0} /\ Cardinality(T \ {w}) = n - 1
  <2>1. n \in Nat /\ (n = 0 => T = {}) /\ Cardinality(T \ {w}) = n - 1
    BY <1>4, FS_CardinalityType, FS_EmptySet, FS_RemoveElement
  <2>. QED BY <1>5, <2>1
<1>. HIDE DEF n
<1>9. /\ p \in [1..(n - 1) -> T \ {w}] /\ DOMAIN p = 1..(n - 1)
      /\ \A i, j \in 1..(n - 1) : p[i] = p[j] => i = j
      /\ \A x \in T \ {w} : \E i \in 1..(n - 1) : p[i] = x
      /\ \A i, j \in 1..(n - 1) : i < j => ~Better(p[j], p[i])
  BY <1>7, <1>8 DEF Ranking, Bijection, Injection, Surjection, IsInjective
<1>10. /\ \A i \in 1..n : i # n => i \in 1..(n - 1) /\ q[i] = p[i]
       /\ n \in 1..n /\ q[n] = w /\ DOMAIN q = 1..n
       /\ \A i \in 1..(n - 1) : i \in 1..n /\ i # n
  BY <1>8
<1>. HIDE DEF q
<1>11. /\ \A i \in 1..n : q[i] \in T
       /\ \A i, j \in 1..n : q[i] = q[j] => i = j
       /\ \A x \in T : \E i \in 1..n : q[i] = x
  <2>1. \A i \in 1..(n - 1) : p[i] \in T /\ p[i] # w
    BY <1>9
  <2>2. \A i \in 1..n : q[i] \in T
    BY <1>6, <1>10, <2>1
  <2>3. ASSUME NEW i \in 1..n, NEW j \in 1..n, q[i] = q[j] PROVE i = j
    <3>1. CASE i = n
      BY <1>10, <2>1, <2>3, <3>1
    <3>2. CASE j = n
      BY <1>10, <2>1, <2>3, <3>2
    <3>3. CASE i # n /\ j # n
      BY <1>9, <1>10, <2>3, <3>3
    <3>. QED BY <3>1, <3>2, <3>3
  <2>4. ASSUME NEW x \in T PROVE \E i \in 1..n : q[i] = x
    <3>1. CASE x = w
      BY <1>10, <3>1
    <3>2. CASE x # w
      <4>1. PICK i \in 1..(n - 1) : p[i] = x
        BY <1>9, <3>2
      <4>. QED BY <1>10, <4>1
    <3>. QED BY <3>1, <3>2
  <2>. QED BY <2>2, <2>3, <2>4
<1>12. q \in Bijection(1..n, T)
  <2>1. q = [i \in 1..n |-> q[i]]
    BY DEF q
  <2>2. q \in [1..n -> T]
    BY <1>11, <2>1
  <2>. QED BY <1>11, <2>2 DEF Bijection, Injection, Surjection, IsInjective
<1>13. ASSUME NEW i \in 1..n, NEW j \in 1..n, i < j PROVE ~Better(q[j], q[i])
  <2>1. i # n
    BY <1>8, <1>13
  <2>2. CASE j = n
    BY <1>6, <1>10, <1>11, <2>2
  <2>3. CASE j # n
    BY <1>9, <1>10, <1>13, <2>1, <2>3
  <2>. QED BY <2>2, <2>3
<1>14. Ranking(q, T)
  BY <1>10, <1>12, <1>13 DEF Ranking, n
<1>. QED BY <1>3, <1>14

LEMMA RankedRanks ==
    ASSUME NEW L, GoodLines(L)
    PROVE  Ranking(Ranked(L), L)
<1>1. PICK q : Ranking(q, L)
  BY RankingExists
<1>. QED BY <1>1 DEF Ranking, Ranked

-----------------------------------------------------------------------------
(* Marks: a book's screens against each other.                             *)

GoodMarks(M) ==
    IsFiniteSet(M) /\ \A m \in M : m.max \in Nat \ {0} /\ m.obtained \subseteq Nat

MarksBook(b) ==
    /\ GoodMarks(b.marks)
    /\ \A m, n \in b.marks : m.student = n.student => m.class = n.class

LEMMA ValuesAreNat ==
    ASSUME NEW x, x \subseteq Nat
    PROVE  Value(x) \in Nat /\ (~Given(x) => Value(x) = 0)
  BY DEF Value, Given

LEMMA FewerMarks ==
    ASSUME NEW M, GoodMarks(M), NEW T, T \subseteq M PROVE GoodMarks(T)
  BY FS_Subset DEF GoodMarks

\* Marks not given add nothing to what was obtained.
LEMMA GivenAddUp ==
    ASSUME NEW M, GoodMarks(M)
    PROVE  SumFunction([m \in {n \in M : Given(n.obtained)} |-> Value(m.obtained)])
             = SumFunction([m \in M |-> Value(m.obtained)])
<1>. DEFINE T == {n \in M : Given(n.obtained)}
            g == [m \in T |-> Value(m.obtained)]
            f == [m \in M |-> Value(m.obtained)]
<1>1. \A m \in M : f[m] \in Nat /\ (m \notin T => f[m] = 0)
  BY ValuesAreNat DEF GoodMarks
<1>2. (\A m \in T : f[m] = g[m] /\ g[m] \in Int) /\ (\A m \in M \ T : f[m] = 0)
  BY <1>1
<1>3. DOMAIN g = T /\ T \in SUBSET M /\ DOMAIN f = M /\ IsFiniteSet(M)
  BY DEF GoodMarks
<1>. HIDE DEF f, g, T
<1>4. SumFunction(g) = SumFunctionOnSet(f, M)
  BY <1>2, <1>3, SumLifted
<1>5. SumFunction(g) = SumFunction(f)
  BY <1>3, <1>4 DEF SumFunction
<1>. QED BY <1>5 DEF f, g, T

\* A pupil's line is out of something.
LEMMA LineIsGood ==
    ASSUME NEW s, NEW R, GoodMarks(R), R # {}
    PROVE  SheetLine(s, R).obtained \in Nat /\ SheetLine(s, R).outof \in Nat \ {0}
<1>. DEFINE o == [m \in R |-> Value(m.obtained)]
            u == [m \in R |-> m.max]
<1>1. DOMAIN o = R /\ DOMAIN u = R /\ IsFiniteSet(R)
  BY DEF GoodMarks
<1>2. \A m \in R : o[m] \in Nat /\ u[m] \in Nat /\ u[m] \in Int /\ u[m] > 0
  BY ValuesAreNat DEF GoodMarks
<1>3. SheetLine(s, R).obtained = SumFunction(o) /\ SheetLine(s, R).outof = SumFunction(u)
  BY DEF SheetLine, SumOf
<1>. HIDE DEF o, u
<1>4. SumFunction(o) \in Nat /\ SumFunction(u) \in Nat
  BY <1>1, <1>2, SumIsNat
<1>5. SumFunction(u) # 0
  <2>1. PICK m \in R : TRUE
    OBVIOUS
  <2>2. SumFunctionOnSet(u, R) = u[m] + SumFunctionOnSet(u, R \ {m})
    BY <1>1, <1>2, SumSplit
  <2>. DEFINE T == R \ {m}
              v == [x \in T |-> u[x]]
  <2>3. SumFunction(v) = SumFunctionOnSet(u, T)
    BY <1>1, SumOfRest
  <2>4. DOMAIN v = T /\ \A x \in T : v[x] \in Nat
    BY <1>2
  <2>5. IsFiniteSet(T)
    BY <1>1, FS_RemoveElement
  <2>. HIDE DEF v, T
  <2>6. SumFunction(v) \in Nat
    BY <2>4, <2>5, SumIsNat
  <2>7. SumFunctionOnSet(u, R) = u[m] + SumFunction(v)
    BY <2>2, <2>3 DEF T
  <2>8. SumFunction(u) = SumFunctionOnSet(u, R)
    BY <1>1 DEF SumFunction
  <2>. QED BY <1>2, <2>6, <2>7, <2>8
<1>. QED BY <1>3, <1>4, <1>5

\* Who sits on the sheet has all their marks there, in the sheet's class.
LEMMA OneClassEach ==
    ASSUME NEW b, MarksBook(b)
    PROVE  /\ OnSheet(b) \subseteq b.marks
           /\ \A s \in Named(OnSheet(b)) : Of(s, OnSheet(b)) = Of(s, b.marks)
           /\ \E c : OnSheet(b) = MarksIn(b, c)
<1>1. PICK c : OnSheet(b) = MarksIn(b, c)
  BY DEF OnSheet
<1>2. ASSUME NEW s \in Named(OnSheet(b))
      PROVE  Of(s, OnSheet(b)) = Of(s, b.marks)
  <2>1. PICK m \in b.marks : m.student = s /\ m.class = c
    BY <1>1 DEF Named, MarksIn
  <2>2. \A n \in b.marks : n.student = s => n.class = c
    BY <2>1 DEF MarksBook
  <2>. QED BY <1>1, <2>2 DEF Of, MarksIn
<1>. QED BY <1>1, <1>2 DEF MarksIn

LinesOf(M) == {SheetLine(s, Of(s, M)) : s \in Named(M)}

LEMMA SheetIsRanked ==
    ASSUME NEW b, MarksBook(b), b.marks # {}
    PROVE  /\ student_marksheet(b) = Ranked(LinesOf(OnSheet(b)))
           /\ GoodMarks(OnSheet(b)) /\ GoodLines(LinesOf(OnSheet(b)))
           /\ Ranking(student_marksheet(b), LinesOf(OnSheet(b)))
<1>. DEFINE M == OnSheet(b)
<1>1. student_marksheet(b) = Ranked(LinesOf(M))
  BY DEF student_marksheet, LinesOf
<1>2. GoodMarks(M)
  BY OneClassEach, FewerMarks DEF MarksBook
<1>. HIDE DEF M
<1>3. GoodLines(LinesOf(M))
  <2>1. IsFiniteSet(LinesOf(M))
    <3>. DEFINE h == [s \in Named(M) |-> SheetLine(s, Of(s, M))]
    <3>1. h \in Surjection(Named(M), LinesOf(M))
      BY DEF Surjection, LinesOf
    <3>2. IsFiniteSet(Named(M))
      BY <1>2, NamesAreFinite DEF GoodMarks
    <3>. HIDE DEF h
    <3>. QED BY <3>1, <3>2, FS_Surjection
  <2>2. ASSUME NEW s \in Named(M)
        PROVE  SheetLine(s, Of(s, M)).obtained \in Nat
               /\ SheetLine(s, Of(s, M)).outof \in Nat \ {0}
    <3>1. Of(s, M) # {} /\ Of(s, M) \subseteq M
      BY DEF Of, Named
    <3>2. GoodMarks(Of(s, M))
      BY <1>2, <3>1, FewerMarks
    <3>. QED BY <3>1, <3>2, LineIsGood
  <2>. QED BY <2>1, <2>2 DEF GoodLines, LinesOf
<1>. QED BY <1>1, <1>2, <1>3, RankedRanks DEF M

\* A ranking lists each line once, so it adds up to what the lines do.
LEMMA RankingAddsUp ==
    ASSUME NEW L, GoodLines(L), NEW q, Ranking(q, L)
    PROVE  SumFunction([i \in DOMAIN q |-> q[i].obtained]) =
             SumFunction([l \in L |-> l.obtained])
<1>. DEFINE n == Cardinality(L)
            f == [l \in L |-> l.obtained]
            g == [i \in DOMAIN q |-> q[i].obtained]
<1>1. /\ DOMAIN q = 1..n /\ (\A i \in 1..n : q[i] \in L)
      /\ (\A i, j \in 1..n : q[i] = q[j] => i = j)
      /\ \A l \in L : \E i \in 1..n : q[i] = l
  BY DEF Ranking, Bijection, Injection, Surjection, IsInjective
<1>2. IsFiniteSet(1..n)
  <2>1. n \in Int /\ 1 \in Int
    BY FS_CardinalityType DEF GoodLines
  <2>. HIDE DEF n
  <2>. QED BY <2>1, FS_Interval
<1>3. DOMAIN g = 1..n /\ DOMAIN f = L
  BY <1>1
<1>4. \A i \in 1..n : /\ q[i] \in L /\ f[q[i]] = g[i] /\ g[i] \in Int
  BY <1>1 DEF GoodLines
<1>. HIDE DEF f, g, n
<1>5. /\ \A i \in DOMAIN g : q[i] \in DOMAIN f /\ f[q[i]] = g[i] /\ g[i] \in Int
      /\ \A i, j \in DOMAIN g : q[i] = q[j] => i = j
      /\ \A l \in DOMAIN f : \E i \in DOMAIN g : q[i] = l
      /\ IsFiniteSet(DOMAIN g)
  BY <1>1, <1>2, <1>3, <1>4
<1>6. SumFunction(f) = SumFunction(g)
  BY <1>5, SumOfLines
<1>. QED BY <1>6 DEF f, g

\* The sheet's lines add up to the marks on it.
LEMMA LinesAddUpToMarks ==
    ASSUME NEW M, GoodMarks(M)
    PROVE  SumFunction([l \in LinesOf(M) |-> l.obtained]) =
             SumFunction([m \in M |-> Value(m.obtained)])
<1>. DEFINE K == Named(M)
            L == LinesOf(M)
            h == [s \in K |-> SheetLine(s, Of(s, M))]
            f == [l \in L |-> l.obtained]
            g == [s \in K |-> SheetLine(s, Of(s, M)).obtained]
            v == [m \in M |-> Value(m.obtained)]
            key == [m \in M |-> m.student]
<1>1. IsFiniteSet(M) /\ IsFiniteSet(K) /\ \A m \in M : v[m] \in Int
  <2>1. IsFiniteSet(M) /\ \A m \in M : v[m] \in Int
    BY ValuesAreNat DEF GoodMarks
  <2>2. IsFiniteSet(K)
    BY <2>1, NamesAreFinite
  <2>. QED BY <2>1, <2>2
<1>2. ASSUME NEW s \in K
      PROVE  g[s] = SumFunction([x \in {y \in M : key[y] = s} |-> v[x]])
  <2>. DEFINE G == {y \in M : key[y] = s}
  <2>1. G = Of(s, M)
    BY DEF Of
  <2>2. [x \in G |-> v[x]] = [x \in Of(s, M) |-> Value(x.obtained)]
    BY <2>1
  <2>3. g[s] = SumFunction([x \in Of(s, M) |-> Value(x.obtained)])
    BY DEF SheetLine, SumOf
  <2>. QED BY <2>2, <2>3
<1>3. DOMAIN v = M /\ DOMAIN g = K /\ DOMAIN f = L /\ \A m \in M : key[m] \in K
  BY DEF Named
<1>4. SumFunction(v) = SumFunction(g) /\ \A s \in K : g[s] \in Int
  <2>. HIDE DEF v, g, key, K
  <2>. QED BY <1>1, <1>2, <1>3, SumGrouped
<1>5. \A s \in K : h[s] \in L /\ h[s].student = s /\ h[s].obtained = g[s]
  BY DEF LinesOf, SheetLine
<1>6. \A l \in L : f[l] = l.obtained /\ \E s \in K : h[s] = l
  BY DEF LinesOf
<1>. HIDE DEF v, g, h, f, K, L
<1>7. \A s \in K : h[s] \in L /\ f[h[s]] = g[s] /\ g[s] \in Int
  BY <1>4, <1>5, <1>6
<1>8. \A s, t \in K : h[s] = h[t] => s = t
  BY <1>5
<1>9. SumFunction(f) = SumFunction(g)
  BY <1>1, <1>3, <1>6, <1>7, <1>8, SumOfLines
<1>. QED BY <1>4, <1>9 DEF f, L, v

\* The subjects' lines add up to all the marks.
LEMMA SubjectsAddUp ==
    ASSUME NEW b, MarksBook(b)
    PROVE  SumFunction([l \in exam_performance(b) |-> l.obtained]) =
             SumFunction([m \in b.marks |-> Value(m.obtained)])
<1>. DEFINE M == b.marks
            K == {m.subject : m \in M}
            L == exam_performance(b)
            G(j) == {m \in M : m.subject = j}
            sat(j) == {m \in G(j) : Given(m.obtained)}
            h == [j \in K |-> [subject |-> j, students |-> Cardinality(G(j)),
                    sat |-> Cardinality(sat(j)),
                    obtained |-> SumOf([m \in sat(j) |-> Value(m.obtained)]),
                    passed |-> Cardinality({m \in G(j) : m.is_pass})]]
            f == [l \in L |-> l.obtained]
            g == [j \in K |-> SumFunction([m \in sat(j) |-> Value(m.obtained)])]
            v == [m \in M |-> Value(m.obtained)]
            key == [m \in M |-> m.subject]
<1>1. GoodMarks(M) /\ IsFiniteSet(M) /\ \A m \in M : v[m] \in Int
  BY ValuesAreNat DEF MarksBook, GoodMarks
<1>2. IsFiniteSet(K)
  <2>1. key \in Surjection(M, K)
    BY DEF Surjection
  <2>. HIDE DEF key, K, M
  <2>. QED BY <1>1, <2>1, FS_Surjection
<1>3. ASSUME NEW j \in K
      PROVE  g[j] = SumFunction([x \in {y \in M : key[y] = j} |-> v[x]])
  <2>1. {y \in M : key[y] = j} = G(j) /\ G(j) \subseteq M
    OBVIOUS
  <2>2. [x \in {y \in M : key[y] = j} |-> v[x]] = [x \in G(j) |-> Value(x.obtained)]
    BY <2>1
  <2>3. GoodMarks(G(j))
    <3>. HIDE DEF G
    <3>. QED BY <1>1, <2>1, FewerMarks
  <2>4. g[j] = SumFunction([m \in G(j) |-> Value(m.obtained)])
    <3>. HIDE DEF G
    <3>. QED BY <2>3, GivenAddUp
  <2>. QED BY <2>2, <2>4
<1>4. DOMAIN v = M /\ DOMAIN g = K /\ DOMAIN f = L /\ \A m \in M : key[m] \in K
  OBVIOUS
<1>5. SumFunction(v) = SumFunction(g) /\ \A j \in K : g[j] \in Int
  <2>. HIDE DEF v, g, key, K, M
  <2>. QED BY <1>1, <1>2, <1>3, <1>4, SumGrouped
<1>6. L = {h[j] : j \in K}
  BY DEF exam_performance
<1>7. \A j \in K : h[j].subject = j /\ h[j].obtained = g[j]
  BY DEF SumOf
<1>8. \A l \in L : f[l] = l.obtained
  OBVIOUS
<1>. HIDE DEF v, g, h, f, K, L, M
<1>9. \A j \in K : h[j] \in L /\ f[h[j]] = g[j] /\ g[j] \in Int
  BY <1>5, <1>6, <1>7, <1>8
<1>10. (\A j, k \in K : h[j] = h[k] => j = k) /\ \A l \in L : \E j \in K : h[j] = l
  BY <1>6, <1>7
<1>11. SumFunction(f) = SumFunction(g)
  BY <1>2, <1>4, <1>9, <1>10, SumOfLines
<1>. QED BY <1>5, <1>11 DEF f, L, v, M

\* The profile leaves out what was not given: the same marks, out of no more.
LEMMA ProfileAgainstSheet ==
    ASSUME NEW b, MarksBook(b), NEW s \in Named(OnSheet(b)),
           \A m \in b.marks : ~Given(m.total)
    PROVE  LET line == SheetLine(s, Of(s, OnSheet(b)))
               shown == exam_results(b, s)
           IN  /\ shown.obtained = line.obtained /\ shown.outof \in Nat
               /\ shown.outof <= line.outof
               /\ (\A m \in b.marks : Given(m.obtained)) => shown = line
<1>. DEFINE M == Of(s, b.marks)
            T == {m \in M : Given(m.obtained)}
            u == [m \in M |-> m.max]
            w == [m \in T |-> m.max]
            oM == [m \in M |-> Value(m.obtained)]
            oT == [m \in T |-> Value(m.obtained)]
            line == SheetLine(s, Of(s, OnSheet(b)))
            shown == exam_results(b, s)
<1>1. M \subseteq b.marks /\ GoodMarks(M)
  <2>1. M \subseteq b.marks
    BY DEF Of
  <2>. QED BY <2>1, FewerMarks DEF MarksBook
<1>2. line = [student |-> s, obtained |-> SumFunction(oM), outof |-> SumFunction(u)]
  <2>1. Of(s, OnSheet(b)) = M
    BY OneClassEach
  <2>. QED BY <2>1 DEF SheetLine, SumOf
<1>3. shown = [student |-> s, obtained |-> SumFunction(oT), outof |-> SumFunction(w)]
  <2>1. \A m \in M : Obtained(m) = m.obtained
    BY <1>1 DEF Obtained
  <2>2. {n \in M : Given(Obtained(n))} = T
    BY <2>1
  <2>3. [m \in T |-> Value(Obtained(m))] = oT
    BY <2>1
  <2>4. shown = [student |-> s,
                 obtained |-> SumFunction([m \in {n \in M : Given(Obtained(n))} |->
                                             Value(Obtained(m))]),
                 outof |-> SumFunction([m \in {n \in M : Given(Obtained(n))} |-> m.max])]
    BY DEF exam_results, SumOf
  <2>. HIDE DEF shown
  <2>. QED BY <2>2, <2>3, <2>4
<1>4. SumFunction(oT) = SumFunction(oM)
  BY <1>1, GivenAddUp
<1>5. /\ IsFiniteSet(DOMAIN u) /\ (\A x \in DOMAIN u : u[x] \in Nat)
      /\ DOMAIN w \subseteq DOMAIN u /\ (\A x \in DOMAIN w : w[x] = u[x])
      /\ IsFiniteSet(DOMAIN w) /\ \A x \in DOMAIN w : w[x] \in Nat
  <2>1. \A x \in M : x.max \in Nat
    BY <1>1 DEF GoodMarks
  <2>2. IsFiniteSet(M) /\ T \subseteq M
    BY <1>1 DEF GoodMarks
  <2>3. IsFiniteSet(T)
    BY <2>2, FS_Subset
  <2>4. DOMAIN u = M /\ DOMAIN w = T /\ (\A x \in M : u[x] = x.max) /\ \A x \in T : w[x] = x.max
    OBVIOUS
  <2>. HIDE DEF u, w, M, T
  <2>. QED BY <2>1, <2>2, <2>3, <2>4
<1>6. (\A m \in b.marks : Given(m.obtained)) => oT = oM /\ w = u
  <2>1. (\A m \in b.marks : Given(m.obtained)) => T = M
    BY <1>1
  <2>. QED BY <2>1
<1>. HIDE DEF u, w, oT, oM, line, shown, M, T
<1>7. SumFunction(w) <= SumFunction(u)
  BY <1>5, SumFewer
<1>8. SumFunction(w) \in Nat
  BY <1>5, SumIsNat
<1>. QED BY <1>2, <1>3, <1>4, <1>6, <1>7, <1>8 DEF line, shown

\* The same marks out of no more is not worse.
LEMMA OutOfLess ==
    ASSUME NEW x, NEW y, x.obtained \in Nat, x.outof \in Nat, y.outof \in Nat,
           y.obtained = x.obtained, y.outof <= x.outof
    PROVE  ~Better(x, y)
<1>. DEFINE o == x.obtained  u == x.outof  w == y.outof
<1>1. o \in Nat /\ u \in Nat /\ w \in Nat /\ w <= u
  OBVIOUS
<1>. HIDE DEF o, u, w
<1>2. u = w + (u - w) /\ u - w \in Nat
  BY <1>1
<1>3. o * u = o * w + o * (u - w)
  BY <1>1, <1>2
<1>4. o * (u - w) \in Nat /\ o * w \in Nat
  BY <1>1, <1>2
<1>5. ~(o * w > o * u)
  BY <1>3, <1>4
<1>. QED BY <1>5 DEF Better, o, u, w

LEMMA MarksHold ==
    ASSUME PageSound PROVE MarksAgree
<1>. SUFFICES ASSUME page.kind = "marks" PROVE MarksAgree
  BY DEF MarksAgree
<1>. DEFINE b == book
            sheet == page.sheet
            M == OnSheet(b)
            L == LinesOf(M)
            shown(i) == page.profile[sheet[i].student]
<1>1. Kept(book) /\ page = build(book) /\ book.kind = "marks"
  BY PageKind
<1>2. page = MarksPage(book)
  BY <1>1 DEF build
<1>3. MarksBook(b)
  BY <1>1 DEF Kept, MarksBook, GoodMarks
<1>4. /\ page.subjects = exam_performance(b) /\ sheet = student_marksheet(b)
      /\ page.profile = [s \in Named(b.marks) |-> exam_results(b, s)]
  BY <1>2 DEF MarksPage
<1>5. b.marks = {} => sheet = <<>> /\ DOMAIN sheet = {}
  BY <1>4 DEF student_marksheet
<1>6. ASSUME b.marks # {}
      PROVE  /\ GoodMarks(M) /\ GoodLines(L) /\ Ranking(sheet, L)
             /\ DOMAIN sheet = 1..Cardinality(L) /\ DOMAIN sheet \subseteq Int
             /\ \A i \in DOMAIN sheet : sheet[i] \in L
  <2>1. GoodMarks(M) /\ GoodLines(L) /\ Ranking(sheet, L)
    BY <1>3, <1>4, <1>6, SheetIsRanked
  <2>. HIDE DEF M, L, sheet
  <2>2. DOMAIN sheet = 1..Cardinality(L) /\ \A i \in DOMAIN sheet : sheet[i] \in L
    BY <2>1 DEF Ranking, Bijection, Injection, Surjection
  <2>. QED BY <2>1, <2>2
<1>7. ASSUME NEW i \in DOMAIN sheet
      PROVE  /\ b.marks # {} /\ sheet[i].student \in Named(M)
             /\ sheet[i] = SheetLine(sheet[i].student, Of(sheet[i].student, M))
             /\ sheet[i].obtained \in Nat /\ sheet[i].outof \in Nat \ {0}
  <2>1. b.marks # {}
    BY <1>5
  <2>2. sheet[i] \in L /\ GoodLines(L)
    BY <1>6, <2>1
  <2>. HIDE DEF M, sheet
  <2>3. PICK s \in Named(M) : sheet[i] = SheetLine(s, Of(s, M))
    BY <2>2 DEF LinesOf
  <2>4. sheet[i].student = s
    BY <2>3 DEF SheetLine
  <2>. QED BY <2>1, <2>2, <2>3, <2>4 DEF GoodLines
<1>8. ASSUME NEW i \in DOMAIN sheet, NEW j \in DOMAIN sheet, Better(sheet[i], sheet[j])
      PROVE  i < j
  <2>1. b.marks # {} /\ i \in Int /\ j \in Int
    BY <1>6, <1>7
  <2>2. CASE i = j
    <3>1. ~Better(sheet[i], sheet[i])
      BY <1>7, BetterIsAnOrder
    <3>. QED BY <1>8, <2>2, <3>1
  <2>3. CASE j < i
    BY <1>6, <1>8, <2>1, <2>3 DEF Ranking
  <2>. QED BY <2>1, <2>2, <2>3
<1>9. Cardinality({m.class : m \in {k \in b.marks :
         \E i \in DOMAIN sheet : sheet[i].student = k.student}}) <= 1
  <2>. DEFINE C == {m.class : m \in {k \in b.marks :
                      \E i \in DOMAIN sheet : sheet[i].student = k.student}}
  <2>1. PICK c : M = MarksIn(b, c)
    BY <1>3, OneClassEach
  <2>2. ASSUME NEW k \in b.marks, NEW i \in DOMAIN sheet, sheet[i].student = k.student
        PROVE  k.class = c
    <3>1. PICK m \in M : m.student = k.student
      BY <1>7, <2>2 DEF Named
    <3>2. m \in b.marks /\ m.class = c
      BY <2>1 DEF MarksIn
    <3>. QED BY <1>3, <3>1, <3>2 DEF MarksBook
  <2>3. C \in SUBSET {c}
    BY <2>2
  <2>. HIDE DEF C
  <2>4. IsFiniteSet({c}) /\ Cardinality({c}) = 1
    BY FS_Singleton
  <2>5. Cardinality(C) <= Cardinality({c})
    BY <2>3, <2>4, FS_Subset
  <2>. QED BY <2>4, <2>5 DEF C
<1>10. ASSUME Cardinality({m.class : m \in b.marks}) = 1, sheet # <<>>
       PROVE  SumOf([l \in page.subjects |-> l.obtained]) =
                SumOf([i \in DOMAIN sheet |-> sheet[i].obtained])
  <2>1. b.marks # {}
    BY <1>5, <1>10
  <2>2. GoodMarks(M) /\ GoodLines(L) /\ Ranking(sheet, L)
    BY <1>6, <2>1
  <2>3. ASSUME M = {} PROVE FALSE
    <3>1. L = {}
      BY <2>3 DEF LinesOf, Named
    <3>2. Cardinality(L) = 0
      BY <3>1, FS_EmptySet
    <3>3. sheet \in [1..0 -> {}]
      <4>. HIDE DEF sheet, L, M
      <4>. QED BY <2>2, <3>1, <3>2 DEF Ranking, Bijection, Injection
    <3>4. sheet = <<>>
      <4>. HIDE DEF sheet
      <4>. QED BY <3>3
    <3>. QED BY <1>10, <3>4
  <2>4. M = b.marks
    <3>1. PICK c : M = MarksIn(b, c)
      BY <1>3, OneClassEach
    <3>2. IsFiniteSet({m.class : m \in b.marks})
      <4>. DEFINE k == [m \in b.marks |-> m.class]
                  C == {m.class : m \in b.marks}
      <4>1. k \in Surjection(b.marks, C)
        BY DEF Surjection
      <4>2. IsFiniteSet(b.marks)
        BY <1>3 DEF MarksBook, GoodMarks
      <4>. HIDE DEF k, C
      <4>3. IsFiniteSet(C)
        BY <4>1, <4>2, FS_Surjection
      <4>. QED BY <4>3 DEF C
    <3>3. PICK x : {m.class : m \in b.marks} = {x}
      BY <1>10, <3>2, FS_Singleton
    <3>4. \A m \in b.marks : m.class = x
      BY <3>3
    <3>5. PICK m \in b.marks : m.class = c
      BY <2>3, <3>1 DEF MarksIn
    <3>. QED BY <3>1, <3>4, <3>5 DEF MarksIn
  <2>5. SumFunction([l \in page.subjects |-> l.obtained])
          = SumFunction([m \in M |-> Value(m.obtained)])
    BY <1>3, <1>4, <2>4, SubjectsAddUp
  <2>. HIDE DEF sheet, M
  <2>6. SumFunction([i \in DOMAIN sheet |-> sheet[i].obtained])
          = SumFunction([l \in L |-> l.obtained])
    BY <2>2, RankingAddsUp
  <2>7. SumFunction([l \in L |-> l.obtained]) = SumFunction([m \in M |-> Value(m.obtained)])
    BY <2>2, LinesAddUpToMarks
  <2>. QED BY <2>5, <2>6, <2>7 DEF SumOf
<1>11. ASSUME \A m \in b.marks : ~Given(m.total), NEW i \in DOMAIN sheet
       PROVE  /\ shown(i).outof > 0 => ~Better(sheet[i], shown(i))
              /\ (\A m \in b.marks : Given(m.obtained)) => shown(i) = sheet[i]
  <2>. DEFINE s == sheet[i].student
  <2>1. s \in Named(M) /\ sheet[i] = SheetLine(s, Of(s, M))
        /\ sheet[i].obtained \in Nat /\ sheet[i].outof \in Nat
    BY <1>7
  <2>2. s \in Named(b.marks)
    BY <1>3, <2>1, OneClassEach DEF Named
  <2>3. shown(i) = exam_results(b, s)
    BY <1>4, <2>2
  <2>. HIDE DEF s, M, sheet
  <2>4. /\ exam_results(b, s).obtained = sheet[i].obtained
        /\ exam_results(b, s).outof \in Nat
        /\ exam_results(b, s).outof <= sheet[i].outof
        /\ (\A m \in b.marks : Given(m.obtained)) => exam_results(b, s) = sheet[i]
    BY <1>3, <1>11, <2>1, ProfileAgainstSheet DEF M
  <2>5. ~Better(sheet[i], exam_results(b, s))
    BY <2>1, <2>4, OutOfLess
  <2>. QED BY <2>3, <2>4, <2>5
<1>. QED BY <1>8, <1>9, <1>10, <1>11 DEF MarksAgree

-----------------------------------------------------------------------------

LEMMA PageStarts == ASSUME ReportsInit PROVE PageSound
  BY DEF ReportsInit, PageSound

LEMMA PageStaysSound ==
    ASSUME PageSound, [Draw]_<<book, page>> PROVE PageSound'
<1>1. CASE Draw
  BY <1>1 DEF Draw, PageSound
<1>2. CASE UNCHANGED <<book, page>>
  BY <1>2 DEF PageSound
<1>. QED BY <1>1, <1>2

\* Whatever the registers hold that they may hold and no screen cuts short,
\* the screens add them up to the same figures (attendance by pupil, day, month
\* and status, money by class, method, day and pupil, marks by subject and by
\* rank) or to figures that differ by exactly what ReportsAgree names: the half
\* days in the register's total, a threshold of nought or a rate rounded up to
\* it in the list of letters, the days after the last midnight, what was paid
\* on a cancelled bill, marks not given (the summary functions of
\* app/modules/reports/service.py and of the screens).
THEOREM FiguresAgree == ReportsSpec => []ReportsAgree
<1>1. PageSound => ReportsAgree
  BY AttendanceHolds, FeesHold, MarksHold, DesksHold DEF ReportsAgree
<1>. QED BY <1>1, PageStarts, PageStaysSound, PTL DEF ReportsSpec
=============================================================================
