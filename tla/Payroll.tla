------------------------------- MODULE Payroll -------------------------------
(***************************************************************************)
(* Payroll: a run per month, a payslip per person in it.  A request is a   *)
(* coroutine that may be preempted at each database call, and generating   *)
(* a month is one call to clear, one per payslip and one for the totals.   *)
(* Source: app/modules/payroll/service.py.                                 *)
(*                                                                         *)
(* What a person is owed for the month is one number, computed from their  *)
(* salary structure and attendance; a change of either is a change of it.  *)
(* `shaken` is a history variable: the periods on which two requests    *)
(* overlapped, or one failed after its first write, and which no           *)
(* undisturbed regeneration has set right since.                           *)
(*                                                                         *)
(* A definition just above another with its parameters, and used nowhere,  *)
(* is the slip a programmer could have made there.                         *)
(***************************************************************************)
EXTENDS Integers, FiniteSets, Functions

CONSTANTS Periods, Staff,
          Clerks, Fallible,      \* handlers, and those an error may end
          Pay                     \* bound: what a person can be owed

ASSUME PayrollAssumption == Pay \subseteq Nat /\ Fallible \subseteq Clerks

VARIABLES
    run,          \* payroll_runs, a partial function of the period
    slip,         \* payslips, a partial function of period and person
    roll, owed,   \* active staff, and what each would be paid today
    next, job,      \* per handler: the next database call, its locals
    shaken,    \* history: see above
    approvals     \* history: the periods someone has approved

payroll == <<run, slip, roll, owed, next, job, shaken, approvals>>

-----------------------------------------------------------------------------
Frozen == {"approved", "paid"}
Run    == [status : {"draft", "processing"} \cup Frozen, count : Nat, net : Nat]
Slip   == [net : Nat, status : {"generated"} \cup Frozen]

\* `crossed` is history too: another request came for the same period.
NoJob == [period |-> {}, crossed |-> FALSE]

AtRest(h)     == next[h] = "idle"
Serving(p)  == {h \in Clerks : job[h].period = {p}}
SlipsOf(p)  == {s \in Staff : <<p, s>> \in DOMAIN slip}

Start(h, label, p, locals) ==
    /\ AtRest(h)
    /\ next' = [next EXCEPT ![h] = label]
    /\ job' = [g \in Clerks |->
         IF g = h THEN locals
         ELSE [job[g] EXCEPT !.crossed = job[g].crossed \/ g \in Serving(p)]]
    /\ shaken' = IF Serving(p) = {} THEN shaken ELSE shaken \cup {p}

Go(h, label) == next' = [next EXCEPT ![h] = label]

Done(h) == /\ next' = [next EXCEPT ![h] = "idle"]
             /\ job' = [job EXCEPT ![h] = NoJob]

Period(h) == CHOOSE p \in Periods : job[h].period = {p}

-----------------------------------------------------------------------------
(* generate.                                                               *)

UnlessPaid(p)  == p \in DOMAIN run => run[p].status # "paid"
Regenerable(p) == p \in DOMAIN run => run[p].status \notin Frozen

BeginGenerate(h, p, chosen) ==
    /\ Regenerable(p)
    /\ Start(h, "staff", p, [period |-> {p}, crossed |-> Serving(p) # {},
                             chosen |-> chosen, known |-> p \in DOMAIN run])
    /\ UNCHANGED <<run, slip, roll, owed, approvals>>

\* Staff, structures and attendance are read; nobody to pay is refused, and
\* a person with no salary is skipped.
ReadStaff(h) ==
    LET members == roll \cap job[h].chosen IN
    /\ next[h] = "staff"
    /\ IF members = {} THEN Done(h) ELSE
         /\ Go(h, IF job[h].known THEN "clear" ELSE "create")
         /\ job' = [job EXCEPT ![h] =
              [period |-> job[h].period, crossed |-> job[h].crossed,
               todo |-> {s \in members : owed[s] > 0},
               due |-> owed, count |-> 0, net |-> 0]]
    /\ UNCHANGED <<run, slip, roll, owed, shaken, approvals>>

Everything(p)     == DOMAIN slip
SlipsOfOthers(p)  == {k \in DOMAIN slip : k[1] # p}

\* From here on the period's payslips are this request's alone, if no other
\* request came for them since it began.
ClearSlips(h) ==
    LET p == Period(h) IN
    /\ next[h] = "clear"
    /\ slip' = [k \in SlipsOfOthers(p) |-> slip[k]]
    /\ shaken' = IF job[h].crossed THEN shaken ELSE shaken \ {p}
    /\ Go(h, "slips")
    /\ UNCHANGED <<run, roll, owed, job, approvals>>

\* The index on period turns a second run into a conflict.
CreateRun(h) ==
    LET p == Period(h) IN
    /\ next[h] = "create"
    /\ IF p \in DOMAIN run THEN Done(h) /\ UNCHANGED run ELSE
         /\ run' = [q \in DOMAIN run \cup {p} |->
              IF q = p THEN [status |-> "draft", count |-> 0, net |-> 0]
              ELSE run[q]]
         /\ Go(h, "slips")
         /\ UNCHANGED job
    /\ UNCHANGED <<slip, roll, owed, shaken, approvals>>

\* The index on run and person turns a second payslip into a conflict.
WriteSlip(h) ==
    LET p == Period(h) IN
    /\ next[h] = "slips"
    /\ \E s \in job[h].todo :
        IF <<p, s>> \in DOMAIN slip THEN Done(h) /\ UNCHANGED slip ELSE
          /\ slip' = [k \in DOMAIN slip \cup {<<p, s>>} |->
               IF k = <<p, s>> THEN [net |-> job[h].due[s], status |-> "generated"]
               ELSE slip[k]]
          /\ job' = [job EXCEPT ![h].todo = job[h].todo \ {s},
                                ![h].count = job[h].count + 1,
                                ![h].net = job[h].net + job[h].due[s]]
          /\ UNCHANGED next
    /\ UNCHANGED <<run, roll, owed, shaken, approvals>>

\* Whatever the status has become meanwhile.
WriteTotals(h) ==
    /\ next[h] = "slips" /\ job[h].todo = {}
    /\ run' = [run EXCEPT ![Period(h)] =
         [status |-> "processing", count |-> job[h].count, net |-> job[h].net]]
    /\ Done(h)
    /\ UNCHANGED <<slip, roll, owed, shaken, approvals>>

-----------------------------------------------------------------------------
(* approve and mark_paid: the run first, then its payslips.                *)

Approvable(p) == run[p].status \notin Frozen /\ run[p].count > 0

PayUnapproved(p) == run[p].status # "paid" /\ run[p].count > 0
Payable(p)       == run[p].status = "approved"

BeginMark(h, p, status) ==
    /\ p \in DOMAIN run
    /\ \/ status = "approved" /\ Approvable(p)
       \/ status = "paid" /\ Payable(p)
    /\ Start(h, "mark", p, [period |-> {p}, crossed |-> Serving(p) # {},
                            status |-> status])
    /\ UNCHANGED <<run, slip, roll, owed, approvals>>

MarkRun(h) ==
    /\ next[h] = "mark"
    /\ run' = [run EXCEPT ![Period(h)].status = job[h].status]
    /\ approvals' = IF job[h].status = "approved" THEN approvals \cup {Period(h)}
                    ELSE approvals
    /\ Go(h, "stamp")
    /\ UNCHANGED <<slip, roll, owed, job, shaken>>

StampSlips(h) ==
    /\ next[h] = "stamp"
    /\ slip' = [k \in DOMAIN slip |->
         IF k[1] = Period(h) THEN [slip[k] EXCEPT !.status = job[h].status]
         ELSE slip[k]]
    /\ Done(h)
    /\ UNCHANGED <<run, roll, owed, shaken, approvals>>

-----------------------------------------------------------------------------
\* HR edits a salary, marks attendance, takes on or lets go of a person.
Revise ==
    \E s \in Staff :
       /\ \/ /\ \E pay \in Pay : owed' = [owed EXCEPT ![s] = pay]
             /\ UNCHANGED roll
          \/ /\ roll' = IF s \in roll THEN roll \ {s} ELSE roll \cup {s}
             /\ UNCHANGED owed
       /\ UNCHANGED <<run, slip, next, job, shaken, approvals>>

\* An awaited call raises, or the process dies.
Fail(h) ==
    /\ h \in Fallible /\ ~AtRest(h)
    /\ shaken' = IF next[h] \in {"slips", "stamp"}
                    THEN shaken \cup job[h].period ELSE shaken
    /\ Done(h)
    /\ UNCHANGED <<run, slip, roll, owed, approvals>>

PayrollInit ==
    /\ run = [p \in {} |-> 0]
    /\ slip = [k \in {} |-> 0]
    /\ roll = Staff
    /\ owed \in [Staff -> Pay]
    /\ next = [h \in Clerks |-> "idle"]
    /\ job = [h \in Clerks |-> NoJob]
    /\ shaken = {}
    /\ approvals = {}

Serve(h) ==
    \/ \E p \in Periods, chosen \in SUBSET Staff \ {{}} : BeginGenerate(h, p, chosen)
    \/ \E p \in Periods, status \in Frozen : BeginMark(h, p, status)
    \/ ReadStaff(h) \/ ClearSlips(h) \/ CreateRun(h) \/ WriteSlip(h)
    \/ WriteTotals(h) \/ MarkRun(h) \/ StampSlips(h)

PayrollNext == Revise \/ \E h \in Clerks : Serve(h) \/ Fail(h)

PayrollSpec == PayrollInit /\ [][PayrollNext]_payroll

-----------------------------------------------------------------------------
Settled(p) == p \in DOMAIN run /\ p \notin shaken /\ Serving(p) = {}

NetOf(p) == SumFunction([s \in SlipsOf(p) |-> slip[<<p, s>>].net])

\* A run that has been generated says what its payslips say, in number, in
\* money and in status: regenerating replaces the payslips, never adds to them.
RunMatchesSlips ==
    \A p \in Periods : Settled(p) /\ run[p].status # "draft" =>
        /\ run[p].count = Cardinality(SlipsOf(p))
        /\ run[p].net = NetOf(p)
        /\ \A s \in SlipsOf(p) :
             slip[<<p, s>>].status = IF run[p].status \in Frozen
                                     THEN run[p].status ELSE "generated"

\* Approval freezes a run: no figure of it moves again, and its status only
\* goes on to paid.
FrozenStaysFrozen ==
    [][\A p \in DOMAIN run \ (shaken \cup shaken') :
         run[p].status \in Frozen =>
           /\ run'[p].net = run[p].net /\ run'[p].count = run[p].count
           /\ run[p].status # run'[p].status => run'[p].status = "paid"
           /\ SlipsOf(p)' = SlipsOf(p)
           /\ \A s \in SlipsOf(p) : slip'[<<p, s>>].net = slip[<<p, s>>].net]_payroll

\* However requests overlap or fail, no salary is marked paid in a month
\* nobody approved.
PaidWasApproved ==
    \A p \in DOMAIN run :
        run[p].status = "paid" \/ (\E s \in SlipsOf(p) : slip[<<p, s>>].status = "paid")
            => p \in approvals
=============================================================================
