------------------------------- MODULE Office -------------------------------
(***************************************************************************)
(* The back office: the library, payroll, what each person is shown, a     *)
(* family's year of fees and the reports.  They share no document, so a    *)
(* behaviour is of one of them; the others stay closed.                    *)
(***************************************************************************)
EXTENDS Library, Payroll, Access, FeePlan, Reports

CONSTANT Components
VARIABLE open

access  == <<asked, told>>
reports == <<book, page>>

LibraryHours ==
    /\ open = "library" /\ Next
    /\ UNCHANGED <<payroll, access, planVars, reports>>
PayrollHours ==
    /\ open = "payroll" /\ PayrollNext
    /\ UNCHANGED <<vars, access, planVars, reports>>
AccessHours ==
    /\ open = "access" /\ Answer
    /\ UNCHANGED <<vars, payroll, planVars, reports>>
PlanHours ==
    /\ open = "plan" /\ PlanNext
    /\ UNCHANGED <<vars, payroll, access, reports>>
ReportHours ==
    /\ open = "reports" /\ Draw
    /\ UNCHANGED <<vars, payroll, access, planVars>>

\* A closed component is as a new institution has it.
OfficeInit ==
    /\ open \in Components
    /\ Init
    /\ PayrollInit
    /\ open # "payroll" => owed = [s \in Staff |-> 0]
    /\ IF open = "access" THEN AccessInit ELSE asked = None /\ told = None
    /\ IF open = "plan" THEN PlanInit
       ELSE /\ date = 0 /\ bills = <<>>
            /\ family = CHOOSE f \in Families : f.lines = <<>>
    /\ IF open = "reports" THEN ReportsInit
       ELSE book = None /\ page = [kind |-> "none"]

OfficeNext ==
    /\ \/ LibraryHours \/ PayrollHours \/ AccessHours \/ PlanHours
       \/ ReportHours
    /\ UNCHANGED open

OfficeSpec ==
    OfficeInit /\ [][OfficeNext]_<<open, vars, payroll, access, planVars, reports>>
=============================================================================
