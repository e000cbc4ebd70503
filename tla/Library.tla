------------------------------- MODULE Library -------------------------------
(***************************************************************************)
(* Library circulation: issue, return, renew and the overdue sweep, a      *)
(* database call at a time.  Copy counts live on the item, loans in a      *)
(* collection of their own, and nothing but the order of the calls keeps   *)
(* the two in step.  Source: app/modules/library/service.py.               *)
(*                                                                         *)
(* `disturbed` is a history variable: the things two requests held at the  *)
(* same time, or one that failed half way left behind.  The service takes  *)
(* no lock, so its promises are about what is not in that set.             *)
(*                                                                         *)
(* A definition just above another with its parameters, and used nowhere,  *)
(* is the slip a programmer could have made there; the runs show that some *)
(* property notices it.                                                    *)
(***************************************************************************)
EXTENDS Integers, FiniteSets

CONSTANTS
    Items, Borrowers,
    Desks, Sweepers,              \* handlers of the circulation desk, the sweep
    FailProne,                    \* handlers an error may end
    Copies,                       \* what the catalogue says of each title
    Limit,                        \* max_books_student, max_books_staff
    LoanDays, MaxRenewals,
    MaxDay, MaxLoans,             \* bounds: days, loans made, and clashes
    MaxClashes                    \* after which no more requests arrive

Handlers == Desks \cup Sweepers

ASSUME LibraryAssumption ==
    /\ Copies \in [Items -> Nat \ {0}]
    /\ Limit \in [Borrowers -> Nat]
    /\ {LoanDays, MaxRenewals} \subseteq Nat
    /\ {MaxDay, MaxLoans, MaxClashes} \subseteq Nat

VARIABLES
    item,         \* library_items: total and available copies, and a label
    loan,         \* library_loans, a partial function of the loan's number
    today,
    pc, req,      \* per handler: the next database call, its locals
    disturbed     \* history: see above

vars == <<item, loan, today, pc, req, disturbed>>

-----------------------------------------------------------------------------
Out == {"issued", "overdue"}

Item == [total : Nat, available : Int, label : {"available", "issued", "damaged"}]
Loan == [item : Items, borrower : Borrowers, due : Nat, renewals : Nat,
         status : Out \cup {"returned", "lost"}]

\* What a request lays its hands on.
Claim == ({"item"} \X Items) \cup ({"loan"} \X Nat)
             \cup ({"borrower"} \X Borrowers)

NoRequest == [claims |-> {}, todo |-> {}]

OpenLoans(b) ==
    {l \in DOMAIN loan : loan[l].borrower = b /\ loan[l].status \in Out}

Idle(h) == pc[h] = "idle"

\* A request starts, holding `claims`; what another request holds already is
\* disturbed from now on.
Begin(h, label, claims, locals) ==
    /\ Idle(h)
    /\ pc' = [pc EXCEPT ![h] = label]
    /\ req' = [req EXCEPT ![h] = locals]
    /\ disturbed' = disturbed \cup
         {c \in claims : \E g \in Handlers : c \in req[g].claims}

Goto(h, label) == /\ pc' = [pc EXCEPT ![h] = label]
                  /\ UNCHANGED <<req, disturbed>>

Finish(h) == /\ pc' = [pc EXCEPT ![h] = "idle"]
             /\ req' = [req EXCEPT ![h] = NoRequest]
             /\ UNCHANGED disturbed

-----------------------------------------------------------------------------
(* issue.                                                                  *)

OnShelf(i) == item[i].available > 0

BeginIssue(h, i, b) ==
    LET claims == {<<"item", i>>, <<"borrower", b>>} IN
    /\ h \in Desks
    /\ OnShelf(i)
    /\ Begin(h, "limit", claims,
             [claims |-> claims, todo |-> {}, item |-> i, borrower |-> b,
              available |-> item[i].available, label |-> item[i].label])
    /\ UNCHANGED <<item, loan, today>>

WithinLimit(b)   == Cardinality(OpenLoans(b)) < Limit[b]

CheckLimit(h) ==
    /\ pc[h] = "limit"
    /\ IF WithinLimit(req[h].borrower) THEN Goto(h, "duplicate") ELSE Finish(h)
    /\ UNCHANGED <<item, loan, today>>

CheckDuplicate(h) ==
    /\ pc[h] = "duplicate"
    /\ IF \E l \in OpenLoans(req[h].borrower) : loan[l].item = req[h].item
       THEN Finish(h) ELSE Goto(h, "lend")
    /\ UNCHANGED <<item, loan, today>>

Lend(h) ==
    LET l == Cardinality(DOMAIN loan) + 1 IN
    /\ pc[h] = "lend" /\ l <= MaxLoans
    /\ loan' = [m \in DOMAIN loan \cup {l} |->
         IF m # l THEN loan[m] ELSE
           [item |-> req[h].item, borrower |-> req[h].borrower,
            due |-> today + LoanDays, renewals |-> 0,
            status |-> "issued"]]
    /\ Goto(h, "take")
    /\ UNCHANGED <<item, today>>

\* One fewer than the copies read at the start of the request.
TakeFromShelf(h) ==
    LET remaining == req[h].available - 1 IN
    /\ pc[h] = "take"
    /\ item' = [item EXCEPT ![req[h].item].available = remaining,
                            ![req[h].item].label =
                              IF remaining <= 0 THEN "issued" ELSE req[h].label]
    /\ Finish(h)
    /\ UNCHANGED <<loan, today>>

-----------------------------------------------------------------------------
(* return_item.  Only a returned loan is refused: a lost one may come back, *)
(* or be lost again, and its title is disturbed by that.                   *)

Returnable(status) == status # "returned"

BeginReturn(h, l, condition) ==
    LET claims == {<<"loan", l>>, <<"item", loan[l].item>>} IN
    /\ h \in Desks
    /\ Returnable(loan[l].status)
    /\ Idle(h)
    /\ pc' = [pc EXCEPT ![h] = "close"]
    /\ req' = [req EXCEPT ![h] =
         [claims |-> claims, todo |-> {}, loan |-> l, item |-> loan[l].item,
          condition |-> condition]]
    /\ disturbed' = disturbed \cup
         {c \in claims : \/ loan[l].status = "lost"
                         \/ \E g \in Handlers : c \in req[g].claims}
    /\ UNCHANGED <<item, loan, today>>

CloseLoan(h) ==
    /\ pc[h] = "close"
    /\ loan' = [loan EXCEPT
         ![req[h].loan].status = IF req[h].condition = "lost" THEN "lost"
                                 ELSE "returned"]
    /\ Goto(h, "shelf")
    /\ UNCHANGED <<item, today>>

ReadShelf(h) ==
    /\ pc[h] = "shelf"
    /\ pc' = [pc EXCEPT ![h] = "restock"]
    /\ req' = [req EXCEPT ![h] =
         [claims |-> @.claims, todo |-> {}, item |-> @.item,
          condition |-> @.condition, doc |-> item[@.item]]]
    /\ UNCHANGED <<item, loan, today, disturbed>>

RestockedAlways(doc, condition) ==
    [doc EXCEPT !.available = @ + 1, !.label = "available"]
Restocked(doc, condition) ==
    IF condition = "lost"
    THEN [doc EXCEPT !.total = IF @ > 0 THEN @ - 1 ELSE 0]
    ELSE [doc EXCEPT !.available = @ + 1,
                     !.label = IF condition = "damaged" THEN "damaged"
                               ELSE "available"]

\* The fields it writes come from the document just read; a lost copy writes
\* the total only, any other the available copies and the label.
Restock(h) ==
    LET new == Restocked(req[h].doc, req[h].condition)
        i   == req[h].item
    IN
    /\ pc[h] = "restock"
    /\ item' = IF new.total # req[h].doc.total
               THEN [item EXCEPT ![i].total = new.total]
               ELSE IF req[h].condition = "lost" THEN item
               ELSE [item EXCEPT ![i].available = new.available,
                                 ![i].label = new.label]
    /\ Finish(h)
    /\ UNCHANGED <<loan, today>>

-----------------------------------------------------------------------------
(* renew and mark_overdue.                                                 *)

RenewOncePlus(doc)   == doc.status \in Out /\ doc.renewals <= MaxRenewals
RenewAnything(doc)   == doc.renewals < MaxRenewals
Renewable(doc)       == doc.status \in Out /\ doc.renewals < MaxRenewals

BeginRenew(h, l) ==
    LET claims == {<<"loan", l>>} IN
    /\ h \in Desks
    /\ Renewable(loan[l])
    /\ Begin(h, "renew", claims,
             [claims |-> claims, todo |-> {}, loan |-> l,
              due |-> today + LoanDays, renewals |-> loan[l].renewals + 1])
    /\ UNCHANGED <<item, loan, today>>

RenewLoan(h) ==
    /\ pc[h] = "renew"
    /\ loan' = [loan EXCEPT ![req[h].loan].due = req[h].due,
                            ![req[h].loan].renewals = req[h].renewals,
                            ![req[h].loan].status = "issued"]
    /\ Finish(h)
    /\ UNCHANGED <<item, today>>

PastDue ==
    {l \in DOMAIN loan : loan[l].status = "issued" /\ loan[l].due < today}

BeginSweep(h) ==
    LET claims == {<<"loan", l>> : l \in PastDue} IN
    /\ h \in Sweepers
    /\ PastDue # {}
    /\ Begin(h, "sweep", claims, [claims |-> claims, todo |-> PastDue])
    /\ UNCHANGED <<item, loan, today>>

\* One update, and the borrower's notice, before the next.
SweepLoan(h) ==
    /\ pc[h] = "sweep"
    /\ \E l \in req[h].todo :
        /\ loan' = [loan EXCEPT ![l].status = "overdue"]
        /\ IF req[h].todo = {l} THEN Finish(h) ELSE
             /\ req' = [req EXCEPT ![h].todo = @ \ {l}]
             /\ UNCHANGED <<pc, disturbed>>
    /\ UNCHANGED <<item, today>>

-----------------------------------------------------------------------------
NextDay == /\ today < MaxDay
           /\ today' = today + 1
           /\ UNCHANGED <<item, loan, pc, req, disturbed>>

\* An awaited call raises, or the process dies.  A request that has written
\* its first document and not its second leaves the two out of step.
Abort(h) ==
    /\ h \in FailProne /\ ~Idle(h)
    /\ pc' = [pc EXCEPT ![h] = "idle"]
    /\ req' = [req EXCEPT ![h] = NoRequest]
    /\ disturbed' = disturbed \cup
         IF pc[h] \in {"take", "shelf", "restock"} THEN req[h].claims ELSE {}
    /\ UNCHANGED <<item, loan, today>>

Init ==
    /\ item = [i \in Items |-> [total |-> Copies[i], available |-> Copies[i],
                                label |-> "available"]]
    /\ loan = [l \in {} |-> 0]
    /\ today = 0
    /\ pc = [h \in Handlers |-> "idle"]
    /\ req = [h \in Handlers |-> NoRequest]
    /\ disturbed = {}

Arrive(h) ==
    /\ Cardinality(disturbed) <= MaxClashes
    /\ \/ \E i \in Items, b \in Borrowers : BeginIssue(h, i, b)
       \/ \E l \in DOMAIN loan, condition \in {"good", "damaged", "lost"} :
            BeginReturn(h, l, condition)
       \/ \E l \in DOMAIN loan : BeginRenew(h, l)
       \/ BeginSweep(h)

Resume(h) ==
    \/ CheckLimit(h) \/ CheckDuplicate(h) \/ Lend(h) \/ TakeFromShelf(h)
    \/ CloseLoan(h) \/ ReadShelf(h) \/ Restock(h)
    \/ RenewLoan(h) \/ SweepLoan(h)

Next == NextDay \/ \E h \in Handlers : Arrive(h) \/ Resume(h) \/ Abort(h)

Spec == Init /\ [][Next]_vars

-----------------------------------------------------------------------------
(* What the library promises.                                              *)

LoansOf(i) == {l \in DOMAIN loan : loan[l].item = i /\ loan[l].status \in Out}

\* Nothing two requests fought over, or one left half done, bears on i.
Calm(i) == /\ <<"item", i>> \notin disturbed
           /\ \A l \in DOMAIN loan :
                loan[l].item = i => <<"loan", l>> \notin disturbed
           /\ \A h \in Handlers : <<"item", i>> \notin req[h].claims

\* The copies of a title are on the shelf or out on loan, and its label says
\* which: what issue and return_item change on two documents stays in step.
CopiesAccountedFor ==
    \A i \in Items : Calm(i) =>
        /\ item[i].available + Cardinality(LoansOf(i)) = item[i].total
        /\ item[i].label = "issued" <=> item[i].available = 0

\* No borrower holds more than the limit, or the same title twice.
LimitRespected ==
    \A b \in Borrowers :
        \/ <<"borrower", b>> \in disturbed
        \/ \E l \in DOMAIN loan :
             loan[l].borrower = b /\ <<"loan", l>> \in disturbed
        \/ /\ Cardinality(OpenLoans(b)) <= Limit[b]
           /\ \A l, m \in OpenLoans(b) : loan[l].item = loan[m].item => l = m

\* Whatever overlaps or fails, no count goes below zero and no loan is renewed
\* more often than the rules allow: each write follows from a guarded read.
CountsInRange ==
    /\ \A i \in Items : item[i].available >= 0 /\ item[i].total >= 0
    /\ \A l \in DOMAIN loan : loan[l].renewals <= MaxRenewals

\* A title's copies and a borrower's loans are in order, and every count.
LendingInOrder == CopiesAccountedFor /\ LimitRespected /\ CountsInRange

\* A loan that was closed is not opened again, unless two requests met on it
\* or a lost copy turned up.
ClosedStaysClosed ==
    [][\A l \in DOMAIN loan :
         loan[l].status = "returned" /\ <<"loan", l>> \notin disturbed =>
             loan'[l] = loan[l]]_vars

\* The service's opening comment: a crash cannot leave a book issued but still
\* shown as available.  What is shown, between requests, is no more than the
\* copies the loans leave.
ShownIsThere ==
    (\A h \in Handlers : Idle(h)) =>
        \A i \in Items :
            item[i].available <= item[i].total - Cardinality(LoansOf(i))
=============================================================================
