---------------------------- MODULE LibraryProofs ----------------------------
(***************************************************************************)
(* Theorems about Library, for any number of titles, copies, borrowers,    *)
(* desks and loans, with any request overlapping any other or failing at   *)
(* any of its calls.                                                       *)
(***************************************************************************)
EXTENDS Library, FiniteSetTheorems, TLAPS

-----------------------------------------------------------------------------
(* What a request holds while it stands at one of its calls.               *)

Labels  == {"available", "issued", "damaged"}
Shelf   == [total : Nat, available : Nat, label : Labels]

IssueCalls  == {"limit", "duplicate", "lend", "take"}
ReturnCalls == {"close", "shelf"}
Calls == {"idle", "restock", "renew", "sweep"} \cup IssueCalls \cup ReturnCalls

Issuing    == [claims : SUBSET Claim, todo : {{}}, item : Items,
               borrower : Borrowers, available : Nat \ {0}, label : Labels]
Returning  == [claims : SUBSET Claim, todo : {{}}, loan : Nat, item : Items,
               condition : {"good", "damaged", "lost"}]
Restocking == [claims : SUBSET Claim, todo : {{}}, item : Items,
               condition : {"good", "damaged", "lost"}, doc : Shelf]
Renewing   == [claims : SUBSET Claim, todo : {{}}, loan : Nat, due : Nat,
               renewals : 0 .. MaxRenewals]
Sweeping   == [claims : SUBSET Claim, todo : SUBSET Nat]

\* A request claims what it writes: nothing else of its kind.
ReqTyped(h) ==
    /\ pc[h] \in Calls
    /\ pc[h] = "idle" => req[h] = NoRequest
    /\ pc[h] \in IssueCalls =>
         /\ req[h] \in Issuing
         /\ req[h].claims = {<<"item", req[h].item>>,
                             <<"borrower", req[h].borrower>>}
    /\ pc[h] \in ReturnCalls =>
         /\ req[h] \in Returning
         /\ req[h].loan \in DOMAIN loan /\ loan[req[h].loan].item = req[h].item
         /\ req[h].claims = {<<"loan", req[h].loan>>, <<"item", req[h].item>>}
    /\ pc[h] = "restock" =>
         /\ req[h] \in Restocking
         /\ \E l \in Nat : req[h].claims = {<<"loan", l>>, <<"item", req[h].item>>}
    /\ pc[h] = "renew" =>
         /\ req[h] \in Renewing /\ req[h].loan \in DOMAIN loan
         /\ req[h].claims = {<<"loan", req[h].loan>>}
    /\ pc[h] = "sweep" =>
         /\ req[h] \in Sweeping /\ req[h].todo \subseteq DOMAIN loan
         /\ \A l \in req[h].todo : <<"loan", l>> \in req[h].claims
         /\ \A c \in req[h].claims : c \in {"loan"} \X Nat

LibraryTyped ==
    /\ item \in [Items -> Shelf]
    /\ IsFiniteSet(DOMAIN loan)
    /\ DOMAIN loan = 1 .. Cardinality(DOMAIN loan)
    /\ loan \in [DOMAIN loan -> Loan]
    /\ \A l \in DOMAIN loan : loan[l].renewals <= MaxRenewals
    /\ today \in Nat
    /\ pc = [h \in Handlers |-> pc[h]] /\ req = [h \in Handlers |-> req[h]]
    /\ \A h \in Handlers : ReqTyped(h)

-----------------------------------------------------------------------------
(* What nobody fought over is in order.                                    *)

\* What two requests hold is disturbed.
Sole == \A g, h \in Handlers :
            \A c \in req[g].claims \cap req[h].claims : g = h \/ c \in disturbed

\* A loan a request is about to write is still open.
StillOut(h) ==
    /\ pc[h] \in {"close", "renew"} /\ <<"loan", req[h].loan>> \notin disturbed =>
         loan[req[h].loan].status \in Out
    /\ pc[h] = "sweep" =>
         \A l \in req[h].todo :
             <<"loan", l>> \notin disturbed => loan[l].status \in Out

Unfought(i) == /\ <<"item", i>> \notin disturbed
               /\ \A l \in DOMAIN loan :
                    loan[l].item = i => <<"loan", l>> \notin disturbed

\* How far the copies of a title and its loans are apart while h is at it.
Gap(h) == IF pc[h] = "take" THEN 1
          ELSE IF pc[h] \in {"shelf", "restock"} THEN -1 ELSE 0

Balanced(i, gap) ==
    item[i].available + Cardinality(LoansOf(i)) = item[i].total + gap

\* What a request has read of the title it holds is still so.
KnowsTitle(h) ==
    /\ Balanced(req[h].item, Gap(h))
    /\ pc[h] \in IssueCalls =>
         /\ req[h].available = item[req[h].item].available
         /\ req[h].label = item[req[h].item].label
    /\ pc[h] = "restock" => req[h].doc = item[req[h].item]

TitleInOrder(i) ==
    Unfought(i) =>
        /\ item[i].label = "issued" <=> item[i].available = 0
        /\ (\A h \in Handlers : <<"item", i>> \notin req[h].claims) =>
             Balanced(i, 0)
        /\ \A h \in Handlers : <<"item", i>> \in req[h].claims => KnowsTitle(h)

UnfoughtBy(b) == /\ <<"borrower", b>> \notin disturbed
                 /\ \A l \in DOMAIN loan :
                      loan[l].borrower = b => <<"loan", l>> \notin disturbed

BorrowerInOrder(b) ==
    UnfoughtBy(b) =>
        /\ Cardinality(OpenLoans(b)) <= Limit[b]
        /\ \A l, m \in OpenLoans(b) : loan[l].item = loan[m].item => l = m
        /\ \A h \in Handlers : <<"borrower", b>> \in req[h].claims =>
             /\ pc[h] \in {"duplicate", "lend"} =>
                  Cardinality(OpenLoans(b)) < Limit[b]
             /\ pc[h] = "lend" =>
                  \A l \in OpenLoans(b) : loan[l].item # req[h].item

Circulation == /\ Sole
               /\ \A h \in Handlers : StillOut(h)
               /\ \A i \in Items : TitleInOrder(i)
               /\ \A b \in Borrowers : BorrowerInOrder(b)

-----------------------------------------------------------------------------
(* Typing.                                                                 *)

\* A step of h keeps what the others hold, and every loan's title and
\* borrower.
Moves(h) ==
    /\ pc' = [g \in Handlers |-> pc'[g]] /\ req' = [g \in Handlers |-> req'[g]]
    /\ \A g \in Handlers \ {h} : pc'[g] = pc[g] /\ req'[g] = req[g]

LoansKept ==
    /\ DOMAIN loan \subseteq DOMAIN loan'
    /\ \A l \in DOMAIN loan : /\ loan'[l].item = loan[l].item
                              /\ loan'[l].borrower = loan[l].borrower

LEMMA TypedByParts ==
    ASSUME LibraryTyped, NEW h \in Handlers, Moves(h), LoansKept,
           ReqTyped(h)', item' \in [Items -> Shelf],
           IsFiniteSet(DOMAIN loan'),
           DOMAIN loan' = 1 .. Cardinality(DOMAIN loan'),
           loan' \in [DOMAIN loan' -> Loan],
           \A l \in DOMAIN loan' : loan'[l].renewals <= MaxRenewals,
           today' \in Nat
    PROVE  LibraryTyped'
<1>1. ASSUME NEW g \in Handlers, g # h PROVE ReqTyped(g)'
  <2>1. pc'[g] = pc[g] /\ req'[g] = req[g] /\ ReqTyped(g)
    BY <1>1 DEF LibraryTyped, Moves
  <2>2. QED
    BY <2>1 DEF ReqTyped, LoansKept, ReturnCalls
<1>2. QED
  BY <1>1 DEF LibraryTyped, Moves

\* A step that writes no loan.
LEMMA LoansLeft ==
    ASSUME LibraryTyped, NEW h \in Handlers, Moves(h), UNCHANGED <<loan, today>>,
           ReqTyped(h)', item' \in [Items -> Shelf]
    PROVE  LibraryTyped'
<1>1. LoansKept
  BY DEF LoansKept
<1>2. QED
  BY <1>1, TypedByParts DEF LibraryTyped

\* A step that writes one field or more of one loan.
LEMMA LoanWritten ==
    ASSUME LibraryTyped, NEW h \in Handlers, Moves(h), UNCHANGED <<item, today>>,
           ReqTyped(h)', NEW l \in DOMAIN loan, NEW new \in Loan,
           new.item = loan[l].item, new.borrower = loan[l].borrower,
           new.renewals <= MaxRenewals, loan' = [loan EXCEPT ![l] = new]
    PROVE  LibraryTyped' /\ LoansKept
<1>1. LoansKept
  BY DEF LoansKept
<1>2. DOMAIN loan' = DOMAIN loan /\ loan' \in [DOMAIN loan' -> Loan]
  BY DEF LibraryTyped
<1>3. \A m \in DOMAIN loan' : loan'[m].renewals <= MaxRenewals
  BY <1>2 DEF LibraryTyped
<1>4. QED
  BY <1>1, <1>2, <1>3, TypedByParts DEF LibraryTyped

LEMMA IdleTyped ==
    ASSUME LibraryTyped, NEW h \in Handlers,
           pc' = [pc EXCEPT ![h] = "idle"], req' = [req EXCEPT ![h] = NoRequest]
    PROVE  /\ Moves(h) /\ ReqTyped(h)' /\ pc'[h] = "idle"
           /\ req'[h] = NoRequest /\ req'[h].claims = {}
<1>1. pc'[h] = "idle" /\ req'[h] = NoRequest /\ Moves(h)
  BY DEF LibraryTyped, Moves
<1>2. QED
  BY <1>1 DEF ReqTyped, Calls, IssueCalls, ReturnCalls, NoRequest

LEMMA GotoTyped ==
    ASSUME LibraryTyped, NEW h \in Handlers, NEW label, Goto(h, label)
    PROVE  Moves(h) /\ pc'[h] = label /\ req'[h] = req[h]
  BY DEF LibraryTyped, Moves, Goto

LEMMA BeginIssueTyped ==
    ASSUME LibraryTyped, NEW h \in Handlers, NEW i \in Items, NEW b \in Borrowers,
           BeginIssue(h, i, b)
    PROVE  LibraryTyped'
<1> DEFINE claims == {<<"item", i>>, <<"borrower", b>>}
           new == [claims |-> claims, todo |-> {}, item |-> i, borrower |-> b,
                   available |-> item[i].available, label |-> item[i].label]
<1>1. /\ Moves(h) /\ pc'[h] = "limit" /\ req'[h] = new
      /\ UNCHANGED <<item, loan, today>>
  BY DEF BeginIssue, Begin, LibraryTyped, Moves
<1>2. item[i].available \in Nat \ {0} /\ item[i].label \in Labels
  BY DEF BeginIssue, OnShelf, LibraryTyped, Shelf
<1>3. claims \in SUBSET Claim
  BY DEF Claim
<1>4. new \in Issuing /\ new.item = i /\ new.borrower = b /\ new.claims = claims
  <2> HIDE DEF claims
  <2>1. QED
    BY <1>2, <1>3 DEF Issuing
<1> HIDE DEF new
<1>5. ReqTyped(h)'
  BY <1>1, <1>4 DEF ReqTyped, Calls, IssueCalls, ReturnCalls
<1>6. QED
  BY <1>1, <1>5, LoansLeft DEF LibraryTyped

LEMMA CheckTyped ==
    ASSUME LibraryTyped, NEW h \in Handlers, CheckLimit(h) \/ CheckDuplicate(h)
    PROVE  LibraryTyped'
<1>1. /\ pc[h] \in {"limit", "duplicate"} /\ UNCHANGED <<item, loan, today>>
      /\ Finish(h) \/ Goto(h, "duplicate") \/ Goto(h, "lend")
  BY DEF CheckLimit, CheckDuplicate
<1>2. CASE Finish(h)
  BY <1>1, <1>2, IdleTyped, LoansLeft DEF Finish, LibraryTyped
<1>3. CASE Goto(h, "duplicate") \/ Goto(h, "lend")
  <2>1. Moves(h) /\ pc'[h] \in {"duplicate", "lend"} /\ req'[h] = req[h]
    BY <1>3, GotoTyped
  <2>2. ReqTyped(h)'
    BY <1>1, <2>1 DEF LibraryTyped, ReqTyped, Calls, IssueCalls, ReturnCalls
  <2>3. QED
    BY <1>1, <2>1, <2>2, LoansLeft DEF LibraryTyped
<1>4. QED
  BY <1>1, <1>2, <1>3

\* The loans are numbered without a gap, so the next number is free.
LEMMA NextLoan ==
    ASSUME LibraryTyped, NEW l, l = Cardinality(DOMAIN loan) + 1
    PROVE  /\ l \in Nat /\ l \notin DOMAIN loan
           /\ IsFiniteSet(DOMAIN loan \cup {l})
           /\ DOMAIN loan \cup {l} = 1 .. Cardinality(DOMAIN loan \cup {l})
<1> DEFINE n == Cardinality(DOMAIN loan)
<1>1. n \in Nat /\ DOMAIN loan = 1 .. n /\ l = n + 1
  BY FS_CardinalityType DEF LibraryTyped
<1>2. l \notin DOMAIN loan
  BY <1>1
<1>3. /\ IsFiniteSet(DOMAIN loan \cup {l})
      /\ Cardinality(DOMAIN loan \cup {l}) = n + 1
  BY <1>2, FS_AddElement DEF LibraryTyped
<1>4. (1 .. n) \cup {n + 1} = 1 .. (n + 1)
  <2> HIDE DEF n
  <2>1. QED
    BY <1>1
<1>5. DOMAIN loan \cup {l} = 1 .. (n + 1)
  BY <1>1, <1>4
<1>6. DOMAIN loan \cup {l} = 1 .. Cardinality(DOMAIN loan \cup {l})
  BY <1>3, <1>5
<1>7. l \in Nat
  <2> HIDE DEF n
  <2>1. QED
    BY <1>1
<1>8. QED
  BY <1>2, <1>3, <1>6, <1>7

LEMMA LendTyped ==
    ASSUME LibraryTyped, NEW h \in Handlers, Lend(h)
    PROVE  /\ LibraryTyped' /\ LoansKept /\ Moves(h)
           /\ \E l : /\ l \notin DOMAIN loan /\ DOMAIN loan' = DOMAIN loan \cup {l}
                     /\ \A m \in DOMAIN loan : loan'[m] = loan[m]
                     /\ loan'[l].item = req[h].item
                     /\ loan'[l].borrower = req[h].borrower
                     /\ loan'[l].status \in Out
<1> DEFINE l == Cardinality(DOMAIN loan) + 1
           new == [item |-> req[h].item, borrower |-> req[h].borrower,
                   due |-> today + LoanDays, renewals |-> 0, status |-> "issued"]
<1>1. /\ loan' = [m \in DOMAIN loan \cup {l} |-> IF m # l THEN loan[m] ELSE new]
      /\ Goto(h, "take") /\ UNCHANGED <<item, today>> /\ pc[h] = "lend"
  BY DEF Lend
<1>2. req[h].item \in Items /\ req[h].borrower \in Borrowers
  BY <1>1 DEF LibraryTyped, ReqTyped, IssueCalls, Issuing
<1>3. today + LoanDays \in Nat
  BY LibraryAssumption DEF LibraryTyped, LibraryAssumption
<1>4. /\ new \in Loan /\ new.renewals <= MaxRenewals /\ new.status \in Out
      /\ new.item = req[h].item /\ new.borrower = req[h].borrower
  BY <1>2, <1>3, LibraryAssumption DEF Loan, Out, LibraryAssumption
<1>5. /\ l \notin DOMAIN loan /\ IsFiniteSet(DOMAIN loan \cup {l})
      /\ DOMAIN loan \cup {l} = 1 .. Cardinality(DOMAIN loan \cup {l})
  BY NextLoan
<1> HIDE DEF l, new
<1>6. /\ DOMAIN loan' = DOMAIN loan \cup {l}
      /\ \A m \in DOMAIN loan : loan'[m] = loan[m]
      /\ loan'[l] = new
  BY <1>1, <1>5
<1>7. loan' \in [DOMAIN loan' -> Loan] /\ LoansKept
  BY <1>1, <1>4, <1>6 DEF LibraryTyped, LoansKept
<1>8. \A m \in DOMAIN loan' : loan'[m].renewals <= MaxRenewals
  BY <1>4, <1>6 DEF LibraryTyped
<1>9. Moves(h) /\ pc'[h] = "take" /\ req'[h] = req[h]
  BY <1>1, GotoTyped
<1>10. ReqTyped(h)'
  BY <1>1, <1>9 DEF LibraryTyped, ReqTyped, Calls, IssueCalls, ReturnCalls
<1>11. LibraryTyped'
  BY <1>1, <1>5, <1>6, <1>7, <1>8, <1>9, <1>10, TypedByParts DEF LibraryTyped
<1>12. QED
  BY <1>4, <1>5, <1>6, <1>7, <1>9, <1>11

LEMMA TakeTyped ==
    ASSUME LibraryTyped, NEW h \in Handlers, TakeFromShelf(h)
    PROVE  LibraryTyped'
<1> DEFINE remaining == req[h].available - 1
           label == IF remaining <= 0 THEN "issued" ELSE req[h].label
           i == req[h].item
<1>1. /\ pc[h] = "take" /\ Finish(h) /\ UNCHANGED <<loan, today>>
      /\ item' = [item EXCEPT ![i].available = remaining, ![i].label = label]
  BY DEF TakeFromShelf
<1>2. i \in Items /\ remaining \in Nat /\ label \in Labels
  BY <1>1 DEF LibraryTyped, ReqTyped, IssueCalls, Issuing, Labels
<1> HIDE DEF remaining, label, i
<1>3. item' \in [Items -> Shelf]
  BY <1>1, <1>2 DEF LibraryTyped, Shelf
<1>4. QED
  BY <1>1, <1>3, IdleTyped, LoansLeft DEF Finish

LEMMA BeginReturnTyped ==
    ASSUME LibraryTyped, NEW h \in Handlers, NEW l \in DOMAIN loan,
           NEW condition \in {"good", "damaged", "lost"},
           BeginReturn(h, l, condition)
    PROVE  LibraryTyped'
<1> DEFINE claims == {<<"loan", l>>, <<"item", loan[l].item>>}
           new == [claims |-> claims, todo |-> {}, loan |-> l,
                   item |-> loan[l].item, condition |-> condition]
<1>1. /\ Moves(h) /\ pc'[h] = "close" /\ req'[h] = new
      /\ UNCHANGED <<item, loan, today>>
  BY DEF BeginReturn, LibraryTyped, Moves
<1>2. l \in Nat /\ loan[l].item \in Items
  <2>1. Cardinality(DOMAIN loan) \in Nat
    BY FS_CardinalityType DEF LibraryTyped
  <2>2. l \in 1 .. Cardinality(DOMAIN loan)
    BY DEF LibraryTyped
  <2>3. QED
    BY <2>1, <2>2 DEF LibraryTyped, Loan
<1>3. claims \in SUBSET Claim
  BY <1>2 DEF Claim
<1>4. /\ new \in Returning /\ new.item = loan[l].item /\ new.loan = l
      /\ new.claims = claims
  <2> HIDE DEF claims
  <2>1. QED
    BY <1>2, <1>3 DEF Returning
<1> HIDE DEF new
<1>5. ReqTyped(h)'
  BY <1>1, <1>4 DEF ReqTyped, Calls, IssueCalls, ReturnCalls
<1>6. QED
  BY <1>1, <1>5, LoansLeft DEF LibraryTyped

LEMMA CloseLoanTyped ==
    ASSUME LibraryTyped, NEW h \in Handlers, CloseLoan(h)
    PROVE  LibraryTyped' /\ LoansKept
<1> DEFINE l == req[h].loan
           status == IF req[h].condition = "lost" THEN "lost" ELSE "returned"
           new == [loan[l] EXCEPT !.status = status]
<1>1. /\ pc[h] = "close" /\ Goto(h, "shelf") /\ UNCHANGED <<item, today>>
      /\ loan' = [loan EXCEPT ![l].status = status]
  BY DEF CloseLoan
<1>2. l \in DOMAIN loan
  BY <1>1 DEF LibraryTyped, ReqTyped, ReturnCalls
<1>3. loan' = [loan EXCEPT ![l] = new]
  BY <1>1, <1>2 DEF LibraryTyped
<1>4. /\ new \in Loan /\ new.item = loan[l].item
      /\ new.borrower = loan[l].borrower /\ new.renewals = loan[l].renewals
  BY <1>2 DEF LibraryTyped, Loan
<1>5. Moves(h) /\ pc'[h] = "shelf" /\ req'[h] = req[h]
  BY <1>1, GotoTyped
<1> HIDE DEF new, l
<1>6. ReqTyped(h)'
  <2>1. DOMAIN loan' = DOMAIN loan
        /\ \A m \in DOMAIN loan : loan'[m].item = loan[m].item
    BY <1>2, <1>3, <1>4
  <2>2. QED
    BY <1>1, <1>5, <2>1
       DEF LibraryTyped, ReqTyped, Calls, IssueCalls, ReturnCalls
<1>7. new.renewals <= MaxRenewals
  BY <1>2, <1>4 DEF LibraryTyped
<1>8. QED
  BY <1>1, <1>2, <1>3, <1>4, <1>5, <1>6, <1>7, LoanWritten

LEMMA ReadShelfTyped ==
    ASSUME LibraryTyped, NEW h \in Handlers, ReadShelf(h)
    PROVE  LibraryTyped'
<1> DEFINE old == req[h]
           new == [claims |-> old.claims, todo |-> {}, item |-> old.item,
                   condition |-> old.condition, doc |-> item[old.item]]
<1>1. /\ pc[h] = "shelf" /\ Moves(h) /\ pc'[h] = "restock" /\ req'[h] = new
      /\ UNCHANGED <<item, loan, today>>
  BY DEF ReadShelf, LibraryTyped, Moves
<1>2. old \in Returning
      /\ old.claims = {<<"loan", old.loan>>, <<"item", old.item>>}
  BY <1>1 DEF LibraryTyped, ReqTyped, ReturnCalls
<1>3. item[old.item] \in Shelf /\ old.loan \in Nat
  BY <1>2 DEF LibraryTyped, Returning
<1> HIDE DEF old
<1>4. new \in Restocking /\ new.item = old.item /\ new.claims = old.claims
  BY <1>2, <1>3 DEF Returning, Restocking
<1> HIDE DEF new
<1>5. ReqTyped(h)'
  BY <1>1, <1>2, <1>3, <1>4 DEF ReqTyped, Calls, IssueCalls, ReturnCalls
<1>6. QED
  BY <1>1, <1>5, LoansLeft DEF LibraryTyped

LEMMA RestockTyped ==
    ASSUME LibraryTyped, NEW h \in Handlers, Restock(h)
    PROVE  LibraryTyped'
<1> DEFINE doc == req[h].doc
           new == Restocked(doc, req[h].condition)
           i == req[h].item
<1>1. /\ pc[h] = "restock" /\ Finish(h) /\ UNCHANGED <<loan, today>>
      /\ item' = IF new.total # doc.total
                 THEN [item EXCEPT ![i].total = new.total]
                 ELSE IF req[h].condition = "lost" THEN item
                 ELSE [item EXCEPT ![i].available = new.available,
                                   ![i].label = new.label]
  BY DEF Restock
<1>2. i \in Items /\ doc \in Shelf
  BY <1>1 DEF LibraryTyped, ReqTyped, Restocking
<1>3. new \in Shelf
  <2> HIDE DEF doc
  <2>1. CASE req[h].condition = "lost"
    <3>1. new = [doc EXCEPT !.total = IF doc.total > 0 THEN doc.total - 1 ELSE 0]
      BY <1>2, <2>1 DEF Restocked
    <3>2. (IF doc.total > 0 THEN doc.total - 1 ELSE 0) \in Nat
      BY <1>2 DEF Shelf
    <3> HIDE DEF new
    <3>3. QED
      BY <1>2, <3>1, <3>2 DEF Shelf
  <2>2. CASE req[h].condition # "lost"
    <3> DEFINE label == IF req[h].condition = "damaged" THEN "damaged"
                        ELSE "available"
    <3>1. new = [doc EXCEPT !.available = doc.available + 1, !.label = label]
      BY <1>2, <2>2 DEF Restocked
    <3>2. doc.available + 1 \in Nat /\ label \in Labels
      BY <1>2 DEF Shelf, Labels
    <3> HIDE DEF new, label
    <3>3. QED
      BY <1>2, <3>1, <3>2 DEF Shelf
  <2>3. QED
    BY <2>1, <2>2
<1> HIDE DEF doc, new, i
<1>4. item' \in [Items -> Shelf]
  BY <1>1, <1>2, <1>3 DEF LibraryTyped, Shelf
<1>5. QED
  BY <1>1, <1>4, IdleTyped, LoansLeft DEF Finish

LEMMA BeginRenewTyped ==
    ASSUME LibraryTyped, NEW h \in Handlers, NEW l \in DOMAIN loan,
           BeginRenew(h, l)
    PROVE  LibraryTyped'
<1> DEFINE claims == {<<"loan", l>>}
           due == today + LoanDays
           renewals == loan[l].renewals + 1
           new == [claims |-> claims, todo |-> {}, loan |-> l, due |-> due,
                   renewals |-> renewals]
<1>1. /\ Moves(h) /\ pc'[h] = "renew" /\ req'[h] = new
      /\ UNCHANGED <<item, loan, today>> /\ loan[l].renewals < MaxRenewals
  BY DEF BeginRenew, Begin, LibraryTyped, Moves, Renewable
<1>2. l \in Nat /\ loan[l].renewals \in Nat
  <2>1. Cardinality(DOMAIN loan) \in Nat
    BY FS_CardinalityType DEF LibraryTyped
  <2>2. l \in 1 .. Cardinality(DOMAIN loan)
    BY DEF LibraryTyped
  <2>3. QED
    BY <2>1, <2>2 DEF LibraryTyped, Loan
<1>3. claims \in SUBSET Claim
  BY <1>2 DEF Claim
<1>4. due \in Nat /\ renewals \in 0 .. MaxRenewals
  BY <1>1, <1>2, LibraryAssumption DEF LibraryTyped, LibraryAssumption
<1>5. new \in Renewing /\ new.loan = l /\ new.claims = claims
  <2> HIDE DEF claims, due, renewals
  <2>1. QED
    BY <1>2, <1>3, <1>4 DEF Renewing
<1> HIDE DEF new
<1>6. ReqTyped(h)'
  BY <1>1, <1>5 DEF ReqTyped, Calls, IssueCalls, ReturnCalls
<1>7. QED
  BY <1>1, <1>6, LoansLeft DEF LibraryTyped

LEMMA RenewLoanTyped ==
    ASSUME LibraryTyped, NEW h \in Handlers, RenewLoan(h)
    PROVE  LibraryTyped' /\ LoansKept
<1> DEFINE l == req[h].loan
           new == [loan[l] EXCEPT !.due = req[h].due,
                                  !.renewals = req[h].renewals,
                                  !.status = "issued"]
<1>1. /\ pc[h] = "renew" /\ Finish(h) /\ UNCHANGED <<item, today>>
      /\ loan' = [loan EXCEPT ![l].due = req[h].due,
                              ![l].renewals = req[h].renewals,
                              ![l].status = "issued"]
  BY DEF RenewLoan
<1>2. l \in DOMAIN loan /\ req[h].due \in Nat /\ req[h].renewals \in 0 .. MaxRenewals
  BY <1>1 DEF LibraryTyped, ReqTyped, Renewing
<1>3. loan' = [loan EXCEPT ![l] = new]
  BY <1>1, <1>2 DEF LibraryTyped, Loan
<1>4. /\ new \in Loan /\ new.item = loan[l].item
      /\ new.borrower = loan[l].borrower /\ new.renewals <= MaxRenewals
  <2> DEFINE due == req[h].due
             renewals == req[h].renewals
  <2>1. loan[l] \in Loan /\ due \in Nat
    BY <1>2 DEF LibraryTyped
  <2>2. renewals \in Nat /\ renewals <= MaxRenewals
    BY <1>2, LibraryAssumption DEF LibraryAssumption
  <2> HIDE DEF due, renewals, l
  <2>3. new \in Loan
    BY <2>1, <2>2 DEF Loan, Out, due, renewals
  <2>4. /\ new.item = loan[l].item /\ new.borrower = loan[l].borrower
        /\ new.renewals = renewals
    BY <2>1 DEF Loan, due, renewals
  <2>5. QED
    BY <2>2, <2>3, <2>4
<1>5. Moves(h) /\ ReqTyped(h)'
  BY <1>1, IdleTyped DEF Finish
<1> HIDE DEF new, l
<1>6. QED
  BY <1>1, <1>2, <1>3, <1>4, <1>5, LoanWritten

LEMMA BeginSweepTyped ==
    ASSUME LibraryTyped, NEW h \in Handlers, BeginSweep(h)
    PROVE  LibraryTyped'
<1> DEFINE claims == {<<"loan", l>> : l \in PastDue}
           new == [claims |-> claims, todo |-> PastDue]
<1>1. /\ Moves(h) /\ pc'[h] = "sweep" /\ req'[h] = new
      /\ UNCHANGED <<item, loan, today>>
  BY DEF BeginSweep, Begin, LibraryTyped, Moves
<1>2. PastDue \subseteq DOMAIN loan /\ PastDue \in SUBSET Nat
  <2>1. Cardinality(DOMAIN loan) \in Nat
    BY FS_CardinalityType DEF LibraryTyped
  <2>2. DOMAIN loan = 1 .. Cardinality(DOMAIN loan)
    BY DEF LibraryTyped
  <2>3. DOMAIN loan \subseteq Nat
    BY <2>1, <2>2
  <2>4. QED
    BY <2>3 DEF PastDue
<1>3. /\ claims \in SUBSET Claim /\ \A l \in PastDue : <<"loan", l>> \in claims
      /\ \A c \in claims : c \in {"loan"} \X Nat
  BY <1>2 DEF Claim
<1>4. new \in Sweeping /\ new.todo = PastDue /\ new.claims = claims
  <2> HIDE DEF claims
  <2>1. QED
    BY <1>2, <1>3 DEF Sweeping
<1> HIDE DEF new
<1>5. ReqTyped(h)'
  <2> HIDE DEF claims
  <2>1. QED
    BY <1>1, <1>2, <1>3, <1>4 DEF ReqTyped, Calls, IssueCalls, ReturnCalls
<1>6. QED
  BY <1>1, <1>5, LoansLeft DEF LibraryTyped

LEMMA SweepLoanTyped ==
    ASSUME LibraryTyped, NEW h \in Handlers, SweepLoan(h)
    PROVE  /\ LibraryTyped' /\ LoansKept /\ Moves(h)
           /\ req'[h].claims \subseteq req[h].claims
           /\ \/ pc'[h] = "idle" /\ req'[h].claims = {}
              \/ pc'[h] = "sweep" /\ req'[h].todo \subseteq req[h].todo
           /\ \E l \in req[h].todo : loan' = [loan EXCEPT ![l].status = "overdue"]
           /\ disturbed' = disturbed
<1>1. PICK l \in req[h].todo :
        /\ loan' = [loan EXCEPT ![l].status = "overdue"]
        /\ IF req[h].todo = {l} THEN Finish(h) ELSE
             /\ req' = [req EXCEPT ![h].todo = req[h].todo \ {l}]
             /\ UNCHANGED <<pc, disturbed>>
  BY DEF SweepLoan
<1> DEFINE new == [loan[l] EXCEPT !.status = "overdue"]
<1>2. pc[h] = "sweep" /\ UNCHANGED <<item, today>> /\ req[h] \in Sweeping
      /\ l \in DOMAIN loan /\ req[h].todo \subseteq DOMAIN loan
      /\ (\A m \in req[h].todo : <<"loan", m>> \in req[h].claims)
      /\ (\A c \in req[h].claims : c \in {"loan"} \X Nat)
  BY DEF SweepLoan, LibraryTyped, ReqTyped
<1>3. loan' = [loan EXCEPT ![l] = new]
  BY <1>1, <1>2 DEF LibraryTyped
<1>4. /\ new \in Loan /\ new.item = loan[l].item
      /\ new.borrower = loan[l].borrower /\ new.renewals = loan[l].renewals
  BY <1>2 DEF LibraryTyped, Loan, Out
<1>5. /\ Moves(h) /\ ReqTyped(h)' /\ disturbed' = disturbed
      /\ \/ pc'[h] = "idle" /\ req'[h].claims = {}
         \/ /\ pc'[h] = "sweep" /\ req'[h].todo \subseteq req[h].todo
            /\ req'[h].claims = req[h].claims
  <2>1. CASE req[h].todo = {l}
    BY <1>1, <2>1, IdleTyped DEF Finish
  <2>2. CASE req[h].todo # {l}
    <3>1. /\ Moves(h) /\ pc'[h] = "sweep" /\ disturbed' = disturbed
          /\ req'[h] = [req[h] EXCEPT !.todo = req[h].todo \ {l}]
      BY <1>1, <1>2, <2>2 DEF LibraryTyped, Moves
    <3>2. /\ req'[h] \in Sweeping /\ req'[h].todo = req[h].todo \ {l}
          /\ req'[h].claims = req[h].claims
      BY <1>2, <3>1 DEF Sweeping
    <3>3. DOMAIN loan' = DOMAIN loan
      BY <1>1
    <3>4. ReqTyped(h)'
      BY <1>2, <3>1, <3>2, <3>3 DEF ReqTyped, Calls, IssueCalls, ReturnCalls
    <3>5. QED
      BY <3>1, <3>2, <3>4
  <2>3. QED
    BY <2>1, <2>2
<1> HIDE DEF new
<1>6. new.renewals <= MaxRenewals
  BY <1>2, <1>4 DEF LibraryTyped
<1>7. LibraryTyped' /\ LoansKept
  BY <1>2, <1>3, <1>4, <1>5, <1>6, LoanWritten
<1>8. QED
  BY <1>1, <1>5, <1>7

LEMMA AbortTyped ==
    ASSUME LibraryTyped, NEW h \in Handlers, Abort(h)
    PROVE  LibraryTyped'
  BY IdleTyped, LoansLeft DEF Abort, LibraryTyped

LEMMA NextDayTyped ==
    ASSUME LibraryTyped, NextDay \/ UNCHANGED vars
    PROVE  LibraryTyped'
<1>1. UNCHANGED <<item, loan, pc, req>> /\ today' \in Nat
  BY DEF NextDay, vars, LibraryTyped
<1>2. QED
  BY <1>1 DEF LibraryTyped, ReqTyped

LEMMA LibraryTypedInit == Init => LibraryTyped
<1> SUFFICES ASSUME Init PROVE LibraryTyped
  OBVIOUS
<1>1. item \in [Items -> Shelf]
  BY LibraryAssumption DEF Init, LibraryAssumption, Shelf, Labels
<1>2. DOMAIN loan = {}
  BY DEF Init
<1>3. IsFiniteSet(DOMAIN loan) /\ Cardinality(DOMAIN loan) = 0
  BY <1>2, FS_EmptySet
<1>4. \A h \in Handlers : ReqTyped(h)
  BY DEF Init, ReqTyped, Calls, IssueCalls, ReturnCalls
<1>5. QED
  BY <1>1, <1>2, <1>3, <1>4 DEF Init, LibraryTyped

LEMMA LibraryTypedStep == LibraryTyped /\ [Next]_vars => LibraryTyped'
<1> SUFFICES ASSUME LibraryTyped, [Next]_vars PROVE LibraryTyped'
  OBVIOUS
<1>1. ASSUME NEW h \in Handlers, Arrive(h) PROVE LibraryTyped'
  BY <1>1, BeginIssueTyped, BeginReturnTyped, BeginRenewTyped, BeginSweepTyped
     DEF Arrive
<1>2. ASSUME NEW h \in Handlers, Resume(h) PROVE LibraryTyped'
  <2>1. CASE CheckLimit(h) \/ CheckDuplicate(h) \/ Lend(h) \/ TakeFromShelf(h)
    BY <2>1, CheckTyped, LendTyped, TakeTyped
  <2>2. CASE CloseLoan(h) \/ ReadShelf(h) \/ Restock(h)
    BY <2>2, CloseLoanTyped, ReadShelfTyped, RestockTyped
  <2>3. CASE RenewLoan(h) \/ SweepLoan(h)
    BY <2>3, RenewLoanTyped, SweepLoanTyped
  <2>4. QED
    BY <1>2, <2>1, <2>2, <2>3 DEF Resume
<1>3. QED
  BY <1>1, <1>2, AbortTyped, NextDayTyped DEF Next
-----------------------------------------------------------------------------
(* What a request holds, and what of its claims it keeps to itself.        *)

LEMMA HoldsTitle ==
    ASSUME LibraryTyped, NEW h \in Handlers, NEW i, <<"item", i>> \in req[h].claims
    PROVE  /\ pc[h] \in IssueCalls \cup ReturnCalls \cup {"restock"}
           /\ req[h].item = i /\ i \in Items
<1>1. ReqTyped(h)
  BY DEF LibraryTyped
<1>2. CASE pc[h] \in IssueCalls
  BY <1>1, <1>2 DEF ReqTyped, Issuing
<1>3. CASE pc[h] \in ReturnCalls
  BY <1>1, <1>3 DEF ReqTyped, Returning
<1>4. CASE pc[h] = "restock"
  BY <1>1, <1>4 DEF ReqTyped, Restocking
<1>5. CASE pc[h] \in {"idle", "renew", "sweep"}
  BY <1>1, <1>5 DEF ReqTyped, NoRequest
<1>6. QED
  BY <1>1, <1>2, <1>3, <1>4, <1>5 DEF ReqTyped, Calls

LEMMA HoldsBorrower ==
    ASSUME LibraryTyped, NEW h \in Handlers, NEW b,
           <<"borrower", b>> \in req[h].claims
    PROVE  pc[h] \in IssueCalls /\ req[h].borrower = b
<1>1. ReqTyped(h)
  BY DEF LibraryTyped
<1>2. CASE pc[h] \in IssueCalls
  BY <1>1, <1>2 DEF ReqTyped, Issuing
<1>3. CASE pc[h] \in ReturnCalls \cup {"restock"}
  BY <1>1, <1>3 DEF ReqTyped, Returning, Restocking, ReturnCalls
<1>4. CASE pc[h] \in {"idle", "renew", "sweep"}
  BY <1>1, <1>4 DEF ReqTyped, NoRequest
<1>5. QED
  BY <1>1, <1>2, <1>3, <1>4 DEF ReqTyped, Calls

LEMMA LoansAreFinite ==
    ASSUME LibraryTyped, NEW i, NEW b
    PROVE  /\ IsFiniteSet(LoansOf(i)) /\ Cardinality(LoansOf(i)) \in Nat
           /\ IsFiniteSet(OpenLoans(b)) /\ Cardinality(OpenLoans(b)) \in Nat
<1>1. /\ LoansOf(i) \subseteq DOMAIN loan /\ OpenLoans(b) \subseteq DOMAIN loan
      /\ IsFiniteSet(DOMAIN loan)
  BY DEF LoansOf, OpenLoans, LibraryTyped
<1>2. QED
  BY <1>1, FS_Subset, FS_CardinalityType

-----------------------------------------------------------------------------
(* A step that writes no document.                                         *)

LEMMA ReadingStep ==
    ASSUME LibraryTyped, Circulation, NEW h \in Handlers, Moves(h),
           LibraryTyped', UNCHANGED <<item, loan>>, disturbed \subseteq disturbed',
           \A c \in req'[h].claims \ req[h].claims : \A g \in Handlers \ {h} :
             c \in req[g].claims => c \in disturbed',
           StillOut(h)',
           \A i \in Items : Unfought(i)' =>
             /\ <<"item", i>> \in req'[h].claims => KnowsTitle(h)'
             /\ <<"item", i>> \in req[h].claims \ req'[h].claims => Balanced(i, 0),
           \A b \in Borrowers : UnfoughtBy(b)' /\ <<"borrower", b>> \in req'[h].claims =>
             /\ pc'[h] \in {"duplicate", "lend"} =>
                  Cardinality(OpenLoans(b)) < Limit[b]
             /\ pc'[h] = "lend" =>
                  \A l \in OpenLoans(b) : loan[l].item # req'[h].item
    PROVE  Circulation'
<1>1. Sole'
  BY DEF Circulation, Sole, Moves
<1>2. ASSUME NEW g \in Handlers, g # h
      PROVE  pc'[g] = pc[g] /\ req'[g] = req[g]
  BY <1>2 DEF Moves
<1>3. ASSUME NEW g \in Handlers PROVE StillOut(g)'
  <2>1. CASE g = h
    BY <2>1
  <2>2. CASE g # h
    BY <1>2, <2>2 DEF Circulation, StillOut
  <2>3. QED
    BY <2>1, <2>2
<1>4. ASSUME NEW i \in Items PROVE TitleInOrder(i)'
  <2> SUFFICES ASSUME Unfought(i)'
               PROVE  /\ item'[i].label = "issued" <=> item'[i].available = 0
                      /\ (\A g \in Handlers : <<"item", i>> \notin req'[g].claims) =>
                           Balanced(i, 0)'
                      /\ \A g \in Handlers :
                           <<"item", i>> \in req'[g].claims => KnowsTitle(g)'
    BY DEF TitleInOrder
  <2>1. Unfought(i) /\ TitleInOrder(i)
    BY DEF Unfought, Circulation
  <2>2. \A gap : Balanced(i, gap)' = Balanced(i, gap)
    BY DEF Balanced, LoansOf
  <2>3. ASSUME \A g \in Handlers : <<"item", i>> \notin req'[g].claims
        PROVE  Balanced(i, 0)
    <3>1. CASE <<"item", i>> \in req[h].claims
      BY <2>3, <3>1
    <3>2. CASE <<"item", i>> \notin req[h].claims
      <4>1. \A g \in Handlers : <<"item", i>> \notin req[g].claims
        BY <1>2, <2>3, <3>2
      <4>2. QED
        BY <2>1, <4>1 DEF TitleInOrder
    <3>3. QED
      BY <3>1, <3>2
  <2>4. ASSUME NEW g \in Handlers, <<"item", i>> \in req'[g].claims
        PROVE  KnowsTitle(g)'
    <3>1. CASE g = h
      BY <2>4, <3>1
    <3>2. CASE g # h
      <4>1. pc'[g] = pc[g] /\ req'[g] = req[g] /\ KnowsTitle(g)
        BY <1>2, <2>1, <2>4, <3>2 DEF TitleInOrder
      <4>2. QED
        BY <4>1 DEF KnowsTitle, Balanced, LoansOf, Gap
    <3>3. QED
      BY <3>1, <3>2
  <2>5. QED
    BY <2>1, <2>2, <2>3, <2>4 DEF TitleInOrder
<1>5. ASSUME NEW b \in Borrowers PROVE BorrowerInOrder(b)'
  <2> SUFFICES ASSUME UnfoughtBy(b)'
               PROVE  /\ Cardinality(OpenLoans(b)) <= Limit[b]
                      /\ \A l, m \in OpenLoans(b) :
                           loan[l].item = loan[m].item => l = m
                      /\ \A g \in Handlers : <<"borrower", b>> \in req'[g].claims =>
                           /\ pc'[g] \in {"duplicate", "lend"} =>
                                Cardinality(OpenLoans(b)) < Limit[b]
                           /\ pc'[g] = "lend" =>
                                \A l \in OpenLoans(b) : loan[l].item # req'[g].item
    BY DEF BorrowerInOrder, OpenLoans
  <2>1. UnfoughtBy(b) /\ BorrowerInOrder(b)
    BY DEF UnfoughtBy, Circulation
  <2>2. ASSUME NEW g \in Handlers, <<"borrower", b>> \in req'[g].claims
        PROVE  /\ pc'[g] \in {"duplicate", "lend"} =>
                    Cardinality(OpenLoans(b)) < Limit[b]
               /\ pc'[g] = "lend" =>
                    \A l \in OpenLoans(b) : loan[l].item # req'[g].item
    <3>1. CASE g = h
      BY <2>2, <3>1
    <3>2. CASE g # h
      BY <1>2, <2>1, <2>2, <3>2 DEF BorrowerInOrder
    <3>3. QED
      BY <3>1, <3>2
  <2>3. QED
    BY <2>1, <2>2 DEF BorrowerInOrder
<1>6. QED
  BY <1>1, <1>3, <1>4, <1>5 DEF Circulation

-----------------------------------------------------------------------------
(* A step that writes a document.                                          *)

\* Every title but those h holds, and every loan it does not.
OthersLeft(h) ==
    /\ \A l \in DOMAIN loan :
         <<"loan", l>> \notin req[h].claims => loan'[l] = loan[l]
    /\ \A i \in Items : <<"item", i>> \notin req[h].claims =>
         /\ item'[i] = item[i]
         /\ Unfought(i)' => LoansOf(i)' = LoansOf(i)

\* The loans of b are fewer or none, or it is h that lends one more.
BorrowerLeft(h, b) ==
    \/ OpenLoans(b)' \subseteq OpenLoans(b)
    \/ /\ <<"borrower", b>> \in req[h].claims
       /\ Cardinality(OpenLoans(b)') <= Limit[b]
       /\ \A l, m \in OpenLoans(b)' : loan'[l].item = loan'[m].item => l = m

LEMMA WritingStep ==
    ASSUME LibraryTyped, Circulation, NEW h \in Handlers, Moves(h), LibraryTyped',
           disturbed' = disturbed, req'[h].claims \subseteq req[h].claims,
           LoansKept, OthersLeft(h), StillOut(h)',
           pc'[h] \notin {"duplicate", "lend"},
           \A i \in Items : Unfought(i)' /\ <<"item", i>> \in req[h].claims =>
             /\ item'[i].label = "issued" <=> item'[i].available = 0
             /\ <<"item", i>> \in req'[h].claims => KnowsTitle(h)'
             /\ <<"item", i>> \notin req'[h].claims => Balanced(i, 0)',
           \A b \in Borrowers : UnfoughtBy(b)' => BorrowerLeft(h, b)
    PROVE  Circulation'
<1>1. Sole'
  BY DEF Circulation, Sole, Moves
<1>2. ASSUME NEW g \in Handlers, g # h
      PROVE  /\ pc'[g] = pc[g] /\ req'[g] = req[g]
             /\ \A c \in req[g].claims : c \in req[h].claims => c \in disturbed
  BY <1>2 DEF Moves, Circulation, Sole
<1>3. ASSUME NEW g \in Handlers PROVE StillOut(g)'
  <2>1. CASE g = h
    BY <2>1
  <2>2. CASE g # h
    <3>1. ReqTyped(g) /\ StillOut(g)
      BY DEF LibraryTyped, Circulation
    <3>2. ASSUME NEW l \in DOMAIN loan, <<"loan", l>> \in req[g].claims,
                 <<"loan", l>> \notin disturbed
          PROVE  loan'[l] = loan[l]
      BY <1>2, <2>2, <3>2 DEF OthersLeft
    <3>3. CASE pc[g] \in {"close", "renew"}
      BY <1>2, <2>2, <3>1, <3>2, <3>3 DEF StillOut, ReqTyped, ReturnCalls
    <3>4. CASE pc[g] = "sweep"
      BY <1>2, <2>2, <3>1, <3>2, <3>4 DEF StillOut, ReqTyped
    <3>5. QED
      BY <1>2, <2>2, <3>3, <3>4 DEF StillOut
  <2>3. QED
    BY <2>1, <2>2
<1>4. ASSUME NEW i \in Items PROVE TitleInOrder(i)'
  <2> SUFFICES ASSUME Unfought(i)'
               PROVE  /\ item'[i].label = "issued" <=> item'[i].available = 0
                      /\ (\A g \in Handlers : <<"item", i>> \notin req'[g].claims) =>
                           Balanced(i, 0)'
                      /\ \A g \in Handlers :
                           <<"item", i>> \in req'[g].claims => KnowsTitle(g)'
    BY DEF TitleInOrder
  <2>1. Unfought(i) /\ TitleInOrder(i)
    BY DEF Unfought, Circulation, LoansKept
  <2>2. CASE <<"item", i>> \in req[h].claims
    <3>1. \A g \in Handlers : <<"item", i>> \in req'[g].claims => g = h
      BY <1>2, <2>1, <2>2 DEF Unfought
    <3>2. QED
      BY <2>2, <3>1
  <2>3. CASE <<"item", i>> \notin req[h].claims
    <3>1. item'[i] = item[i] /\ LoansOf(i)' = LoansOf(i)
      BY <2>3 DEF OthersLeft
    <3>2. \A gap : Balanced(i, gap)' = Balanced(i, gap)
      BY <3>1 DEF Balanced
    <3>3. ASSUME NEW g \in Handlers, <<"item", i>> \in req'[g].claims
          PROVE  KnowsTitle(g)'
      <4>1. g # h
        BY <2>3, <3>3
      <4>2. /\ pc'[g] = pc[g] /\ req'[g] = req[g] /\ KnowsTitle(g)
            /\ <<"item", i>> \in req[g].claims
        BY <1>2, <2>1, <3>3, <4>1 DEF TitleInOrder
      <4>3. req[g].item = i
        BY <4>2, HoldsTitle
      <4>4. QED
        BY <3>1, <4>2, <4>3 DEF KnowsTitle, Balanced, Gap
    <3>4. ASSUME \A g \in Handlers : <<"item", i>> \notin req'[g].claims
          PROVE  Balanced(i, 0)
      <4>1. \A g \in Handlers : <<"item", i>> \notin req[g].claims
        BY <1>2, <2>3, <3>4
      <4>2. QED
        BY <2>1, <4>1 DEF TitleInOrder
    <3>5. QED
      BY <2>1, <3>1, <3>2, <3>3, <3>4 DEF TitleInOrder
  <2>4. QED
    BY <2>2, <2>3
<1>5. ASSUME NEW b \in Borrowers PROVE BorrowerInOrder(b)'
  <2> SUFFICES ASSUME UnfoughtBy(b)'
               PROVE  /\ Cardinality(OpenLoans(b)') <= Limit[b]
                      /\ \A l, m \in OpenLoans(b)' :
                           loan'[l].item = loan'[m].item => l = m
                      /\ \A g \in Handlers : <<"borrower", b>> \in req'[g].claims =>
                           /\ pc'[g] \in {"duplicate", "lend"} =>
                                Cardinality(OpenLoans(b)') < Limit[b]
                           /\ pc'[g] = "lend" =>
                                \A l \in OpenLoans(b)' :
                                  loan'[l].item # req'[g].item
    BY DEF BorrowerInOrder
  <2>1. UnfoughtBy(b) /\ BorrowerInOrder(b)
    BY DEF UnfoughtBy, Circulation, LoansKept
  <2>2. CASE OpenLoans(b)' \subseteq OpenLoans(b)
    <3>1. /\ Cardinality(OpenLoans(b)') <= Cardinality(OpenLoans(b))
          /\ Cardinality(OpenLoans(b)') \in Nat /\ Cardinality(OpenLoans(b)) \in Nat
          /\ Limit[b] \in Nat
      BY <2>2, LoansAreFinite, FS_Subset, FS_CardinalityType, LibraryAssumption
         DEF LibraryAssumption
    <3>2. \A l \in OpenLoans(b)' : l \in OpenLoans(b) /\ loan'[l].item = loan[l].item
      BY <2>2 DEF OpenLoans, LoansKept
    <3>3. ASSUME NEW g \in Handlers, <<"borrower", b>> \in req'[g].claims, g # h
          PROVE  /\ pc'[g] = pc[g] /\ req'[g] = req[g]
                 /\ <<"borrower", b>> \in req[g].claims
      BY <1>2, <3>3
    <3> DEFINE now == Cardinality(OpenLoans(b)')
               before == Cardinality(OpenLoans(b))
    <3>4. /\ before <= Limit[b]
          /\ \A g \in Handlers :
               <<"borrower", b>> \in req'[g].claims
                 /\ pc'[g] \in {"duplicate", "lend"} => before < Limit[b]
      BY <2>1, <3>3 DEF BorrowerInOrder
    <3>5. /\ now <= Limit[b]
          /\ \A g \in Handlers :
               <<"borrower", b>> \in req'[g].claims
                 /\ pc'[g] \in {"duplicate", "lend"} => now < Limit[b]
      <4>1. now <= before /\ now \in Nat /\ before \in Nat
        BY <3>1
      <4> HIDE DEF now, before
      <4>2. QED
        BY <3>1, <3>4, <4>1
    <3>6. /\ \A l, m \in OpenLoans(b)' : loan'[l].item = loan'[m].item => l = m
          /\ \A g \in Handlers :
               <<"borrower", b>> \in req'[g].claims /\ pc'[g] = "lend" =>
                 \A l \in OpenLoans(b)' : loan'[l].item # req'[g].item
      BY <2>1, <3>2, <3>3 DEF BorrowerInOrder
    <3>7. QED
      BY <3>5, <3>6
  <2>3. CASE ~(OpenLoans(b)' \subseteq OpenLoans(b))
    <3>1. BorrowerLeft(h, b)
      OBVIOUS
    <3>2. <<"borrower", b>> \in req[h].claims
      BY <2>3, <3>1 DEF BorrowerLeft
    <3>3. \A g \in Handlers : <<"borrower", b>> \in req'[g].claims => g = h
      BY <1>2, <2>1, <3>2 DEF UnfoughtBy
    <3>4. QED
      BY <2>3, <3>1, <3>3 DEF BorrowerLeft
  <2>4. QED
    BY <2>2, <2>3
<1>6. QED
  BY <1>1, <1>3, <1>4, <1>5 DEF Circulation
-----------------------------------------------------------------------------
(* The steps that write no document, one by one.                           *)

LEMMA BeginIssueKeeps ==
    ASSUME LibraryTyped, Circulation, LibraryTyped', NEW h \in Handlers,
           NEW i \in Items, NEW b \in Borrowers, BeginIssue(h, i, b)
    PROVE  Circulation'
<1> DEFINE claims == {<<"item", i>>, <<"borrower", b>>}
<1>1. /\ Moves(h) /\ pc[h] = "idle" /\ pc'[h] = "limit"
      /\ req'[h] = [claims |-> claims, todo |-> {}, item |-> i, borrower |-> b,
                    available |-> item[i].available, label |-> item[i].label]
      /\ UNCHANGED <<item, loan>>
      /\ disturbed' = disturbed \cup
           {c \in claims : \E g \in Handlers : c \in req[g].claims}
  BY DEF BeginIssue, Begin, Idle, LibraryTyped, Moves
<1>2. req[h].claims = {}
  BY <1>1 DEF LibraryTyped, ReqTyped, NoRequest
<1>3. /\ req'[h].claims = claims /\ req'[h].item = i
      /\ req'[h].available = item[i].available /\ req'[h].label = item[i].label
  BY <1>1
<1>4. \A c \in claims : \A g \in Handlers : c \in req[g].claims => c \in disturbed'
  BY <1>1
<1>5. StillOut(h)'
  BY <1>1 DEF StillOut
<1>6. ASSUME NEW j \in Items, Unfought(j)', <<"item", j>> \in claims
      PROVE  KnowsTitle(h)'
  <2>1. j = i /\ Unfought(i) /\ TitleInOrder(i)
    BY <1>1, <1>6 DEF Unfought, Circulation
  <2>2. \A g \in Handlers : <<"item", i>> \notin req[g].claims
    BY <1>4, <1>6, <2>1 DEF Unfought
  <2>3. Balanced(i, 0)
    BY <2>1, <2>2 DEF TitleInOrder
  <2>4. QED
    BY <1>1, <1>3, <2>3 DEF KnowsTitle, Balanced, LoansOf, Gap
<1>7. QED
  BY <1>1, <1>2, <1>3, <1>4, <1>5, <1>6, ReadingStep

\* A request that goes on to its next call with what it holds.
LEMMA GoesOn ==
    ASSUME LibraryTyped, Circulation, LibraryTyped', NEW h \in Handlers, Moves(h),
           UNCHANGED <<item, loan, disturbed>>, req'[h] = req[h],
           pc[h] \in IssueCalls, pc'[h] \in IssueCalls, pc[h] # "take",
           pc'[h] # "take",
           LET b == req[h].borrower IN UnfoughtBy(b) =>
             /\ pc'[h] \in {"duplicate", "lend"} =>
                  Cardinality(OpenLoans(b)) < Limit[b]
             /\ pc'[h] = "lend" =>
                  \A l \in OpenLoans(b) : loan[l].item # req[h].item
    PROVE  Circulation'
<1>1. StillOut(h)'
  BY DEF StillOut, IssueCalls
<1>2. ASSUME NEW i \in Items, Unfought(i)', <<"item", i>> \in req'[h].claims
      PROVE  KnowsTitle(h)'
  <2>1. KnowsTitle(h)
    BY <1>2 DEF Circulation, TitleInOrder, Unfought
  <2>2. QED
    BY <2>1 DEF KnowsTitle, Balanced, LoansOf, Gap, IssueCalls
<1>3. \A b \in Borrowers :
        /\ <<"borrower", b>> \in req[h].claims => b = req[h].borrower
        /\ UnfoughtBy(b)' => UnfoughtBy(b)
  BY HoldsBorrower DEF UnfoughtBy
<1>4. QED
  BY <1>1, <1>2, <1>3, ReadingStep

\* A request that ends, having changed nothing.
LEMMA GivesUp ==
    ASSUME LibraryTyped, Circulation, LibraryTyped', NEW h \in Handlers, Moves(h),
           UNCHANGED <<item, loan>>, disturbed \subseteq disturbed',
           pc'[h] = "idle", req'[h] = NoRequest,
           pc[h] \in {"take", "shelf", "restock"} =>
             req[h].claims \subseteq disturbed'
    PROVE  Circulation'
<1>1. req'[h].claims = {}
  BY DEF NoRequest
<1>2. StillOut(h)'
  BY DEF StillOut
<1>3. ASSUME NEW i \in Items, Unfought(i)', <<"item", i>> \in req[h].claims
      PROVE  Balanced(i, 0)
  <2>1. Unfought(i) /\ <<"item", i>> \notin disturbed'
    BY <1>3 DEF Unfought
  <2>2. KnowsTitle(h) /\ req[h].item = i
    BY <1>3, <2>1, HoldsTitle DEF Circulation, TitleInOrder
  <2>3. Gap(h) = 0
    BY <1>3, <2>1 DEF Gap
  <2>4. QED
    BY <2>2, <2>3 DEF KnowsTitle
<1>4. QED
  BY <1>1, <1>2, <1>3, ReadingStep

LEMMA CheckLimitKeeps ==
    ASSUME LibraryTyped, Circulation, LibraryTyped', NEW h \in Handlers,
           CheckLimit(h)
    PROVE  Circulation'
<1>1. pc[h] = "limit" /\ UNCHANGED <<item, loan>>
  BY DEF CheckLimit
<1>2. CASE WithinLimit(req[h].borrower)
  <2>1. Goto(h, "duplicate")
    BY <1>2 DEF CheckLimit
  <2>2. Moves(h) /\ pc'[h] = "duplicate" /\ req'[h] = req[h] /\ disturbed' = disturbed
    BY <2>1, GotoTyped DEF Goto
  <2>3. QED
    BY <1>1, <1>2, <2>2, GoesOn DEF WithinLimit, IssueCalls
<1>3. CASE ~WithinLimit(req[h].borrower)
  <2>1. Finish(h)
    BY <1>3 DEF CheckLimit
  <2>2. /\ Moves(h) /\ pc'[h] = "idle" /\ req'[h] = NoRequest
        /\ disturbed' = disturbed
    BY <2>1, IdleTyped DEF Finish
  <2>3. QED
    BY <1>1, <2>2, GivesUp
<1>4. QED
  BY <1>2, <1>3

LEMMA CheckDuplicateKeeps ==
    ASSUME LibraryTyped, Circulation, LibraryTyped', NEW h \in Handlers,
           CheckDuplicate(h)
    PROVE  Circulation'
<1> DEFINE has == \E l \in OpenLoans(req[h].borrower) : loan[l].item = req[h].item
<1>1. pc[h] = "duplicate" /\ UNCHANGED <<item, loan>>
  BY DEF CheckDuplicate
<1>2. CASE ~has
  <2>1. Goto(h, "lend")
    BY <1>2 DEF CheckDuplicate
  <2>2. Moves(h) /\ pc'[h] = "lend" /\ req'[h] = req[h] /\ disturbed' = disturbed
    BY <2>1, GotoTyped DEF Goto
  <2>3. /\ req[h].borrower \in Borrowers
        /\ <<"borrower", req[h].borrower>> \in req[h].claims
    BY <1>1 DEF LibraryTyped, ReqTyped, IssueCalls, Issuing
  <2>4. UnfoughtBy(req[h].borrower) =>
          Cardinality(OpenLoans(req[h].borrower)) < Limit[req[h].borrower]
    BY <1>1, <2>3 DEF Circulation, BorrowerInOrder
  <2>5. QED
    BY <1>1, <1>2, <2>2, <2>4, GoesOn DEF IssueCalls
<1>3. CASE has
  <2>1. Finish(h)
    BY <1>3 DEF CheckDuplicate
  <2>2. /\ Moves(h) /\ pc'[h] = "idle" /\ req'[h] = NoRequest
        /\ disturbed' = disturbed
    BY <2>1, IdleTyped DEF Finish
  <2>3. QED
    BY <1>1, <2>2, GivesUp
<1>4. QED
  BY <1>2, <1>3

LEMMA AbortKeeps ==
    ASSUME LibraryTyped, Circulation, LibraryTyped', NEW h \in Handlers, Abort(h)
    PROVE  Circulation'
<1>1. /\ Moves(h) /\ pc'[h] = "idle" /\ req'[h] = NoRequest
      /\ UNCHANGED <<item, loan>>
  BY IdleTyped DEF Abort
<1>2. /\ disturbed \subseteq disturbed'
      /\ pc[h] \in {"take", "shelf", "restock"} =>
           req[h].claims \subseteq disturbed'
  BY DEF Abort
<1>3. QED
  BY <1>1, <1>2, GivesUp

LEMMA BeginReturnKeeps ==
    ASSUME LibraryTyped, Circulation, LibraryTyped', NEW h \in Handlers,
           NEW l \in DOMAIN loan, NEW condition \in {"good", "damaged", "lost"},
           BeginReturn(h, l, condition)
    PROVE  Circulation'
<1> DEFINE i == loan[l].item
           claims == {<<"loan", l>>, <<"item", i>>}
<1>1. /\ Moves(h) /\ pc[h] = "idle" /\ pc'[h] = "close"
      /\ req'[h] = [claims |-> claims, todo |-> {}, loan |-> l, item |-> i,
                    condition |-> condition]
      /\ UNCHANGED <<item, loan>> /\ loan[l].status # "returned"
      /\ disturbed' = disturbed \cup
           {c \in claims : \/ loan[l].status = "lost"
                           \/ \E g \in Handlers : c \in req[g].claims}
  BY DEF BeginReturn, Idle, LibraryTyped, Moves, Returnable
<1>2. req[h].claims = {}
  BY <1>1 DEF LibraryTyped, ReqTyped, NoRequest
<1>3. req'[h].claims = claims /\ req'[h].item = i /\ req'[h].loan = l
  BY <1>1
<1>4. /\ disturbed \subseteq disturbed'
      /\ \A c \in claims : \A g \in Handlers : c \in req[g].claims => c \in disturbed'
      /\ <<"loan", l>> \notin disturbed' => loan[l].status # "lost"
  BY <1>1
<1>5. StillOut(h)'
  <2>1. loan[l].status \in Out \cup {"returned", "lost"}
    BY DEF LibraryTyped, Loan
  <2>2. QED
    BY <1>1, <1>3, <1>4, <2>1 DEF StillOut
<1>6. ASSUME NEW j \in Items, Unfought(j)', <<"item", j>> \in claims
      PROVE  KnowsTitle(h)'
  <2>1. j = i /\ Unfought(i) /\ TitleInOrder(i)
    BY <1>1, <1>6 DEF Unfought, Circulation
  <2>2. \A g \in Handlers : <<"item", i>> \notin req[g].claims
    BY <1>4, <1>6, <2>1 DEF Unfought
  <2>3. Balanced(i, 0)
    BY <2>1, <2>2 DEF TitleInOrder
  <2>4. QED
    BY <1>1, <1>3, <2>3 DEF KnowsTitle, Balanced, LoansOf, Gap, IssueCalls
<1>7. QED
  BY <1>1, <1>2, <1>3, <1>4, <1>5, <1>6, ReadingStep

LEMMA ReadShelfKeeps ==
    ASSUME LibraryTyped, Circulation, LibraryTyped', NEW h \in Handlers,
           ReadShelf(h)
    PROVE  Circulation'
<1>1. /\ pc[h] = "shelf" /\ Moves(h) /\ pc'[h] = "restock"
      /\ req'[h] = [claims |-> req[h].claims, todo |-> {}, item |-> req[h].item,
                    condition |-> req[h].condition, doc |-> item[req[h].item]]
      /\ UNCHANGED <<item, loan, disturbed>>
  BY DEF ReadShelf, LibraryTyped, Moves
<1>2. /\ req'[h].claims = req[h].claims /\ req'[h].item = req[h].item
      /\ req'[h].doc = item[req[h].item]
  BY <1>1
<1>3. StillOut(h)'
  BY <1>1 DEF StillOut
<1>4. ASSUME NEW i \in Items, Unfought(i)', <<"item", i>> \in req[h].claims
      PROVE  KnowsTitle(h)'
  <2>1. KnowsTitle(h)
    BY <1>1, <1>4 DEF Circulation, TitleInOrder, Unfought
  <2>2. QED
    BY <1>1, <1>2, <2>1 DEF KnowsTitle, Balanced, LoansOf, Gap, IssueCalls
<1>5. QED
  BY <1>1, <1>2, <1>3, <1>4, ReadingStep

\* A request that lays hands on open loans only.
LEMMA TakesLoans ==
    ASSUME LibraryTyped, Circulation, LibraryTyped', NEW h \in Handlers, Moves(h),
           UNCHANGED <<item, loan>>, disturbed \subseteq disturbed',
           req[h].claims = {}, \A c \in req'[h].claims : c \in {"loan"} \X Nat,
           \A c \in req'[h].claims : \A g \in Handlers :
             c \in req[g].claims => c \in disturbed',
           StillOut(h)'
    PROVE  Circulation'
<1>1. \A i, b : /\ <<"item", i>> \notin req'[h].claims
                /\ <<"borrower", b>> \notin req'[h].claims
  OBVIOUS
<1>2. QED
  BY <1>1, ReadingStep

LEMMA BeginRenewKeeps ==
    ASSUME LibraryTyped, Circulation, LibraryTyped', NEW h \in Handlers,
           NEW l \in DOMAIN loan, BeginRenew(h, l)
    PROVE  Circulation'
<1> DEFINE claims == {<<"loan", l>>}
<1>1. /\ Moves(h) /\ pc[h] = "idle" /\ pc'[h] = "renew"
      /\ req'[h] = [claims |-> claims, todo |-> {}, loan |-> l,
                    due |-> today + LoanDays, renewals |-> loan[l].renewals + 1]
      /\ UNCHANGED <<item, loan>> /\ loan[l].status \in Out
      /\ disturbed' = disturbed \cup
           {c \in claims : \E g \in Handlers : c \in req[g].claims}
  BY DEF BeginRenew, Begin, Idle, LibraryTyped, Moves, Renewable
<1>2. req[h].claims = {}
  BY <1>1 DEF LibraryTyped, ReqTyped, NoRequest
<1>3. req'[h].claims = claims /\ req'[h].loan = l
  BY <1>1
<1>4. StillOut(h)'
  BY <1>1, <1>3 DEF StillOut
<1>5. \A c \in claims : c \in {"loan"} \X Nat
  BY FS_CardinalityType DEF LibraryTyped
<1>6. \A c \in claims : \A g \in Handlers : c \in req[g].claims => c \in disturbed'
  BY <1>1
<1>7. QED
  BY <1>1, <1>2, <1>3, <1>4, <1>5, <1>6, TakesLoans

LEMMA BeginSweepKeeps ==
    ASSUME LibraryTyped, Circulation, LibraryTyped', NEW h \in Handlers,
           BeginSweep(h)
    PROVE  Circulation'
<1> DEFINE claims == {<<"loan", l>> : l \in PastDue}
<1>1. /\ Moves(h) /\ pc[h] = "idle" /\ pc'[h] = "sweep"
      /\ req'[h] = [claims |-> claims, todo |-> PastDue]
      /\ UNCHANGED <<item, loan>>
      /\ disturbed' = disturbed \cup
           {c \in claims : \E g \in Handlers : c \in req[g].claims}
  BY DEF BeginSweep, Begin, Idle, LibraryTyped, Moves
<1>2. req[h].claims = {}
  BY <1>1 DEF LibraryTyped, ReqTyped, NoRequest
<1>3. req'[h].claims = claims /\ req'[h].todo = PastDue
  BY <1>1
<1>4. StillOut(h)'
  BY <1>1, <1>3 DEF StillOut, PastDue, Out
<1>5. \A c \in claims : c \in {"loan"} \X Nat
  BY FS_CardinalityType DEF LibraryTyped, PastDue
<1>6. \A c \in claims : \A g \in Handlers : c \in req[g].claims => c \in disturbed'
  BY <1>1
<1> HIDE DEF claims
<1>7. QED
  BY <1>1, <1>2, <1>3, <1>4, <1>5, <1>6, TakesLoans
-----------------------------------------------------------------------------
(* The steps that write one.                                               *)

\* A step that leaves an open loan open leaves every count of loans.
LEMMA StaysOut ==
    ASSUME LibraryTyped, NEW l \in DOMAIN loan, NEW new,
           loan' = [loan EXCEPT ![l] = new], new.item = loan[l].item,
           new.borrower = loan[l].borrower, new.status \in Out,
           disturbed' = disturbed,
           <<"loan", l>> \notin disturbed => loan[l].status \in Out
    PROVE  /\ \A i \in Items : Unfought(i)' => LoansOf(i)' = LoansOf(i)
           /\ \A b \in Borrowers : UnfoughtBy(b)' => OpenLoans(b)' \subseteq OpenLoans(b)
<1>1. /\ DOMAIN loan' = DOMAIN loan /\ loan'[l] = new
      /\ \A m \in DOMAIN loan : m # l => loan'[m] = loan[m]
  BY DEF LibraryTyped
<1>2. ASSUME NEW i \in Items, Unfought(i)' PROVE LoansOf(i)' = LoansOf(i)
  <2>1. loan[l].item = i => loan[l].status \in Out
    BY <1>1, <1>2 DEF Unfought
  <2>2. \A m \in DOMAIN loan :
          (loan'[m].item = i /\ loan'[m].status \in Out)
            <=> (loan[m].item = i /\ loan[m].status \in Out)
    BY <1>1, <2>1
  <2>3. QED
    BY <1>1, <2>2 DEF LoansOf
<1>3. ASSUME NEW b \in Borrowers, UnfoughtBy(b)'
      PROVE  OpenLoans(b)' \subseteq OpenLoans(b)
  <2>1. loan[l].borrower = b => loan[l].status \in Out
    BY <1>1, <1>3 DEF UnfoughtBy
  <2>2. \A m \in DOMAIN loan :
          (loan'[m].borrower = b /\ loan'[m].status \in Out)
            => (loan[m].borrower = b /\ loan[m].status \in Out)
    BY <1>1, <2>1
  <2>3. QED
    BY <1>1, <2>2 DEF OpenLoans
<1>4. QED
  BY <1>2, <1>3

LEMMA RenewLoanKeeps ==
    ASSUME LibraryTyped, Circulation, LibraryTyped', NEW h \in Handlers,
           RenewLoan(h)
    PROVE  Circulation'
<1> DEFINE l == req[h].loan
           new == [loan[l] EXCEPT !.due = req[h].due,
                                  !.renewals = req[h].renewals,
                                  !.status = "issued"]
<1>1. /\ pc[h] = "renew" /\ Finish(h) /\ item' = item /\ disturbed' = disturbed
      /\ loan' = [loan EXCEPT ![l].due = req[h].due,
                              ![l].renewals = req[h].renewals,
                              ![l].status = "issued"]
  BY DEF RenewLoan, Finish
<1>2. /\ Moves(h) /\ LoansKept /\ pc'[h] = "idle" /\ req'[h].claims = {}
  BY <1>1, IdleTyped, RenewLoanTyped DEF Finish
<1>3. l \in DOMAIN loan /\ loan[l] \in Loan /\ req[h].claims = {<<"loan", l>>}
  BY <1>1 DEF LibraryTyped, ReqTyped
<1>4. loan' = [loan EXCEPT ![l] = new]
  BY <1>1, <1>3 DEF LibraryTyped, Loan
<1>5. /\ new.item = loan[l].item /\ new.borrower = loan[l].borrower
      /\ new.status \in Out
  BY <1>3 DEF Loan, Out
<1>6. <<"loan", l>> \notin disturbed => loan[l].status \in Out
  BY <1>1 DEF Circulation, StillOut
<1> HIDE DEF new, l
<1>7. /\ \A i \in Items : Unfought(i)' => LoansOf(i)' = LoansOf(i)
      /\ \A b \in Borrowers : UnfoughtBy(b)' => OpenLoans(b)' \subseteq OpenLoans(b)
  BY <1>1, <1>3, <1>4, <1>5, <1>6, StaysOut
<1>8. OthersLeft(h) /\ \A i : <<"item", i>> \notin req[h].claims
  BY <1>1, <1>3, <1>4, <1>7 DEF OthersLeft
<1>9. StillOut(h)'
  BY <1>2 DEF StillOut
<1>10. QED
  BY <1>1, <1>2, <1>7, <1>8, <1>9, WritingStep DEF BorrowerLeft

LEMMA SweepLoanKeeps ==
    ASSUME LibraryTyped, Circulation, LibraryTyped', NEW h \in Handlers,
           SweepLoan(h)
    PROVE  Circulation'
<1>1. /\ LoansKept /\ Moves(h) /\ req'[h].claims \subseteq req[h].claims
      /\ \/ pc'[h] = "idle" /\ req'[h].claims = {}
         \/ pc'[h] = "sweep" /\ req'[h].todo \subseteq req[h].todo
      /\ disturbed' = disturbed
  BY SweepLoanTyped
<1>2. PICK l \in req[h].todo : loan' = [loan EXCEPT ![l].status = "overdue"]
  BY SweepLoanTyped
<1>3. /\ pc[h] = "sweep" /\ item' = item
      /\ req[h].todo \subseteq DOMAIN loan
      /\ (\A m \in req[h].todo : <<"loan", m>> \in req[h].claims)
      /\ (\A c \in req[h].claims : c \in {"loan"} \X Nat)
  BY DEF SweepLoan, LibraryTyped, ReqTyped
<1> DEFINE new == [loan[l] EXCEPT !.status = "overdue"]
<1>4. l \in DOMAIN loan /\ loan[l] \in Loan /\ <<"loan", l>> \in req[h].claims
  BY <1>3 DEF LibraryTyped
<1>5. loan' = [loan EXCEPT ![l] = new]
  BY <1>2, <1>4
<1>6. /\ new.item = loan[l].item /\ new.borrower = loan[l].borrower
      /\ new.status \in Out
  BY <1>4 DEF Loan, Out
<1>7. \A m \in req[h].todo : <<"loan", m>> \notin disturbed => loan[m].status \in Out
  BY <1>3 DEF Circulation, StillOut
<1> HIDE DEF new
<1>8. /\ \A i \in Items : Unfought(i)' => LoansOf(i)' = LoansOf(i)
      /\ \A b \in Borrowers : UnfoughtBy(b)' => OpenLoans(b)' \subseteq OpenLoans(b)
  BY <1>1, <1>4, <1>5, <1>6, <1>7, StaysOut
<1>9. OthersLeft(h) /\ \A i : <<"item", i>> \notin req[h].claims
  BY <1>3, <1>4, <1>5, <1>8 DEF OthersLeft
<1>10. StillOut(h)'
  <2>1. \A m \in req[h].todo : <<"loan", m>> \notin disturbed => loan'[m].status \in Out
    BY <1>3, <1>4, <1>5, <1>6, <1>7
  <2>2. QED
    BY <1>1, <2>1 DEF StillOut
<1>11. pc'[h] \notin {"duplicate", "lend"}
  BY <1>1
<1>12. QED
  BY <1>1, <1>8, <1>9, <1>10, <1>11, WritingStep DEF BorrowerLeft

LEMMA CloseLoanKeeps ==
    ASSUME LibraryTyped, Circulation, LibraryTyped', NEW h \in Handlers,
           CloseLoan(h)
    PROVE  Circulation'
<1> DEFINE l == req[h].loan
           i == req[h].item
           status == IF req[h].condition = "lost" THEN "lost" ELSE "returned"
<1>1. /\ pc[h] = "close" /\ Goto(h, "shelf") /\ item' = item
      /\ disturbed' = disturbed
      /\ loan' = [loan EXCEPT ![l].status = status]
  BY DEF CloseLoan, Goto
<1>2. /\ Moves(h) /\ LoansKept /\ pc'[h] = "shelf" /\ req'[h] = req[h]
  BY <1>1, GotoTyped, CloseLoanTyped
<1>3. /\ l \in DOMAIN loan /\ loan[l] \in Loan /\ loan[l].item = i /\ i \in Items
      /\ req[h].claims = {<<"loan", l>>, <<"item", i>>}
  BY <1>1 DEF LibraryTyped, ReqTyped, ReturnCalls, Returning
<1>4. status \notin Out
  BY DEF Out
<1> HIDE DEF status
<1>5. /\ DOMAIN loan' = DOMAIN loan /\ loan'[l].status = status
      /\ loan'[l].item = i /\ loan'[l].borrower = loan[l].borrower
      /\ \A m \in DOMAIN loan : m # l => loan'[m] = loan[m]
  BY <1>1, <1>3 DEF Loan
<1> HIDE DEF l, i
<1>6. OthersLeft(h)
  <2>1. ASSUME NEW j \in Items, j # i PROVE LoansOf(j)' = LoansOf(j)
    BY <1>3, <1>5, <2>1 DEF LoansOf
  <2>2. QED
    BY <1>1, <1>3, <1>5, <2>1 DEF OthersLeft
<1>7. StillOut(h)'
  BY <1>2 DEF StillOut
<1>8. ASSUME NEW j \in Items, Unfought(j)', <<"item", j>> \in req[h].claims
      PROVE  /\ item'[j].label = "issued" <=> item'[j].available = 0
             /\ KnowsTitle(h)'
  <2>1. j = i /\ Unfought(i) /\ <<"loan", l>> \notin disturbed
    BY <1>1, <1>3, <1>5, <1>8 DEF Unfought
  <2>2. loan[l].status \in Out
    BY <1>1, <2>1 DEF Circulation, StillOut, l
  <2>3. l \in LoansOf(j) /\ LoansOf(j)' = LoansOf(j) \ {l}
    BY <1>3, <1>4, <1>5, <2>1, <2>2 DEF LoansOf
  <2>4. Cardinality(LoansOf(j) \ {l}) = Cardinality(LoansOf(j)) - 1
    BY <2>3, LoansAreFinite, FS_RemoveElement
  <2>5. TitleInOrder(j) /\ KnowsTitle(h) /\ req[h].item = j
    BY <1>3, <2>1 DEF Circulation, TitleInOrder, i
  <2>6. Balanced(j, 0)
    BY <1>1, <2>5 DEF KnowsTitle, Gap
  <2>7. Balanced(j, -1)'
    <3> DEFINE c == Cardinality(LoansOf(j))
    <3>1. /\ c \in Nat /\ Cardinality(LoansOf(j)') = c - 1
          /\ item[j].available \in Nat /\ item[j].total \in Nat
      BY <1>3, <2>3, <2>4, LoansAreFinite DEF LibraryTyped, Shelf
    <3>2. item[j].available + c = item[j].total + 0
      BY <2>6 DEF Balanced
    <3> HIDE DEF c
    <3>3. item[j].available + Cardinality(LoansOf(j)') = item[j].total + (-1)
      BY <3>1, <3>2
    <3>4. QED
      BY <1>1, <3>3 DEF Balanced
  <2>8. KnowsTitle(h)'
    BY <1>2, <2>5, <2>7 DEF KnowsTitle, Gap, IssueCalls
  <2>9. QED
    BY <1>1, <2>1, <2>5, <2>8 DEF TitleInOrder
<1>9. \A b \in Borrowers : OpenLoans(b)' \subseteq OpenLoans(b)
  BY <1>3, <1>4, <1>5 DEF OpenLoans
<1>10. QED
  BY <1>1, <1>2, <1>6, <1>7, <1>8, <1>9, WritingStep DEF BorrowerLeft

LEMMA TakeKeeps ==
    ASSUME LibraryTyped, Circulation, LibraryTyped', NEW h \in Handlers,
           TakeFromShelf(h)
    PROVE  Circulation'
<1> DEFINE i == req[h].item
           remaining == req[h].available - 1
           label == IF remaining <= 0 THEN "issued" ELSE req[h].label
<1>1. /\ pc[h] = "take" /\ Finish(h) /\ loan' = loan /\ disturbed' = disturbed
      /\ item' = [item EXCEPT ![i].available = remaining, ![i].label = label]
  BY DEF TakeFromShelf, Finish
<1>2. Moves(h) /\ pc'[h] = "idle" /\ req'[h].claims = {}
  BY <1>1, IdleTyped DEF Finish
<1>3. /\ i \in Items /\ item[i] \in Shelf /\ req[h].available \in Nat \ {0}
      /\ <<"item", i>> \in req[h].claims
      /\ \A j : <<"item", j>> \in req[h].claims => j = i
  BY <1>1 DEF LibraryTyped, ReqTyped, IssueCalls, Issuing
<1> HIDE DEF label
<1>4. /\ item'[i].available = remaining /\ item'[i].label = label
      /\ item'[i].total = item[i].total
      /\ \A j \in Items : j # i => item'[j] = item[j]
  BY <1>1, <1>3 DEF LibraryTyped, Shelf
<1>5. LoansKept /\ StillOut(h)' /\ \A j : LoansOf(j)' = LoansOf(j)
  BY <1>1, <1>2 DEF LoansKept, StillOut, LoansOf
<1>6. OthersLeft(h)
  BY <1>1, <1>3, <1>4, <1>5 DEF OthersLeft
<1>7. ASSUME NEW j \in Items, Unfought(j)', <<"item", j>> \in req[h].claims
      PROVE  /\ item'[j].label = "issued" <=> item'[j].available = 0
             /\ Balanced(j, 0)'
  <2>1. j = i /\ Unfought(i)
    BY <1>1, <1>3, <1>7 DEF Unfought
  <2>2. TitleInOrder(j) /\ KnowsTitle(h)
    BY <1>3, <2>1 DEF Circulation, TitleInOrder
  <2>3. /\ req[h].available = item[j].available /\ req[h].label = item[j].label
        /\ Balanced(j, 1)
    BY <1>1, <2>1, <2>2 DEF KnowsTitle, IssueCalls, Gap
  <2>4. item[j].label # "issued"
    BY <1>3, <2>1, <2>2, <2>3 DEF TitleInOrder
  <2>5. label = "issued" <=> remaining = 0
    BY <1>3, <2>3, <2>4 DEF label
  <2>6. Balanced(j, 0)'
    <3> DEFINE c == Cardinality(LoansOf(j))
               a == item[j].available
               t == item[j].total
    <3>1. c \in Nat /\ a \in Nat /\ t \in Nat
      BY <1>3, <2>1, LoansAreFinite DEF Shelf
    <3>2. a + c = t + 1
      BY <2>3 DEF Balanced
    <3>3. remaining = a - 1
      BY <2>3
    <3> HIDE DEF c, a, t, remaining
    <3>4. remaining + c = t + 0
      BY <3>1, <3>2, <3>3
    <3>5. QED
      BY <1>4, <1>5, <2>1, <3>4 DEF Balanced, c, t
  <2>7. QED
    BY <1>4, <2>1, <2>5, <2>6
<1>8. \A b \in Borrowers : OpenLoans(b)' \subseteq OpenLoans(b)
  BY <1>1 DEF OpenLoans
<1> HIDE DEF i, remaining
<1>9. QED
  BY <1>1, <1>2, <1>5, <1>6, <1>7, <1>8, WritingStep DEF BorrowerLeft

LEMMA RestockKeeps ==
    ASSUME LibraryTyped, Circulation, LibraryTyped', NEW h \in Handlers,
           Restock(h)
    PROVE  Circulation'
<1> DEFINE i == req[h].item
           doc == req[h].doc
           new == Restocked(doc, req[h].condition)
<1>1. /\ pc[h] = "restock" /\ Finish(h) /\ loan' = loan /\ disturbed' = disturbed
      /\ item' = IF new.total # doc.total THEN [item EXCEPT ![i].total = new.total]
                 ELSE IF req[h].condition = "lost" THEN item
                 ELSE [item EXCEPT ![i].available = new.available,
                                   ![i].label = new.label]
  BY DEF Restock, Finish
<1>2. Moves(h) /\ pc'[h] = "idle" /\ req'[h].claims = {}
  BY <1>1, IdleTyped DEF Finish
<1>3. /\ i \in Items /\ item[i] \in Shelf /\ doc \in Shelf
      /\ <<"item", i>> \in req[h].claims
      /\ \A j : <<"item", j>> \in req[h].claims => j = i
  BY <1>1, HoldsTitle DEF LibraryTyped, ReqTyped, Restocking
<1>4. \A j \in Items : j # i => item'[j] = item[j]
  <2> HIDE DEF i, doc, new
  <2>1. QED
    BY <1>1, <1>3 DEF LibraryTyped
<1>5. LoansKept /\ StillOut(h)' /\ \A j : LoansOf(j)' = LoansOf(j)
  BY <1>1, <1>2 DEF LoansKept, StillOut, LoansOf
<1>6. OthersLeft(h)
  BY <1>1, <1>3, <1>4, <1>5 DEF OthersLeft
<1>7. ASSUME NEW j \in Items, Unfought(j)', <<"item", j>> \in req[h].claims
      PROVE  /\ item'[j].label = "issued" <=> item'[j].available = 0
             /\ Balanced(j, 0)'
  <2>1. j = i /\ Unfought(j)
    BY <1>1, <1>3, <1>7 DEF Unfought
  <2>2. TitleInOrder(j) /\ KnowsTitle(h)
    BY <1>3, <1>7, <2>1 DEF Circulation, TitleInOrder
  <2>3. doc = item[j] /\ Balanced(j, -1)
    BY <1>1, <2>1, <2>2 DEF KnowsTitle, IssueCalls, Gap
  <2> DEFINE c == Cardinality(LoansOf(j))
             a == item[j].available
             t == item[j].total
  <2>4. c \in Nat /\ a \in Nat /\ t \in Nat
    BY <1>3, <2>1, LoansAreFinite DEF Shelf
  <2>5. a + c = t + (-1)
    BY <2>3 DEF Balanced
  <2>6. item[j].label = "issued" <=> a = 0
    BY <2>1, <2>2 DEF TitleInOrder
  <2>7. t > 0
    <3> HIDE DEF c, a, t
    <3>1. QED
      BY <2>4, <2>5
  <2>8. CASE req[h].condition = "lost"
    <3>1. new.total = t - 1
      BY <1>3, <2>3, <2>7, <2>8 DEF Restocked, Shelf
    <3>2. new.total # doc.total
      <4>1. doc.total = t
        BY <2>3
      <4> HIDE DEF t, new, doc
      <4>2. QED
        BY <2>4, <3>1, <4>1
    <3>3. item' = [item EXCEPT ![i].total = t - 1]
      BY <1>1, <3>1, <3>2
    <3>4. /\ item'[j].total = t - 1 /\ item'[j].available = a
          /\ item'[j].label = item[j].label
      <4> HIDE DEF t, i
      <4>1. QED
        BY <1>3, <2>1, <3>3 DEF LibraryTyped, Shelf
    <3>5. a + c = (t - 1) + 0
      <4> HIDE DEF c, a, t
      <4>1. QED
        BY <2>4, <2>5
    <3>6. QED
      BY <1>5, <2>6, <3>4, <3>5 DEF Balanced
  <2>9. CASE req[h].condition # "lost"
    <3>1. /\ new.total = doc.total /\ new.available = a + 1
          /\ new.label \in {"available", "damaged"}
      BY <1>3, <2>3, <2>9 DEF Restocked, Shelf
    <3> HIDE DEF new
    <3>2. item' = [item EXCEPT ![i].available = a + 1, ![i].label = new.label]
      BY <1>1, <2>9, <3>1
    <3>3. /\ item'[j].total = t /\ item'[j].available = a + 1
          /\ item'[j].label = new.label
      <4> HIDE DEF a, i
      <4>1. QED
        BY <1>3, <2>1, <3>2 DEF LibraryTyped, Shelf
    <3>4. (a + 1) + c = t + 0 /\ a + 1 # 0
      <4> HIDE DEF c, a, t
      <4>1. QED
        BY <2>4, <2>5
    <3>5. QED
      BY <1>5, <3>1, <3>3, <3>4 DEF Balanced
  <2>10. QED
    BY <2>8, <2>9
<1>8. \A b \in Borrowers : OpenLoans(b)' \subseteq OpenLoans(b)
  BY <1>1 DEF OpenLoans
<1> HIDE DEF i, doc, new
<1>9. QED
  BY <1>1, <1>2, <1>5, <1>6, <1>7, <1>8, WritingStep DEF BorrowerLeft

\* The borrower was below the limit and had no copy of the title, by what the
\* two checks before read; nothing undisturbed changed since.
LEMMA LendKeeps ==
    ASSUME LibraryTyped, Circulation, LibraryTyped', NEW h \in Handlers, Lend(h)
    PROVE  Circulation'
<1> DEFINE i == req[h].item
           lender == req[h].borrower
<1>1. PICK l : /\ l \notin DOMAIN loan /\ DOMAIN loan' = DOMAIN loan \cup {l}
               /\ \A m \in DOMAIN loan : loan'[m] = loan[m]
               /\ loan'[l].item = i /\ loan'[l].borrower = lender
               /\ loan'[l].status \in Out
  BY LendTyped
<1>2. pc[h] = "lend" /\ Goto(h, "take") /\ item' = item /\ disturbed' = disturbed
  BY DEF Lend, Goto
<1>3. Moves(h) /\ LoansKept /\ pc'[h] = "take" /\ req'[h] = req[h]
  BY <1>2, GotoTyped, LendTyped
<1>4. /\ i \in Items /\ lender \in Borrowers
      /\ req[h].claims = {<<"item", i>>, <<"borrower", lender>>}
  BY <1>2 DEF LibraryTyped, ReqTyped, IssueCalls, Issuing
<1>5. StillOut(h)'
  BY <1>3 DEF StillOut
<1>6. OthersLeft(h)
  <2>1. ASSUME NEW j \in Items, j # i PROVE LoansOf(j)' = LoansOf(j)
    BY <1>1, <2>1 DEF LoansOf
  <2>2. QED
    BY <1>1, <1>2, <1>4, <2>1 DEF OthersLeft
<1>7. ASSUME NEW j \in Items, Unfought(j)', <<"item", j>> \in req[h].claims
      PROVE  /\ item'[j].label = "issued" <=> item'[j].available = 0
             /\ KnowsTitle(h)'
  <2>1. j = i /\ Unfought(j)
    BY <1>1, <1>2, <1>4, <1>7 DEF Unfought
  <2>2. TitleInOrder(j) /\ KnowsTitle(h)
    BY <1>4, <1>7, <2>1 DEF Circulation, TitleInOrder
  <2>3. l \notin LoansOf(j) /\ LoansOf(j)' = LoansOf(j) \cup {l}
    BY <1>1, <2>1 DEF LoansOf
  <2>4. Cardinality(LoansOf(j) \cup {l}) = Cardinality(LoansOf(j)) + 1
    BY <2>3, LoansAreFinite, FS_AddElement
  <2>5. Balanced(j, 0)
    BY <1>2, <2>1, <2>2 DEF KnowsTitle, Gap
  <2>6. Balanced(j, 1)'
    <3> DEFINE c == Cardinality(LoansOf(j))
    <3>1. /\ c \in Nat /\ Cardinality(LoansOf(j)') = c + 1
          /\ item[j].available \in Nat /\ item[j].total \in Nat
      BY <2>3, <2>4, LoansAreFinite DEF LibraryTyped, Shelf
    <3>2. item[j].available + c = item[j].total + 0
      BY <2>5 DEF Balanced
    <3> HIDE DEF c
    <3>3. item[j].available + Cardinality(LoansOf(j)') = item[j].total + 1
      BY <3>1, <3>2
    <3>4. QED
      BY <1>2, <3>3 DEF Balanced
  <2>7. KnowsTitle(h)'
    BY <1>2, <1>3, <2>1, <2>2, <2>6 DEF KnowsTitle, Gap, IssueCalls
  <2>8. QED
    BY <1>2, <2>1, <2>2, <2>7 DEF TitleInOrder
<1>8. ASSUME NEW b \in Borrowers, UnfoughtBy(b)' PROVE BorrowerLeft(h, b)
  <2>1. CASE b # lender
    <3>1. OpenLoans(b)' \subseteq OpenLoans(b)
      BY <1>1, <2>1 DEF OpenLoans
    <3>2. QED
      BY <3>1 DEF BorrowerLeft
  <2>2. CASE b = lender
    <3>1. UnfoughtBy(b) /\ <<"borrower", b>> \in req[h].claims
      BY <1>1, <1>2, <1>4, <1>8, <2>2 DEF UnfoughtBy
    <3>2. /\ Cardinality(OpenLoans(b)) < Limit[b]
          /\ \A m \in OpenLoans(b) : loan[m].item # i
          /\ \A k, m \in OpenLoans(b) : loan[k].item = loan[m].item => k = m
      BY <1>2, <3>1 DEF Circulation, BorrowerInOrder
    <3>3. l \notin OpenLoans(b) /\ OpenLoans(b)' = OpenLoans(b) \cup {l}
      BY <1>1, <2>2 DEF OpenLoans
    <3>4. Cardinality(OpenLoans(b)') = Cardinality(OpenLoans(b)) + 1
      BY <3>3, LoansAreFinite, FS_AddElement
    <3>5. Cardinality(OpenLoans(b)') <= Limit[b]
      <4> DEFINE c == Cardinality(OpenLoans(b))
      <4>1. c \in Nat /\ Limit[b] \in Nat /\ c < Limit[b]
        BY <3>2, LoansAreFinite, LibraryAssumption DEF LibraryAssumption
      <4>2. Cardinality(OpenLoans(b)') = c + 1
        BY <3>4
      <4> HIDE DEF c
      <4>3. QED
        BY <4>1, <4>2
    <3>6. \A k, m \in OpenLoans(b)' : loan'[k].item = loan'[m].item => k = m
      <4>1. \A m \in OpenLoans(b) : loan'[m] = loan[m]
        BY <1>1 DEF OpenLoans
      <4> HIDE DEF i
      <4>2. QED
        BY <1>1, <3>2, <3>3, <4>1
    <3>7. QED
      BY <3>1, <3>5, <3>6 DEF BorrowerLeft
  <2>3. QED
    BY <2>1, <2>2
<1> HIDE DEF i, lender
<1>9. QED
  BY <1>2, <1>3, <1>5, <1>6, <1>7, <1>8, WritingStep

-----------------------------------------------------------------------------
(* The induction, and what follows.                                        *)

LEMMA CirculationInit == Init => Circulation
<1> SUFFICES ASSUME Init PROVE Circulation
  OBVIOUS
<1>1. /\ DOMAIN loan = {} /\ \A h \in Handlers : req[h].claims = {}
      /\ \A h \in Handlers : pc[h] = "idle"
  BY DEF Init, NoRequest
<1>2. \A i, b : LoansOf(i) = {} /\ OpenLoans(b) = {}
  BY <1>1 DEF LoansOf, OpenLoans
<1>3. ASSUME NEW i \in Items PROVE TitleInOrder(i)
  <2>1. /\ item[i].available = Copies[i] /\ item[i].total = Copies[i]
        /\ item[i].label = "available" /\ Copies[i] \in Nat \ {0}
    BY LibraryAssumption DEF Init, LibraryAssumption
  <2>2. Cardinality(LoansOf(i)) = 0
    BY <1>2, FS_EmptySet
  <2>3. QED
    BY <1>1, <2>1, <2>2 DEF TitleInOrder, Balanced
<1>4. ASSUME NEW b \in Borrowers PROVE BorrowerInOrder(b)
  <2>1. Cardinality(OpenLoans(b)) = 0 /\ Limit[b] \in Nat
    BY <1>2, FS_EmptySet, LibraryAssumption DEF LibraryAssumption
  <2>2. QED
    BY <1>1, <1>2, <2>1 DEF BorrowerInOrder
<1>5. Sole /\ \A h \in Handlers : StillOut(h)
  BY <1>1 DEF Sole, StillOut
<1>6. QED
  BY <1>3, <1>4, <1>5 DEF Circulation

LEMMA CirculationStep ==
    LibraryTyped /\ Circulation /\ LibraryTyped' /\ [Next]_vars => Circulation'
<1> SUFFICES ASSUME LibraryTyped, Circulation, LibraryTyped', [Next]_vars
             PROVE  Circulation'
  OBVIOUS
<1>1. ASSUME NextDay \/ UNCHANGED vars PROVE Circulation'
  <2>1. UNCHANGED <<item, loan, pc, req, disturbed>>
    BY <1>1 DEF NextDay, vars
  <2>2. QED
    BY <2>1 DEF Circulation, Sole, StillOut, TitleInOrder, BorrowerInOrder,
                Unfought, UnfoughtBy, KnowsTitle, Balanced, Gap, LoansOf, OpenLoans
<1>2. ASSUME NEW h \in Handlers, Arrive(h) PROVE Circulation'
  BY <1>2, BeginIssueKeeps, BeginReturnKeeps, BeginRenewKeeps, BeginSweepKeeps
     DEF Arrive
<1>3. ASSUME NEW h \in Handlers, Resume(h) PROVE Circulation'
  <2>1. CASE CheckLimit(h) \/ CheckDuplicate(h) \/ Lend(h) \/ TakeFromShelf(h)
    BY <2>1, CheckLimitKeeps, CheckDuplicateKeeps, LendKeeps, TakeKeeps
  <2>2. CASE CloseLoan(h) \/ ReadShelf(h) \/ Restock(h)
    BY <2>2, CloseLoanKeeps, ReadShelfKeeps, RestockKeeps
  <2>3. CASE RenewLoan(h) \/ SweepLoan(h)
    BY <2>3, RenewLoanKeeps, SweepLoanKeeps
  <2>4. QED
    BY <1>3, <2>1, <2>2, <2>3 DEF Resume
<1>4. QED
  BY <1>1, <1>2, <1>3, AbortKeeps DEF Next

LEMMA CirculationAlways == Spec => [](LibraryTyped /\ Circulation)
<1>1. Init => LibraryTyped /\ Circulation
  BY LibraryTypedInit, CirculationInit
<1>2. LibraryTyped /\ Circulation /\ [Next]_vars => (LibraryTyped /\ Circulation)'
  BY LibraryTypedStep, CirculationStep
<1>3. QED
  BY <1>1, <1>2, PTL DEF Spec

\* Whatever requests overlap or fail: a title that no two of them fought over
\* has every copy on its shelf or out on loan, and a label that says which; a
\* borrower whose loans nobody fought over keeps within the limit and has no
\* title twice; and no count ever leaves its range.  (issue, return_item,
\* renew, mark_overdue.)
THEOREM LendingStaysInOrder == Spec => []LendingInOrder
<1>1. LibraryTyped /\ Circulation => LendingInOrder
  <2> SUFFICES ASSUME LibraryTyped, Circulation PROVE LendingInOrder
    OBVIOUS
  <2>1. CopiesAccountedFor
    <3> SUFFICES ASSUME NEW i \in Items, Calm(i)
                 PROVE  /\ item[i].available + Cardinality(LoansOf(i)) = item[i].total
                        /\ item[i].label = "issued" <=> item[i].available = 0
      BY DEF CopiesAccountedFor
    <3>1. TitleInOrder(i) /\ Unfought(i)
      BY DEF Calm, Circulation, Unfought
    <3>2. (item[i].label = "issued" <=> item[i].available = 0) /\ Balanced(i, 0)
      BY <3>1 DEF TitleInOrder, Calm
    <3>3. item[i].total \in Nat
      BY DEF LibraryTyped, Shelf
    <3>4. QED
      BY <3>2, <3>3 DEF Balanced
  <2>2. LimitRespected
    BY DEF LimitRespected, Circulation, BorrowerInOrder, UnfoughtBy
  <2>3. CountsInRange
    BY DEF CountsInRange, LibraryTyped, Shelf
  <2>4. QED
    BY <2>1, <2>2, <2>3 DEF LendingInOrder
<1>2. QED
  BY <1>1, CirculationAlways, PTL

\* A request about to write a loan nobody else has met finds it open, so a
\* returned loan is written by nobody: neither a second return, nor a renewal
\* or the overdue sweep that read it before it came back.
THEOREM ReturnedIsFinal == Spec => ClosedStaysClosed
<1> DEFINE Final == \A l \in DOMAIN loan :
              loan[l].status = "returned" /\ <<"loan", l>> \notin disturbed =>
                loan'[l] = loan[l]
<1>1. LibraryTyped /\ Circulation /\ [Next]_vars => Final
  <2> SUFFICES ASSUME LibraryTyped, Circulation, [Next]_vars,
                      NEW l \in DOMAIN loan, loan[l].status = "returned",
                      <<"loan", l>> \notin disturbed
               PROVE  loan'[l] = loan[l]
    OBVIOUS
  <2>1. loan[l].status \notin Out
    BY DEF Out
  <2>2. ASSUME NEW h \in Handlers, CloseLoan(h) \/ RenewLoan(h)
        PROVE  loan'[l] = loan[l]
    <3>1. pc[h] \in {"close", "renew"}
      BY <2>2 DEF CloseLoan, RenewLoan
    <3>2. l # req[h].loan
      BY <2>1, <3>1 DEF Circulation, StillOut
    <3>3. CASE CloseLoan(h)
      BY <3>2, <3>3 DEF CloseLoan
    <3>4. CASE RenewLoan(h)
      BY <3>2, <3>4 DEF RenewLoan
    <3>5. QED
      BY <2>2, <3>3, <3>4
  <2>3. ASSUME NEW h \in Handlers, SweepLoan(h) PROVE loan'[l] = loan[l]
    <3>1. pc[h] = "sweep" /\ l \notin req[h].todo
      BY <2>1, <2>3 DEF SweepLoan, Circulation, StillOut
    <3>2. QED
      BY <2>3, <3>1, SweepLoanTyped
  <2>4. ASSUME NEW h \in Handlers, Lend(h) PROVE loan'[l] = loan[l]
    BY <2>4, LendTyped
  <2>5. ASSUME NEW h \in Handlers, Arrive(h) \/ Abort(h) PROVE loan' = loan
    BY <2>5 DEF Arrive, Abort, BeginIssue, BeginReturn, BeginRenew, BeginSweep
  <2>6. ASSUME NEW h \in Handlers,
               \/ CheckLimit(h) \/ CheckDuplicate(h) \/ TakeFromShelf(h)
               \/ ReadShelf(h) \/ Restock(h)
        PROVE  loan' = loan
    BY <2>6 DEF CheckLimit, CheckDuplicate, TakeFromShelf, ReadShelf, Restock
  <2>7. ASSUME NextDay \/ UNCHANGED vars PROVE loan' = loan
    BY <2>7 DEF NextDay, vars
  <2>8. ASSUME NEW h \in Handlers, Resume(h) PROVE loan'[l] = loan[l]
    BY <2>2, <2>3, <2>4, <2>6, <2>8 DEF Resume
  <2>9. QED
    BY <2>5, <2>7, <2>8 DEF Next
<1>2. QED
  BY <1>1, CirculationAlways, PTL DEF Spec, ClosedStaysClosed
=============================================================================
