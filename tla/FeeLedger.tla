------------------------------ MODULE FeeLedger ------------------------------
(***************************************************************************)
(* The money side of one institution: invoices, receipts, online payment   *)
(* orders and the outstanding figure kept on each student.                 *)
(*                                                                         *)
(* Every request handler is a coroutine that can be preempted at each      *)
(* await, and the store offers no multi-document transaction: a handler is *)
(* therefore a little program (`pc`) whose steps are its database calls,   *)
(* and `req` is what it holds in local variables between two of them, the  *)
(* documents it has read included.  Sources: app/modules/fees/service.py,  *)
(* app/modules/payments/gateway.py, app/db/repository.py.                  *)
(*                                                                         *)
(* A definition that stands just above another of the same parameters and  *)
(* is used nowhere is a plausible slip in it; PROJECT.json's mutants say   *)
(* which property each slip breaks.                                        *)
(***************************************************************************)
EXTENDS Integers, FiniteSets, Functions

CONSTANTS
    Students, Periods,
    Orders,                   \* order references the gateway can hand out
    Tills, Confirmers,        \* handlers of /fees/collect, /payments/*
    Billers, Sweepers,        \* handlers of /generate-invoices, /mark-overdue
    FailProne,                \* handlers a database or network error may end
    NoStudent, NoPeriod, NoOrder,
    Fee,                      \* what a structure bills each student, net
    Amounts,                  \* amounts a cashier or a payer may type in
    DueIn, LateFeePerDay, GraceDays, MaxLateFee,
    MaxDay, MaxCollections    \* bounds: days simulated, collections begun

Handlers == Tills \cup Confirmers \cup Billers \cup Sweepers

ASSUME FeeLedgerAssumption ==
    /\ NoStudent \notin Students /\ NoPeriod \notin Periods
    /\ NoOrder \notin Orders
    /\ Fee \in [Students -> Nat]
    /\ Amounts \subseteq Nat \ {0}
    /\ {DueIn, LateFeePerDay, GraceDays, MaxLateFee} \subseteq Nat
    /\ {MaxDay, MaxCollections} \subseteq Nat

VARIABLES
    invoice,      \* fee_invoices, a partial function of the invoice number
    payments,     \* payments: the receipt book
    order,        \* payment_orders
    outstanding,  \* students.outstanding_amount
    invoiceSeq,   \* counters["invoice:<year>"]
    receiptSeq,   \* counters["receipt:<year>"]
    gateway,      \* external: what the provider knows of each order
    today,        \* the calendar
    begun,        \* collections begun (numbers them, and bounds the run)
    orphaned,     \* history: allocations a failed handler left unreceipted
    pc, req,      \* per handler: the next database call, its locals
    dueRead       \* per handler: what _refresh_outstanding's aggregate gave

store == <<invoice, payments, order, outstanding, invoiceSeq, receiptSeq>>
vars  == <<store, gateway, today, begun, orphaned, pc, req, dueRead>>

-----------------------------------------------------------------------------
(* Documents.                                                              *)

OpenStatus    == {"issued", "partially_paid", "overdue"}
InvoiceStatus == OpenStatus \cup {"paid"}

Invoice == [student : Students, period : Periods, base : Nat, late : Nat,
            total : Nat, paid : Nat, status : InvoiceStatus, due : Nat]

\* An invoice as a handler read it, and one line of a receipt.
Snapshot == [id : Nat \ {0}, doc : Invoice]
Line     == [invoice : Nat \ {0}, applied : Nat, settled : BOOLEAN]

Payment == [number : Nat \ {0}, student : Students, amount : Nat,
            lines : SUBSET Line, order : Orders \cup {NoOrder}]

OrderStatus == {"none", "created", "paid", "signature_failed", "failed"}
Order == [status : OrderStatus, student : Students \cup {NoStudent},
          invoice : Nat, amount : Nat, receipt : Nat]

Labels == {"idle", "apply", "number", "receipt", "total", "refresh", "bank",
           "place", "reject", "fetch", "decline", "collect",
           "check", "invoice_number", "raise", "sweep"}

Request == [student : Students \cup {NoStudent}, invoice : Nat,
            period : Periods \cup {NoPeriod}, order : Orders \cup {NoOrder},
            ticket : Nat, asked : Nat, left : Nat, todo : SUBSET Snapshot,
            lines : SUBSET Line, number : Nat, day : Nat,
            pupils : SUBSET Students]

NoRequest == [student |-> NoStudent, invoice |-> 0, period |-> NoPeriod,
              order |-> NoOrder, ticket |-> 0, asked |-> 0, left |-> 0,
              todo |-> {}, lines |-> {}, number |-> 0, day |-> 0,
              pupils |-> {}]

NoOrderDoc == [status |-> "none", student |-> NoStudent, invoice |-> 0,
               amount |-> 0, receipt |-> 0]

-----------------------------------------------------------------------------
(* Reading the ledger.                                                     *)

Lesser(a, b) == IF a <= b THEN a ELSE b

Balance(doc) == doc.total - doc.paid

OpenInvoices(s) ==
    {i \in DOMAIN invoice : /\ invoice[i].student = s
                            /\ invoice[i].status \in OpenStatus}

\* What one invoice takes of the money left, and its paid figure after that.
AppliedUncapped(doc, left) == left
AppliedWhole(doc, left)    == Balance(doc)
Applied(doc, left)         == Lesser(Balance(doc), left)

NewPaidForgetful(doc, applied) == applied
NewPaid(doc, applied)          == doc.paid + applied

\* What a collection reads: one invoice by id, or every open one of the
\* student.  An invoice with no balance left is passed over by the loop.
Targets(s, i) ==
    {[id |-> j, doc |-> invoice[j]] :
        j \in {k \in IF i = 0 THEN OpenInvoices(s) ELSE {i} :
                 Balance(invoice[k]) > 0}}

\* The loop takes the oldest due first.
Older(t, u) == \/ t.doc.due < u.doc.due
               \/ t.doc.due = u.doc.due /\ t.id < u.id
Youngest(t, todo) == \A u \in todo : u = t \/ Older(u, t)
Oldest(t, todo) == \A u \in todo : u = t \/ Older(t, u)

TotalDue(s) ==
    SumFunction([i \in OpenInvoices(s) |-> Balance(invoice[i])])

LinesTotal(lines) == SumFunction([l \in lines |-> l.applied])

LateFee(doc, day) ==
    LET overdueBy == day - doc.due - GraceDays
        accrued   == overdueBy * LateFeePerDay
    IN  IF LateFeePerDay = 0 \/ overdueBy <= 0 THEN doc.late
        ELSE IF MaxLateFee = 0 THEN accrued ELSE Lesser(accrued, MaxLateFee)

-----------------------------------------------------------------------------
(* collect_payment.                                                        *)

Idle(h) == pc[h] = "idle"

Finish(h) == /\ pc'  = [pc  EXCEPT ![h] = "idle"]
             /\ req' = [req EXCEPT ![h] = NoRequest]

\* The validation and the reads up to the first update.  A request with
\* nothing to pay against is refused and changes nothing.
BeginCollection(h, request, s, i, amount) ==
    LET todo == Targets(s, i) IN
    /\ amount > 0
    /\ todo # {}
    /\ begun' = begun + 1
    /\ pc'  = [pc EXCEPT ![h] = "apply"]
    /\ req' = [req EXCEPT ![h] =
                 [request EXCEPT !.student = s, !.ticket = begun + 1,
                                 !.asked = amount, !.left = amount,
                                 !.todo = todo]]

\* Collections begun, those a confirmation is about to begin included.  The
\* bound leaves every order room for one beyond what the desk may begin.
Begun == begun + Cardinality({g \in Handlers : pc[g] \in {"fetch", "collect"}})

\* POST /fees/collect: the router checks nothing about `i` and `s` together.
Collect(h, s, i, amount) ==
    /\ h \in Tills /\ Idle(h) /\ Begun < MaxCollections
    /\ i = 0 \/ i \in DOMAIN invoice
    /\ BeginCollection(h, NoRequest, s, i, amount)
    /\ UNCHANGED <<store, gateway, today, orphaned, dueRead>>

LastLineOnly(lines, l) == {l}
WithLine(lines, l)     == lines \cup {l}

\* One turn of the allocation loop: the new paid amount is computed from the
\* snapshot, whatever the document holds by now.
ApplyToInvoice(h) ==
    /\ pc[h] = "apply"
    /\ \E t \in req[h].todo :
        LET applied == Applied(t.doc, req[h].left)
            newPaid == NewPaid(t.doc, applied)
            settled == newPaid >= t.doc.total
            left    == req[h].left - applied
        IN
        /\ Oldest(t, req[h].todo)
        /\ invoice' = [invoice EXCEPT
             ![t.id].paid = newPaid,
             ![t.id].status = IF settled THEN "paid" ELSE "partially_paid"]
        /\ req' = [req EXCEPT
             ![h].todo = @ \ {t}, ![h].left = left,
             ![h].lines = WithLine(@, [invoice |-> t.id, applied |-> applied,
                                       settled |-> settled])]
        /\ pc' = [pc EXCEPT ![h] = IF left = 0 \/ req[h].todo = {t}
                                   THEN "number" ELSE "apply"]
    /\ UNCHANGED <<payments, order, outstanding, invoiceSeq, receiptSeq,
                   gateway, today, begun, orphaned, dueRead>>

\* next_receipt_number: one atomic $inc on the counter document.
NumberFromCount   == Cardinality(payments) + 1
NextReceiptNumber == receiptSeq + 1

TakeReceiptNumber(h) ==
    /\ pc[h] = "number"
    /\ receiptSeq' = NextReceiptNumber
    /\ req' = [req EXCEPT ![h].number = NextReceiptNumber]
    /\ pc'  = [pc EXCEPT ![h] = "receipt"]
    /\ UNCHANGED <<invoice, payments, order, outstanding, invoiceSeq,
                   gateway, today, begun, orphaned, dueRead>>

\* The unique index on payments.receipt_number would turn a second use of a
\* number into a Conflict.
WriteReceipt(h) ==
    LET number == req[h].number
        fresh  == \A p \in payments : p.number # number
    IN
    /\ pc[h] = "receipt"
    /\ payments' = IF ~fresh THEN payments ELSE payments \cup
         {[number |-> number, student |-> req[h].student,
           amount |-> req[h].asked - req[h].left,
           lines |-> req[h].lines, order |-> req[h].order]}
    /\ pc' = [pc EXCEPT ![h] = IF fresh THEN "total" ELSE "idle"]
    /\ req' = IF fresh THEN req ELSE [req EXCEPT ![h] = NoRequest]
    /\ UNCHANGED <<invoice, order, outstanding, invoiceSeq, receiptSeq,
                   gateway, today, begun, orphaned, dueRead>>

\* _refresh_outstanding: an aggregate, then a $set of its result.
ReadOutstanding(h) ==
    /\ pc[h] = "total"
    /\ dueRead' = [dueRead EXCEPT ![h] = TotalDue(req[h].student)]
    /\ pc' = [pc EXCEPT ![h] = "refresh"]
    /\ UNCHANGED <<store, gateway, today, begun, orphaned, req>>

NeverBank(h) == IF req[h].pupils # {} THEN "check" ELSE "idle"
AfterRefresh(h) == IF req[h].order # NoOrder THEN "bank"
                   ELSE IF req[h].pupils # {} THEN "check" ELSE "idle"

WriteOutstanding(h) ==
    /\ pc[h] = "refresh"
    /\ outstanding' = [outstanding EXCEPT ![req[h].student] = dueRead[h]]
    /\ dueRead' = [dueRead EXCEPT ![h] = 0]
    /\ pc' = [pc EXCEPT ![h] = AfterRefresh(h)]
    /\ req' = IF AfterRefresh(h) = "idle"
              THEN [req EXCEPT ![h] = NoRequest] ELSE req
    /\ UNCHANGED <<invoice, payments, order, invoiceSeq, receiptSeq,
                   gateway, today, begun, orphaned>>

-----------------------------------------------------------------------------
(* payments/gateway.py: create_order and confirm_payment.                  *)

\* The amount comes from the ledger: an invoice's balance, everything the
\* student owes or, of that, what the payer asked for (0: nothing in
\* particular).  An order refused because its bill may not be paid yet, or any
\* more, is one not begun: FeePlan has those windows.
BeginOrder(h, o, s, i, amount) ==
    LET due == IF i = 0 THEN TotalDue(s) ELSE Balance(invoice[i]) IN
    /\ h \in Confirmers /\ Idle(h)
    /\ order[o].status = "none" /\ \A g \in Handlers : req[g].order # o
    /\ i # 0 => s = invoice[i].student
    /\ pc' = [pc EXCEPT ![h] = "place"]
    /\ \E payable \in 1 .. due :
         /\ payable = IF i # 0 \/ amount = 0 THEN due ELSE Lesser(amount, due)
         /\ req' = [req EXCEPT ![h] =
              [NoRequest EXCEPT !.order = o, !.student = s, !.invoice = i,
                                !.asked = payable]]
    /\ UNCHANGED <<store, gateway, today, begun, orphaned, dueRead>>

\* The provider has minted the order; the document is written, and only then
\* does the payer see it.
PlaceOrder(h) ==
    /\ pc[h] = "place"
    /\ order' = [order EXCEPT ![req[h].order] =
         [status |-> "created", student |-> req[h].student,
          invoice |-> req[h].invoice, amount |-> req[h].asked, receipt |-> 0]]
    /\ Finish(h)
    /\ UNCHANGED <<invoice, payments, outstanding, invoiceSeq, receiptSeq,
                   gateway, today, begun, orphaned, dueRead>>

\* confirm_payment reads the order.  A paid one answers already_recorded and
\* changes nothing.  The signature verifies only for a payment that was made.
EvenIfPaid(o)  == order[o].status # "none"
Confirmable(o) == order[o].status \notin {"none", "paid"}

BeginConfirm(h, o, genuine) ==
    /\ h \in Confirmers /\ Idle(h)
    /\ Confirmable(o)
    /\ genuine => /\ gateway[o] # "unpaid"
                  /\ Begun < MaxCollections + Cardinality(Orders)
    /\ pc'  = [pc EXCEPT ![h] = IF genuine THEN "fetch" ELSE "reject"]
    /\ req' = [req EXCEPT ![h] = [NoRequest EXCEPT !.order = o]]
    /\ UNCHANGED <<store, gateway, today, begun, orphaned, dueRead>>

\* The two refusals of confirm_payment: a bad signature, and a payment the
\* gateway reports as neither captured nor authorized.
RefuseOrder(h) ==
    /\ pc[h] \in {"reject", "decline"}
    /\ order' = [order EXCEPT ![req[h].order].status =
                   IF pc[h] = "reject" THEN "signature_failed" ELSE "failed"]
    /\ Finish(h)
    /\ UNCHANGED <<invoice, payments, outstanding, invoiceSeq, receiptSeq,
                   gateway, today, begun, orphaned, dueRead>>

BankAtOnce(status) == IF status = "captured" THEN "bank" ELSE "decline"
OnRemote(status)   == IF status = "captured" THEN "collect" ELSE "decline"

FetchPayment(h) ==
    /\ pc[h] = "fetch"
    /\ pc' = [pc EXCEPT ![h] = OnRemote(gateway[req[h].order])]
    /\ UNCHANGED <<store, gateway, today, begun, orphaned, req, dueRead>>

\* confirm_payment calls collect_payment with what the payer paid.
CollectOnline(h) ==
    LET o == req[h].order IN
    /\ pc[h] = "collect"
    /\ BeginCollection(h, req[h], order[o].student, order[o].invoice,
                       order[o].amount)
    /\ UNCHANGED <<store, gateway, today, orphaned, dueRead>>

\* The dues were settled meanwhile: collect_payment raises, and the captured
\* money reaches no receipt.
CollectNothing(h) ==
    LET o == req[h].order IN
    /\ pc[h] = "collect"
    /\ Targets(order[o].student, order[o].invoice) = {}
    /\ Finish(h)
    /\ UNCHANGED <<store, gateway, today, begun, orphaned, dueRead>>

BankOrder(h) ==
    /\ pc[h] = "bank"
    /\ order' = [order EXCEPT ![req[h].order].status = "paid",
                              ![req[h].order].receipt = req[h].number]
    /\ Finish(h)
    /\ UNCHANGED <<invoice, payments, outstanding, invoiceSeq, receiptSeq,
                   gateway, today, begun, orphaned, dueRead>>

-----------------------------------------------------------------------------
(* generate_invoices: one pupil at a time, in the order the cursor yields. *)

BeginBilling(h, p, pupils) ==
    /\ h \in Billers /\ Idle(h)
    /\ pupils # {}
    /\ pc'  = [pc EXCEPT ![h] = "check"]
    /\ req' = [req EXCEPT ![h] = [NoRequest EXCEPT !.period = p,
                                          !.pupils = pupils, !.day = today]]
    /\ UNCHANGED <<store, gateway, today, begun, orphaned, dueRead>>

BilledAndUnpaid(s, p) ==
    \E i \in DOMAIN invoice : /\ invoice[i].student = s
                              /\ invoice[i].period = p
                              /\ invoice[i].status # "paid"
AlreadyBilled(s, p) ==
    \E i \in DOMAIN invoice : invoice[i].student = s /\ invoice[i].period = p

CheckBilled(h) ==
    /\ pc[h] = "check"
    /\ \E s \in req[h].pupils :
        LET billed == AlreadyBilled(s, req[h].period)
            over   == billed /\ req[h].pupils = {s}
        IN
        /\ pc'  = [pc EXCEPT ![h] = IF over THEN "idle"
                        ELSE IF billed THEN "check" ELSE "invoice_number"]
        /\ req' = [req EXCEPT ![h] = IF over THEN NoRequest ELSE
                     [req[h] EXCEPT
                        !.student = IF billed THEN NoStudent ELSE s,
                        !.pupils = req[h].pupils \ {s}]]
    /\ UNCHANGED <<store, gateway, today, begun, orphaned, dueRead>>

TakeInvoiceNumber(h) ==
    /\ pc[h] = "invoice_number"
    /\ invoiceSeq' = invoiceSeq + 1
    /\ req' = [req EXCEPT ![h].number = invoiceSeq + 1]
    /\ pc'  = [pc EXCEPT ![h] = "raise"]
    /\ UNCHANGED <<invoice, payments, order, outstanding, receiptSeq,
                   gateway, today, begun, orphaned, dueRead>>

RaiseInvoice(h) ==
    LET s == req[h].student
        n == req[h].number
        doc == [student |-> s, period |-> req[h].period, base |-> Fee[s],
                late |-> 0, total |-> Fee[s], paid |-> 0,
                status |-> "issued", due |-> req[h].day + DueIn]
    IN
    /\ pc[h] = "raise"
    /\ invoice' = [i \in DOMAIN invoice \cup {n} |->
                     IF i = n THEN doc ELSE invoice[i]]
    /\ pc' = [pc EXCEPT ![h] = "total"]
    /\ UNCHANGED <<payments, order, outstanding, invoiceSeq, receiptSeq,
                   gateway, today, begun, orphaned, req, dueRead>>

-----------------------------------------------------------------------------
(* mark_overdue: a snapshot of what is past due, then one update each.     *)

SweepAnything == InvoiceStatus \ {"overdue"}
Sweepable     == {"issued", "partially_paid"}

PastDue ==
    {[id |-> i, doc |-> invoice[i]] :
        i \in {k \in DOMAIN invoice :
                 /\ invoice[k].status \in Sweepable
                 /\ invoice[k].due < today}}

BeginSweep(h) ==
    /\ h \in Sweepers /\ Idle(h)
    /\ PastDue # {}
    /\ pc'  = [pc EXCEPT ![h] = "sweep"]
    /\ req' = [req EXCEPT ![h] = [NoRequest EXCEPT !.day = today,
                                                   !.todo = PastDue]]
    /\ UNCHANGED <<store, gateway, today, begun, orphaned, dueRead>>

SweepInvoice(h) ==
    /\ pc[h] = "sweep"
    /\ \E t \in req[h].todo :
        LET late == LateFee(t.doc, req[h].day)
            over == req[h].todo = {t}
        IN
        /\ invoice' = [invoice EXCEPT ![t.id].status = "overdue",
                                      ![t.id].late = late,
                                      ![t.id].total = t.doc.base + late]
        /\ pc'  = [pc EXCEPT ![h] = IF over THEN "idle" ELSE "sweep"]
        /\ req' = [req EXCEPT ![h] = IF over THEN NoRequest ELSE
                     [req[h] EXCEPT !.todo = req[h].todo \ {t}]]
    /\ UNCHANGED <<payments, order, outstanding, invoiceSeq, receiptSeq,
                   gateway, today, begun, orphaned, dueRead>>

-----------------------------------------------------------------------------
(* The surroundings: the provider, the calendar, and errors.               *)

\* The payer completes checkout for the order's amount.
Pay(o) ==
    /\ order[o].status # "none" /\ gateway[o] = "unpaid"
    /\ gateway' = [gateway EXCEPT ![o] = "captured"]
    /\ UNCHANGED <<store, today, begun, orphaned, pc, req, dueRead>>

\* The office gives the money back from the provider's dashboard.
Refund(o) ==
    /\ gateway[o] = "captured"
    /\ gateway' = [gateway EXCEPT ![o] = "refunded"]
    /\ UNCHANGED <<store, today, begun, orphaned, pc, req, dueRead>>

NextDay ==
    /\ today < MaxDay
    /\ today' = today + 1
    /\ UNCHANGED <<store, gateway, begun, orphaned, pc, req, dueRead>>

\* An awaited call raises, or the process dies: the rest of the handler never
\* runs and nothing it wrote is undone.
Abort(h) ==
    /\ h \in FailProne /\ ~Idle(h)
    /\ orphaned' =
         IF pc[h] \in {"apply", "number", "receipt"} /\ req[h].lines # {}
         THEN orphaned \cup {[ticket |-> req[h].ticket,
                              lines |-> req[h].lines]}
         ELSE orphaned
    /\ dueRead' = [dueRead EXCEPT ![h] = 0]
    /\ Finish(h)
    /\ UNCHANGED <<store, gateway, today, begun>>

-----------------------------------------------------------------------------
Init ==
    /\ invoice = [i \in {} |-> 0]
    /\ payments = {}
    /\ order = [o \in Orders |-> NoOrderDoc]
    /\ outstanding = [s \in Students |-> 0]
    /\ invoiceSeq = 0 /\ receiptSeq = 0
    /\ gateway = [o \in Orders |-> "unpaid"]
    /\ today = 0 /\ begun = 0
    /\ orphaned = {}
    /\ pc = [h \in Handlers |-> "idle"]
    /\ req = [h \in Handlers |-> NoRequest]
    /\ dueRead = [h \in Handlers |-> 0]

\* A request arrives.
Arrive(h) ==
    \/ \E s \in Students, i \in DOMAIN invoice \cup {0}, amount \in Amounts :
         Collect(h, s, i, amount)
    \/ \E o \in Orders, s \in Students, i \in DOMAIN invoice \cup {0},
          amount \in Amounts \cup {0} : BeginOrder(h, o, s, i, amount)
    \/ \E o \in Orders, genuine \in BOOLEAN : BeginConfirm(h, o, genuine)
    \/ \E p \in Periods, pupils \in SUBSET Students : BeginBilling(h, p, pupils)
    \/ BeginSweep(h)

\* A handler resumes after an await.
Resume(h) ==
    \/ ApplyToInvoice(h) \/ TakeReceiptNumber(h) \/ WriteReceipt(h)
    \/ ReadOutstanding(h) \/ WriteOutstanding(h)
    \/ PlaceOrder(h) \/ RefuseOrder(h) \/ FetchPayment(h)
    \/ CollectOnline(h) \/ CollectNothing(h) \/ BankOrder(h)
    \/ CheckBilled(h) \/ TakeInvoiceNumber(h) \/ RaiseInvoice(h)
    \/ SweepInvoice(h)

Surroundings == NextDay \/ \E o \in Orders : Pay(o) \/ Refund(o)

Next == Surroundings \/ \E h \in Handlers : Arrive(h) \/ Resume(h) \/ Abort(h)

Spec == Init /\ [][Next]_vars

-----------------------------------------------------------------------------
(* What the ledger promises.                                               *)

\* Every variable holds what its documents and locals can hold.  The figures
\* an aggregate computes are only bound to the student or handler they are of.
TypeOK ==
    /\ invoice = [i \in DOMAIN invoice |-> invoice[i]]
    /\ DOMAIN invoice \subseteq 1 .. invoiceSeq
    /\ \A i \in DOMAIN invoice : invoice[i] \in Invoice
    /\ payments \subseteq Payment
    /\ order \in [Orders -> Order]
    /\ outstanding = [s \in Students |-> outstanding[s]]
    /\ dueRead = [h \in Handlers |-> dueRead[h]]
    /\ invoiceSeq \in Nat /\ receiptSeq \in Nat
    /\ gateway \in [Orders -> {"unpaid", "captured", "refunded"}]
    /\ today \in Nat /\ begun \in Nat
    /\ orphaned \subseteq [ticket : Nat, lines : SUBSET Line]
    /\ pc \in [Handlers -> Labels]
    /\ req \in [Handlers -> Request]

\* A receipt number is on one receipt, or in one handler's hand, never in two
\* places: two cashiers collecting at once cannot collide.
NoReceiptCollision ==
    /\ \A p, q \in payments : p.number = q.number => p = q
    /\ \A h \in Handlers : pc[h] = "receipt" =>
         /\ \A p \in payments : p.number # req[h].number
         /\ \A g \in Handlers \ {h} :
              pc[g] = "receipt" => req[g].number # req[h].number

\* What some set of allocation lines credits to invoice i.
Credited(lines, i) == LinesTotal({l \in lines : l.invoice = i})

Receipted(i) == SumFunction([p \in payments |-> Credited(p.lines, i)])
Orphaned(i)  == SumFunction([r \in orphaned |-> Credited(r.lines, i)])
Allocating == {h \in Handlers : pc[h] \in {"apply", "number", "receipt"}}
InHand(i) ==
    SumFunction([h \in Allocating |-> Credited(req[h].lines, i)])

\* An invoice never shows more money than was handed over for it: on a
\* receipt, by a collection still running, or by one that failed half way.
CreditIsBacked ==
    \A i \in DOMAIN invoice :
        invoice[i].paid <= Receipted(i) + InHand(i) + Orphaned(i)

\* An invoice is never paid beyond its total, however collections and the
\* late-fee sweep interleave, as long as one sweep runs at a time.
PaidWithinTotal == \A i \in DOMAIN invoice : Balance(invoice[i]) >= 0

\* An order marked paid names a receipt for that order, for no more than
\* the payer was charged.
PaidOrderHasReceipt ==
    \A o \in Orders : order[o].status = "paid" =>
        \E p \in payments : /\ p.number = order[o].receipt
                             /\ p.order = o
                             /\ p.amount <= order[o].amount

\* Money spread over several dues leaves no older one open: on a receipt,
\* only the youngest invoice may be part paid.
OldestDuesFirst ==
    \A p \in payments : \A l, m \in p.lines :
        Older([id |-> l.invoice, doc |-> invoice[l.invoice]],
              [id |-> m.invoice, doc |-> invoice[m.invoice]]) => l.settled
=============================================================================
