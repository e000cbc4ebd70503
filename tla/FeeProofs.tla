------------------------------ MODULE FeeProofs ------------------------------
(***************************************************************************)
(* Theorems about the fees: of FeeLedger, for any number of handlers,      *)
(* students, orders and days, with any handler failing at any step; and of *)
(* FeeTill, for one till that finishes each request before the next.       *)
(*                                                                         *)
(* First what each document and each handler is like, and what a receipt   *)
(* and an order have in common; then how money is spread over invoices:    *)
(* what an invoice shows as paid was handed over for it, and the older due *)
(* is settled first.  Last what one till keeps; the step that matters most *)
(* is the refinement: seen at the moments receipts are written, the ledger *)
(* does nothing the fee book does not.                                     *)
(***************************************************************************)
EXTENDS FeeTill, SumTheorems, TLAPS

-----------------------------------------------------------------------------
(* The inductive invariants of the first part.                             *)

\* What a handler holds while it stands at one of its calls.  Each line is
\* what the call it stands at relies on.
HoldsWhatItNeeds(h) ==
    /\ pc[h] \in {"apply", "number", "receipt", "total", "refresh", "place",
                  "invoice_number", "raise"} => req[h].student \in Students
    /\ pc[h] \in {"place", "reject", "decline", "fetch", "collect", "bank"} =>
         req[h].order \in Orders
    /\ pc[h] \in {"check", "invoice_number", "raise"} \/ req[h].pupils # {} =>
         req[h].period \in Periods
    /\ pc[h] = "apply" => \A t \in req[h].todo : Balance(t.doc) > 0
    /\ req[h].left <= req[h].asked
    /\ pc[h] = "receipt" => req[h].number \in 1 .. receiptSeq
    /\ pc[h] = "raise" => req[h].number \in 1 .. invoiceSeq
    /\ pc[h] = "place" => req[h].invoice \in DOMAIN invoice \cup {0}
    /\ pc[h] # "place" /\ req[h].order # NoOrder =>
         order[req[h].order].status # "none"

LocalsOK == \A h \in Handlers : HoldsWhatItNeeds(h)

\* A placed order names a student and, if any, an invoice that exists.
OrdersOK ==
    \A o \in Orders : order[o].status # "none" =>
        /\ order[o].student \in Students
        /\ order[o].invoice \in DOMAIN invoice \cup {0}

Typed == TypeOK /\ LocalsOK /\ OrdersOK

\* Every number in use was drawn from the counter.
NumbersDrawn == \A p \in payments : p.number <= receiptSeq

\* The trail of an order through the handler that collects it: the amount
\* asked is the order's until the receipt is written, and from then on the
\* receipt is there.  A billing handler has no order, and only one handler
\* ever mints an order.
Trail(h) ==
    LET o == req[h].order IN
    /\ pc[h] \in {"check", "invoice_number", "raise"} => o = NoOrder
    /\ pc[h] \in {"apply", "number", "receipt"} /\ o # NoOrder =>
         req[h].asked = order[o].amount
    /\ pc[h] \in {"total", "refresh", "bank"} /\ o # NoOrder =>
         \E p \in payments : /\ p.number = req[h].number
                             /\ p.order = o
                             /\ p.amount <= order[o].amount
    /\ pc[h] = "place" =>
         /\ order[o].status = "none"
         /\ \A g \in Handlers \ {h} : req[g].order # o

OrderTrail == \A h \in Handlers : Trail(h)

-----------------------------------------------------------------------------
(* Lemmas about the operators.                                             *)

LEMMA AppliedWithin ==
    ASSUME NEW doc \in Invoice, Balance(doc) > 0, NEW left \in Nat
    PROVE  /\ Applied(doc, left) \in Nat
           /\ Applied(doc, left) <= left
           /\ NewPaid(doc, Applied(doc, left)) \in Nat
  BY DEF Applied, NewPaid, Lesser, Balance, Invoice, InvoiceStatus, OpenStatus

\* Snapshots with a balance, taken from a well-typed ledger.
LEMMA TargetsType ==
    ASSUME TypeOK, NEW s, NEW i \in DOMAIN invoice \cup {0}
    PROVE  Targets(s, i) \subseteq {t \in Snapshot : Balance(t.doc) > 0}
  BY DEF Targets, TypeOK, Snapshot, OpenInvoices

LEMMA PastDueType == TypeOK => PastDue \subseteq Snapshot
  BY DEF PastDue, TypeOK, Snapshot

LEMMA NoRequestType == NoRequest \in Request
  BY DEF NoRequest, Request

LEMMA LateFeeType ==
    ASSUME NEW doc \in Invoice, NEW day \in Nat
    PROVE  LateFee(doc, day) \in Nat
<1> DEFINE overdueBy == day - doc.due - GraceDays
<1>1. /\ LateFeePerDay \in Nat /\ MaxLateFee \in Nat /\ GraceDays \in Nat
      /\ doc.late \in Nat /\ doc.due \in Nat
  BY FeeLedgerAssumption DEF FeeLedgerAssumption, Invoice
<1>2. CASE LateFeePerDay = 0 \/ overdueBy <= 0
  BY <1>1, <1>2 DEF LateFee
<1>3. CASE ~(LateFeePerDay = 0 \/ overdueBy <= 0)
  <2>1. overdueBy \in Nat
    BY <1>1, <1>3
  <2>2. overdueBy * LateFeePerDay \in Nat
    BY <1>1, <2>1
  <2>3. QED
    BY <1>1, <1>3, <2>2 DEF LateFee, Lesser
<1>4. QED
  BY <1>2, <1>3
-----------------------------------------------------------------------------
(* Typed is inductive.                                                     *)

LEMMA TypedInit == Init => Typed
<1> SUFFICES ASSUME Init PROVE Typed
  OBVIOUS
<1>1. TypeOK
  BY NoRequestType, FeeLedgerAssumption
     DEF Init, TypeOK, FeeLedgerAssumption, Order, OrderStatus, NoOrderDoc,
         Labels
<1>2. LocalsOK
  BY DEF Init, LocalsOK, HoldsWhatItNeeds, NoRequest
<1>3. OrdersOK
  BY DEF Init, OrdersOK, NoOrderDoc
<1>4. QED
  BY <1>1, <1>2, <1>3 DEF Typed

LEMMA CollectionTyped ==
    ASSUME Typed, NEW h \in Handlers, NEW request \in Request,
           NEW s \in Students, NEW i \in DOMAIN invoice \cup {0},
           NEW amount \in Nat,
           request.pupils # {} => request.period \in Periods,
           request.order # NoOrder => order[request.order].status # "none",
           BeginCollection(h, request, s, i, amount),
           UNCHANGED <<store, gateway, today, orphaned, dueRead>>
    PROVE  Typed'
<1>1. Targets(s, i) \subseteq {t \in Snapshot : Balance(t.doc) > 0}
  BY TargetsType DEF Typed
<1> DEFINE r == [request EXCEPT !.student = s, !.ticket = begun + 1,
                                !.asked = amount, !.left = amount,
                                !.todo = Targets(s, i)]
<1>2. r \in Request
  <2>1. Targets(s, i) \in SUBSET Snapshot /\ begun + 1 \in Nat
    BY <1>1 DEF Typed, TypeOK
  <2>2. QED
    BY <2>1 DEF Request
<1>3. req' = [req EXCEPT ![h] = r] /\ pc' = [pc EXCEPT ![h] = "apply"]
      /\ begun' = begun + 1
  BY DEF BeginCollection
<1>4. TypeOK'
  BY <1>2, <1>3 DEF Typed, TypeOK, store, Labels
<1>5. LocalsOK'
  <2> SUFFICES ASSUME NEW g \in Handlers PROVE HoldsWhatItNeeds(g)'
    BY DEF LocalsOK
  <2>1. CASE g = h
    BY <1>1, <1>2, <1>3, <2>1
       DEF Typed, TypeOK, HoldsWhatItNeeds, Request, Balance, store
  <2>2. CASE g # h
    <3>1. pc'[g] = pc[g] /\ req'[g] = req[g]
      BY <1>3, <2>2 DEF Typed, TypeOK
    <3>2. QED
      BY <3>1 DEF Typed, LocalsOK, HoldsWhatItNeeds, store, Balance
  <2>3. QED
    BY <2>1, <2>2
<1>6. OrdersOK'
  BY DEF Typed, OrdersOK, store
<1>7. QED
  BY <1>4, <1>5, <1>6 DEF Typed
\* A step of handler h moves h only, and takes nothing away that another
\* handler stands on.
MovesOnly(h) ==
    /\ pc'  = [pc  EXCEPT ![h] = pc'[h]]
    /\ req' = [req EXCEPT ![h] = req'[h]]
    /\ invoiceSeq' \in Nat /\ invoiceSeq <= invoiceSeq'
    /\ receiptSeq' \in Nat /\ receiptSeq <= receiptSeq'
    /\ DOMAIN invoice \subseteq DOMAIN invoice'
    /\ \A o \in Orders : order[o].status # "none" => order'[o].status # "none"

LEMMA OthersUndisturbed ==
    ASSUME Typed, NEW h \in Handlers, MovesOnly(h), HoldsWhatItNeeds(h)'
    PROVE  LocalsOK'
<1> SUFFICES ASSUME NEW g \in Handlers, g # h PROVE HoldsWhatItNeeds(g)'
  BY DEF LocalsOK
<1>1. pc'[g] = pc[g] /\ req'[g] = req[g]
  BY DEF Typed, TypeOK, MovesOnly
<1>2. HoldsWhatItNeeds(g)
  BY DEF Typed, LocalsOK
<1>3. QED
  BY <1>1, <1>2
     DEF Typed, TypeOK, MovesOnly, HoldsWhatItNeeds, Balance, Request

LEMMA TakeReceiptNumberTyped ==
    ASSUME Typed, NEW h \in Handlers, TakeReceiptNumber(h)
    PROVE  Typed'
<1>1. TypeOK'
  <2>1. [req[h] EXCEPT !.number = receiptSeq + 1] \in Request
    BY DEF Typed, TypeOK, Request
  <2>2. QED
    BY <2>1 DEF Typed, TypeOK, Labels, TakeReceiptNumber, NextReceiptNumber
<1>2. HoldsWhatItNeeds(h)'
  BY DEF Typed, TypeOK, LocalsOK, HoldsWhatItNeeds, TakeReceiptNumber,
         NextReceiptNumber, Request
<1>3. MovesOnly(h)
  BY DEF Typed, TypeOK, MovesOnly, TakeReceiptNumber, NextReceiptNumber,
         Request
<1>4. OrdersOK'
  BY DEF Typed, TypeOK, OrdersOK, TakeReceiptNumber, NextReceiptNumber, Request
<1>5. QED
  BY <1>1, <1>2, <1>3, <1>4, OthersUndisturbed DEF Typed

LEMMA WriteReceiptTyped ==
    ASSUME Typed, NEW h \in Handlers, WriteReceipt(h)
    PROVE  Typed'
<1>1. TypeOK'
  BY NoRequestType
     DEF Typed, TypeOK, LocalsOK, HoldsWhatItNeeds, Labels, WriteReceipt,
         Payment, Request
<1>2. HoldsWhatItNeeds(h)'
  BY NoRequestType
     DEF Typed, TypeOK, LocalsOK, HoldsWhatItNeeds, NoRequest, WriteReceipt,
         Payment, Request
<1>3. MovesOnly(h)
  <2>1. CASE \A p \in payments : p.number # req[h].number
    <3>1. req' = req /\ pc' = [pc EXCEPT ![h] = "total"]
      BY <2>1 DEF WriteReceipt
    <3>2. req' = [req EXCEPT ![h] = req'[h]]
      BY <3>1 DEF Typed, TypeOK
    <3>3. QED
      BY <3>1, <3>2 DEF Typed, TypeOK, MovesOnly, WriteReceipt
  <2>2. CASE ~ \A p \in payments : p.number # req[h].number
    <3>1. req' = [req EXCEPT ![h] = NoRequest]
      BY <2>2 DEF WriteReceipt
    <3>2. QED
      BY <2>2, <3>1 DEF Typed, TypeOK, MovesOnly, WriteReceipt
  <2>3. QED
    BY <2>1, <2>2
<1>4. OrdersOK'
  BY DEF Typed, TypeOK, OrdersOK, WriteReceipt, Payment, Request
<1>5. QED
  BY <1>1, <1>2, <1>3, <1>4, OthersUndisturbed DEF Typed

LEMMA ReadOutstandingTyped ==
    ASSUME Typed, NEW h \in Handlers, ReadOutstanding(h)
    PROVE  Typed'
<1>1. TypeOK'
  BY DEF Typed, TypeOK, LocalsOK, HoldsWhatItNeeds, Labels, ReadOutstanding,
         store
<1>2. HoldsWhatItNeeds(h)'
  BY DEF Typed, TypeOK, LocalsOK, HoldsWhatItNeeds, ReadOutstanding, store
<1>3. MovesOnly(h)
  BY DEF Typed, TypeOK, MovesOnly, ReadOutstanding, store
<1>4. OrdersOK'
  BY DEF Typed, TypeOK, OrdersOK, ReadOutstanding, store
<1>5. QED
  BY <1>1, <1>2, <1>3, <1>4, OthersUndisturbed DEF Typed

LEMMA WriteOutstandingTyped ==
    ASSUME Typed, NEW h \in Handlers, WriteOutstanding(h)
    PROVE  Typed'
<1>1. TypeOK'
  BY NoRequestType
     DEF Typed, TypeOK, LocalsOK, HoldsWhatItNeeds, Labels, WriteOutstanding,
         AfterRefresh
<1>2. HoldsWhatItNeeds(h)'
  <2>1. CASE AfterRefresh(h) = "idle"
    BY <2>1 DEF Typed, TypeOK, HoldsWhatItNeeds, NoRequest, WriteOutstanding
  <2>2. CASE AfterRefresh(h) # "idle"
    BY <2>2 DEF Typed, TypeOK, LocalsOK, HoldsWhatItNeeds, WriteOutstanding,
                AfterRefresh, Request
  <2>3. QED
    BY <2>1, <2>2
<1>3. MovesOnly(h)
  <2>1. CASE AfterRefresh(h) = "idle"
    BY <2>1 DEF Typed, TypeOK, MovesOnly, WriteOutstanding
  <2>2. CASE AfterRefresh(h) # "idle"
    BY <2>2 DEF Typed, TypeOK, MovesOnly, WriteOutstanding
  <2>3. QED
    BY <2>1, <2>2
<1>4. OrdersOK'
  BY DEF Typed, TypeOK, OrdersOK, WriteOutstanding, AfterRefresh
<1>5. QED
  BY <1>1, <1>2, <1>3, <1>4, OthersUndisturbed DEF Typed

LEMMA PlaceOrderTyped ==
    ASSUME Typed, NEW h \in Handlers, PlaceOrder(h)
    PROVE  Typed'
<1>1. TypeOK'
  BY NoRequestType
     DEF Typed, TypeOK, LocalsOK, HoldsWhatItNeeds, Labels, PlaceOrder, Finish,
         Order, OrderStatus, Request
<1>2. HoldsWhatItNeeds(h)'
  BY NoRequestType
     DEF Typed, TypeOK, LocalsOK, HoldsWhatItNeeds, NoRequest, PlaceOrder,
         Finish, Order, OrderStatus, Request
<1>3. MovesOnly(h)
  BY DEF Typed, TypeOK, MovesOnly, PlaceOrder, Finish, Order, OrderStatus,
         Request
<1>4. OrdersOK'
  <2> SUFFICES ASSUME NEW o \in Orders, order'[o].status # "none"
               PROVE  /\ order'[o].student \in Students
                      /\ order'[o].invoice \in DOMAIN invoice \cup {0}
    BY DEF OrdersOK, PlaceOrder
  <2>1. CASE o = req[h].order
    BY <2>1
       DEF Typed, TypeOK, LocalsOK, HoldsWhatItNeeds, OrdersOK, PlaceOrder,
           Order
  <2>2. CASE o # req[h].order
    BY <2>2 DEF Typed, TypeOK, OrdersOK, PlaceOrder
  <2>3. QED
    BY <2>1, <2>2
<1>5. QED
  BY <1>1, <1>2, <1>3, <1>4, OthersUndisturbed DEF Typed

LEMMA RefuseOrderTyped ==
    ASSUME Typed, NEW h \in Handlers, RefuseOrder(h)
    PROVE  Typed'
<1>1. TypeOK'
  <2> DEFINE o == req[h].order
             status == IF pc[h] = "reject" THEN "signature_failed" ELSE "failed"
  <2>1. o \in Orders /\ [order[o] EXCEPT !.status = status] \in Order
    BY SMTT(60) DEF Typed, TypeOK, LocalsOK, HoldsWhatItNeeds, RefuseOrder, Order,
           OrderStatus
  <2>2. order' = [order EXCEPT ![o] = [order[o] EXCEPT !.status = status]]
    BY <2>1 DEF Typed, TypeOK, RefuseOrder
  <2>3. QED
    BY <2>1, <2>2, NoRequestType DEF Typed, TypeOK, RefuseOrder, Finish, Labels
<1>2. HoldsWhatItNeeds(h)'
  BY NoRequestType
     DEF Typed, TypeOK, LocalsOK, HoldsWhatItNeeds, NoRequest, RefuseOrder,
         Finish, Order, OrderStatus
<1>3. MovesOnly(h)
  BY DEF Typed, TypeOK, MovesOnly, RefuseOrder, Finish, Order, OrderStatus
<1>4. OrdersOK'
  <2> SUFFICES ASSUME NEW o \in Orders, order'[o].status # "none"
               PROVE  /\ order'[o].student \in Students
                      /\ order'[o].invoice \in DOMAIN invoice \cup {0}
    BY DEF OrdersOK, RefuseOrder
  <2>1. CASE o = req[h].order
    BY <2>1, FeeLedgerAssumption
       DEF Typed, TypeOK, LocalsOK, HoldsWhatItNeeds, OrdersOK, RefuseOrder,
           Order, FeeLedgerAssumption
  <2>2. CASE o # req[h].order
    BY <2>2 DEF Typed, TypeOK, OrdersOK, RefuseOrder
  <2>3. QED
    BY <2>1, <2>2
<1>5. QED
  BY <1>1, <1>2, <1>3, <1>4, OthersUndisturbed DEF Typed

LEMMA FetchPaymentTyped ==
    ASSUME Typed, NEW h \in Handlers, FetchPayment(h)
    PROVE  Typed'
<1>1. TypeOK'
  BY DEF Typed, TypeOK, LocalsOK, HoldsWhatItNeeds, Labels, FetchPayment,
         store, OnRemote
<1>2. HoldsWhatItNeeds(h)'
  BY DEF Typed, TypeOK, LocalsOK, HoldsWhatItNeeds, FetchPayment, store,
         OnRemote
<1>3. MovesOnly(h)
  BY DEF Typed, TypeOK, MovesOnly, FetchPayment, store, OnRemote
<1>4. OrdersOK'
  BY DEF Typed, TypeOK, OrdersOK, FetchPayment, store, OnRemote
<1>5. QED
  BY <1>1, <1>2, <1>3, <1>4, OthersUndisturbed DEF Typed

LEMMA CollectNothingTyped ==
    ASSUME Typed, NEW h \in Handlers, CollectNothing(h)
    PROVE  Typed'
<1>1. TypeOK'
  BY NoRequestType
     DEF Typed, TypeOK, LocalsOK, HoldsWhatItNeeds, Labels, CollectNothing,
         Finish, store
<1>2. HoldsWhatItNeeds(h)'
  BY NoRequestType
     DEF Typed, TypeOK, LocalsOK, HoldsWhatItNeeds, NoRequest, CollectNothing,
         Finish, store
<1>3. MovesOnly(h)
  BY DEF Typed, TypeOK, MovesOnly, CollectNothing, Finish, store
<1>4. OrdersOK'
  BY DEF Typed, TypeOK, OrdersOK, CollectNothing, Finish, store
<1>5. QED
  BY <1>1, <1>2, <1>3, <1>4, OthersUndisturbed DEF Typed

LEMMA BankOrderTyped ==
    ASSUME Typed, NEW h \in Handlers, BankOrder(h)
    PROVE  Typed'
<1>1. TypeOK'
  BY SMTT(30), NoRequestType
     DEF Typed, TypeOK, LocalsOK, HoldsWhatItNeeds, Labels, BankOrder, Finish,
         Order, OrderStatus, Request
<1>2. HoldsWhatItNeeds(h)'
  BY NoRequestType
     DEF Typed, TypeOK, LocalsOK, HoldsWhatItNeeds, NoRequest, BankOrder,
         Finish, Order, OrderStatus, Request
<1>3. MovesOnly(h)
  BY DEF Typed, TypeOK, MovesOnly, BankOrder, Finish, Order, OrderStatus,
         Request
<1>4. OrdersOK'
  <2> SUFFICES ASSUME NEW o \in Orders, order'[o].status # "none"
               PROVE  /\ order'[o].student \in Students
                      /\ order'[o].invoice \in DOMAIN invoice \cup {0}
    BY DEF OrdersOK, BankOrder
  <2>1. CASE o = req[h].order
    BY <2>1, FeeLedgerAssumption
       DEF Typed, TypeOK, LocalsOK, HoldsWhatItNeeds, OrdersOK, BankOrder,
           Order, FeeLedgerAssumption
  <2>2. CASE o # req[h].order
    BY <2>2 DEF Typed, TypeOK, OrdersOK, BankOrder
  <2>3. QED
    BY <2>1, <2>2
<1>5. QED
  BY <1>1, <1>2, <1>3, <1>4, OthersUndisturbed DEF Typed

LEMMA CheckBilledTyped ==
    ASSUME Typed, NEW h \in Handlers, CheckBilled(h)
    PROVE  Typed'
<1>1. TypeOK'
  <2>1. PICK s \in req[h].pupils :
          LET billed == AlreadyBilled(s, req[h].period)
              over   == billed /\ req[h].pupils = {s}
          IN
          /\ pc' = [pc EXCEPT ![h] = IF over THEN "idle"
                      ELSE IF billed THEN "check" ELSE "invoice_number"]
          /\ req' = [req EXCEPT ![h] = IF over THEN NoRequest ELSE
                       [req[h] EXCEPT
                          !.student = IF billed THEN NoStudent ELSE s,
                          !.pupils = req[h].pupils \ {s}]]
    BY DEF CheckBilled, Typed, TypeOK
  <2> DEFINE billed == AlreadyBilled(s, req[h].period)
             over == billed /\ req[h].pupils = {s}
             r == IF over THEN NoRequest ELSE
                    [req[h] EXCEPT !.student = IF billed THEN NoStudent ELSE s,
                                   !.pupils = req[h].pupils \ {s}]
  <2>2. r \in Request
    <3>1. CASE over
      BY <3>1, NoRequestType
    <3>2. CASE ~over
      <4>1. req[h] \in Request /\ s \in Students
        BY DEF Typed, TypeOK, Request
      <4>2. QED
        BY <3>2, <4>1 DEF Request
    <3>3. QED
      BY <3>1, <3>2
  <2>3. req' = [req EXCEPT ![h] = r]
    BY <2>1 DEF Typed, TypeOK
  <2>4. pc' = [pc EXCEPT ![h] = pc'[h]] /\ pc'[h] \in Labels
    BY <2>1 DEF Typed, TypeOK, Labels
  <2>5. QED
    BY <2>2, <2>3, <2>4 DEF Typed, TypeOK, CheckBilled, store
<1>2. HoldsWhatItNeeds(h)'
  BY NoRequestType
     DEF Typed, TypeOK, LocalsOK, HoldsWhatItNeeds, NoRequest, CheckBilled,
         store, Request
<1>3. MovesOnly(h)
  BY DEF Typed, TypeOK, MovesOnly, CheckBilled, store, Request
<1>4. OrdersOK'
  BY DEF Typed, TypeOK, OrdersOK, CheckBilled, store, Request
<1>5. QED
  BY <1>1, <1>2, <1>3, <1>4, OthersUndisturbed DEF Typed

LEMMA TakeInvoiceNumberTyped ==
    ASSUME Typed, NEW h \in Handlers, TakeInvoiceNumber(h)
    PROVE  Typed'
<1>1. TypeOK'
  <2>1. [req[h] EXCEPT !.number = invoiceSeq + 1] \in Request
    BY DEF Typed, TypeOK, Request
  <2>2. QED
    BY <2>1 DEF Typed, TypeOK, Labels, TakeInvoiceNumber
<1>2. HoldsWhatItNeeds(h)'
  BY DEF Typed, TypeOK, LocalsOK, HoldsWhatItNeeds, TakeInvoiceNumber, Request
<1>3. MovesOnly(h)
  BY DEF Typed, TypeOK, MovesOnly, TakeInvoiceNumber, Request
<1>4. OrdersOK'
  BY DEF Typed, TypeOK, OrdersOK, TakeInvoiceNumber, Request
<1>5. QED
  BY <1>1, <1>2, <1>3, <1>4, OthersUndisturbed DEF Typed

LEMMA RaiseInvoiceTyped ==
    ASSUME Typed, NEW h \in Handlers, RaiseInvoice(h)
    PROVE  Typed'
<1>1. TypeOK'
  <2> DEFINE s == req[h].student
             n == req[h].number
             doc == [student |-> s, period |-> req[h].period, base |-> Fee[s],
                     late |-> 0, total |-> Fee[s], paid |-> 0,
                     status |-> "issued", due |-> req[h].day + DueIn]
  <2>1. n \in 1 .. invoiceSeq /\ s \in Students /\ req[h].period \in Periods
    BY DEF Typed, LocalsOK, HoldsWhatItNeeds, RaiseInvoice
  <2>2. Fee[s] \in Nat /\ DueIn \in Nat /\ req[h].day \in Nat
    BY <2>1, FeeLedgerAssumption
       DEF FeeLedgerAssumption, Typed, TypeOK, Request
  <2>3. doc \in Invoice
    BY <2>1, <2>2 DEF Invoice, InvoiceStatus, OpenStatus
  <2>4. invoice' = [i \in DOMAIN invoice \cup {n} |->
                      IF i = n THEN doc ELSE invoice[i]]
    BY DEF RaiseInvoice
  <2>5. QED
    BY <2>1, <2>3, <2>4 DEF Typed, TypeOK, RaiseInvoice, Labels
<1>2. HoldsWhatItNeeds(h)'
  BY DEF Typed, TypeOK, LocalsOK, HoldsWhatItNeeds, RaiseInvoice, Request,
         Invoice, InvoiceStatus, OpenStatus
<1>3. MovesOnly(h)
  BY DEF Typed, TypeOK, MovesOnly, RaiseInvoice, Request, Invoice,
         InvoiceStatus, OpenStatus
<1>4. OrdersOK'
  BY DEF Typed, TypeOK, OrdersOK, RaiseInvoice, Request, Invoice,
         InvoiceStatus, OpenStatus
<1>5. QED
  BY <1>1, <1>2, <1>3, <1>4, OthersUndisturbed DEF Typed

LEMMA SweepInvoiceTyped ==
    ASSUME Typed, NEW h \in Handlers, SweepInvoice(h)
    PROVE  Typed'
<1>1. TypeOK'
  <2>1. PICK t \in req[h].todo :
          LET late == LateFee(t.doc, req[h].day)
              over == req[h].todo = {t}
          IN
          /\ invoice' = [invoice EXCEPT ![t.id].status = "overdue",
                                        ![t.id].late = late,
                                        ![t.id].total = t.doc.base + late]
          /\ pc' = [pc EXCEPT ![h] = IF over THEN "idle" ELSE "sweep"]
          /\ req' = [req EXCEPT ![h] = IF over THEN NoRequest ELSE
                       [req[h] EXCEPT !.todo = req[h].todo \ {t}]]
    BY DEF SweepInvoice, Typed, TypeOK
  <2> DEFINE late == LateFee(t.doc, req[h].day)
             r == IF req[h].todo = {t} THEN NoRequest
                  ELSE [req[h] EXCEPT !.todo = req[h].todo \ {t}]
  <2>2. t \in Snapshot /\ req[h].day \in Nat /\ r \in Request
    BY NoRequestType DEF Typed, TypeOK, Request
  <2>3. late \in Nat /\ t.doc.base + late \in Nat
    <3>1. t.doc \in Invoice /\ t.doc.base \in Nat
      BY <2>2 DEF Snapshot, Invoice
    <3>2. late \in Nat
      BY <2>2, <3>1, LateFeeType
    <3>3. QED
      BY <3>1, <3>2
  <2>4. /\ invoice' = [i \in DOMAIN invoice' |-> invoice'[i]]
        /\ DOMAIN invoice' = DOMAIN invoice
        /\ \A i \in DOMAIN invoice : invoice'[i] \in Invoice
    <3>1. ASSUME NEW d \in Invoice
          PROVE  [d EXCEPT !.status = "overdue", !.late = late,
                           !.total = t.doc.base + late] \in Invoice
      BY <2>3 DEF Invoice, InvoiceStatus, OpenStatus
    <3>2. ASSUME NEW i \in DOMAIN invoice, i = t.id
          PROVE  invoice'[i] = [invoice[i] EXCEPT !.status = "overdue",
                                  !.late = late, !.total = t.doc.base + late]
      BY <2>1, <3>2 DEF Typed, TypeOK
    <3>3. ASSUME NEW i \in DOMAIN invoice, i # t.id
          PROVE  invoice'[i] = invoice[i]
      BY <2>1, <3>3 DEF Typed, TypeOK
    <3>4. DOMAIN invoice' = DOMAIN invoice
          /\ invoice' = [i \in DOMAIN invoice' |-> invoice'[i]]
      BY <2>1 DEF Typed, TypeOK
    <3>5. ASSUME NEW i \in DOMAIN invoice PROVE invoice'[i] \in Invoice
      <4>1. invoice[i] \in Invoice
        BY DEF Typed, TypeOK
      <4>2. CASE i = t.id
        BY <3>1, <3>2, <4>1, <4>2
      <4>3. CASE i # t.id
        BY <3>3, <4>1, <4>3
      <4>4. QED
        BY <4>2, <4>3
    <3>6. QED
      BY <3>4, <3>5
  <2>5. req' = [req EXCEPT ![h] = r] /\ pc' = [pc EXCEPT ![h] = pc'[h]]
        /\ pc'[h] \in Labels
    BY <2>1 DEF Typed, TypeOK, Labels
  <2>6. QED
    BY <2>2, <2>4, <2>5 DEF Typed, TypeOK, SweepInvoice
<1>2. HoldsWhatItNeeds(h)'
  BY NoRequestType
     DEF Typed, TypeOK, LocalsOK, HoldsWhatItNeeds, NoRequest, SweepInvoice,
         Request, Snapshot, Invoice, InvoiceStatus, OpenStatus
<1>3. MovesOnly(h)
  BY DEF Typed, TypeOK, MovesOnly, SweepInvoice, Request, Snapshot, Invoice,
         InvoiceStatus, OpenStatus
<1>4. OrdersOK'
  BY DEF Typed, TypeOK, OrdersOK, SweepInvoice, Request, Snapshot, Invoice,
         InvoiceStatus, OpenStatus
<1>5. QED
  BY <1>1, <1>2, <1>3, <1>4, OthersUndisturbed DEF Typed

LEMMA ApplyToInvoiceTyped ==
    ASSUME Typed, NEW h \in Handlers, ApplyToInvoice(h)
    PROVE  Typed'
<1>1. TypeOK'
  <2>1. PICK t \in req[h].todo : ApplyToInvoice(h)!2!(t)
    BY DEF ApplyToInvoice
  <2> DEFINE applied == Applied(t.doc, req[h].left)
             newPaid == NewPaid(t.doc, applied)
             line == [invoice |-> t.id, applied |-> applied,
                      settled |-> newPaid >= t.doc.total]
             r == [req[h] EXCEPT !.todo = @ \ {t}, !.left = @ - applied,
                                 !.lines = WithLine(@, line)]
  <2>2. t.doc \in Invoice /\ t.id \in Nat \ {0} /\ Balance(t.doc) > 0
        /\ req[h].left \in Nat /\ req[h] \in Request
    BY DEF Typed, TypeOK, LocalsOK, HoldsWhatItNeeds, Request, Snapshot,
           ApplyToInvoice
  <2>3. applied \in Nat /\ applied <= req[h].left /\ newPaid \in Nat
    BY <2>2, AppliedWithin
  <2>4. line \in Line
    BY <2>2, <2>3 DEF Line
  <2>5. r \in Request
    <3>1. req[h].left - applied \in Nat
      BY <2>2, <2>3
    <3>2. QED
      BY <2>2, <2>4, <3>1 DEF Request, WithLine
  <2>6. /\ invoice' = [i \in DOMAIN invoice' |-> invoice'[i]]
        /\ DOMAIN invoice' = DOMAIN invoice
        /\ \A i \in DOMAIN invoice : invoice'[i] \in Invoice
    <3>1. ASSUME NEW d \in Invoice, NEW status \in InvoiceStatus
          PROVE  [d EXCEPT !.paid = newPaid, !.status = status] \in Invoice
      BY <2>3 DEF Invoice
    <3>2. DOMAIN invoice' = DOMAIN invoice
          /\ invoice' = [i \in DOMAIN invoice' |-> invoice'[i]]
      BY <2>1 DEF Typed, TypeOK
    <3>3. ASSUME NEW i \in DOMAIN invoice PROVE invoice'[i] \in Invoice
      <4> DEFINE status == IF newPaid >= t.doc.total THEN "paid"
                           ELSE "partially_paid"
      <4>1. invoice[i] \in Invoice /\ status \in InvoiceStatus
        BY DEF Typed, TypeOK, InvoiceStatus, OpenStatus
      <4>2. CASE i = t.id
        <5>1. invoice'[i] = [invoice[i] EXCEPT !.paid = newPaid,
                                               !.status = status]
          BY <2>1, <4>2 DEF Typed, TypeOK
        <5> HIDE DEF status, newPaid
        <5>2. [invoice[i] EXCEPT !.paid = newPaid, !.status = status]
                \in Invoice
          BY <3>1, <4>1, Zenon
        <5>3. QED
          BY <5>1, <5>2, Zenon
      <4>3. CASE i # t.id
        BY <2>1, <4>1, <4>3 DEF Typed, TypeOK
      <4>4. QED
        BY <4>2, <4>3
    <3>4. QED
      BY <3>2, <3>3
  <2>7. req' = [req EXCEPT ![h] = r] /\ pc' = [pc EXCEPT ![h] = pc'[h]]
        /\ pc'[h] \in Labels
    BY <2>1 DEF Typed, TypeOK, Labels, Request
  <2>8. QED
    BY <2>5, <2>6, <2>7 DEF Typed, TypeOK, ApplyToInvoice
<1>2. HoldsWhatItNeeds(h)'
  BY DEF Typed, TypeOK, LocalsOK, HoldsWhatItNeeds, ApplyToInvoice, Request,
         Snapshot, Invoice, InvoiceStatus, OpenStatus, WithLine, Line
<1>3. MovesOnly(h)
  <2>1. DOMAIN invoice' = DOMAIN invoice
    BY DEF Typed, TypeOK, ApplyToInvoice
  <2>2. pc' = [pc EXCEPT ![h] = pc'[h]] /\ req' = [req EXCEPT ![h] = req'[h]]
    BY DEF Typed, TypeOK, ApplyToInvoice
  <2>3. QED
    BY <2>1, <2>2 DEF Typed, TypeOK, MovesOnly, ApplyToInvoice
<1>4. OrdersOK'
  BY DEF Typed, TypeOK, OrdersOK, ApplyToInvoice, Request, Snapshot, Invoice,
         InvoiceStatus, OpenStatus, WithLine, Line
<1>5. QED
  BY <1>1, <1>2, <1>3, <1>4, OthersUndisturbed DEF Typed

LEMMA BeginSweepTyped ==
    ASSUME Typed, NEW h \in Handlers, BeginSweep(h)
    PROVE  Typed'
<1>1. TypeOK'
  <2>1. [NoRequest EXCEPT !.day = today, !.todo = PastDue] \in Request
    BY NoRequestType, PastDueType DEF Typed, TypeOK, Request
  <2>2. QED
    BY <2>1 DEF Typed, TypeOK, BeginSweep, Labels, store
<1>2. HoldsWhatItNeeds(h)'
  BY NoRequestType
     DEF Typed, TypeOK, LocalsOK, HoldsWhatItNeeds, NoRequest, BeginSweep,
         Idle, store, Request
<1>3. MovesOnly(h)
  BY DEF Typed, TypeOK, MovesOnly, BeginSweep, Idle, store, Request
<1>4. OrdersOK'
  BY DEF Typed, TypeOK, OrdersOK, BeginSweep, Idle, store, Request
<1>5. QED
  BY <1>1, <1>2, <1>3, <1>4, OthersUndisturbed DEF Typed

LEMMA AbortTyped ==
    ASSUME Typed, NEW h \in Handlers, Abort(h)
    PROVE  Typed'
<1>1. TypeOK'
  <2>1. [ticket |-> req[h].ticket, lines |-> req[h].lines]
          \in [ticket : Nat, lines : SUBSET Line]
    BY DEF Typed, TypeOK, Request
  <2>2. QED
    BY <2>1, NoRequestType DEF Typed, TypeOK, Abort, Finish, Labels, store
<1>2. HoldsWhatItNeeds(h)'
  BY NoRequestType
     DEF Typed, TypeOK, LocalsOK, HoldsWhatItNeeds, NoRequest, Abort, Finish,
         Idle, store, Request
<1>3. MovesOnly(h)
  BY DEF Typed, TypeOK, MovesOnly, Abort, Finish, Idle, store, Request
<1>4. OrdersOK'
  BY DEF Typed, TypeOK, OrdersOK, Abort, Finish, Idle, store, Request
<1>5. QED
  BY <1>1, <1>2, <1>3, <1>4, OthersUndisturbed DEF Typed

\* A request arriving: collections, orders, confirmations, billing, sweeps.
LEMMA ArriveTyped ==
    ASSUME Typed, NEW h \in Handlers, Arrive(h)
    PROVE  Typed'
<1>1. CASE \E s \in Students, i \in DOMAIN invoice \cup {0},
              amount \in Amounts : Collect(h, s, i, amount)
  <2>1. PICK s \in Students, i \in DOMAIN invoice \cup {0},
             amount \in Amounts : Collect(h, s, i, amount)
    BY <1>1
  <2>2. amount \in Nat
    BY FeeLedgerAssumption DEF FeeLedgerAssumption
  <2>3. NoRequest.pupils = {} /\ NoRequest.order = NoOrder
    BY DEF NoRequest
  <2>4. QED
    BY <2>1, <2>2, <2>3, CollectionTyped, NoRequestType DEF Collect
<1>2. CASE \E o \in Orders, s \in Students, i \in DOMAIN invoice \cup {0},
              amount \in Amounts \cup {0} : BeginOrder(h, o, s, i, amount)
  <2>1. PICK o \in Orders, s \in Students, i \in DOMAIN invoice \cup {0},
             amount \in Amounts \cup {0} : BeginOrder(h, o, s, i, amount)
    BY <1>2
  <2> DEFINE due == IF i = 0 THEN TotalDue(s) ELSE Balance(invoice[i])
  <2>2. PICK payable \in 1 .. due :
          req' = [req EXCEPT ![h] =
            [NoRequest EXCEPT !.order = o, !.student = s, !.invoice = i,
                              !.asked = payable]]
    BY <2>1 DEF BeginOrder
  <2> DEFINE r == [NoRequest EXCEPT !.order = o, !.student = s, !.invoice = i,
                                    !.asked = payable]
  <2>3. payable \in Nat /\ i \in Nat
    <3>1. i \in Nat
      BY DEF Typed, TypeOK
    <3>2. payable \in Nat
      <4>. HIDE DEF due
      <4>. QED OBVIOUS
    <3>3. QED
      BY <3>1, <3>2
  <2>4. r \in Request /\ r.left <= r.asked /\ r.pupils = {}
    <3>1. r \in Request
      BY <2>3, NoRequestType DEF Request
    <3>2. r.left <= r.asked /\ r.pupils = {}
      BY <2>3 DEF NoRequest
    <3>3. QED
      BY <3>1, <3>2
  <2>5. pc' = [pc EXCEPT ![h] = "place"]
    BY <2>1 DEF BeginOrder
  <2>6. UNCHANGED <<store, gateway, today, begun, orphaned, dueRead>>
    BY <2>1 DEF BeginOrder
  <2>7. TypeOK'
    BY <2>2, <2>4, <2>5, <2>6 DEF Typed, TypeOK, store, Labels
  <2>8. HoldsWhatItNeeds(h)'
    BY <2>2, <2>4, <2>5, <2>6
       DEF Typed, TypeOK, HoldsWhatItNeeds, NoRequest, store
  <2>9. MovesOnly(h) /\ OrdersOK'
    BY <2>2, <2>5, <2>6 DEF Typed, TypeOK, MovesOnly, OrdersOK, store
  <2>10. QED
    BY <2>7, <2>8, <2>9, OthersUndisturbed DEF Typed
<1>3. CASE \E o \in Orders, genuine \in BOOLEAN : BeginConfirm(h, o, genuine)
  <2>1. PICK o \in Orders, genuine \in BOOLEAN : BeginConfirm(h, o, genuine)
    BY <1>3
  <2>2. [NoRequest EXCEPT !.order = o] \in Request
    BY NoRequestType DEF Request
  <2>3. TypeOK'
    BY <2>1, <2>2 DEF Typed, TypeOK, BeginConfirm, store, Labels
  <2>4. HoldsWhatItNeeds(h)'
    BY <2>1 DEF Typed, TypeOK, HoldsWhatItNeeds, NoRequest, store,
                BeginConfirm, Confirmable
  <2>5. MovesOnly(h) /\ OrdersOK'
    BY <2>1 DEF Typed, TypeOK, MovesOnly, OrdersOK, store, BeginConfirm
  <2>6. QED
    BY <2>3, <2>4, <2>5, OthersUndisturbed DEF Typed
<1>4. CASE \E p \in Periods, pupils \in SUBSET Students :
             BeginBilling(h, p, pupils)
  <2>1. PICK p \in Periods, pupils \in SUBSET Students :
          BeginBilling(h, p, pupils)
    BY <1>4
  <2>2. [NoRequest EXCEPT !.period = p, !.pupils = pupils, !.day = today]
          \in Request
    BY NoRequestType DEF Request, Typed, TypeOK
  <2>3. TypeOK'
    BY <2>1, <2>2 DEF Typed, TypeOK, BeginBilling, store, Labels
  <2>4. HoldsWhatItNeeds(h)'
    BY <2>1 DEF Typed, TypeOK, HoldsWhatItNeeds, NoRequest, store,
                BeginBilling
  <2>5. MovesOnly(h) /\ OrdersOK'
    BY <2>1 DEF Typed, TypeOK, MovesOnly, OrdersOK, store, BeginBilling
  <2>6. QED
    BY <2>3, <2>4, <2>5, OthersUndisturbed DEF Typed
<1>5. CASE BeginSweep(h)
  BY <1>5, BeginSweepTyped
<1>6. QED
  BY <1>1, <1>2, <1>3, <1>4, <1>5 DEF Arrive

\* confirm_payment hands the order's own student, invoice and amount over.
LEMMA CollectOnlineTyped ==
    ASSUME Typed, NEW h \in Handlers, CollectOnline(h)
    PROVE  Typed'
<1> DEFINE o == req[h].order
<1>1. o \in Orders /\ order[o].status # "none" /\ order[o] \in Order
  BY FeeLedgerAssumption
     DEF Typed, TypeOK, LocalsOK, HoldsWhatItNeeds, CollectOnline,
         FeeLedgerAssumption
<1>2. /\ order[o].student \in Students /\ order[o].amount \in Nat
      /\ order[o].invoice \in DOMAIN invoice \cup {0}
  BY <1>1 DEF Typed, OrdersOK, Order
<1>3. /\ req[h] \in Request
      /\ req[h].pupils # {} => req[h].period \in Periods
  BY DEF Typed, TypeOK, LocalsOK, HoldsWhatItNeeds, CollectOnline
<1>4. QED
  BY <1>1, <1>2, <1>3, CollectionTyped DEF CollectOnline

LEMMA SurroundingsTyped ==
    ASSUME Typed, Surroundings \/ UNCHANGED vars
    PROVE  Typed'
<1>1. UNCHANGED <<store, begun, orphaned, pc, req, dueRead>>
  BY DEF Surroundings, NextDay, Pay, Refund, vars
<1>2. gateway' \in [Orders -> {"unpaid", "captured", "refunded"}]
      /\ today' \in Nat
  BY DEF Typed, TypeOK, Surroundings, NextDay, Pay, Refund, vars
<1>3. TypeOK'
  BY <1>1, <1>2 DEF Typed, TypeOK, store
<1>4. LocalsOK' /\ OrdersOK'
  BY <1>1 DEF Typed, LocalsOK, HoldsWhatItNeeds, OrdersOK, store, Balance
<1>5. QED
  BY <1>3, <1>4 DEF Typed

LEMMA TypedStep == Typed /\ [Next]_vars => Typed'
<1> SUFFICES ASSUME Typed, [Next]_vars PROVE Typed'
  OBVIOUS
<1>1. CASE Surroundings \/ UNCHANGED vars
  BY <1>1, SurroundingsTyped
<1>2. ASSUME NEW h \in Handlers, Arrive(h) PROVE Typed'
  BY <1>2, ArriveTyped
<1>3. ASSUME NEW h \in Handlers, Resume(h) PROVE Typed'
  BY <1>3, ApplyToInvoiceTyped, TakeReceiptNumberTyped, WriteReceiptTyped,
     ReadOutstandingTyped, WriteOutstandingTyped, PlaceOrderTyped,
     RefuseOrderTyped, FetchPaymentTyped, CollectOnlineTyped,
     CollectNothingTyped, BankOrderTyped, CheckBilledTyped,
     TakeInvoiceNumberTyped, RaiseInvoiceTyped, SweepInvoiceTyped DEF Resume
<1>4. ASSUME NEW h \in Handlers, Abort(h) PROVE Typed'
  BY <1>4, AbortTyped
<1>5. QED
  BY <1>1, <1>2, <1>3, <1>4 DEF Next

\* The store and every handler's locals keep their shape: what a handler has
\* read before an await is still a document when it is used after it.
THEOREM TypeCorrect == Spec => []TypeOK
<1>1. Typed => TypeOK
  BY DEF Typed
<1>2. QED
  BY <1>1, TypedInit, TypedStep, PTL DEF Spec

-----------------------------------------------------------------------------
(* Receipt numbers.                                                        *)

Numbering == NumbersDrawn /\ NoReceiptCollision

\* A step that draws no number and writes no receipt.
LeavesTheBook ==
    /\ UNCHANGED <<payments, receiptSeq>>
    /\ \A g \in Handlers : pc'[g] = "receipt" =>
         pc[g] = "receipt" /\ req'[g] = req[g]

LEMMA BookLeftAlone == Numbering /\ LeavesTheBook => Numbering'
  BY DEF Numbering, NumbersDrawn, NoReceiptCollision, LeavesTheBook

LEMMA ArriveLeavesTheBook ==
    ASSUME Typed, NEW h \in Handlers, Arrive(h)
    PROVE  LeavesTheBook
  BY ZenonT(40) DEF Typed, TypeOK, Arrive, LeavesTheBook, store, Collect, BeginCollection,
         BeginOrder, BeginConfirm, BeginBilling, BeginSweep

LEMMA ResumeLeavesTheBook ==
    ASSUME Typed, NEW h \in Handlers, Resume(h),
           pc[h] \notin {"number", "receipt"}
    PROVE  LeavesTheBook
<1>1. CASE ApplyToInvoice(h)
  BY <1>1 DEF Typed, TypeOK, LeavesTheBook, store, ApplyToInvoice
<1>2. CASE ReadOutstanding(h)
  BY <1>2 DEF Typed, TypeOK, LeavesTheBook, store, ReadOutstanding
<1>3. CASE WriteOutstanding(h)
  BY <1>3
     DEF Typed, TypeOK, LeavesTheBook, store, WriteOutstanding, AfterRefresh
<1>4. CASE PlaceOrder(h)
  BY <1>4 DEF Typed, TypeOK, LeavesTheBook, store, PlaceOrder, Finish
<1>5. CASE RefuseOrder(h)
  BY <1>5 DEF Typed, TypeOK, LeavesTheBook, store, RefuseOrder, Finish
<1>6. CASE FetchPayment(h)
  BY <1>6 DEF Typed, TypeOK, LeavesTheBook, store, FetchPayment, OnRemote
<1>7. CASE CollectOnline(h)
  BY <1>7
     DEF Typed, TypeOK, LeavesTheBook, store, CollectOnline, BeginCollection
<1>8. CASE CollectNothing(h)
  BY <1>8 DEF Typed, TypeOK, LeavesTheBook, store, CollectNothing, Finish
<1>9. CASE BankOrder(h)
  BY <1>9 DEF Typed, TypeOK, LeavesTheBook, store, BankOrder, Finish
<1>10. CASE CheckBilled(h)
  BY <1>10 DEF Typed, TypeOK, LeavesTheBook, store, CheckBilled
<1>11. CASE TakeInvoiceNumber(h)
  BY <1>11 DEF Typed, TypeOK, LeavesTheBook, store, TakeInvoiceNumber
<1>12. CASE RaiseInvoice(h)
  BY <1>12 DEF Typed, TypeOK, LeavesTheBook, store, RaiseInvoice
<1>13. CASE SweepInvoice(h)
  BY <1>13 DEF Typed, TypeOK, LeavesTheBook, store, SweepInvoice
<1>14. ~TakeReceiptNumber(h) /\ ~WriteReceipt(h)
  BY DEF TakeReceiptNumber, WriteReceipt
<1>15. QED
  BY <1>1, <1>2, <1>3, <1>4, <1>5, <1>6, <1>7, <1>8, <1>9, <1>10, <1>11,
     <1>12, <1>13, <1>14
     DEF Resume

LEMMA NumberingStep == Typed /\ Numbering /\ [Next]_vars => Numbering'
<1> SUFFICES ASSUME Typed, Numbering, [Next]_vars PROVE Numbering'
  OBVIOUS
<1>1. CASE Surroundings \/ UNCHANGED vars
  BY <1>1, BookLeftAlone
     DEF LeavesTheBook, Surroundings, NextDay, Pay, Refund, vars, store
<1>2. ASSUME NEW h \in Handlers, Arrive(h) PROVE Numbering'
  BY <1>2, ArriveLeavesTheBook, BookLeftAlone
<1>3. ASSUME NEW h \in Handlers, Resume(h) PROVE Numbering'
  <2>1. CASE pc[h] \notin {"number", "receipt"}
    BY <1>3, <2>1, ResumeLeavesTheBook, BookLeftAlone
  <2>2. CASE TakeReceiptNumber(h)
    <3>1. receiptSeq \in Nat /\ \A p \in payments : p.number \in Nat
      BY DEF Typed, TypeOK, Payment
    <3>2. \A g \in Handlers :
            pc[g] = "receipt" => req[g].number \in 1 .. receiptSeq
      BY DEF Typed, LocalsOK, HoldsWhatItNeeds
    <3>3. /\ receiptSeq' = receiptSeq + 1 /\ payments' = payments
          /\ pc'[h] = "receipt" /\ req'[h].number = receiptSeq + 1
          /\ \A g \in Handlers \ {h} : pc'[g] = pc[g] /\ req'[g] = req[g]
      BY <2>2 DEF Typed, TypeOK, TakeReceiptNumber, NextReceiptNumber, Request
    <3>4. QED
      BY <3>1, <3>2, <3>3 DEF Numbering, NumbersDrawn, NoReceiptCollision
  <2>3. CASE WriteReceipt(h)
    <3> DEFINE p0 == [number |-> req[h].number, student |-> req[h].student,
                      amount |-> req[h].asked - req[h].left,
                      lines |-> req[h].lines, order |-> req[h].order]
    <3>1. \A p \in payments : p.number # req[h].number
      BY <2>3 DEF Numbering, NoReceiptCollision, WriteReceipt
    <3>2. /\ payments' = payments \cup {p0} /\ receiptSeq' = receiptSeq
          /\ pc'[h] = "total"
          /\ \A g \in Handlers \ {h} : pc'[g] = pc[g] /\ req'[g] = req[g]
      BY <2>3, <3>1 DEF Typed, TypeOK, WriteReceipt
    <3>3. p0.number = req[h].number /\ p0.number \in 1 .. receiptSeq
      BY <2>3 DEF Typed, LocalsOK, HoldsWhatItNeeds, WriteReceipt
    <3>4. \A g \in Handlers \ {h} :
            pc[g] = "receipt" => req[g].number # p0.number
      BY <2>3, <3>3 DEF Numbering, NoReceiptCollision, WriteReceipt
    <3>5. NumbersDrawn'
      BY <3>2, <3>3 DEF Numbering, NumbersDrawn, Typed, TypeOK
    <3>6. NoReceiptCollision'
      BY <3>1, <3>2, <3>3, <3>4 DEF Numbering, NoReceiptCollision
    <3>7. QED
      BY <3>5, <3>6 DEF Numbering
  <2>4. QED
    BY <1>3, <2>1, <2>2, <2>3
       DEF Resume, ApplyToInvoice, ReadOutstanding, WriteOutstanding,
           PlaceOrder, RefuseOrder, FetchPayment, CollectOnline, CollectNothing,
           BankOrder, CheckBilled, TakeInvoiceNumber, RaiseInvoice, SweepInvoice
<1>4. ASSUME NEW h \in Handlers, Abort(h) PROVE Numbering'
  BY <1>4, BookLeftAlone DEF Typed, TypeOK, Abort, Finish, LeavesTheBook, store
<1>5. QED
  BY <1>1, <1>2, <1>3, <1>4 DEF Next

\* next_receipt_number's atomic increment is enough: whatever the handlers do
\* and wherever they fail, no receipt number is ever in two places.
THEOREM ReceiptsNeverCollide == Spec => []NoReceiptCollision
<1>1. Init => Numbering
  BY DEF Init, Numbering, NumbersDrawn, NoReceiptCollision
<1>2. Numbering => NoReceiptCollision
  BY DEF Numbering
<1>3. QED
  BY <1>1, <1>2, TypedInit, TypedStep, NumberingStep, PTL DEF Spec

-----------------------------------------------------------------------------
(* The receipt behind a paid order.                                        *)

Banking == OrderTrail /\ PaidOrderHasReceipt

\* Handler h moves; the receipt book only grows, a placed order keeps its
\* amount, an order becomes paid by no other step than BankOrder, and no
\* order still being minted is touched or picked up.
KeepsTrails(h) ==
    /\ pc'  = [pc  EXCEPT ![h] = pc'[h]]
    /\ req' = [req EXCEPT ![h] = req'[h]]
    /\ payments \subseteq payments'
    /\ \A o \in Orders : order[o].status # "none" =>
         order'[o].amount = order[o].amount
    /\ \A o \in Orders : order'[o] # order[o] => o = req[h].order
    /\ \A g \in Handlers \ {h} : pc[g] = "place" =>
         req'[h].order # req[g].order

KeepsPaid ==
    \A o \in Orders : order'[o].status = "paid" => order'[o] = order[o]

LEMMA TrailsKept ==
    ASSUME Typed, OrderTrail, NEW h \in Handlers, KeepsTrails(h), Trail(h)'
    PROVE  OrderTrail'
<1> SUFFICES ASSUME NEW g \in Handlers, g # h PROVE Trail(g)'
  BY DEF OrderTrail
<1>1. pc'[g] = pc[g] /\ req'[g] = req[g] /\ Trail(g) /\ HoldsWhatItNeeds(g)
  BY DEF Typed, TypeOK, LocalsOK, OrderTrail, KeepsTrails
<1> DEFINE o == req[g].order
<1>2. o \in Orders \cup {NoOrder}
  BY DEF Typed, TypeOK, Request
<1>3. CASE pc[g] = "place"
  <2>1. o \in Orders /\ order[o].status = "none"
    BY <1>1, <1>3 DEF HoldsWhatItNeeds, Trail
  <2>2. \A f \in Handlers \ {g} : req'[f].order # o
    BY <1>1, <1>3 DEF Trail, KeepsTrails, Typed, TypeOK
  <2>3. order'[o] = order[o]
    BY <1>1, <1>3, <2>1 DEF Trail, KeepsTrails
  <2>4. QED
    BY <1>1, <1>3, <2>1, <2>2, <2>3 DEF Trail
<1>4. CASE pc[g] # "place"
  <2>1. o # NoOrder => order'[o].amount = order[o].amount
    BY <1>1, <1>2, <1>4 DEF HoldsWhatItNeeds, KeepsTrails
  <2>2. payments \subseteq payments'
    BY DEF KeepsTrails
  <2>3. QED
    BY <1>1, <1>4, <2>1, <2>2 DEF Trail
<1>5. QED
  BY <1>3, <1>4

LEMMA PaidKept ==
    ASSUME PaidOrderHasReceipt, KeepsPaid, payments \subseteq payments'
    PROVE  PaidOrderHasReceipt'
  BY DEF PaidOrderHasReceipt, KeepsPaid

LEMMA ApplyToInvoiceBanking ==
    ASSUME Typed, Banking, NEW h \in Handlers, ApplyToInvoice(h)
    PROVE  Banking'
<1>1. KeepsTrails(h)
  <2>1. pc' = [pc EXCEPT ![h] = pc'[h]] /\ req' = [req EXCEPT ![h] = req'[h]]
        /\ req'[h].order = req[h].order
    <3>1. PICK t \in req[h].todo : ApplyToInvoice(h)!2!(t)
      BY DEF ApplyToInvoice
    <3>2. req[h] \in Request
      BY DEF Typed, TypeOK
    <3>3. req'[h].order = req[h].order
      BY <3>1, <3>2 DEF Typed, TypeOK, Request
    <3>4. pc' = [pc EXCEPT ![h] = pc'[h]]
      BY DEF Typed, TypeOK, ApplyToInvoice
    <3>5. QED
      BY <3>1, <3>3, <3>4 DEF Typed, TypeOK
  <2>2. UNCHANGED <<order, payments>> /\ pc[h] = "apply"
    BY DEF ApplyToInvoice
  <2>3. QED
    BY <2>1, <2>2 DEF Banking, OrderTrail, Trail, KeepsTrails
<1>2. Trail(h)'
  BY DEF Typed, TypeOK, LocalsOK, HoldsWhatItNeeds, Banking, OrderTrail, Trail,
         NoRequest, store, ApplyToInvoice, Request
<1>3. KeepsPaid
  BY DEF Typed, TypeOK, LocalsOK, HoldsWhatItNeeds, KeepsPaid, store,
         ApplyToInvoice, Request
<1>4. QED
  BY <1>1, <1>2, <1>3, TrailsKept, PaidKept DEF Banking, KeepsTrails

LEMMA TakeReceiptNumberBanking ==
    ASSUME Typed, Banking, NEW h \in Handlers, TakeReceiptNumber(h)
    PROVE  Banking'
<1>1. KeepsTrails(h)
  BY FeeLedgerAssumption
     DEF Typed, TypeOK, LocalsOK, HoldsWhatItNeeds, Banking, OrderTrail, Trail,
         KeepsTrails, NoRequest, store, FeeLedgerAssumption,
         TakeReceiptNumber, Request
<1>2. Trail(h)'
  BY DEF Typed, TypeOK, LocalsOK, HoldsWhatItNeeds, Banking, OrderTrail, Trail,
         NoRequest, store, TakeReceiptNumber, Request
<1>3. KeepsPaid
  BY DEF Typed, TypeOK, LocalsOK, HoldsWhatItNeeds, KeepsPaid, store,
         TakeReceiptNumber, Request
<1>4. QED
  BY <1>1, <1>2, <1>3, TrailsKept, PaidKept DEF Banking, KeepsTrails

LEMMA WriteReceiptBanking ==
    ASSUME Typed, Banking, NEW h \in Handlers, WriteReceipt(h)
    PROVE  Banking'
<1>1. KeepsTrails(h)
  BY ZenonT(40), FeeLedgerAssumption
     DEF Typed, TypeOK, LocalsOK, HoldsWhatItNeeds, Banking, OrderTrail, Trail,
         KeepsTrails, NoRequest, store, FeeLedgerAssumption, WriteReceipt
<1>2. Trail(h)'
  <2> DEFINE p0 == [number |-> req[h].number, student |-> req[h].student,
                    amount |-> req[h].asked - req[h].left,
                    lines |-> req[h].lines, order |-> req[h].order]
             fresh == \A p \in payments : p.number # req[h].number
  <2>1. CASE ~fresh
    BY <2>1 DEF Typed, TypeOK, Trail, WriteReceipt, NoRequest
  <2>2. CASE fresh
    <3>1. /\ payments' = payments \cup {p0} /\ req' = req /\ order' = order
          /\ pc'[h] = "total"
      BY <2>2 DEF Typed, TypeOK, WriteReceipt
    <3>2. req[h].asked \in Nat /\ req[h].left \in Nat
      BY DEF Typed, TypeOK, Request
    <3>3. req[h].order # NoOrder => req[h].asked = order[req[h].order].amount
      BY DEF Banking, OrderTrail, Trail, WriteReceipt
    <3>4. req[h].order # NoOrder => p0.amount <= order[req[h].order].amount
      BY <3>2, <3>3
    <3>5. QED
      BY <3>1, <3>4 DEF Trail
  <2>3. QED
    BY <2>1, <2>2
<1>3. KeepsPaid
  BY DEF Typed, TypeOK, LocalsOK, HoldsWhatItNeeds, KeepsPaid, store,
         WriteReceipt
<1>4. QED
  BY <1>1, <1>2, <1>3, TrailsKept, PaidKept DEF Banking, KeepsTrails

LEMMA ReadOutstandingBanking ==
    ASSUME Typed, Banking, NEW h \in Handlers, ReadOutstanding(h)
    PROVE  Banking'
<1>1. KeepsTrails(h)
  BY FeeLedgerAssumption
     DEF Typed, TypeOK, LocalsOK, HoldsWhatItNeeds, Banking, OrderTrail, Trail,
         KeepsTrails, NoRequest, store, FeeLedgerAssumption, ReadOutstanding
<1>2. Trail(h)'
  BY DEF Typed, TypeOK, LocalsOK, HoldsWhatItNeeds, Banking, OrderTrail, Trail,
         NoRequest, store, ReadOutstanding
<1>3. KeepsPaid
  BY DEF Typed, TypeOK, LocalsOK, HoldsWhatItNeeds, KeepsPaid, store,
         ReadOutstanding
<1>4. QED
  BY <1>1, <1>2, <1>3, TrailsKept, PaidKept DEF Banking, KeepsTrails

LEMMA WriteOutstandingBanking ==
    ASSUME Typed, Banking, NEW h \in Handlers, WriteOutstanding(h)
    PROVE  Banking'
<1>1. KeepsTrails(h)
  BY FeeLedgerAssumption
     DEF Typed, TypeOK, LocalsOK, HoldsWhatItNeeds, Banking, OrderTrail, Trail,
         KeepsTrails, NoRequest, store, FeeLedgerAssumption,
         WriteOutstanding, AfterRefresh
<1>2. Trail(h)'
  BY DEF Typed, TypeOK, LocalsOK, HoldsWhatItNeeds, Banking, OrderTrail, Trail,
         NoRequest, store, WriteOutstanding, AfterRefresh
<1>3. KeepsPaid
  BY DEF Typed, TypeOK, LocalsOK, HoldsWhatItNeeds, KeepsPaid, store,
         WriteOutstanding, AfterRefresh
<1>4. QED
  BY <1>1, <1>2, <1>3, TrailsKept, PaidKept DEF Banking, KeepsTrails

LEMMA PlaceOrderBanking ==
    ASSUME Typed, Banking, NEW h \in Handlers, PlaceOrder(h)
    PROVE  Banking'
<1>1. KeepsTrails(h)
  BY FeeLedgerAssumption
     DEF Typed, TypeOK, LocalsOK, HoldsWhatItNeeds, Banking, OrderTrail, Trail,
         KeepsTrails, NoRequest, store, FeeLedgerAssumption, PlaceOrder, Finish
<1>2. Trail(h)'
  BY DEF Typed, TypeOK, LocalsOK, HoldsWhatItNeeds, Banking, OrderTrail, Trail,
         NoRequest, store, PlaceOrder, Finish
<1>3. KeepsPaid
  BY DEF Typed, TypeOK, LocalsOK, HoldsWhatItNeeds, KeepsPaid, store,
         PlaceOrder, Finish
<1>4. QED
  BY <1>1, <1>2, <1>3, TrailsKept, PaidKept DEF Banking, KeepsTrails

LEMMA RefuseOrderBanking ==
    ASSUME Typed, Banking, NEW h \in Handlers, RefuseOrder(h)
    PROVE  Banking'
<1>1. KeepsTrails(h)
  BY FeeLedgerAssumption
     DEF Typed, TypeOK, LocalsOK, HoldsWhatItNeeds, Banking, OrderTrail, Trail,
         KeepsTrails, NoRequest, store, FeeLedgerAssumption,
         RefuseOrder, Finish
<1>2. Trail(h)'
  BY DEF Typed, TypeOK, LocalsOK, HoldsWhatItNeeds, Banking, OrderTrail, Trail,
         NoRequest, store, RefuseOrder, Finish
<1>3. KeepsPaid
  BY DEF Typed, TypeOK, LocalsOK, HoldsWhatItNeeds, KeepsPaid, store,
         RefuseOrder, Finish
<1>4. QED
  BY <1>1, <1>2, <1>3, TrailsKept, PaidKept DEF Banking, KeepsTrails

LEMMA FetchPaymentBanking ==
    ASSUME Typed, Banking, NEW h \in Handlers, FetchPayment(h)
    PROVE  Banking'
<1>1. KeepsTrails(h)
  BY FeeLedgerAssumption
     DEF Typed, TypeOK, LocalsOK, HoldsWhatItNeeds, Banking, OrderTrail, Trail,
         KeepsTrails, NoRequest, store, FeeLedgerAssumption,
         FetchPayment, OnRemote
<1>2. Trail(h)'
  BY DEF Typed, TypeOK, LocalsOK, HoldsWhatItNeeds, Banking, OrderTrail, Trail,
         NoRequest, store, FetchPayment, OnRemote
<1>3. KeepsPaid
  BY DEF Typed, TypeOK, LocalsOK, HoldsWhatItNeeds, KeepsPaid, store,
         FetchPayment, OnRemote
<1>4. QED
  BY <1>1, <1>2, <1>3, TrailsKept, PaidKept DEF Banking, KeepsTrails

LEMMA CollectOnlineBanking ==
    ASSUME Typed, Banking, NEW h \in Handlers, CollectOnline(h)
    PROVE  Banking'
<1>1. KeepsTrails(h)
  BY FeeLedgerAssumption
     DEF Typed, TypeOK, LocalsOK, HoldsWhatItNeeds, Banking, OrderTrail, Trail,
         KeepsTrails, NoRequest, store, FeeLedgerAssumption,
         CollectOnline, BeginCollection, Request
<1>2. Trail(h)'
  BY DEF Typed, TypeOK, LocalsOK, HoldsWhatItNeeds, Banking, OrderTrail, Trail,
         NoRequest, store, CollectOnline, BeginCollection, Request
<1>3. KeepsPaid
  BY DEF Typed, TypeOK, LocalsOK, HoldsWhatItNeeds, KeepsPaid, store,
         CollectOnline, BeginCollection, Request
<1>4. QED
  BY <1>1, <1>2, <1>3, TrailsKept, PaidKept DEF Banking, KeepsTrails

LEMMA CollectNothingBanking ==
    ASSUME Typed, Banking, NEW h \in Handlers, CollectNothing(h)
    PROVE  Banking'
<1>1. KeepsTrails(h)
  BY FeeLedgerAssumption
     DEF Typed, TypeOK, LocalsOK, HoldsWhatItNeeds, Banking, OrderTrail, Trail,
         KeepsTrails, NoRequest, store, FeeLedgerAssumption,
         CollectNothing, Finish
<1>2. Trail(h)'
  BY DEF Typed, TypeOK, LocalsOK, HoldsWhatItNeeds, Banking, OrderTrail, Trail,
         NoRequest, store, CollectNothing, Finish
<1>3. KeepsPaid
  BY DEF Typed, TypeOK, LocalsOK, HoldsWhatItNeeds, KeepsPaid, store,
         CollectNothing, Finish
<1>4. QED
  BY <1>1, <1>2, <1>3, TrailsKept, PaidKept DEF Banking, KeepsTrails

LEMMA BankOrderBanking ==
    ASSUME Typed, Banking, NEW h \in Handlers, BankOrder(h)
    PROVE  Banking'
<1>1. KeepsTrails(h)
  BY FeeLedgerAssumption
     DEF Typed, TypeOK, LocalsOK, HoldsWhatItNeeds, Banking, OrderTrail, Trail,
         KeepsTrails, NoRequest, store, FeeLedgerAssumption, BankOrder, Finish
<1>2. Trail(h)'
  BY DEF Typed, TypeOK, LocalsOK, HoldsWhatItNeeds, Banking, OrderTrail, Trail,
         NoRequest, store, BankOrder, Finish
<1>3. PaidOrderHasReceipt'
  <2> SUFFICES ASSUME NEW o \in Orders, order'[o].status = "paid"
               PROVE  \E p \in payments : /\ p.number = order'[o].receipt
                                         /\ p.order = o
                                         /\ p.amount <= order'[o].amount
    BY DEF PaidOrderHasReceipt, BankOrder
  <2>1. CASE o = req[h].order
    <3>1. /\ order'[o].receipt = req[h].number
          /\ order'[o].amount = order[o].amount
      BY <2>1 DEF Typed, TypeOK, BankOrder, Order
    <3>2. \E p \in payments : /\ p.number = req[h].number /\ p.order = o
                              /\ p.amount <= order[o].amount
      BY <2>1, FeeLedgerAssumption
         DEF Banking, OrderTrail, Trail, BankOrder, FeeLedgerAssumption
    <3>3. QED
      BY <3>1, <3>2
  <2>2. CASE o # req[h].order
    BY <2>2 DEF Typed, TypeOK, Banking, PaidOrderHasReceipt, BankOrder
  <2>3. QED
    BY <2>1, <2>2
<1>4. QED
  BY <1>1, <1>2, <1>3, TrailsKept DEF Banking

LEMMA CheckBilledBanking ==
    ASSUME Typed, Banking, NEW h \in Handlers, CheckBilled(h)
    PROVE  Banking'
<1>1. KeepsTrails(h)
  BY FeeLedgerAssumption
     DEF Typed, TypeOK, LocalsOK, HoldsWhatItNeeds, Banking, OrderTrail, Trail,
         KeepsTrails, NoRequest, store, FeeLedgerAssumption,
         CheckBilled, Request
<1>2. Trail(h)'
  BY DEF Typed, TypeOK, LocalsOK, HoldsWhatItNeeds, Banking, OrderTrail, Trail,
         NoRequest, store, CheckBilled, Request
<1>3. KeepsPaid
  BY DEF Typed, TypeOK, LocalsOK, HoldsWhatItNeeds, KeepsPaid, store,
         CheckBilled, Request
<1>4. QED
  BY <1>1, <1>2, <1>3, TrailsKept, PaidKept DEF Banking, KeepsTrails

LEMMA TakeInvoiceNumberBanking ==
    ASSUME Typed, Banking, NEW h \in Handlers, TakeInvoiceNumber(h)
    PROVE  Banking'
<1>1. KeepsTrails(h)
  BY FeeLedgerAssumption
     DEF Typed, TypeOK, LocalsOK, HoldsWhatItNeeds, Banking, OrderTrail, Trail,
         KeepsTrails, NoRequest, store, FeeLedgerAssumption,
         TakeInvoiceNumber, Request
<1>2. Trail(h)'
  BY DEF Typed, TypeOK, LocalsOK, HoldsWhatItNeeds, Banking, OrderTrail, Trail,
         NoRequest, store, TakeInvoiceNumber, Request
<1>3. KeepsPaid
  BY DEF Typed, TypeOK, LocalsOK, HoldsWhatItNeeds, KeepsPaid, store,
         TakeInvoiceNumber, Request
<1>4. QED
  BY <1>1, <1>2, <1>3, TrailsKept, PaidKept DEF Banking, KeepsTrails

LEMMA RaiseInvoiceBanking ==
    ASSUME Typed, Banking, NEW h \in Handlers, RaiseInvoice(h)
    PROVE  Banking'
<1>1. KeepsTrails(h)
  BY FeeLedgerAssumption
     DEF Typed, TypeOK, LocalsOK, HoldsWhatItNeeds, Banking, OrderTrail, Trail,
         KeepsTrails, NoRequest, store, FeeLedgerAssumption, RaiseInvoice
<1>2. Trail(h)'
  BY DEF Typed, TypeOK, LocalsOK, HoldsWhatItNeeds, Banking, OrderTrail, Trail,
         NoRequest, store, RaiseInvoice
<1>3. KeepsPaid
  BY DEF Typed, TypeOK, LocalsOK, HoldsWhatItNeeds, KeepsPaid, store,
         RaiseInvoice
<1>4. QED
  BY <1>1, <1>2, <1>3, TrailsKept, PaidKept DEF Banking, KeepsTrails

LEMMA SweepInvoiceBanking ==
    ASSUME Typed, Banking, NEW h \in Handlers, SweepInvoice(h)
    PROVE  Banking'
<1>1. KeepsTrails(h)
  BY FeeLedgerAssumption
     DEF Typed, TypeOK, LocalsOK, HoldsWhatItNeeds, Banking, OrderTrail, Trail,
         KeepsTrails, NoRequest, store, FeeLedgerAssumption,
         SweepInvoice, Request
<1>2. Trail(h)'
  BY DEF Typed, TypeOK, LocalsOK, HoldsWhatItNeeds, Banking, OrderTrail, Trail,
         NoRequest, store, SweepInvoice, Request
<1>3. KeepsPaid
  BY DEF Typed, TypeOK, LocalsOK, HoldsWhatItNeeds, KeepsPaid, store,
         SweepInvoice, Request
<1>4. QED
  BY <1>1, <1>2, <1>3, TrailsKept, PaidKept DEF Banking, KeepsTrails

LEMMA BeginSweepBanking ==
    ASSUME Typed, Banking, NEW h \in Handlers, BeginSweep(h)
    PROVE  Banking'
<1>1. KeepsTrails(h)
  BY FeeLedgerAssumption
     DEF Typed, TypeOK, LocalsOK, HoldsWhatItNeeds, Banking, OrderTrail, Trail,
         KeepsTrails, NoRequest, store, FeeLedgerAssumption, BeginSweep
<1>2. Trail(h)'
  BY DEF Typed, TypeOK, LocalsOK, HoldsWhatItNeeds, Banking, OrderTrail, Trail,
         NoRequest, store, BeginSweep
<1>3. KeepsPaid
  BY DEF Typed, TypeOK, LocalsOK, HoldsWhatItNeeds, KeepsPaid, store,
         BeginSweep
<1>4. QED
  BY <1>1, <1>2, <1>3, TrailsKept, PaidKept DEF Banking, KeepsTrails

LEMMA AbortBanking ==
    ASSUME Typed, Banking, NEW h \in Handlers, Abort(h)
    PROVE  Banking'
<1>1. KeepsTrails(h)
  BY FeeLedgerAssumption
     DEF Typed, TypeOK, LocalsOK, HoldsWhatItNeeds, Banking, OrderTrail, Trail,
         KeepsTrails, NoRequest, store, FeeLedgerAssumption, Abort, Finish
<1>2. Trail(h)'
  BY DEF Typed, TypeOK, LocalsOK, HoldsWhatItNeeds, Banking, OrderTrail, Trail,
         NoRequest, store, Abort, Finish
<1>3. KeepsPaid
  BY DEF Typed, TypeOK, LocalsOK, HoldsWhatItNeeds, KeepsPaid, store, Abort,
         Finish
<1>4. QED
  BY <1>1, <1>2, <1>3, TrailsKept, PaidKept DEF Banking, KeepsTrails

LEMMA ArriveBanking ==
    ASSUME Typed, Banking, NEW h \in Handlers, Arrive(h)
    PROVE  Banking'
<1>1. CASE \E s \in Students, i \in DOMAIN invoice \cup {0},
              amount \in Amounts : Collect(h, s, i, amount)
  <2>1. KeepsTrails(h) /\ Trail(h)' /\ KeepsPaid
    BY <1>1, FeeLedgerAssumption
       DEF Typed, TypeOK, LocalsOK, HoldsWhatItNeeds, KeepsTrails, KeepsPaid,
           Trail, NoRequest, store, FeeLedgerAssumption, Collect,
           BeginCollection
  <2>2. QED
    BY <2>1, TrailsKept, PaidKept DEF Banking, KeepsTrails
<1>2. CASE \E o \in Orders, s \in Students, i \in DOMAIN invoice \cup {0},
              amount \in Amounts \cup {0} : BeginOrder(h, o, s, i, amount)
  <2>1. PICK o \in Orders : /\ order[o].status = "none"
                            /\ \A g \in Handlers : req[g].order # o
                            /\ req'[h].order = o
                            /\ req' = [req EXCEPT ![h] = req'[h]]
                            /\ pc' = [pc EXCEPT ![h] = "place"]
                            /\ UNCHANGED store
    BY <1>2 DEF Typed, TypeOK, BeginOrder, NoRequest
  <2>2. KeepsTrails(h) /\ Trail(h)' /\ KeepsPaid
    BY <2>1 DEF Typed, TypeOK, KeepsTrails, KeepsPaid, Trail, store
  <2>3. QED
    BY <2>2, TrailsKept, PaidKept DEF Banking, KeepsTrails
<1>3. CASE \E o \in Orders, genuine \in BOOLEAN : BeginConfirm(h, o, genuine)
  <2>1. KeepsTrails(h) /\ Trail(h)' /\ KeepsPaid
    BY <1>3 DEF Typed, TypeOK, KeepsTrails, KeepsPaid, Trail, Banking,
                OrderTrail, NoRequest, store, BeginConfirm, Confirmable
  <2>2. QED
    BY <2>1, TrailsKept, PaidKept DEF Banking, KeepsTrails
<1>4. CASE \E p \in Periods, pupils \in SUBSET Students :
             BeginBilling(h, p, pupils)
  <2>1. KeepsTrails(h) /\ Trail(h)' /\ KeepsPaid
    BY <1>4, FeeLedgerAssumption
       DEF Typed, TypeOK, LocalsOK, HoldsWhatItNeeds, KeepsTrails, KeepsPaid,
           Trail, NoRequest, store, FeeLedgerAssumption, BeginBilling
  <2>2. QED
    BY <2>1, TrailsKept, PaidKept DEF Banking, KeepsTrails
<1>5. CASE BeginSweep(h)
  BY <1>5, BeginSweepBanking
<1>6. QED
  BY <1>1, <1>2, <1>3, <1>4, <1>5 DEF Arrive

LEMMA BankingStep == Typed /\ Banking /\ [Next]_vars => Banking'
<1> SUFFICES ASSUME Typed, Banking, [Next]_vars PROVE Banking'
  OBVIOUS
<1>1. CASE Surroundings \/ UNCHANGED vars
  <2>1. UNCHANGED <<order, payments, pc, req>>
    BY <1>1 DEF Surroundings, NextDay, Pay, Refund, vars, store
  <2>2. QED
    BY <2>1 DEF Banking, OrderTrail, Trail, PaidOrderHasReceipt
<1>2. ASSUME NEW h \in Handlers, Arrive(h) PROVE Banking'
  BY <1>2, ArriveBanking
<1>3. ASSUME NEW h \in Handlers, Resume(h) PROVE Banking'
  BY <1>3, ApplyToInvoiceBanking, TakeReceiptNumberBanking,
     WriteReceiptBanking,
     ReadOutstandingBanking, WriteOutstandingBanking, PlaceOrderBanking,
     RefuseOrderBanking, FetchPaymentBanking, CollectOnlineBanking,
     CollectNothingBanking, BankOrderBanking, CheckBilledBanking,
     TakeInvoiceNumberBanking, RaiseInvoiceBanking, SweepInvoiceBanking
     DEF Resume
<1>4. ASSUME NEW h \in Handlers, Abort(h) PROVE Banking'
  BY <1>4, AbortBanking
<1>5. QED
  BY <1>1, <1>2, <1>3, <1>4 DEF Next

\* confirm_payment marks an order paid only after its receipt is in the book,
\* and never credits more than the payer was charged, whichever of the
\* callback and the webhook gets there and wherever either fails.
THEOREM PaidOrdersHaveReceipts == Spec => []PaidOrderHasReceipt
<1>1. Init => Banking
  BY DEF Init, Banking, OrderTrail, Trail, PaidOrderHasReceipt, NoRequest,
         NoOrderDoc
<1>2. Banking => PaidOrderHasReceipt
  BY DEF Banking
<1>3. QED
  BY <1>1, <1>2, TypedInit, TypedStep, BankingStep, PTL DEF Spec

-----------------------------------------------------------------------------
(* The inductive invariants of the second: money over invoices.            *)

\* The money handed over for invoice i.
Backing(i) == Receipted(i) + InHand(i) + Orphaned(i)

\* The sums above are over finite sets: each receipt line, receipt, failed
\* allocation and running collection was added by a step of its own.
BooksFinite ==
    /\ IsFiniteSet(payments) /\ \A p \in payments : IsFiniteSet(p.lines)
    /\ IsFiniteSet(orphaned) /\ \A r \in orphaned : IsFiniteSet(r.lines)
    /\ IsFiniteSet(Allocating)
    /\ \A h \in Handlers : IsFiniteSet(req[h].lines)

\* A snapshot is what a collection computes the new paid figure from, turns
\* after it was read.  It is still safe then: whatever others did to the
\* invoice, no more was paid on it than is backed now, and the collection has
\* not yet written a line for it itself.
SnapshotsBacked(h) ==
    /\ \A t, u \in req[h].todo : t.id = u.id => t = u
    /\ pc[h] \in {"fetch", "collect"} => req[h].lines = {}
    /\ pc[h] = "apply" =>
         \A t \in req[h].todo : /\ t.doc.paid <= Backing(t.id)
                                /\ \A l \in req[h].lines : l.invoice # t.id

\* A ticket names one collection, running or failed.
TicketsApart ==
    /\ \A r \in orphaned : r.ticket <= begun
    /\ \A h \in Allocating :
         /\ req[h].ticket <= begun
         /\ \A r \in orphaned : r.ticket # req[h].ticket
         /\ \A g \in Allocating \ {h} : req[g].ticket # req[h].ticket

Funded == /\ BooksFinite
          /\ CreditIsBacked
          /\ \A h \in Handlers : SnapshotsBacked(h)
          /\ TicketsApart

\* The number a billing handler is about to use is on no invoice, and in no
\* other handler's hand: a due date, once set, never moves.
InvoiceNumbersApart ==
    \A h \in Handlers : pc[h] = "raise" =>
        /\ req[h].number \notin DOMAIN invoice
        /\ \A g \in Handlers \ {h} :
             pc[g] = "raise" => req[g].number # req[h].number

\* Invoice i falls due before invoice j.
Before(i, j) == \/ invoice[i].due < invoice[j].due
                \/ invoice[i].due = invoice[j].due /\ i < j

\* Among the lines of one receipt only the youngest may be unsettled.
OldestSettled(lines) ==
    \A l, m \in lines : /\ l.invoice \in DOMAIN invoice
                        /\ Before(l.invoice, m.invoice) => l.settled

\* While a collection has money left every line of it is settled, and what
\* is still to do is younger than all it has done.
DoneIsOlder(h) ==
    /\ \A t \in req[h].todo : /\ t.id \in DOMAIN invoice
                              /\ t.doc.due = invoice[t.id].due
    /\ \A l \in req[h].lines : /\ l.settled
                               /\ \A t \in req[h].todo : Before(l.invoice, t.id)

InOrderOfDue ==
    /\ InvoiceNumbersApart
    /\ \A p \in payments : OldestSettled(p.lines)
    /\ \A h \in Allocating : OldestSettled(req[h].lines)
    /\ \A h \in Handlers : pc[h] = "apply" => DoneIsOlder(h)

-----------------------------------------------------------------------------
(* The sums.                                                               *)

\* What some lines credit to an invoice is an amount of money.
LEMMA CreditedNat ==
    ASSUME NEW lines \in SUBSET Line, IsFiniteSet(lines), NEW i
    PROVE  Credited(lines, i) \in Nat
<1> DEFINE those == {l \in lines : l.invoice = i}
           f == [l \in those |-> l.applied]
<1>1. IsFiniteSet(those)
  BY FS_Subset
<1>2. f \in [those -> Nat]
  BY DEF Line
<1> HIDE DEF f, those
<1>3. SumFunction(f) \in Nat
  BY <1>1, <1>2, SumNat
<1>4. QED
  BY <1>3 DEF Credited, LinesTotal, f, those

\* No lines credit nothing.
LEMMA CreditedNone == \A i : Credited({}, i) = 0
  BY SumOfNone DEF Credited, LinesTotal

\* A line for an invoice the others do not name credits what it applied.
LEMMA CreditedWithLine ==
    ASSUME NEW lines \in SUBSET Line, IsFiniteSet(lines), NEW l \in Line,
           \A m \in lines : m.invoice # l.invoice, NEW i
    PROVE  Credited(WithLine(lines, l), i) =
             Credited(lines, i) + (IF l.invoice = i THEN l.applied ELSE 0)
<1> DEFINE Those(s) == {m \in s : m.invoice = i}
<1>1. CASE l.invoice # i
  <2>1. Those(WithLine(lines, l)) = Those(lines)
    BY <1>1 DEF WithLine
  <2>2. Credited(WithLine(lines, l), i) = Credited(lines, i)
    BY <2>1 DEF Credited
  <2>3. QED
    BY <1>1, <2>2, CreditedNat
<1>2. CASE l.invoice = i
  <2>1. Those(lines) = {} /\ Those(WithLine(lines, l)) = {} \cup {l}
    BY <1>2 DEF WithLine
  <2>2. Credited(lines, i) = 0
    BY <2>1, SumOfNone DEF Credited, LinesTotal
  <2> DEFINE f == [m \in {} \cup {l} |-> m.applied]
  <2>3. f \in [{} \cup {l} -> Int] /\ f[l] = l.applied /\ l.applied \in Nat
    BY DEF Line
  <2>4. Credited(WithLine(lines, l), i) = SumFunction(f)
    BY <2>1 DEF Credited, LinesTotal
  <2> HIDE DEF f
  <2>5. SumFunction(f) = f[l] + SumFunction([m \in {} |-> f[m]])
    BY ZenonT(40), <2>3, FS_EmptySet, SumWithOneMore
  <2>6. SumFunction([m \in {} |-> f[m]]) = 0
    BY SumOfNone
  <2>7. QED
    BY <1>2, <2>2, <2>3, <2>4, <2>5, <2>6
<1>3. QED
  BY <1>1, <1>2

\* Money handed over is an amount of money, each kind of it.
LEMMA BackingNat ==
    ASSUME Typed, BooksFinite, NEW i
    PROVE  /\ Receipted(i) \in Nat /\ InHand(i) \in Nat /\ Orphaned(i) \in Nat
           /\ Backing(i) \in Nat
<1>1. Receipted(i) \in Nat
  <2> DEFINE f == [p \in payments |-> Credited(p.lines, i)]
  <2>1. \A p \in payments : p.lines \in SUBSET Line /\ IsFiniteSet(p.lines)
    BY DEF Typed, TypeOK, Payment, BooksFinite
  <2>2. f \in [payments -> Nat]
    BY <2>1, CreditedNat
  <2> HIDE DEF f
  <2>3. SumFunction(f) \in Nat
    BY <2>2, SumNat DEF BooksFinite
  <2>4. QED
    BY <2>3 DEF Receipted, f
<1>2. InHand(i) \in Nat
  <2> DEFINE f == [h \in Allocating |-> Credited(req[h].lines, i)]
  <2>1. \A h \in Allocating : req[h].lines \in SUBSET Line
                              /\ IsFiniteSet(req[h].lines)
    BY DEF Typed, TypeOK, Request, BooksFinite, Allocating
  <2>2. f \in [Allocating -> Nat]
    BY <2>1, CreditedNat
  <2> HIDE DEF f
  <2>3. SumFunction(f) \in Nat
    BY <2>2, SumNat DEF BooksFinite
  <2>4. QED
    BY <2>3 DEF InHand, f
<1>3. Orphaned(i) \in Nat
  <2> DEFINE f == [r \in orphaned |-> Credited(r.lines, i)]
  <2>1. \A r \in orphaned : r.lines \in SUBSET Line /\ IsFiniteSet(r.lines)
    BY DEF Typed, TypeOK, BooksFinite
  <2>2. f \in [orphaned -> Nat]
    BY <2>1, CreditedNat
  <2> HIDE DEF f
  <2>3. SumFunction(f) \in Nat
    BY <2>2, SumNat DEF BooksFinite
  <2>4. QED
    BY <2>3 DEF Orphaned, f
<1>4. QED
  BY <1>1, <1>2, <1>3 DEF Backing

-----------------------------------------------------------------------------
(* Steps that move no money.                                               *)

Elsewhere(h) == \A g \in Handlers \ {h} : pc'[g] = pc[g] /\ req'[g] = req[g]

\* A step of h between, before or after its collection: the lines in its hand
\* stay as they are, and every invoice keeps what is paid on it and its due
\* date, a new one showing nothing paid.
MovesNoMoney(h) ==
    /\ Elsewhere(h)
    /\ UNCHANGED <<payments, orphaned, begun>>
    /\ (h \in Allocating)' <=> h \in Allocating
    /\ h \in Allocating => /\ req'[h].lines = req[h].lines
                           /\ req'[h].ticket = req[h].ticket
    /\ req'[h].lines \in {{}, req[h].lines}
    /\ \A t, u \in req'[h].todo : t.id = u.id => t = u
    /\ pc'[h] # "apply"
    /\ pc'[h] \in {"fetch", "collect"} => req'[h].lines = {}
    /\ DOMAIN invoice \subseteq DOMAIN invoice'
    /\ \A i \in DOMAIN invoice : /\ invoice'[i].paid = invoice[i].paid
                                 /\ invoice'[i].due = invoice[i].due
    /\ \A i \in DOMAIN invoice' \ DOMAIN invoice : invoice'[i].paid = 0

LEMMA FundedLeftAlone ==
    ASSUME Typed, Funded, NEW h \in Handlers, MovesNoMoney(h)
    PROVE  Funded'
<1>1. Allocating' = Allocating
  BY DEF Allocating, MovesNoMoney, Elsewhere
<1>2. \A g \in Allocating : /\ req'[g].lines = req[g].lines
                            /\ req'[g].ticket = req[g].ticket
  BY DEF Allocating, MovesNoMoney, Elsewhere
<1>3. ASSUME NEW i
      PROVE  Backing(i)' = Backing(i)
  <2>1. [g \in Allocating |-> Credited(req'[g].lines, i)] =
        [g \in Allocating |-> Credited(req[g].lines, i)]
    BY <1>2
  <2>2. InHand(i)' = InHand(i)
    BY <1>1, <2>1 DEF InHand
  <2>3. Receipted(i)' = Receipted(i) /\ Orphaned(i)' = Orphaned(i)
    BY DEF Receipted, Orphaned, MovesNoMoney
  <2>4. QED
    BY <2>2, <2>3 DEF Backing
<1>4. BooksFinite'
  <2>1. IsFiniteSet(req'[h].lines)
    BY FS_EmptySet DEF Funded, BooksFinite, MovesNoMoney
  <2>2. QED
    BY <1>1, <2>1 DEF Funded, BooksFinite, MovesNoMoney, Elsewhere
<1>5. CreditIsBacked'
  <2> SUFFICES ASSUME NEW i \in DOMAIN invoice'
               PROVE  invoice'[i].paid <= Backing(i)'
    BY DEF CreditIsBacked, Backing
  <2>1. CASE i \in DOMAIN invoice
    BY <1>3, <2>1 DEF Funded, CreditIsBacked, Backing, MovesNoMoney
  <2>2. CASE i \notin DOMAIN invoice
    BY <1>3, <2>2, BackingNat DEF Funded, MovesNoMoney
  <2>3. QED
    BY <2>1, <2>2
<1>6. ASSUME NEW g \in Handlers PROVE SnapshotsBacked(g)'
  <2>1. CASE g = h
    BY <2>1 DEF SnapshotsBacked, MovesNoMoney
  <2>2. CASE g # h
    BY <1>3, <2>2 DEF Funded, SnapshotsBacked, MovesNoMoney, Elsewhere
  <2>3. QED
    BY <2>1, <2>2
<1>7. TicketsApart'
  BY <1>1, <1>2 DEF Funded, TicketsApart, MovesNoMoney
<1>8. QED
  BY <1>4, <1>5, <1>6, <1>7 DEF Funded

LEMMA DuesLeftAlone ==
    ASSUME Typed, InOrderOfDue, NEW h \in Handlers, MovesNoMoney(h),
           InvoiceNumbersApart'
    PROVE  InOrderOfDue'
<1>1. Allocating' = Allocating
  BY DEF Allocating, MovesNoMoney, Elsewhere
<1>2. \A g \in Allocating : req'[g].lines = req[g].lines
  BY DEF Allocating, MovesNoMoney, Elsewhere
<1>3. \A i, j \in DOMAIN invoice : Before(i, j)' <=> Before(i, j)
  BY DEF Before, MovesNoMoney
<1>4. DOMAIN invoice \subseteq DOMAIN invoice'
  BY DEF MovesNoMoney
<1>5. (\A p \in payments : OldestSettled(p.lines))'
  BY <1>3, <1>4 DEF InOrderOfDue, MovesNoMoney, OldestSettled
<1>6. (\A g \in Allocating : OldestSettled(req[g].lines))'
  BY <1>1, <1>2, <1>3, <1>4 DEF InOrderOfDue, OldestSettled
<1>7. ASSUME NEW g \in Handlers, pc'[g] = "apply" PROVE DoneIsOlder(g)'
  <2>1. g # h /\ pc[g] = "apply" /\ req'[g] = req[g] /\ g \in Allocating
    BY <1>7 DEF MovesNoMoney, Elsewhere, Allocating
  <2>2. DoneIsOlder(g) /\ OldestSettled(req[g].lines)
    BY <2>1 DEF InOrderOfDue
  <2>3. QED
    BY <1>3, <2>1, <2>2 DEF DoneIsOlder, OldestSettled, MovesNoMoney
<1>8. (\A g \in Handlers : pc[g] = "apply" => DoneIsOlder(g))'
  BY <1>7
<1>9. QED
  BY <1>5, <1>6, <1>8 DEF InOrderOfDue

\* Every step of a handler but the four that handle money: beginning a
\* collection, a turn of its loop, writing the receipt, and failing meanwhile.
LEMMA ResumeMovesNoMoney ==
    ASSUME Typed, Funded, InvoiceNumbersApart, NEW h \in Handlers, Resume(h),
           ~ApplyToInvoice(h), ~WriteReceipt(h), ~CollectOnline(h)
    PROVE  MovesNoMoney(h)
<1> USE DEF MovesNoMoney, Elsewhere, Allocating, Request
<1>a. SnapshotsBacked(h)
  BY DEF Funded
<1>b. req[h] \in Request
  BY DEF Typed, TypeOK
<1>1. CASE TakeReceiptNumber(h)
  BY <1>a, <1>b, <1>1
     DEF Typed, TypeOK, SnapshotsBacked, NoRequest, store, TakeReceiptNumber, NextReceiptNumber
<1>2. CASE ReadOutstanding(h)
  BY <1>a, <1>b, <1>2
     DEF Typed, TypeOK, SnapshotsBacked, NoRequest, store, ReadOutstanding
<1>3. CASE WriteOutstanding(h)
  BY <1>a, <1>b, <1>3
     DEF Typed, TypeOK, SnapshotsBacked, NoRequest, store, WriteOutstanding, AfterRefresh
<1>4. CASE PlaceOrder(h)
  BY <1>a, <1>b, <1>4
     DEF Typed, TypeOK, SnapshotsBacked, NoRequest, store, PlaceOrder, Finish
<1>5. CASE RefuseOrder(h)
  BY <1>a, <1>b, <1>5
     DEF Typed, TypeOK, SnapshotsBacked, NoRequest, store, RefuseOrder, Finish
<1>6. CASE FetchPayment(h)
  BY <1>a, <1>b, <1>6
     DEF Typed, TypeOK, SnapshotsBacked, NoRequest, store, FetchPayment, OnRemote
<1>7. CASE CollectNothing(h)
  BY <1>a, <1>b, <1>7
     DEF Typed, TypeOK, SnapshotsBacked, NoRequest, store, CollectNothing, Finish
<1>8. CASE BankOrder(h)
  BY <1>a, <1>b, <1>8
     DEF Typed, TypeOK, SnapshotsBacked, NoRequest, store, BankOrder, Finish
<1>9. CASE CheckBilled(h)
  BY <1>a, <1>b, <1>9
     DEF Typed, TypeOK, SnapshotsBacked, NoRequest, store, CheckBilled
<1>10. CASE TakeInvoiceNumber(h)
  BY <1>a, <1>b, <1>10
     DEF Typed, TypeOK, SnapshotsBacked, NoRequest, store, TakeInvoiceNumber
<1>11. CASE SweepInvoice(h)
  BY <1>a, <1>b, <1>11
     DEF Typed, TypeOK, SnapshotsBacked, NoRequest, store, SweepInvoice
<1>12. CASE RaiseInvoice(h)
  <2>1. req[h].number \notin DOMAIN invoice
    BY <1>12 DEF InvoiceNumbersApart, RaiseInvoice
  <2>2. QED
    BY <1>a, <1>b, <1>12, <2>1
       DEF Typed, TypeOK, SnapshotsBacked, store, RaiseInvoice
<1>13. QED
  BY <1>1, <1>2, <1>3, <1>4, <1>5, <1>6, <1>7, <1>8, <1>9, <1>10, <1>11, <1>12 DEF Resume

LEMMA ArriveMovesNoMoney ==
    ASSUME Typed, NEW h \in Handlers, Arrive(h),
           ~ \E s \in Students, i \in DOMAIN invoice \cup {0},
                amount \in Amounts : Collect(h, s, i, amount)
    PROVE  MovesNoMoney(h)
<1> USE DEF MovesNoMoney, Elsewhere, Allocating, Typed, TypeOK, NoRequest,
            store, Idle
<1>1. CASE \E o \in Orders, s \in Students, i \in DOMAIN invoice \cup {0},
              amount \in Amounts \cup {0} : BeginOrder(h, o, s, i, amount)
  BY <1>1 DEF BeginOrder
<1>2. CASE \E o \in Orders, genuine \in BOOLEAN : BeginConfirm(h, o, genuine)
  BY <1>2 DEF BeginConfirm
<1>3. CASE \E p \in Periods, pupils \in SUBSET Students :
             BeginBilling(h, p, pupils)
  BY <1>3 DEF BeginBilling
<1>4. CASE BeginSweep(h)
  BY <1>4 DEF BeginSweep, PastDue
<1>5. QED
  BY <1>1, <1>2, <1>3, <1>4 DEF Arrive

LEMMA AbortMovesNoMoney ==
    ASSUME Typed, NEW h \in Handlers, Abort(h), h \notin Allocating
    PROVE  MovesNoMoney(h)
  BY DEF MovesNoMoney, Elsewhere, Allocating, Typed, TypeOK, NoRequest, store,
         Abort, Finish

-----------------------------------------------------------------------------
(* Invoice numbers.                                                        *)

LEMMA InvoiceNumbersStep ==
    Typed /\ InvoiceNumbersApart /\ [Next]_vars => InvoiceNumbersApart'
<1> SUFFICES ASSUME Typed, InvoiceNumbersApart, [Next]_vars
             PROVE  InvoiceNumbersApart'
  OBVIOUS
<1> DEFINE Keeps == /\ DOMAIN invoice' \subseteq DOMAIN invoice
                    /\ \A g \in Handlers : pc'[g] = "raise" =>
                         pc[g] = "raise" /\ req'[g] = req[g]
<1>1. Keeps => InvoiceNumbersApart'
  BY DEF InvoiceNumbersApart
<1>2. CASE Surroundings \/ UNCHANGED vars
  BY <1>1, <1>2 DEF Surroundings, NextDay, Pay, Refund, vars, store
<1>3. ASSUME NEW h \in Handlers, Arrive(h) PROVE InvoiceNumbersApart'
  BY ZenonT(40), <1>1, <1>3
     DEF Typed, TypeOK, Arrive, store, Collect, BeginCollection, BeginOrder,
         BeginConfirm, BeginBilling, BeginSweep
<1>4. ASSUME NEW h \in Handlers, Resume(h) PROVE InvoiceNumbersApart'
  <2>1. CASE TakeInvoiceNumber(h)
    <3>1. /\ invoice' = invoice /\ pc'[h] = "raise"
          /\ req'[h].number = invoiceSeq + 1
          /\ \A g \in Handlers \ {h} : pc'[g] = pc[g] /\ req'[g] = req[g]
      BY <2>1 DEF Typed, TypeOK, TakeInvoiceNumber, Request
    <3>2. /\ invoiceSeq + 1 \notin DOMAIN invoice
          /\ \A g \in Handlers :
               pc[g] = "raise" => req[g].number # invoiceSeq + 1
      BY DEF Typed, TypeOK, LocalsOK, HoldsWhatItNeeds
    <3>3. QED
      BY <3>1, <3>2 DEF InvoiceNumbersApart
  <2>2. CASE RaiseInvoice(h)
    <3>1. /\ DOMAIN invoice' = DOMAIN invoice \cup {req[h].number}
          /\ pc[h] = "raise" /\ pc'[h] = "total"
          /\ \A g \in Handlers \ {h} : pc'[g] = pc[g] /\ req'[g] = req[g]
      BY <2>2 DEF Typed, TypeOK, RaiseInvoice
    <3>2. QED
      BY <3>1 DEF InvoiceNumbersApart
  <2>3. CASE ApplyToInvoice(h)
    BY <1>1, <2>3 DEF Typed, TypeOK, ApplyToInvoice
  <2>4. CASE SweepInvoice(h)
    BY <1>1, <2>4 DEF Typed, TypeOK, SweepInvoice
  <2>5. CASE TakeReceiptNumber(h) \/ WriteReceipt(h) \/ ReadOutstanding(h)
    BY <1>1, <2>5
       DEF Typed, TypeOK, store, TakeReceiptNumber, WriteReceipt,
           ReadOutstanding
  <2>6. CASE WriteOutstanding(h)
    BY <1>1, <2>6 DEF Typed, TypeOK, WriteOutstanding, AfterRefresh
  <2>7. CASE PlaceOrder(h) \/ RefuseOrder(h) \/ BankOrder(h)
    BY <1>1, <2>7 DEF Typed, TypeOK, PlaceOrder, RefuseOrder, BankOrder, Finish
  <2>8. CASE FetchPayment(h) \/ CollectOnline(h) \/ CollectNothing(h)
    BY <1>1, <2>8
       DEF Typed, TypeOK, store, FetchPayment, OnRemote, CollectOnline,
           BeginCollection, CollectNothing, Finish
  <2>9. CASE CheckBilled(h)
    BY <1>1, <2>9 DEF Typed, TypeOK, store, CheckBilled
  <2>10. QED
    BY <1>4, <2>1, <2>2, <2>3, <2>4, <2>5, <2>6, <2>7, <2>8, <2>9 DEF Resume
<1>5. ASSUME NEW h \in Handlers, Abort(h) PROVE InvoiceNumbersApart'
  BY <1>1, <1>5 DEF Typed, TypeOK, store, Abort, Finish
<1>6. QED
  BY <1>2, <1>3, <1>4, <1>5 DEF Next

-----------------------------------------------------------------------------
(* The four steps that handle money.                                       *)

\* A snapshot is of an invoice as it stands, one snapshot to an invoice.
LEMMA TargetsAreInvoices ==
    ASSUME NEW s, NEW i \in DOMAIN invoice \cup {0}, NEW t \in Targets(s, i)
    PROVE  t.id \in DOMAIN invoice /\ t.doc = invoice[t.id]
  BY DEF Targets, OpenInvoices

\* A collection begins with no line in hand, so nothing is handed over yet.
LEMMA CollectionFunded ==
    ASSUME Typed, Typed', Funded, NEW h \in Handlers, h \notin Allocating,
           NEW request \in Request, request.lines = {},
           NEW s, NEW i \in DOMAIN invoice \cup {0}, NEW amount,
           BeginCollection(h, request, s, i, amount),
           UNCHANGED <<store, orphaned>>
    PROVE  Funded'
<1>1. /\ Elsewhere(h) /\ pc'[h] = "apply" /\ begun' = begun + 1
      /\ req'[h].lines = {} /\ req'[h].ticket = begun + 1
      /\ req'[h].todo = Targets(s, i)
  BY DEF Typed, TypeOK, BeginCollection, Elsewhere, Request
<1>2. Allocating' = Allocating \cup {h}
  BY <1>1 DEF Allocating, Elsewhere
<1>3. \A g \in Allocating : req'[g] = req[g]
  BY <1>1 DEF Allocating, Elsewhere
<1>4. ASSUME NEW j PROVE Backing(j)' = Backing(j)
  <2> DEFINE f == [g \in Allocating \cup {h} |-> Credited(req'[g].lines, j)]
  <2>1. \A g \in Allocating \cup {h} :
          Credited(req'[g].lines, j) \in Int
    <3>1. \A g \in Allocating : Credited(req[g].lines, j) \in Nat
      BY CreditedNat
         DEF Typed, TypeOK, Request, Funded, BooksFinite, Allocating
    <3>2. ASSUME NEW g \in Allocating \cup {h}
          PROVE  Credited(req'[g].lines, j) \in Int
      <4>1. CASE g = h
        <5>1. req'[g].lines = {}
          BY <1>1, <4>1
        <5>2. Credited({}, j) = 0
          BY CreditedNone
        <5>3. QED
          BY <5>1, <5>2
      <4>2. CASE g # h
        BY <1>3, <3>1, <4>2
      <4>3. QED
        BY <4>1, <4>2
    <3>3. QED
      BY <3>2
  <2>2. f \in [Allocating \cup {h} -> Int] /\ f[h] = 0
    BY <1>1, <2>1, CreditedNone
  <2>3. [g \in Allocating |-> f[g]] =
        [g \in Allocating |-> Credited(req[g].lines, j)]
    BY <1>3
  <2>4. InHand(j)' = SumFunction(f)
    BY <1>2 DEF InHand
  <2> HIDE DEF f
  <2>a. IsFiniteSet(Allocating) /\ BooksFinite
    BY DEF Funded, BooksFinite
  <2> DEFINE A == Allocating
  <2>b. IsFiniteSet(A) /\ h \notin A /\ f \in [A \cup {h} -> Int]
    BY <2>2, <2>a
  <2> HIDE DEF A
  <2>5. SumFunction(f) = f[h] + SumFunction([g \in A |-> f[g]])
    BY <2>b, SumWithOneMore
  <2>6. InHand(j)' = InHand(j)
    <3>1. InHand(j) = SumFunction([g \in A |-> f[g]])
      BY <2>3 DEF InHand, A
    <3>2. InHand(j) \in Nat
      BY <2>a, BackingNat
    <3>3. QED
      BY <2>2, <2>4, <2>5, <3>1, <3>2
  <2>7. Receipted(j)' = Receipted(j) /\ Orphaned(j)' = Orphaned(j)
    BY DEF Receipted, Orphaned, store
  <2>8. QED
    BY <2>6, <2>7 DEF Backing
<1>5. BooksFinite'
  <2>1. IsFiniteSet(Allocating')
    BY <1>2, FS_AddElement DEF Funded, BooksFinite
  <2>2. QED
    BY <1>1, <2>1, FS_EmptySet DEF Funded, BooksFinite, Elsewhere, store
<1>6. CreditIsBacked'
  BY <1>4 DEF Funded, CreditIsBacked, Backing, store
<1>7. ASSUME NEW g \in Handlers PROVE SnapshotsBacked(g)'
  <2>1. CASE g = h
    <3>1. \A t \in Targets(s, i) :
            t.id \in DOMAIN invoice /\ t.doc = invoice[t.id]
      BY TargetsAreInvoices
    <3>2. \A t, u \in Targets(s, i) : t.id = u.id => t = u
      BY DEF Targets
    <3>3. \A t \in Targets(s, i) : t.doc.paid <= Backing(t.id)
      BY <3>1 DEF Funded, CreditIsBacked, Backing
    <3>4. QED
      BY <1>1, <1>4, <2>1, <3>2, <3>3 DEF SnapshotsBacked
  <2>2. CASE g # h
    BY <1>1, <1>4, <2>2 DEF Funded, SnapshotsBacked, Elsewhere
  <2>3. QED
    BY <2>1, <2>2
<1>8. TicketsApart'
  <2>1. /\ \A r \in orphaned : r.ticket \in Nat
        /\ \A g \in Allocating : req[g].ticket \in Nat
        /\ begun \in Nat
    BY DEF Typed, TypeOK, Request, Allocating
  <2>2. QED
    BY <1>1, <1>2, <1>3, <2>1 DEF Funded, TicketsApart
<1>9. QED
  BY <1>5, <1>6, <1>7, <1>8 DEF Funded

\* Taking a turn of the loop credits an invoice, and is a line of the receipt.
LEMMA ApplyFunded ==
    ASSUME Typed, Funded, NEW h \in Handlers, ApplyToInvoice(h)
    PROVE  Funded'
<1>1. PICK t \in req[h].todo : ApplyToInvoice(h)!2!(t)
  BY DEF ApplyToInvoice
<1> DEFINE applied == Applied(t.doc, req[h].left)
           newPaid == NewPaid(t.doc, applied)
           line == [invoice |-> t.id, applied |-> applied,
                    settled |-> newPaid >= t.doc.total]
<1>2. /\ t.doc \in Invoice /\ t.id \in Nat \ {0} /\ Balance(t.doc) > 0
      /\ req[h].left \in Nat /\ req[h] \in Request
      /\ pc[h] = "apply" /\ h \in Allocating
  BY DEF Typed, TypeOK, LocalsOK, HoldsWhatItNeeds, Request, Snapshot,
         ApplyToInvoice, Allocating
<1>3. applied \in Nat /\ newPaid = t.doc.paid + applied /\ line \in Line
      /\ t.doc.paid \in Nat
  <2>1. applied \in Nat /\ newPaid \in Nat
    BY <1>2, AppliedWithin
  <2>2. QED
    BY <1>2, <2>1 DEF Line, NewPaid, Invoice
<1>4. /\ Elsewhere(h) /\ pc'[h] \in {"apply", "number"}
      /\ req'[h].lines = WithLine(req[h].lines, line)
      /\ req'[h].ticket = req[h].ticket
      /\ req'[h].todo = req[h].todo \ {t}
      /\ UNCHANGED <<payments, orphaned, begun>>
  BY <1>1, <1>2 DEF Typed, TypeOK, ApplyToInvoice, Elsewhere, Request
<1>5. /\ DOMAIN invoice' = DOMAIN invoice
      /\ \A i \in DOMAIN invoice :
           invoice'[i].paid = IF i = t.id THEN newPaid ELSE invoice[i].paid
  BY <1>1 DEF Typed, TypeOK, Invoice
<1> HIDE DEF line, newPaid
<1>6. Allocating' = Allocating
  BY <1>2, <1>4 DEF Allocating, Elsewhere
<1>7. SnapshotsBacked(h) /\ t.doc.paid <= Backing(t.id)
      /\ \A l \in req[h].lines : l.invoice # t.id
  BY <1>2 DEF Funded, SnapshotsBacked
<1>8. line.invoice = t.id /\ line.applied = applied
  BY DEF line
<1>9. \A j : Credited(WithLine(req[h].lines, line), j) =
               Credited(req[h].lines, j) + (IF t.id = j THEN applied ELSE 0)
  BY <1>2, <1>3, <1>7, <1>8, CreditedWithLine
     DEF Request, Funded, BooksFinite
<1> HIDE DEF applied
<1>10. ASSUME NEW j
       PROVE  /\ Backing(j)' = Backing(j) + (IF t.id = j THEN applied ELSE 0)
              /\ Backing(j) \in Nat
  <2> DEFINE f == [g \in Allocating |-> Credited(req[g].lines, j)]
             k == [g \in Allocating |-> Credited(req'[g].lines, j)]
  <2>1. \A g \in Allocating : Credited(req[g].lines, j) \in Nat
    BY CreditedNat DEF Typed, TypeOK, Request, Funded, BooksFinite, Allocating
  <2>2. /\ f \in [Allocating -> Int] /\ f[h] = Credited(req[h].lines, j)
        /\ f[h] \in Nat
    BY <1>2, <2>1
  <2>3. \A g \in Allocating \ {h} : k[g] = f[g]
    BY <1>4 DEF Elsewhere, Allocating
  <2>4. k[h] = f[h] + (IF t.id = j THEN applied ELSE 0)
    BY <1>2, <1>4, <1>9
  <2>5. k \in [Allocating -> Int]
    <3>1. \A g \in Allocating : k[g] \in Int
      BY <1>3, <2>2, <2>3, <2>4
    <3>2. QED
      BY <3>1
  <2>6. InHand(j)' = SumFunction(k) /\ InHand(j) = SumFunction(f)
    BY <1>6 DEF InHand
  <2> HIDE DEF f, k
  <2>7. SumFunction(k) = SumFunction(f) - f[h] + k[h]
    BY <1>2, <2>2, <2>3, <2>5, SumWithOneChanged DEF Funded, BooksFinite
  <2>8. Receipted(j)' = Receipted(j) /\ Orphaned(j)' = Orphaned(j)
    BY <1>4 DEF Receipted, Orphaned
  <2>9. Receipted(j) \in Nat /\ InHand(j) \in Nat /\ Orphaned(j) \in Nat
        /\ Backing(j) \in Nat
    BY BackingNat DEF Funded
  <2>10. InHand(j)' = InHand(j) + (IF t.id = j THEN applied ELSE 0)
    BY <1>3, <2>2, <2>4, <2>6, <2>7, <2>9
  <2>11. QED
    BY <1>3, <2>8, <2>9, <2>10 DEF Backing
<1>11. BooksFinite'
  <2>1. IsFiniteSet(req'[h].lines)
    <3>1. IsFiniteSet(req[h].lines)
      BY DEF Funded, BooksFinite
    <3>2. IsFiniteSet(req[h].lines \cup {line})
      BY <3>1, FS_AddElement
    <3>3. QED
      BY <1>4, <3>2 DEF WithLine
  <2>2. QED
    BY <1>4, <1>6, <2>1 DEF Funded, BooksFinite, Elsewhere
<1>12. CreditIsBacked'
  <2> SUFFICES ASSUME NEW i \in DOMAIN invoice
               PROVE  invoice'[i].paid <= Backing(i)'
    BY <1>5 DEF CreditIsBacked, Backing
  <2>1. CASE i = t.id
    BY <1>3, <1>5, <1>7, <1>10, <2>1
  <2>2. CASE i # t.id
    <3>1. invoice[i].paid <= Backing(i)
      BY DEF Funded, CreditIsBacked, Backing
    <3>2. Backing(i)' = Backing(i)
      BY <1>10, <2>2
    <3>3. QED
      BY <1>5, <2>2, <3>1, <3>2
  <2>3. QED
    BY <2>1, <2>2
<1>13. \A j : \A x \in Nat : x <= Backing(j) => x <= Backing(j)'
  BY <1>3, <1>10
<1>14. ASSUME NEW g \in Handlers PROVE SnapshotsBacked(g)'
  <2>1. \A u \in req[g].todo : u.doc.paid \in Nat
    BY DEF Typed, TypeOK, Request, Snapshot, Invoice
  <2>2. SnapshotsBacked(g)
    BY DEF Funded
  <2>3. CASE g = h
    <3>1. \A u \in req[h].todo \ {t} : u.id # t.id
      BY <1>7 DEF SnapshotsBacked
    <3>2. QED
      BY <1>2, <1>4, <1>8, <1>13, <2>1, <2>2, <2>3, <3>1
         DEF SnapshotsBacked, WithLine
  <2>4. CASE g # h
    BY <1>4, <1>13, <2>1, <2>2, <2>4 DEF SnapshotsBacked, Elsewhere
  <2>5. QED
    BY <2>3, <2>4
<1>15. TicketsApart'
  BY <1>4, <1>6 DEF Funded, TicketsApart, Elsewhere, Allocating
<1>16. QED
  BY <1>11, <1>12, <1>14, <1>15 DEF Funded

\* A collection that ends takes what it credited out of the running ones.
LEMMA InHandWithout ==
    ASSUME Typed, BooksFinite, NEW h \in Allocating, Elsewhere(h),
           Allocating' = Allocating \ {h}, NEW j
    PROVE  InHand(j)' = InHand(j) - Credited(req[h].lines, j)
<1> DEFINE A == Allocating \ {h}
           f == [g \in A \cup {h} |-> Credited(req[g].lines, j)]
<1>1. A \cup {h} = Allocating /\ h \notin A
  OBVIOUS
<1>2. \A g \in Allocating : Credited(req[g].lines, j) \in Nat
  BY CreditedNat DEF Typed, TypeOK, Request, BooksFinite, Allocating
<1>3. f \in [A \cup {h} -> Int] /\ f[h] = Credited(req[h].lines, j)
      /\ f[h] \in Nat
  BY <1>1, <1>2
<1>4. \A g \in A : req'[g] = req[g]
  BY DEF Elsewhere, Allocating
<1>5. [g \in A |-> f[g]] = [g \in A |-> Credited(req'[g].lines, j)]
  BY <1>4
<1>6. SumFunction(f) = InHand(j) /\ InHand(j) \in Nat
  BY <1>1, BackingNat DEF InHand
<1>7. InHand(j)' = SumFunction([g \in A |-> Credited(req'[g].lines, j)])
  BY DEF InHand
<1>8. IsFiniteSet(A)
  BY FS_RemoveElement DEF BooksFinite
<1>9. A \in SUBSET Allocating /\ \A g \in A : f[g] \in Nat
  BY <1>2
<1> HIDE DEF f, A
<1>10. SumFunction(f) = f[h] + SumFunction([g \in A |-> f[g]])
  BY <1>1, <1>3, <1>8, SumWithOneMore
<1>11. SumFunction([g \in A |-> f[g]]) \in Nat
  <2> DEFINE k == [g \in A |-> f[g]]
  <2>1. k \in [A -> Nat]
    BY <1>9
  <2> HIDE DEF k
  <2>2. SumFunction(k) \in Nat
    BY <1>8, <2>1, SumNat
  <2>3. QED
    BY <2>2 DEF k
<1>12. QED
  BY <1>3, <1>5, <1>6, <1>7, <1>10, <1>11

\* One more record in a book of allocation lines adds what its lines credit.
LEMMA BookWithOneMore ==
    ASSUME NEW book, IsFiniteSet(book), NEW r, r \notin book, NEW j,
           \A q \in book \cup {r} : Credited(q.lines, j) \in Nat
    PROVE  SumFunction([q \in book \cup {r} |-> Credited(q.lines, j)]) =
             SumFunction([q \in book |-> Credited(q.lines, j)])
               + Credited(r.lines, j)
<1> DEFINE f == [q \in book \cup {r} |-> Credited(q.lines, j)]
           k == [q \in book |-> f[q]]
<1>1. f \in [book \cup {r} -> Int] /\ f[r] = Credited(r.lines, j)
  OBVIOUS
<1>2. k \in [book -> Nat]
  OBVIOUS
<1>3. k = [q \in book |-> Credited(q.lines, j)]
  OBVIOUS
<1> HIDE DEF f
<1>4. SumFunction(f) = f[r] + SumFunction(k)
  BY <1>1, SumWithOneMore
<1> HIDE DEF k
<1>5. SumFunction(k) \in Nat
  BY <1>2, SumNat
<1>6. f[r] \in Nat
  BY <1>1
<1>7. QED
  BY <1>1, <1>3, <1>4, <1>5, <1>6 DEF f

\* A step of h that ends its allocation and keeps every invoice backed as it
\* was keeps what the ledger is funded with.
LEMMA EndFunded ==
    ASSUME Typed, Funded, NEW h \in Handlers, Elsewhere(h),
           Allocating' = Allocating \ {h}, BooksFinite', TicketsApart',
           \A j : Backing(j)' = Backing(j), invoice' = invoice,
           pc'[h] \notin {"apply", "fetch", "collect"},
           req'[h].todo \in {req[h].todo, {}}
    PROVE  Funded'
<1>1. CreditIsBacked'
  BY DEF Funded, CreditIsBacked, Backing
<1>2. ASSUME NEW g \in Handlers PROVE SnapshotsBacked(g)'
  <2>1. SnapshotsBacked(g)
    BY DEF Funded
  <2>2. CASE g = h
    BY <2>1, <2>2 DEF SnapshotsBacked
  <2>3. CASE g # h
    BY <2>1, <2>3 DEF SnapshotsBacked, Elsewhere
  <2>4. QED
    BY <2>2, <2>3
<1>3. QED
  BY <1>1, <1>2 DEF Funded

\* Writing the receipt hands the lines over from the handler to the book.
LEMMA WriteReceiptFunded ==
    ASSUME Typed, Typed', NoReceiptCollision, Funded, NEW h \in Handlers,
           WriteReceipt(h)
    PROVE  Funded'
<1> DEFINE p0 == [number |-> req[h].number, student |-> req[h].student,
                  amount |-> req[h].asked - req[h].left,
                  lines |-> req[h].lines, order |-> req[h].order]
<1>1. /\ pc[h] = "receipt" /\ h \in Allocating
      /\ \A p \in payments : p.number # req[h].number
  BY DEF WriteReceipt, NoReceiptCollision, Allocating
<1>2. /\ payments' = payments \cup {p0} /\ p0 \notin payments
      /\ pc' = [pc EXCEPT ![h] = "total"] /\ req' = req
      /\ UNCHANGED <<orphaned, begun, invoice>>
  BY <1>1 DEF WriteReceipt
<1>3. Elsewhere(h) /\ Allocating' = Allocating \ {h} /\ pc'[h] = "total"
  BY <1>2 DEF Typed, TypeOK, Elsewhere, Allocating
<1>4. p0.lines = req[h].lines
  OBVIOUS
<1> HIDE DEF p0
<1>5. BooksFinite'
  <2>1. IsFiniteSet(payments') /\ IsFiniteSet(Allocating')
    BY <1>2, <1>3, FS_AddElement, FS_RemoveElement DEF Funded, BooksFinite
  <2>2. QED
    BY <1>2, <1>4, <2>1 DEF Funded, BooksFinite
<1>6. ASSUME NEW j PROVE Backing(j)' = Backing(j)
  <2>1. \A q \in payments \cup {p0} : Credited(q.lines, j) \in Nat
    <3>1. \A q \in payments' : q.lines \in SUBSET Line
      BY DEF Typed, TypeOK, Payment
    <3>2. \A q \in payments' : IsFiniteSet(q.lines)
      BY <1>5 DEF BooksFinite
    <3>3. QED
      BY <1>2, <3>1, <3>2, CreditedNat
  <2>2. IsFiniteSet(payments)
    BY DEF Funded, BooksFinite
  <2>3. Receipted(j)' = Receipted(j) + Credited(req[h].lines, j)
    <3>1. Receipted(j)' = SumFunction([q \in payments \cup {p0} |->
                                         Credited(q.lines, j)])
      BY <1>2 DEF Receipted
    <3>2. SumFunction([q \in payments \cup {p0} |-> Credited(q.lines, j)]) =
            SumFunction([q \in payments |-> Credited(q.lines, j)])
              + Credited(p0.lines, j)
      BY <1>2, <2>1, <2>2, BookWithOneMore
    <3>3. QED
      BY <1>4, <3>1, <3>2 DEF Receipted
  <2>4. InHand(j)' = InHand(j) - Credited(req[h].lines, j)
    BY <1>1, <1>3, InHandWithout DEF Funded
  <2>5. Orphaned(j)' = Orphaned(j)
    BY <1>2 DEF Orphaned
  <2>6. /\ Receipted(j) \in Nat /\ InHand(j) \in Nat /\ Orphaned(j) \in Nat
        /\ Credited(req[h].lines, j) \in Nat
    BY <1>4, <2>1, BackingNat DEF Funded
  <2>7. QED
    BY <2>3, <2>4, <2>5, <2>6 DEF Backing
<1>7. TicketsApart'
  BY <1>2, <1>3 DEF Funded, TicketsApart
<1>8. QED
  BY <1>2, <1>3, <1>5, <1>6, <1>7, EndFunded

\* A collection that fails leaves what it had credited without a receipt.
LEMMA AbortFunded ==
    ASSUME Typed, Typed', Funded, NEW h \in Allocating, Abort(h)
    PROVE  Funded'
<1> DEFINE r0 == [ticket |-> req[h].ticket, lines |-> req[h].lines]
<1>1. /\ Elsewhere(h) /\ Allocating' = Allocating \ {h}
      /\ pc'[h] = "idle" /\ req'[h] = NoRequest
      /\ UNCHANGED <<invoice, payments, begun>> /\ h \in Handlers
  BY DEF Typed, TypeOK, Abort, Finish, Elsewhere, Allocating, store
<1>2. orphaned' = IF req[h].lines # {} THEN orphaned \cup {r0} ELSE orphaned
  BY DEF Abort, Allocating
<1>3. r0.lines = req[h].lines /\ r0.ticket = req[h].ticket
  OBVIOUS
<1>4. r0 \notin orphaned
  BY <1>3 DEF Funded, TicketsApart
<1> HIDE DEF r0
<1>5. BooksFinite'
  <2>1. IsFiniteSet(orphaned') /\ IsFiniteSet(Allocating')
    BY <1>1, <1>2, FS_AddElement, FS_RemoveElement DEF Funded, BooksFinite
  <2>2. IsFiniteSet(req'[h].lines)
    BY <1>1, FS_EmptySet DEF NoRequest
  <2>3. IsFiniteSet(req[h].lines)
    BY <1>1 DEF Funded, BooksFinite
  <2>4. \A r \in orphaned' : IsFiniteSet(r.lines)
    BY <1>2, <1>3, <2>3 DEF Funded, BooksFinite
  <2>5. QED
    BY <1>1, <2>1, <2>2, <2>4 DEF Funded, BooksFinite, Elsewhere
<1>6. ASSUME NEW j PROVE Backing(j)' = Backing(j)
  <2>1. InHand(j)' = InHand(j) - Credited(req[h].lines, j)
    BY <1>1, InHandWithout DEF Funded
  <2>2. Receipted(j)' = Receipted(j)
    BY <1>1 DEF Receipted
  <2>3. /\ Receipted(j) \in Nat /\ InHand(j) \in Nat /\ Orphaned(j) \in Nat
    BY BackingNat DEF Funded
  <2>4. Credited(req[h].lines, j) \in Nat
    BY <1>1, CreditedNat DEF Typed, TypeOK, Request, Funded, BooksFinite
  <2>5. Orphaned(j)' = Orphaned(j) + Credited(req[h].lines, j)
    <3>1. CASE req[h].lines = {}
      <4>1. Orphaned(j)' = Orphaned(j)
        BY <1>2, <3>1 DEF Orphaned
      <4>2. Credited(req[h].lines, j) = 0
        BY <3>1, CreditedNone
      <4>3. QED
        BY <2>3, <4>1, <4>2
    <3>2. CASE req[h].lines # {}
      <4>1. orphaned' = orphaned \cup {r0}
        BY <1>2, <3>2
      <4>2. \A q \in orphaned' : q.lines \in SUBSET Line
        BY DEF Typed, TypeOK
      <4>3. \A q \in orphaned' : IsFiniteSet(q.lines)
        BY <1>5 DEF BooksFinite
      <4>4. \A q \in orphaned \cup {r0} : Credited(q.lines, j) \in Nat
        BY <4>1, <4>2, <4>3, CreditedNat
      <4>5. IsFiniteSet(orphaned)
        BY DEF Funded, BooksFinite
      <4>6. QED
        BY <1>3, <1>4, <4>1, <4>4, <4>5, BookWithOneMore DEF Orphaned
    <3>3. QED
      BY <3>1, <3>2
  <2>6. QED
    BY <2>1, <2>2, <2>3, <2>4, <2>5 DEF Backing
<1>7. TicketsApart'
  BY <1>1, <1>2, <1>3
     DEF Funded, TicketsApart, Elsewhere, Allocating
<1>8. QED
  BY <1>1, <1>5, <1>6, <1>7, EndFunded DEF NoRequest

-----------------------------------------------------------------------------
(* The theorem about credit.                                               *)

LEMMA FundedInit == Init => Funded
<1> SUFFICES ASSUME Init PROVE Funded
  OBVIOUS
<1>1. Allocating = {}
  BY DEF Init, Allocating
<1>2. BooksFinite
  BY <1>1, FS_EmptySet DEF Init, BooksFinite, NoRequest
<1>3. CreditIsBacked /\ TicketsApart /\ \A h \in Handlers : SnapshotsBacked(h)
  BY <1>1 DEF Init, CreditIsBacked, TicketsApart, SnapshotsBacked, NoRequest
<1>4. QED
  BY <1>2, <1>3 DEF Funded

LEMMA FundedStep ==
    Typed /\ Typed' /\ Numbering /\ InvoiceNumbersApart /\ Funded
          /\ [Next]_vars => Funded'
<1> SUFFICES ASSUME Typed, Typed', Numbering, InvoiceNumbersApart, Funded,
                    [Next]_vars
             PROVE  Funded'
  OBVIOUS
<1>1. CASE Surroundings \/ UNCHANGED vars
  <2>1. UNCHANGED <<invoice, payments, orphaned, begun, pc, req>>
    BY <1>1 DEF Surroundings, NextDay, Pay, Refund, vars, store
  <2>2. Allocating' = Allocating
    BY <2>1 DEF Allocating
  <2>3. ASSUME NEW j PROVE Backing(j)' = Backing(j)
    BY <2>1, <2>2 DEF Backing, Receipted, InHand, Orphaned
  <2>4. CreditIsBacked'
    BY <2>1, <2>3 DEF Funded, CreditIsBacked, Backing
  <2>5. BooksFinite' /\ TicketsApart'
    BY <2>1, <2>2 DEF Funded, BooksFinite, TicketsApart
  <2>6. (\A h \in Handlers : SnapshotsBacked(h))'
    BY <2>1, <2>3 DEF Funded, SnapshotsBacked
  <2>7. QED
    BY <2>4, <2>5, <2>6 DEF Funded
<1>2. ASSUME NEW h \in Handlers, Arrive(h) PROVE Funded'
  <2>1. CASE \E s \in Students, i \in DOMAIN invoice \cup {0},
                amount \in Amounts : Collect(h, s, i, amount)
    <3>1. PICK s \in Students, i \in DOMAIN invoice \cup {0},
               amount \in Amounts : Collect(h, s, i, amount)
      BY <2>1
    <3>2. NoRequest \in Request /\ NoRequest.lines = {}
      BY NoRequestType DEF NoRequest
    <3>3. /\ BeginCollection(h, NoRequest, s, i, amount)
          /\ UNCHANGED <<store, orphaned>> /\ h \notin Allocating
      BY <3>1 DEF Collect, Idle, Allocating
    <3>4. QED
      BY <3>2, <3>3, CollectionFunded
  <2>2. CASE ~ \E s \in Students, i \in DOMAIN invoice \cup {0},
                  amount \in Amounts : Collect(h, s, i, amount)
    BY <1>2, <2>2, ArriveMovesNoMoney, FundedLeftAlone
  <2>3. QED
    BY <2>1, <2>2
<1>3. ASSUME NEW h \in Handlers, Resume(h) PROVE Funded'
  <2>1. CASE ApplyToInvoice(h)
    BY <2>1, ApplyFunded
  <2>2. CASE WriteReceipt(h)
    BY <2>2, WriteReceiptFunded DEF Numbering
  <2>3. CASE CollectOnline(h)
    <3> DEFINE o == req[h].order
    <3>1. /\ pc[h] = "collect" /\ UNCHANGED <<store, orphaned>>
          /\ BeginCollection(h, req[h], order[o].student, order[o].invoice,
                             order[o].amount)
      BY <2>3 DEF CollectOnline
    <3>2. o \in Orders /\ order[o].status # "none"
      BY <3>1, FeeLedgerAssumption
         DEF Typed, LocalsOK, HoldsWhatItNeeds, FeeLedgerAssumption
    <3>3. order[o].invoice \in DOMAIN invoice \cup {0}
      BY <3>2 DEF Typed, OrdersOK
    <3>4. /\ req[h] \in Request /\ req[h].lines = {} /\ h \notin Allocating
      BY <3>1 DEF Typed, TypeOK, Funded, SnapshotsBacked, Allocating
    <3>5. QED
      BY <3>1, <3>3, <3>4, CollectionFunded
  <2>4. CASE ~ApplyToInvoice(h) /\ ~WriteReceipt(h) /\ ~CollectOnline(h)
    BY <1>3, <2>4, ResumeMovesNoMoney, FundedLeftAlone
  <2>5. QED
    BY <2>1, <2>2, <2>3, <2>4
<1>4. ASSUME NEW h \in Handlers, Abort(h) PROVE Funded'
  <2>1. CASE h \in Allocating
    BY <1>4, <2>1, AbortFunded
  <2>2. CASE h \notin Allocating
    BY <1>4, <2>2, AbortMovesNoMoney, FundedLeftAlone
  <2>3. QED
    BY <2>1, <2>2
<1>5. QED
  BY <1>1, <1>2, <1>3, <1>4 DEF Next

\* collect_payment writes each invoice from a snapshot that may be old by then
\* and may fail between any two of its calls; still no invoice shows a rupee
\* that was not handed over for it, on a receipt, by a collection that is
\* running or by one that failed.
THEOREM CreditsAreBacked == Spec => []CreditIsBacked
<1>1. Init => InvoiceNumbersApart
  BY DEF Init, InvoiceNumbersApart
<1>2. Init => Numbering
  BY DEF Init, Numbering, NumbersDrawn, NoReceiptCollision
<1>3. Funded => CreditIsBacked
  BY DEF Funded
<1>4. QED
  BY <1>1, <1>2, <1>3, TypedInit, TypedStep, NumberingStep,
     InvoiceNumbersStep, FundedInit, FundedStep, PTL DEF Spec

-----------------------------------------------------------------------------
(* The oldest due first.                                                   *)

\* A step that leaves the invoices' due dates, writes no receipt but those
\* in hand, and leaves the other handlers alone.
KeepsDues(h) ==
    /\ Elsewhere(h)
    /\ DOMAIN invoice' = DOMAIN invoice
    /\ \A i \in DOMAIN invoice : invoice'[i].due = invoice[i].due
    /\ \A p \in payments' : \/ p \in payments
                            \/ h \in Allocating /\ p.lines = req[h].lines

LEMMA DuesKept ==
    ASSUME InOrderOfDue, NEW h \in Handlers, KeepsDues(h), InvoiceNumbersApart',
           (h \in Allocating => OldestSettled(req[h].lines))',
           (pc[h] = "apply" => DoneIsOlder(h))'
    PROVE  InOrderOfDue'
<1>1. \A i, j \in DOMAIN invoice : Before(i, j)' <=> Before(i, j)
  BY DEF Before, KeepsDues
<1>2. (\A p \in payments : OldestSettled(p.lines))'
  BY <1>1 DEF InOrderOfDue, KeepsDues, OldestSettled
<1>3. ASSUME NEW g \in Handlers, g # h
      PROVE  (/\ g \in Allocating => OldestSettled(req[g].lines)
              /\ pc[g] = "apply" => DoneIsOlder(g))'
  <2>1. pc'[g] = pc[g] /\ req'[g] = req[g]
    BY <1>3 DEF KeepsDues, Elsewhere
  <2>2. /\ g \in Allocating => OldestSettled(req[g].lines)
        /\ pc[g] = "apply" => DoneIsOlder(g) /\ g \in Allocating
    BY DEF InOrderOfDue, Allocating
  <2>3. DOMAIN invoice' = DOMAIN invoice
        /\ \A i \in DOMAIN invoice : invoice'[i].due = invoice[i].due
    BY DEF KeepsDues
  <2>4. (g \in Allocating => OldestSettled(req[g].lines))'
    BY <1>1, <2>1, <2>2, <2>3 DEF OldestSettled, Allocating
  <2>5. (pc[g] = "apply" => DoneIsOlder(g))'
    BY <1>1, <2>1, <2>2, <2>3 DEF DoneIsOlder, OldestSettled
  <2>6. QED
    BY <2>4, <2>5
<1>4. (\A g \in Allocating : OldestSettled(req[g].lines))'
  BY <1>3 DEF Allocating
<1>5. (\A g \in Handlers : pc[g] = "apply" => DoneIsOlder(g))'
  BY <1>3
<1>6. QED
  BY <1>2, <1>4, <1>5 DEF InOrderOfDue

\* Taking the oldest due of those left keeps the lines in order: it is
\* younger than all that went before, and unless it is settled the money has
\* run out.
LEMMA ApplyInOrder ==
    ASSUME Typed, InOrderOfDue, InvoiceNumbersApart', NEW h \in Handlers,
           ApplyToInvoice(h)
    PROVE  InOrderOfDue'
<1>1. PICK t \in req[h].todo : ApplyToInvoice(h)!2!(t)
  BY DEF ApplyToInvoice
<1> DEFINE applied == Applied(t.doc, req[h].left)
           newPaid == NewPaid(t.doc, applied)
           line == [invoice |-> t.id, applied |-> applied,
                    settled |-> newPaid >= t.doc.total]
<1>2. /\ t.doc \in Invoice /\ t.id \in Nat \ {0} /\ Balance(t.doc) > 0
      /\ req[h].left \in Nat /\ req[h] \in Request
      /\ pc[h] = "apply" /\ h \in Allocating
  BY DEF Typed, TypeOK, LocalsOK, HoldsWhatItNeeds, Request, Snapshot,
         ApplyToInvoice, Allocating
<1>3. ~line.settled => req[h].left - applied = 0
  <2>1. t.doc.total \in Nat /\ t.doc.paid \in Nat
    BY <1>2 DEF Invoice
  <2>2. CASE Balance(t.doc) <= req[h].left
    <3>1. newPaid = t.doc.paid + (t.doc.total - t.doc.paid)
      BY <2>2 DEF Applied, NewPaid, Lesser, Balance
    <3>2. newPaid >= t.doc.total
      BY <2>1, <3>1
    <3>3. QED
      BY <3>2
  <2>3. CASE ~(Balance(t.doc) <= req[h].left)
    <3>1. applied = req[h].left
      BY <2>3 DEF Applied, Lesser
    <3>2. QED
      BY <1>2, <3>1
  <2>4. QED
    BY <2>2, <2>3
<1>4. /\ Elsewhere(h)
      /\ pc'[h] = "apply" => req[h].left - applied # 0
      /\ req'[h].lines = req[h].lines \cup {line}
      /\ req'[h].todo = req[h].todo \ {t}
      /\ payments' = payments
      /\ Oldest(t, req[h].todo)
  BY <1>1, <1>2 DEF Typed, TypeOK, ApplyToInvoice, Elsewhere, Request, WithLine
<1>5. /\ DOMAIN invoice' = DOMAIN invoice
      /\ \A i \in DOMAIN invoice : invoice'[i].due = invoice[i].due
  BY <1>1 DEF Typed, TypeOK, Invoice
<1>6. line.invoice = t.id
  OBVIOUS
<1> HIDE DEF line, applied
<1>7. KeepsDues(h)
  BY <1>4, <1>5 DEF KeepsDues
<1>8. DoneIsOlder(h) /\ OldestSettled(req[h].lines)
  BY <1>2 DEF InOrderOfDue
<1>9. t.id \in DOMAIN invoice /\ \A l \in req[h].lines : Before(l.invoice, t.id)
  BY <1>8 DEF DoneIsOlder
<1>10. \A i, j \in DOMAIN invoice :
         /\ Before(i, j)' <=> Before(i, j)
         /\ Before(i, j) => ~Before(j, i)
  <2>1. \A i \in DOMAIN invoice : i \in Nat /\ invoice[i].due \in Nat
    BY DEF Typed, TypeOK, Invoice
  <2>2. QED
    BY <1>5, <2>1 DEF Before
<1>11. OldestSettled(req[h].lines)'
  <2> SUFFICES ASSUME NEW l \in req'[h].lines, NEW m \in req'[h].lines
               PROVE  /\ l.invoice \in DOMAIN invoice
                      /\ Before(l.invoice, m.invoice) => l.settled
    <3>1. \A l \in req'[h].lines : l.invoice \in DOMAIN invoice
      BY <1>4, <1>6, <1>8, <1>9 DEF OldestSettled
    <3>2. QED
      BY <1>5, <1>10, <3>1 DEF OldestSettled
  <2>1. CASE l \in req[h].lines
    BY <1>8, <2>1 DEF OldestSettled, DoneIsOlder
  <2>2. CASE l = line
    <3>1. ~Before(t.id, t.id) /\ \A k \in req[h].lines : ~Before(t.id, k.invoice)
      BY <1>8, <1>9, <1>10 DEF OldestSettled
    <3>2. QED
      BY <1>4, <1>6, <1>9, <2>2, <3>1
  <2>3. QED
    BY <1>4, <2>1, <2>2
<1>12. ASSUME pc'[h] = "apply" PROVE DoneIsOlder(h)'
  <2>1. line.settled
    BY <1>3, <1>4, <1>12
  <2>2. \A u \in req[h].todo : u.id \in DOMAIN invoice
                               /\ u.doc.due = invoice[u.id].due
    BY <1>8 DEF DoneIsOlder
  <2>3. \A u \in req[h].todo \ {t} : Before(t.id, u.id)
    BY <1>4, <2>2 DEF Oldest, Older, Before
  <2>4. \A l \in req'[h].lines :
          /\ l.settled
          /\ \A u \in req[h].todo \ {t} : Before(l.invoice, u.id)
    BY <1>4, <1>6, <1>8, <2>1, <2>3 DEF DoneIsOlder
  <2>5. \A l \in req'[h].lines : l.invoice \in DOMAIN invoice
    BY <1>4, <1>6, <1>8, <1>9 DEF OldestSettled
  <2>6. QED
    BY <1>4, <1>5, <1>10, <2>2, <2>4, <2>5 DEF DoneIsOlder
<1>13. QED
  BY <1>7, <1>11, <1>12, DuesKept

\* A collection begins with no line, and with the invoices as they stand.
LEMMA CollectionInOrder ==
    ASSUME Typed, InOrderOfDue, InvoiceNumbersApart', NEW h \in Handlers,
           NEW request \in Request, request.lines = {},
           NEW s, NEW i \in DOMAIN invoice \cup {0}, NEW amount,
           BeginCollection(h, request, s, i, amount), UNCHANGED store
    PROVE  InOrderOfDue'
<1>1. /\ KeepsDues(h) /\ req'[h].lines = {} /\ invoice' = invoice
      /\ req'[h].todo = Targets(s, i)
  BY DEF Typed, TypeOK, BeginCollection, Elsewhere, KeepsDues, Request, store
<1>2. \A t \in Targets(s, i) : t.id \in DOMAIN invoice /\ t.doc = invoice[t.id]
  BY TargetsAreInvoices
<1>3. (OldestSettled(req[h].lines) /\ DoneIsOlder(h))'
  BY <1>1, <1>2 DEF OldestSettled, DoneIsOlder
<1>4. QED
  BY <1>1, <1>3, DuesKept

LEMMA InOrderStep ==
    Typed /\ Funded /\ InOrderOfDue /\ [Next]_vars => InOrderOfDue'
<1> SUFFICES ASSUME Typed, Funded, InOrderOfDue, [Next]_vars
             PROVE  InOrderOfDue'
  OBVIOUS
<1>a. InvoiceNumbersApart /\ InvoiceNumbersApart'
  BY InvoiceNumbersStep DEF InOrderOfDue
<1>1. CASE Surroundings \/ UNCHANGED vars
  <2>1. UNCHANGED <<invoice, payments, pc, req>>
    BY <1>1 DEF Surroundings, NextDay, Pay, Refund, vars, store
  <2>2. Allocating' = Allocating
    BY <2>1 DEF Allocating
  <2>3. QED
    BY <1>a, <2>1, <2>2
       DEF InOrderOfDue, OldestSettled, DoneIsOlder, Before
<1>2. ASSUME NEW h \in Handlers, Arrive(h) PROVE InOrderOfDue'
  <2>1. CASE \E s \in Students, i \in DOMAIN invoice \cup {0},
                amount \in Amounts : Collect(h, s, i, amount)
    <3>1. PICK s \in Students, i \in DOMAIN invoice \cup {0},
               amount \in Amounts : Collect(h, s, i, amount)
      BY <2>1
    <3>2. NoRequest \in Request /\ NoRequest.lines = {}
      BY NoRequestType DEF NoRequest
    <3>3. BeginCollection(h, NoRequest, s, i, amount) /\ UNCHANGED store
      BY <3>1 DEF Collect
    <3>4. QED
      BY <1>a, <3>2, <3>3, CollectionInOrder
  <2>2. CASE ~ \E s \in Students, i \in DOMAIN invoice \cup {0},
                  amount \in Amounts : Collect(h, s, i, amount)
    BY <1>2, <1>a, <2>2, ArriveMovesNoMoney, DuesLeftAlone
  <2>3. QED
    BY <2>1, <2>2
<1>3. ASSUME NEW h \in Handlers, Resume(h) PROVE InOrderOfDue'
  <2>1. CASE ApplyToInvoice(h)
    BY <1>a, <2>1, ApplyInOrder
  <2>2. CASE WriteReceipt(h)
    <3>1. KeepsDues(h)
      BY <2>2
         DEF Typed, TypeOK, WriteReceipt, KeepsDues, Elsewhere, Allocating
    <3>2. h \notin Allocating' /\ pc'[h] # "apply"
      BY <2>2 DEF Typed, TypeOK, WriteReceipt, Allocating
    <3>3. QED
      BY <1>a, <3>1, <3>2, DuesKept
  <2>3. CASE CollectOnline(h)
    <3> DEFINE o == req[h].order
    <3>1. /\ pc[h] = "collect" /\ UNCHANGED store
          /\ BeginCollection(h, req[h], order[o].student, order[o].invoice,
                             order[o].amount)
      BY <2>3 DEF CollectOnline
    <3>2. o \in Orders /\ order[o].status # "none"
      BY <3>1, FeeLedgerAssumption
         DEF Typed, LocalsOK, HoldsWhatItNeeds, FeeLedgerAssumption
    <3>3. order[o].invoice \in DOMAIN invoice \cup {0}
      BY <3>2 DEF Typed, OrdersOK
    <3>4. req[h] \in Request /\ req[h].lines = {}
      BY <3>1 DEF Typed, TypeOK, Funded, SnapshotsBacked
    <3>5. QED
      BY <1>a, <3>1, <3>3, <3>4, CollectionInOrder
  <2>4. CASE ~ApplyToInvoice(h) /\ ~WriteReceipt(h) /\ ~CollectOnline(h)
    BY <1>3, <1>a, <2>4, ResumeMovesNoMoney, DuesLeftAlone
  <2>5. QED
    BY <2>1, <2>2, <2>3, <2>4
<1>4. ASSUME NEW h \in Handlers, Abort(h) PROVE InOrderOfDue'
  <2>1. KeepsDues(h)
    BY <1>4 DEF Typed, TypeOK, Abort, Finish, KeepsDues, Elsewhere, store
  <2>2. h \notin Allocating' /\ pc'[h] # "apply"
    BY <1>4 DEF Typed, TypeOK, Abort, Finish, Allocating
  <2>3. QED
    BY <1>a, <2>1, <2>2, DuesKept
<1>5. QED
  BY <1>1, <1>2, <1>3, <1>4 DEF Next

\* collect_payment settles the oldest due before it touches the next, and a
\* due date never moves while it does: on every receipt, only the youngest
\* invoice may be left part paid, whatever else ran meanwhile.
THEOREM DuesSettledInOrder == Spec => []OldestDuesFirst
<1>1. Init => InOrderOfDue
  BY DEF Init, InOrderOfDue, InvoiceNumbersApart, Allocating
<1>2. Init => Numbering
  BY DEF Init, Numbering, NumbersDrawn, NoReceiptCollision
<1>3. InOrderOfDue => OldestDuesFirst
  BY DEF InOrderOfDue, OldestSettled, OldestDuesFirst, Older, Before
<1>4. Typed /\ InOrderOfDue /\ [Next]_vars => InvoiceNumbersApart
  BY DEF InOrderOfDue
<1>5. QED
  BY <1>1, <1>2, <1>3, <1>4, TypedInit, TypedStep, NumberingStep,
     FundedInit, FundedStep, InOrderStep, PTL DEF Spec

-----------------------------------------------------------------------------
(* Never paid beyond the total.                                            *)

\* What the sweep of a day would charge at most on an invoice due then.
LateCeiling(due, day) ==
    LET overdueBy == day - due - GraceDays
        accrued   == overdueBy * LateFeePerDay
    IN  IF LateFeePerDay = 0 \/ overdueBy <= 0 THEN 0
        ELSE IF MaxLateFee = 0 THEN accrued ELSE Lesser(accrued, MaxLateFee)

\* No invoice is paid beyond its total or charged more than today's sweep
\* would; a total is the fee and the late fee.
BillsTrue ==
    \A i \in DOMAIN invoice :
        /\ invoice[i].total = invoice[i].base + invoice[i].late
        /\ invoice[i].paid <= invoice[i].total
        /\ invoice[i].late <= LateCeiling(invoice[i].due, today)

\* A snapshot a collection works from shows no more than the invoice has come
\* to by now.  One a sweep works from has the fee and the date right, and the
\* sweep will not charge less than is on the invoice.
SnapshotsTrue(h) ==
    /\ pc[h] = "apply" => \A t \in req[h].todo :
         t.id \in DOMAIN invoice /\ t.doc.total <= invoice[t.id].total
    /\ pc[h] = "sweep" =>
         /\ h \in Sweepers /\ req[h].day <= today
         /\ \A t \in req[h].todo :
              /\ t.id \in DOMAIN invoice
              /\ t.doc.base = invoice[t.id].base
              /\ t.doc.due = invoice[t.id].due
              /\ t.doc.late <= LateCeiling(t.doc.due, req[h].day)
              /\ invoice[t.id].late <= LateCeiling(t.doc.due, req[h].day)

BillsInOrder == BillsTrue /\ \A h \in Handlers : SnapshotsTrue(h)

\* One sweep at a time: a second one begun on a later day could be overtaken
\* by the first, which would write its lower late fee back.
OneSweeper == \A g, h \in Sweepers : g = h

\* A sweep charges what it may, and no later sweep may charge less.
LEMMA LateFeeIsCeiling ==
    ASSUME NEW doc \in Invoice, NEW day \in Nat,
           doc.late <= LateCeiling(doc.due, day)
    PROVE  LateFee(doc, day) = LateCeiling(doc.due, day)
<1>1. doc.late \in Nat
  BY DEF Invoice
<1>2. CASE LateFeePerDay = 0 \/ day - doc.due - GraceDays <= 0
  BY <1>1, <1>2 DEF LateFee, LateCeiling
<1>3. CASE ~(LateFeePerDay = 0 \/ day - doc.due - GraceDays <= 0)
  BY <1>3 DEF LateFee, LateCeiling
<1>4. QED
  BY <1>2, <1>3

LEMMA ProductMonotone ==
    ASSUME NEW a \in Nat, NEW b \in Nat, a <= b, NEW c \in Nat
    PROVE  a * c <= b * c
<1> DEFINE d == b - a
<1>1. d \in Nat /\ b = a + d
  OBVIOUS
<1>2. d * c \in Nat /\ a * c \in Nat
  BY <1>1
<1>3. (a + d) * c = a * c + d * c
  BY <1>1
<1> HIDE DEF d
<1>4. QED
  BY <1>1, <1>2, <1>3

LEMMA LateCeilingGrows ==
    ASSUME NEW due \in Nat, NEW day \in Nat, NEW later \in Nat, day <= later
    PROVE  /\ LateCeiling(due, day) \in Nat
           /\ LateCeiling(due, day) <= LateCeiling(due, later)
<1> DEFINE by(d) == d - due - GraceDays
           fee(d) == by(d) * LateFeePerDay
<1>1. GraceDays \in Nat /\ LateFeePerDay \in Nat /\ MaxLateFee \in Nat
  BY FeeLedgerAssumption DEF FeeLedgerAssumption
<1>2. ASSUME NEW d \in Nat PROVE LateCeiling(due, d) \in Nat
  <2>1. CASE LateFeePerDay = 0 \/ by(d) <= 0
    BY <2>1 DEF LateCeiling
  <2>2. CASE ~(LateFeePerDay = 0 \/ by(d) <= 0)
    <3>1. by(d) \in Nat
      BY <1>1, <2>2
    <3>2. fee(d) \in Nat
      BY <1>1, <3>1
    <3>3. QED
      BY <1>1, <2>2, <3>2 DEF LateCeiling, Lesser
  <2>3. QED
    BY <2>1, <2>2
<1>3. CASE LateFeePerDay = 0 \/ by(day) <= 0
  <2>1. LateCeiling(due, day) = 0
    BY <1>3 DEF LateCeiling
  <2>2. QED
    BY <1>2, <2>1
<1>4. CASE ~(LateFeePerDay = 0 \/ by(day) <= 0)
  <2>1. by(day) \in Nat /\ by(later) \in Nat /\ by(day) <= by(later)
        /\ ~(by(later) <= 0)
    BY <1>1, <1>4
  <2>2. fee(day) <= fee(later) /\ fee(day) \in Nat /\ fee(later) \in Nat
    <3> HIDE DEF by
    <3>1. QED
      BY <1>1, <2>1, ProductMonotone
  <2>3. /\ LateCeiling(due, day) = IF MaxLateFee = 0 THEN fee(day)
                                   ELSE Lesser(fee(day), MaxLateFee)
        /\ LateCeiling(due, later) = IF MaxLateFee = 0 THEN fee(later)
                                     ELSE Lesser(fee(later), MaxLateFee)
    BY <1>4, <2>1 DEF LateCeiling
  <2> HIDE DEF fee, by
  <2>4. QED
    BY <1>1, <1>2, <2>2, <2>3 DEF Lesser
<1>5. QED
  BY <1>3, <1>4

\* A step of h that charges nothing: bills keep their figures, what is paid
\* on them stays within the total, and a new one shows the bare fee.
ChargesNothing(h) ==
    /\ Elsewhere(h) /\ today' = today
    /\ DOMAIN invoice \subseteq DOMAIN invoice'
    /\ \A i \in DOMAIN invoice :
         /\ invoice'[i].base = invoice[i].base /\ invoice'[i].due = invoice[i].due
         /\ invoice'[i].late = invoice[i].late
         /\ invoice'[i].total = invoice[i].total
         /\ invoice'[i].paid <= invoice[i].total
    /\ \A i \in DOMAIN invoice' \ DOMAIN invoice :
         /\ invoice'[i].late = 0 /\ invoice'[i].paid = 0
         /\ invoice'[i].total = invoice'[i].base

LEMMA BilledLeftAlone ==
    ASSUME Typed, Typed', BillsInOrder, NEW h \in Handlers, ChargesNothing(h),
           SnapshotsTrue(h)'
    PROVE  BillsInOrder'
<1>1. BillsTrue'
  <2> SUFFICES ASSUME NEW i \in DOMAIN invoice'
               PROVE  /\ invoice'[i].total = invoice'[i].base + invoice'[i].late
                      /\ invoice'[i].paid <= invoice'[i].total
                      /\ invoice'[i].late <= LateCeiling(invoice'[i].due, today')
    BY DEF BillsTrue
  <2>1. CASE i \in DOMAIN invoice
    BY <2>1 DEF BillsInOrder, BillsTrue, ChargesNothing
  <2>2. CASE i \notin DOMAIN invoice
    <3>1. /\ invoice'[i].base \in Nat /\ invoice'[i].due \in Nat
          /\ today' \in Nat
      BY DEF Typed, TypeOK, Invoice
    <3>2. LateCeiling(invoice'[i].due, today') \in Nat
      <4> DEFINE due == invoice'[i].due
                 day == today'
      <4>1. due \in Nat /\ day \in Nat /\ day <= day
        BY <3>1
      <4> HIDE DEF due, day
      <4>2. LateCeiling(due, day) \in Nat
        BY <4>1, LateCeilingGrows
      <4>3. QED
        BY <4>2 DEF due, day
    <3>3. QED
      BY <2>2, <3>1, <3>2 DEF ChargesNothing
  <2>3. QED
    BY <2>1, <2>2
<1>2. ASSUME NEW g \in Handlers, g # h PROVE SnapshotsTrue(g)'
  BY <1>2 DEF BillsInOrder, SnapshotsTrue, ChargesNothing, Elsewhere
<1>3. QED
  BY <1>1, <1>2 DEF BillsInOrder

\* What a collection credits is within the total it read, which the invoice
\* has not gone below since.
LEMMA ApplyBilled ==
    ASSUME Typed, Typed', BillsInOrder, NEW h \in Handlers, ApplyToInvoice(h)
    PROVE  BillsInOrder'
<1>1. PICK t \in req[h].todo : ApplyToInvoice(h)!2!(t)
  BY DEF ApplyToInvoice
<1> DEFINE newPaid == NewPaid(t.doc, Applied(t.doc, req[h].left))
<1>2. /\ t.doc \in Invoice /\ Balance(t.doc) > 0 /\ req[h].left \in Nat
      /\ pc[h] = "apply" /\ req[h] \in Request
  <2>1. pc[h] = "apply" /\ req[h] \in Request
    BY DEF Typed, TypeOK, ApplyToInvoice
  <2>2. Balance(t.doc) > 0
    BY <1>1, <2>1 DEF Typed, LocalsOK, HoldsWhatItNeeds
  <2>3. t \in Snapshot /\ req[h].left \in Nat
    BY <2>1 DEF Request
  <2>4. QED
    BY <2>1, <2>2, <2>3 DEF Snapshot
<1>3. newPaid \in Nat /\ newPaid <= t.doc.total
  <2>1. t.doc.total \in Nat /\ t.doc.paid \in Nat
    BY <1>2 DEF Invoice
  <2>2. newPaid \in Nat
    BY <1>2, AppliedWithin
  <2>3. CASE Balance(t.doc) <= req[h].left
    BY <2>1, <2>2, <2>3 DEF Applied, NewPaid, Lesser, Balance
  <2>4. CASE ~(Balance(t.doc) <= req[h].left)
    <3>1. newPaid = t.doc.paid + req[h].left
      BY <2>4 DEF Applied, NewPaid, Lesser
    <3>2. QED
      BY <1>2, <2>1, <2>2, <2>4, <3>1 DEF Balance
  <2>5. QED
    BY <2>3, <2>4
<1>4. t.id \in DOMAIN invoice /\ t.doc.total <= invoice[t.id].total
  BY <1>2 DEF BillsInOrder, SnapshotsTrue
<1>5. /\ DOMAIN invoice' = DOMAIN invoice
      /\ \A i \in DOMAIN invoice :
           /\ invoice'[i].base = invoice[i].base
           /\ invoice'[i].due = invoice[i].due
           /\ invoice'[i].late = invoice[i].late
           /\ invoice'[i].total = invoice[i].total
           /\ invoice'[i].paid = IF i = t.id THEN newPaid ELSE invoice[i].paid
  BY <1>1 DEF Typed, TypeOK, Invoice
<1>6. /\ Elsewhere(h) /\ today' = today
      /\ pc'[h] \in {"apply", "number"}
      /\ req'[h].todo \subseteq req[h].todo
  BY ZenonT(40), <1>1, <1>2 DEF Typed, TypeOK, ApplyToInvoice, Elsewhere, Request
<1> HIDE DEF newPaid
<1>7. ASSUME NEW i \in DOMAIN invoice PROVE invoice'[i].paid <= invoice[i].total
  <2>1. CASE i = t.id
    <3>1. t.doc.total \in Nat /\ invoice[i].total \in Nat
      BY <1>2, <1>7 DEF Typed, TypeOK, Invoice
    <3>2. invoice'[i].paid = newPaid /\ t.doc.total <= invoice[i].total
      BY <1>4, <1>5, <2>1
    <3>3. QED
      BY <1>3, <3>1, <3>2
  <2>2. CASE i # t.id
    BY <1>5, <2>2 DEF BillsInOrder, BillsTrue
  <2>3. QED
    BY <2>1, <2>2
<1>8. ChargesNothing(h)
  BY <1>5, <1>6, <1>7 DEF ChargesNothing
<1>9. SnapshotsTrue(h)'
  BY <1>2, <1>5, <1>6 DEF BillsInOrder, SnapshotsTrue
<1>10. QED
  BY <1>8, <1>9, BilledLeftAlone

\* The sweep never lowers a total.
LEMMA SweepBilled ==
    ASSUME Typed, Typed', BillsInOrder, OneSweeper, NEW h \in Handlers,
           SweepInvoice(h)
    PROVE  BillsInOrder'
<1>1. PICK t \in req[h].todo : SweepInvoice(h)!2!(t)
  BY DEF SweepInvoice
<1> DEFINE day == req[h].day
           late == LateFee(t.doc, day)
           ceiling == LateCeiling(t.doc.due, day)
<1>2. t.doc \in Invoice /\ day \in Nat /\ today \in Nat /\ pc[h] = "sweep"
      /\ t.doc.due \in Nat
  BY DEF Typed, TypeOK, Request, Snapshot, SweepInvoice, Invoice
<1>3. /\ h \in Sweepers /\ day <= today /\ t.id \in DOMAIN invoice
      /\ t.doc.base = invoice[t.id].base /\ t.doc.due = invoice[t.id].due
      /\ t.doc.late <= ceiling /\ invoice[t.id].late <= ceiling
  BY <1>2 DEF BillsInOrder, SnapshotsTrue
<1>4. late = ceiling
  BY <1>2, <1>3, LateFeeIsCeiling
<1>5. ceiling \in Nat /\ ceiling <= LateCeiling(t.doc.due, today)
      /\ LateCeiling(t.doc.due, today) \in Nat
  BY SMTT(30), <1>2, <1>3, LateCeilingGrows
<1>6. /\ DOMAIN invoice' = DOMAIN invoice
      /\ \A i \in DOMAIN invoice :
           /\ invoice'[i].base = invoice[i].base
           /\ invoice'[i].due = invoice[i].due
           /\ invoice'[i].paid = invoice[i].paid
           /\ i # t.id => invoice'[i] = invoice[i]
      /\ invoice'[t.id].late = late /\ invoice'[t.id].total = t.doc.base + late
  BY <1>1, <1>3 DEF Typed, TypeOK, Invoice
<1>7. /\ Elsewhere(h) /\ today' = today
      /\ pc'[h] \in {"idle", "sweep"}
      /\ req'[h].todo \subseteq req[h].todo
      /\ pc'[h] = "sweep" => req'[h].day = day
  BY <1>1 DEF Typed, TypeOK, SweepInvoice, Elsewhere, Request, NoRequest
<1> HIDE DEF late, ceiling
<1>8. ASSUME NEW i \in DOMAIN invoice
      PROVE  /\ invoice'[i].total = invoice'[i].base + invoice'[i].late
             /\ invoice[i].total <= invoice'[i].total
             /\ invoice'[i].late <= LateCeiling(invoice'[i].due, today)
             /\ invoice[i].total \in Nat /\ invoice'[i].total \in Nat
             /\ invoice[i].paid \in Nat
  <2>1. /\ invoice[i].total \in Nat /\ invoice'[i].total \in Nat
        /\ invoice[i].paid \in Nat /\ invoice[i].base \in Nat
        /\ invoice[i].late \in Nat
        /\ invoice[i].total = invoice[i].base + invoice[i].late
        /\ invoice[i].late <= LateCeiling(invoice[i].due, today)
    BY <1>6, <1>8 DEF Typed, TypeOK, Invoice, BillsInOrder, BillsTrue
  <2>2. CASE i = t.id
    BY <1>3, <1>4, <1>5, <1>6, <2>1, <2>2
  <2>3. CASE i # t.id
    BY <1>6, <2>1, <2>3
  <2>4. QED
    BY <2>1, <2>2, <2>3
<1>9. BillsTrue'
  <2>1. \A i \in DOMAIN invoice : invoice[i].paid <= invoice[i].total
    BY DEF BillsInOrder, BillsTrue
  <2>2. QED
    BY <1>6, <1>7, <1>8, <2>1 DEF BillsTrue
<1>10. ASSUME NEW g \in Handlers, g # h PROVE SnapshotsTrue(g)'
  <2>1. pc'[g] = pc[g] /\ req'[g] = req[g] /\ SnapshotsTrue(g)
    BY <1>7, <1>10 DEF Elsewhere, BillsInOrder
  <2>2. pc[g] # "sweep"
    BY <1>3, <1>10, <2>1 DEF SnapshotsTrue, OneSweeper
  <2>3. ASSUME pc[g] = "apply", NEW u \in req[g].todo
        PROVE  u.id \in DOMAIN invoice' /\ u.doc.total <= invoice'[u.id].total
    <3>1. u.id \in DOMAIN invoice /\ u.doc.total <= invoice[u.id].total
      BY <2>1, <2>3 DEF SnapshotsTrue
    <3>2. u.doc.total \in Nat
      BY <2>3 DEF Typed, TypeOK, Request, Snapshot, Invoice
    <3>3. /\ invoice[u.id].total <= invoice'[u.id].total
          /\ invoice[u.id].total \in Nat /\ invoice'[u.id].total \in Nat
      BY <1>8, <3>1
    <3>4. QED
      BY <1>6, <3>1, <3>2, <3>3
  <2>4. QED
    BY <2>1, <2>2, <2>3 DEF SnapshotsTrue
<1>11. SnapshotsTrue(h)'
  <2>1. ASSUME NEW u \in req[h].todo
        PROVE  /\ u.id \in DOMAIN invoice'
               /\ u.doc.base = invoice'[u.id].base
               /\ u.doc.due = invoice'[u.id].due
               /\ u.doc.late <= LateCeiling(u.doc.due, day)
               /\ invoice'[u.id].late <= LateCeiling(u.doc.due, day)
    <3>1. /\ u.id \in DOMAIN invoice
          /\ u.doc.base = invoice[u.id].base /\ u.doc.due = invoice[u.id].due
          /\ u.doc.late <= LateCeiling(u.doc.due, day)
          /\ invoice[u.id].late <= LateCeiling(u.doc.due, day)
      BY <1>2, <2>1 DEF BillsInOrder, SnapshotsTrue
    <3>2. CASE u.id = t.id
      BY <1>3, <1>4, <1>5, <1>6, <3>1, <3>2 DEF ceiling
    <3>3. CASE u.id # t.id
      BY <1>6, <3>1, <3>3
    <3>4. QED
      BY <3>2, <3>3
  <2>2. QED
    BY <1>3, <1>7, <2>1 DEF SnapshotsTrue
<1>12. QED
  BY <1>9, <1>10, <1>11 DEF BillsInOrder

\* Every other step leaves the invoices and the day alone, and takes no
\* snapshot.
ReadsNoBill(h) ==
    /\ Elsewhere(h) /\ UNCHANGED <<invoice, today>>
    /\ pc'[h] \notin {"apply", "sweep"}

LEMMA BilledUnread ==
    ASSUME Typed, Typed', BillsInOrder, NEW h \in Handlers, ReadsNoBill(h)
    PROVE  BillsInOrder'
<1>1. ChargesNothing(h)
  BY DEF ReadsNoBill, ChargesNothing, BillsInOrder, BillsTrue
<1>2. SnapshotsTrue(h)'
  BY DEF ReadsNoBill, SnapshotsTrue
<1>3. QED
  BY <1>1, <1>2, BilledLeftAlone

\* A collection begins with the invoices as they stand.
LEMMA CollectionBilled ==
    ASSUME Typed, Typed', BillsInOrder, NEW h \in Handlers, NEW request \in Request,
           NEW s, NEW i \in DOMAIN invoice \cup {0}, NEW amount,
           BeginCollection(h, request, s, i, amount),
           UNCHANGED <<store, today>>
    PROVE  BillsInOrder'
<1>1. /\ Elsewhere(h) /\ UNCHANGED <<invoice, today>> /\ pc'[h] = "apply"
      /\ req'[h].todo = Targets(s, i)
  BY DEF Typed, TypeOK, BeginCollection, Elsewhere, Request, store
<1>2. ChargesNothing(h)
  BY <1>1 DEF ChargesNothing, BillsInOrder, BillsTrue
<1>3. ASSUME NEW t \in Targets(s, i)
      PROVE  t.id \in DOMAIN invoice /\ t.doc.total <= invoice[t.id].total
  <2>1. t.id \in DOMAIN invoice /\ t.doc = invoice[t.id]
    BY TargetsAreInvoices
  <2>2. invoice[t.id].total \in Nat
    BY <2>1 DEF Typed, TypeOK, Invoice
  <2>3. QED
    BY <2>1, <2>2
<1>4. SnapshotsTrue(h)'
  BY <1>1, <1>3 DEF SnapshotsTrue
<1>5. QED
  BY <1>2, <1>4, BilledLeftAlone

\* A sweep begins with the invoices as they stand, on the day it is.
LEMMA BeginSweepBilled ==
    ASSUME Typed, Typed', BillsInOrder, NEW h \in Handlers, BeginSweep(h)
    PROVE  BillsInOrder'
<1>1. /\ Elsewhere(h) /\ UNCHANGED <<invoice, today>> /\ pc'[h] = "sweep"
      /\ req'[h].todo = PastDue /\ req'[h].day = today /\ h \in Sweepers
  BY DEF Typed, TypeOK, BeginSweep, Elsewhere, NoRequest, store
<1>2. ChargesNothing(h)
  BY <1>1 DEF ChargesNothing, BillsInOrder, BillsTrue
<1>3. \A t \in PastDue :
        /\ t.id \in DOMAIN invoice /\ t.doc = invoice[t.id]
        /\ invoice[t.id].late <= LateCeiling(t.doc.due, today)
  BY DEF PastDue, BillsInOrder, BillsTrue
<1>4. today \in Nat
  BY DEF Typed, TypeOK
<1>5. SnapshotsTrue(h)'
  BY <1>1, <1>3, <1>4 DEF SnapshotsTrue
<1>6. QED
  BY <1>2, <1>5, BilledLeftAlone

\* A new invoice shows the bare fee, on a number nobody had.
LEMMA RaiseBilled ==
    ASSUME Typed, Typed', BillsInOrder, InvoiceNumbersApart, NEW h \in Handlers,
           RaiseInvoice(h)
    PROVE  BillsInOrder'
<1>1. req[h].number \notin DOMAIN invoice
  BY DEF InvoiceNumbersApart, RaiseInvoice
<1>2. /\ Elsewhere(h) /\ today' = today /\ pc'[h] = "total"
      /\ DOMAIN invoice' = DOMAIN invoice \cup {req[h].number}
      /\ \A i \in DOMAIN invoice : invoice'[i] = invoice[i]
      /\ invoice'[req[h].number].late = 0
      /\ invoice'[req[h].number].paid = 0
      /\ invoice'[req[h].number].total = invoice'[req[h].number].base
  BY <1>1 DEF Typed, TypeOK, RaiseInvoice, Elsewhere
<1>3. ChargesNothing(h)
  BY <1>2 DEF ChargesNothing, BillsInOrder, BillsTrue
<1>4. SnapshotsTrue(h)'
  BY <1>2 DEF SnapshotsTrue
<1>5. QED
  BY <1>3, <1>4, BilledLeftAlone

\* A day later every sweep may charge as much or more.
LEMMA NextDayBilled ==
    ASSUME Typed, BillsInOrder, NextDay
    PROVE  BillsInOrder'
<1>1. /\ UNCHANGED <<invoice, pc, req>> /\ today' = today + 1
      /\ today \in Nat /\ today' \in Nat /\ today <= today'
  BY DEF Typed, TypeOK, NextDay, store
<1>2. ASSUME NEW i \in DOMAIN invoice
      PROVE  invoice[i].late <= LateCeiling(invoice[i].due, today')
  <2> DEFINE due == invoice[i].due
             day == today
             later == today'
  <2>1. due \in Nat /\ invoice[i].late \in Nat
    BY DEF Typed, TypeOK, Invoice
  <2>2. invoice[i].late <= LateCeiling(due, day)
    BY DEF BillsInOrder, BillsTrue
  <2>3. day \in Nat /\ later \in Nat /\ day <= later
    BY <1>1
  <2> HIDE DEF due, day, later
  <2>4. /\ LateCeiling(due, day) <= LateCeiling(due, later)
        /\ LateCeiling(due, day) \in Nat /\ LateCeiling(due, later) \in Nat
    <3>1. later <= later
      BY <2>3
    <3>2. QED
      BY <2>1, <2>3, <3>1, LateCeilingGrows
  <2>5. invoice[i].late <= LateCeiling(due, later)
    BY <2>1, <2>2, <2>4
  <2>6. QED
    BY <2>5 DEF due, later
<1>3. BillsTrue'
  BY <1>1, <1>2 DEF BillsInOrder, BillsTrue
<1>4. ASSUME NEW g \in Handlers PROVE SnapshotsTrue(g)'
  <2>1. req[g] \in Request /\ SnapshotsTrue(g)
    BY DEF Typed, TypeOK, BillsInOrder
  <2>2. req[g].day \in Nat
    BY <2>1 DEF Request
  <2>3. QED
    BY <1>1, <2>1, <2>2 DEF SnapshotsTrue
<1>5. QED
  BY <1>3, <1>4 DEF BillsInOrder

LEMMA BilledResume ==
    ASSUME Typed, Typed', BillsInOrder, InvoiceNumbersApart, OneSweeper,
           NEW h \in Handlers, Resume(h)
    PROVE  BillsInOrder'
<1>1. CASE ApplyToInvoice(h)
  BY <1>1, ApplyBilled
<1>2. CASE SweepInvoice(h)
  BY <1>2, SweepBilled
<1>3. CASE RaiseInvoice(h)
  BY <1>3, RaiseBilled
<1>4. CASE CollectOnline(h)
  <2> DEFINE o == req[h].order
  <2>1. /\ pc[h] = "collect" /\ UNCHANGED <<store, today>>
        /\ BeginCollection(h, req[h], order[o].student, order[o].invoice,
                           order[o].amount)
    BY <1>4 DEF CollectOnline
  <2>2. o \in Orders /\ order[o].status # "none"
    BY <2>1, FeeLedgerAssumption
       DEF Typed, LocalsOK, HoldsWhatItNeeds, FeeLedgerAssumption
  <2>3. order[o].invoice \in DOMAIN invoice \cup {0} /\ req[h] \in Request
    BY <2>2 DEF Typed, OrdersOK, TypeOK
  <2>4. QED
    BY <2>1, <2>3, CollectionBilled
<1>5. CASE /\ ~ApplyToInvoice(h) /\ ~SweepInvoice(h)
           /\ ~RaiseInvoice(h) /\ ~CollectOnline(h)
  <2>1. ReadsNoBill(h)
    <3> USE DEF ReadsNoBill, Elsewhere, Typed, TypeOK, store
    <3>1. CASE TakeReceiptNumber(h) \/ WriteReceipt(h)
      BY <3>1 DEF TakeReceiptNumber, WriteReceipt
    <3>2. CASE ReadOutstanding(h) \/ WriteOutstanding(h)
      BY <3>2 DEF ReadOutstanding, WriteOutstanding, AfterRefresh
    <3>3. CASE PlaceOrder(h) \/ RefuseOrder(h) \/ BankOrder(h)
      BY <3>3 DEF PlaceOrder, RefuseOrder, BankOrder, Finish
    <3>4. CASE FetchPayment(h) \/ CollectNothing(h)
      BY <3>4 DEF FetchPayment, CollectNothing, OnRemote, Finish
    <3>5. CASE CheckBilled(h) \/ TakeInvoiceNumber(h)
      BY <3>5 DEF CheckBilled, TakeInvoiceNumber
    <3>6. QED
      BY <1>5, <3>1, <3>2, <3>3, <3>4, <3>5 DEF Resume
  <2>2. QED
    BY <2>1, BilledUnread
<1>6. QED
  BY <1>1, <1>2, <1>3, <1>4, <1>5

LEMMA BilledArrive ==
    ASSUME Typed, Typed', BillsInOrder, NEW h \in Handlers, Arrive(h)
    PROVE  BillsInOrder'
<1>1. CASE \E s \in Students, i \in DOMAIN invoice \cup {0},
              amount \in Amounts : Collect(h, s, i, amount)
  <2>1. PICK s \in Students, i \in DOMAIN invoice \cup {0},
             amount \in Amounts : Collect(h, s, i, amount)
    BY <1>1
  <2>2. BeginCollection(h, NoRequest, s, i, amount) /\ UNCHANGED <<store, today>>
    BY <2>1 DEF Collect
  <2>3. QED
    BY <2>2, NoRequestType, CollectionBilled
<1>2. CASE BeginSweep(h)
  BY <1>2, BeginSweepBilled
<1>3. CASE ~BeginSweep(h) /\ ~ \E s \in Students, i \in DOMAIN invoice \cup {0},
                                 amount \in Amounts : Collect(h, s, i, amount)
  <2>1. ReadsNoBill(h)
    <3> USE DEF ReadsNoBill, Elsewhere, Typed, TypeOK, store
    <3>1. CASE \E o \in Orders, s \in Students, i \in DOMAIN invoice \cup {0},
                  amount \in Amounts \cup {0} : BeginOrder(h, o, s, i, amount)
      BY <3>1 DEF BeginOrder
    <3>2. CASE \E o \in Orders, genuine \in BOOLEAN : BeginConfirm(h, o, genuine)
      BY <3>2 DEF BeginConfirm
    <3>3. CASE \E p \in Periods, pupils \in SUBSET Students :
                 BeginBilling(h, p, pupils)
      BY <3>3 DEF BeginBilling
    <3>4. QED
      BY <1>3, <3>1, <3>2, <3>3 DEF Arrive
  <2>2. QED
    BY <2>1, BilledUnread
<1>4. QED
  BY <1>1, <1>2, <1>3

LEMMA BilledStep ==
    OneSweeper /\ Typed /\ Typed' /\ InvoiceNumbersApart /\ BillsInOrder
               /\ [Next]_vars => BillsInOrder'
<1> SUFFICES ASSUME OneSweeper, Typed, Typed', InvoiceNumbersApart, BillsInOrder,
                    [Next]_vars
             PROVE  BillsInOrder'
  OBVIOUS
<1>1. CASE UNCHANGED vars \/ \E o \in Orders : Pay(o) \/ Refund(o)
  <2>1. UNCHANGED <<invoice, today, pc, req>>
    BY <1>1 DEF Pay, Refund, vars, store
  <2>2. QED
    BY <2>1 DEF BillsInOrder, BillsTrue, SnapshotsTrue
<1>2. CASE NextDay
  BY <1>2, NextDayBilled
<1>3. ASSUME NEW h \in Handlers, Arrive(h) PROVE BillsInOrder'
  BY <1>3, BilledArrive
<1>4. ASSUME NEW h \in Handlers, Resume(h) PROVE BillsInOrder'
  BY <1>4, BilledResume
<1>5. ASSUME NEW h \in Handlers, Abort(h) PROVE BillsInOrder'
  <2>1. ReadsNoBill(h)
    BY <1>5 DEF Typed, TypeOK, Abort, Finish, ReadsNoBill, Elsewhere, store
  <2>2. QED
    BY <2>1, BilledUnread
<1>6. QED
  BY <1>1, <1>2, <1>3, <1>4, <1>5 DEF Next, Surroundings

\* collect_payment writes a paid figure it worked out from an old snapshot,
\* and mark_overdue rewrites totals meanwhile; as long as one sweep runs at a
\* time, a total never falls, so no invoice is ever paid beyond its total.
THEOREM PaidNeverBeyondTotal ==
    ASSUME OneSweeper
    PROVE  Spec => []PaidWithinTotal
<1>1. Init => BillsInOrder /\ InOrderOfDue /\ Numbering
  BY DEF Init, InOrderOfDue, InvoiceNumbersApart, Allocating, BillsInOrder, BillsTrue,
         SnapshotsTrue, Numbering, NumbersDrawn, NoReceiptCollision
<1>2. Typed /\ BillsInOrder => PaidWithinTotal
  <2>1. ASSUME Typed, BillsInOrder, NEW i \in DOMAIN invoice
        PROVE  Balance(invoice[i]) >= 0
    BY <2>1 DEF Typed, TypeOK, Invoice, BillsInOrder, BillsTrue, Balance
  <2>2. QED
    BY <2>1 DEF PaidWithinTotal
<1>3. InOrderOfDue => InvoiceNumbersApart
  BY DEF InOrderOfDue
<1>4. OneSweeper
  OBVIOUS
<1>5. Typed /\ Typed' /\ InvoiceNumbersApart /\ BillsInOrder /\ [Next]_vars => BillsInOrder'
  BY <1>4, BilledStep
<1>6. QED
  BY <1>1, <1>2, <1>3, <1>5, TypedInit, TypedStep, NumberingStep,
     FundedInit, FundedStep, InOrderStep, PTL DEF Spec

-----------------------------------------------------------------------------
(* One till.                                                               *)

\* The till of this module: requests do not overlap, and none fails.  With two
\* handlers, or one that fails half way, TLC shows what becomes of these.
OneTill == /\ \A g, h \in Handlers : g = h
           /\ FailProne \cap Handlers = {}

-----------------------------------------------------------------------------
(* What the ledger's other theorems give.                                  *)

Ledger == Typed /\ Numbering /\ Funded /\ InOrderOfDue /\ BillsInOrder

LEMMA LedgerInit == Init => Ledger
<1>1. Init => BillsInOrder /\ InOrderOfDue /\ Numbering
  BY DEF Init, InOrderOfDue, InvoiceNumbersApart, Allocating, BillsInOrder,
         BillsTrue, SnapshotsTrue, Numbering, NumbersDrawn, NoReceiptCollision
<1>2. QED
  BY <1>1, TypedInit, FundedInit DEF Ledger

LEMMA LedgerStep == OneTill /\ Ledger /\ [Next]_vars => Ledger'
<1> SUFFICES ASSUME OneTill, Ledger, [Next]_vars PROVE Ledger'
  OBVIOUS
<1>1. OneSweeper
  BY DEF OneTill, OneSweeper, Handlers
<1>2. InvoiceNumbersApart
  BY DEF Ledger, InOrderOfDue
<1>3. Typed' /\ Numbering'
  BY TypedStep, NumberingStep DEF Ledger
<1>4. Funded' /\ InOrderOfDue'
  BY <1>2, <1>3, FundedStep, InOrderStep DEF Ledger
<1>5. BillsInOrder'
  BY <1>1, <1>2, <1>3, BilledStep DEF Ledger
<1>6. QED
  BY <1>3, <1>4, <1>5 DEF Ledger

-----------------------------------------------------------------------------
(* Nothing a request has read has changed since.                           *)

FreshSnapshots(h) ==
    pc[h] \in {"apply", "sweep"} => \A t \in req[h].todo :
        /\ t.id \in DOMAIN invoice /\ t.doc = invoice[t.id]
        /\ pc[h] = "sweep" => t.doc.status \in Sweepable

\* Each line in hand credits an invoice of its own, and by something.
LinesInHand(h) ==
    pc[h] \in {"apply", "number", "receipt"} =>
        /\ \A l \in req[h].lines : l.invoice \in DOMAIN invoice /\ l.applied > 0
        /\ \A l, m \in req[h].lines : l.invoice = m.invoice => l = m
        /\ pc[h] = "apply" => req[h].left > 0
        /\ pc[h] # "apply" => req[h].lines # {}

\* An invoice is marked paid when nothing is left to pay on it, and not before.
StatusTrue ==
    \A i \in DOMAIN invoice :
        /\ invoice[i].status = "paid" => invoice[i].paid = invoice[i].total
        /\ invoice[i].status # "paid" => \/ invoice[i].total = 0
                                         \/ invoice[i].paid < invoice[i].total

Tidy == /\ StatusTrue
        /\ \A h \in Handlers : FreshSnapshots(h) /\ LinesInHand(h)

\* A step that writes no invoice and reads none to write it.
KeepsTidy(h) ==
    /\ invoice' = invoice
    /\ pc'[h] \notin {"apply", "sweep"}
    /\ pc'[h] \in {"number", "receipt"} =>
         pc[h] \in {"number", "receipt"} /\ req'[h].lines = req[h].lines

LEMMA TidyLeftAlone ==
    ASSUME OneTill, Tidy, NEW h \in Handlers, KeepsTidy(h)
    PROVE  Tidy'
<1>1. FreshSnapshots(h)' /\ LinesInHand(h)'
  BY DEF Tidy, FreshSnapshots, LinesInHand, KeepsTidy
<1>2. StatusTrue'
  BY DEF Tidy, StatusTrue, KeepsTidy
<1>3. QED
  BY <1>1, <1>2 DEF Tidy, OneTill

LEMMA CollectionTidy ==
    ASSUME OneTill, Ledger, Tidy, NEW h \in Handlers, NEW request \in Request,
           request.lines = {}, NEW s, NEW i \in DOMAIN invoice \cup {0},
           NEW amount, BeginCollection(h, request, s, i, amount),
           invoice' = invoice
    PROVE  Tidy'
<1>1. /\ pc'[h] = "apply" /\ req'[h].todo = Targets(s, i)
      /\ req'[h].lines = {} /\ req'[h].left = amount /\ amount > 0
  BY DEF Ledger, Typed, TypeOK, BeginCollection, Request
<1>2. \A t \in Targets(s, i) : t.id \in DOMAIN invoice /\ t.doc = invoice[t.id]
  BY TargetsAreInvoices
<1>3. FreshSnapshots(h)' /\ LinesInHand(h)'
  BY <1>1, <1>2 DEF FreshSnapshots, LinesInHand
<1>4. StatusTrue'
  BY DEF Tidy, StatusTrue
<1>5. QED
  BY <1>3, <1>4 DEF Tidy, OneTill

\* What one turn of the allocation loop does, when its snapshot is fresh.
LEMMA ApplyFresh ==
    ASSUME OneTill, Ledger, Tidy, NEW h \in Handlers, ApplyToInvoice(h)
    PROVE  \E i \in DOMAIN invoice, l \in Line :
             /\ l.invoice = i /\ l.applied > 0
             /\ l.applied \in Nat /\ invoice[i].paid + l.applied <= invoice[i].total
             /\ invoice[i].status # "paid"
             /\ \A m \in req[h].lines : m.invoice # i
             /\ req'[h].lines = req[h].lines \cup {l}
             /\ req'[h].todo \subseteq {t \in req[h].todo : t.id # i}
             /\ DOMAIN invoice' = DOMAIN invoice
             /\ \A j \in DOMAIN invoice : j # i => invoice'[j] = invoice[j]
             /\ invoice'[i] = [invoice[i] EXCEPT
                  !.paid = invoice[i].paid + l.applied,
                  !.status = IF invoice[i].paid + l.applied = invoice[i].total
                             THEN "paid" ELSE "partially_paid"]
             /\ pc[h] = "apply" /\ pc'[h] \in {"apply", "number"}
             /\ pc'[h] = "apply" => req'[h].left > 0
             /\ req'[h].student = req[h].student
<1>1. PICK t \in req[h].todo : ApplyToInvoice(h)!2!(t)
  BY DEF ApplyToInvoice
<1> DEFINE i == t.id
           doc == invoice[i]
           left == req[h].left
           applied == Applied(t.doc, left)
           newPaid == NewPaid(t.doc, applied)
           settled == newPaid >= t.doc.total
           l == [invoice |-> i, applied |-> applied, settled |-> settled]
<1>2. /\ pc[h] = "apply" /\ req[h] \in Request /\ t \in Snapshot
      /\ i \in DOMAIN invoice /\ t.doc = doc /\ Balance(doc) > 0
      /\ left \in Nat /\ left > 0 /\ i \in Nat \ {0}
  <2>1. pc[h] = "apply" /\ req[h] \in Request
    BY DEF ApplyToInvoice, Ledger, Typed, TypeOK
  <2>2. t \in Snapshot /\ left \in Nat
    BY <2>1 DEF Request
  <2>3. i \in DOMAIN invoice /\ t.doc = doc /\ left > 0
    BY <2>1 DEF Tidy, FreshSnapshots, LinesInHand
  <2>4. Balance(t.doc) > 0
    BY <2>1 DEF Ledger, Typed, LocalsOK, HoldsWhatItNeeds
  <2>5. QED
    BY <2>1, <2>2, <2>3, <2>4 DEF Snapshot
<1>3. /\ doc \in Invoice /\ doc.paid \in Nat /\ doc.total \in Nat
  BY <1>2 DEF Ledger, Typed, TypeOK, Invoice
<1>4. /\ applied \in Nat /\ applied > 0 /\ applied <= left
      /\ newPaid = doc.paid + applied /\ newPaid <= doc.total
  <2>1. applied = IF Balance(doc) <= left THEN Balance(doc) ELSE left
    BY <1>2 DEF Applied, Lesser
  <2>2. newPaid = doc.paid + applied
    BY <1>2 DEF NewPaid
  <2>3. Balance(doc) = doc.total - doc.paid
    BY DEF Balance
  <2> HIDE DEF applied, newPaid, doc, left
  <2>4. QED
    BY <1>2, <1>3, <2>1, <2>2, <2>3
<1>5. settled \in BOOLEAN /\ (settled <=> doc.paid + applied = doc.total)
  <2>1. settled <=> newPaid >= doc.total
    BY <1>2
  <2> HIDE DEF newPaid, applied, doc
  <2>2. QED
    BY <1>3, <1>4, <2>1 DEF settled
<1>6. doc.status # "paid"
  <2>1. Balance(doc) = doc.total - doc.paid
    BY DEF Balance
  <2>2. doc.status = "paid" => doc.paid = doc.total
    BY <1>2 DEF Tidy, StatusTrue
  <2> HIDE DEF doc
  <2>3. QED
    BY <1>2, <1>3, <2>1, <2>2
<1>7. l \in Line /\ l.invoice = i /\ l.applied = applied
  <2> HIDE DEF applied, settled, i
  <2>1. QED
    BY <1>2, <1>4, <1>5 DEF Line
<1>8. /\ req'[h].lines = req[h].lines \cup {l}
      /\ req'[h].todo = req[h].todo \ {t}
      /\ req'[h].left = left - applied /\ req'[h].student = req[h].student
      /\ pc'[h] = IF left - applied = 0 \/ req[h].todo = {t} THEN "number"
                  ELSE "apply"
      /\ invoice' = [invoice EXCEPT ![i].paid = newPaid,
                       ![i].status = IF settled THEN "paid" ELSE "partially_paid"]
  BY <1>1, <1>2 DEF Ledger, Typed, TypeOK, Request, WithLine
<1>9. /\ \A m \in req[h].lines : m.invoice # i
      /\ \A u \in req[h].todo : u.id = i => u = t
  BY <1>2 DEF Ledger, Funded, SnapshotsBacked
<1>10. invoice'[i] = [doc EXCEPT
         !.paid = doc.paid + applied,
         !.status = IF doc.paid + applied = doc.total THEN "paid"
                    ELSE "partially_paid"]
  <2> HIDE DEF applied, settled
  <2>1. QED
    BY <1>2, <1>3, <1>4, <1>5, <1>8 DEF Invoice
<1>11. /\ DOMAIN invoice' = DOMAIN invoice
       /\ \A j \in DOMAIN invoice : j # i => invoice'[j] = invoice[j]
  BY <1>2, <1>8
<1>12. pc'[h] = "apply" => req'[h].left > 0
  <2> HIDE DEF applied, left
  <2>1. QED
    BY <1>2, <1>4, <1>8
<1>13. pc'[h] \in {"apply", "number"}
  BY <1>8
<1> HIDE DEF l, applied, newPaid, settled
<1>14. QED
  BY <1>2, <1>4, <1>6, <1>7, <1>8, <1>9, <1>10, <1>11, <1>12, <1>13

LEMMA ApplyTidy ==
    ASSUME OneTill, Ledger, Tidy, NEW h \in Handlers, ApplyToInvoice(h)
    PROVE  Tidy'
<1>1. PICK i \in DOMAIN invoice, l \in Line :
             /\ l.invoice = i /\ l.applied > 0
             /\ l.applied \in Nat /\ invoice[i].paid + l.applied <= invoice[i].total
             /\ \A m \in req[h].lines : m.invoice # i
             /\ req'[h].lines = req[h].lines \cup {l}
             /\ req'[h].todo \subseteq {t \in req[h].todo : t.id # i}
             /\ DOMAIN invoice' = DOMAIN invoice
             /\ \A j \in DOMAIN invoice : j # i => invoice'[j] = invoice[j]
             /\ invoice'[i] = [invoice[i] EXCEPT
                  !.paid = invoice[i].paid + l.applied,
                  !.status = IF invoice[i].paid + l.applied = invoice[i].total
                             THEN "paid" ELSE "partially_paid"]
             /\ pc[h] = "apply" /\ pc'[h] \in {"apply", "number"}
             /\ pc'[h] = "apply" => req'[h].left > 0
  BY ZenonT(40), ApplyFresh
<1>2. FreshSnapshots(h)'
  BY <1>1 DEF Tidy, FreshSnapshots
<1>3. LinesInHand(h)'
  BY <1>1 DEF Tidy, LinesInHand
<1>4. StatusTrue'
  <2>1. ASSUME NEW j \in DOMAIN invoice
        PROVE  /\ invoice'[j].status = "paid" => invoice'[j].paid = invoice'[j].total
               /\ invoice'[j].status # "paid" => \/ invoice'[j].total = 0
                                                 \/ invoice'[j].paid < invoice'[j].total
    <3>1. CASE j # i
      BY <1>1, <3>1 DEF Tidy, StatusTrue
    <3>2. CASE j = i
      <4> DEFINE paid == invoice[i].paid + l.applied
                 total == invoice[i].total
      <4>1. invoice[i] \in Invoice
        BY DEF Ledger, Typed, TypeOK
      <4>2. /\ invoice'[j].paid = paid /\ invoice'[j].total = total
            /\ invoice'[j].status = IF paid = total THEN "paid" ELSE "partially_paid"
        BY <1>1, <3>2, <4>1 DEF Invoice
      <4>3. paid \in Nat /\ total \in Nat /\ paid <= total
        BY <1>1, <4>1 DEF Invoice
      <4> HIDE DEF paid, total
      <4>4. QED
        BY <4>2, <4>3
    <3>3. QED
      BY <3>1, <3>2
  <2>2. QED
    BY <1>1, <2>1 DEF StatusTrue
<1>5. QED
  BY <1>2, <1>3, <1>4 DEF Tidy, OneTill

\* What one update of the sweep does, when its snapshot is fresh.
LEMMA SweepFresh ==
    ASSUME OneTill, Ledger, Tidy, NEW h \in Handlers, SweepInvoice(h)
    PROVE  \E i \in DOMAIN invoice, late \in Nat :
             /\ invoice[i].late <= late /\ invoice[i].status # "paid"
             /\ invoice[i].base \in Nat /\ invoice[i].late \in Nat
             /\ invoice[i].total = invoice[i].base + invoice[i].late
             /\ DOMAIN invoice' = DOMAIN invoice
             /\ \A j \in DOMAIN invoice : j # i => invoice'[j] = invoice[j]
             /\ invoice'[i] = [invoice[i] EXCEPT !.status = "overdue",
                                                 !.late = late,
                                                 !.total = invoice[i].base + late]
             /\ pc[h] = "sweep" /\ pc'[h] \in {"idle", "sweep"}
             /\ pc'[h] = "sweep" =>
                  req'[h].todo \subseteq {t \in req[h].todo : t.id # i}
<1>1. PICK t \in req[h].todo : SweepInvoice(h)!2!(t)
  BY DEF SweepInvoice
<1> DEFINE i == t.id
           day == req[h].day
           late == LateFee(t.doc, day)
<1>2. /\ pc[h] = "sweep" /\ req[h] \in Request /\ t \in Snapshot
      /\ i \in DOMAIN invoice /\ t.doc = invoice[i]
      /\ t.doc.status \in Sweepable /\ day \in Nat /\ t.doc \in Invoice
  <2>1. pc[h] = "sweep" /\ req[h] \in Request
    BY DEF SweepInvoice, Ledger, Typed, TypeOK
  <2>2. t \in Snapshot /\ day \in Nat
    BY <2>1 DEF Request
  <2>3. i \in DOMAIN invoice /\ t.doc = invoice[i] /\ t.doc.status \in Sweepable
    BY <2>1 DEF Tidy, FreshSnapshots
  <2>4. QED
    BY <2>1, <2>2, <2>3 DEF Snapshot
<1>3. t.doc.late <= LateCeiling(t.doc.due, day)
  BY <1>2 DEF Ledger, BillsInOrder, SnapshotsTrue
<1>4. late = LateCeiling(t.doc.due, day)
  BY <1>2, <1>3, LateFeeIsCeiling
<1>5. late \in Nat
  BY <1>2, LateFeeType
<1>6. /\ invoice[i].late <= late /\ invoice[i].status # "paid"
      /\ invoice[i].base \in Nat /\ invoice[i].late \in Nat
      /\ invoice[i].total = invoice[i].base + invoice[i].late
  BY <1>2, <1>3, <1>4 DEF Sweepable, Ledger, BillsInOrder, BillsTrue, Invoice
<1>7. /\ invoice' = [invoice EXCEPT ![i].status = "overdue", ![i].late = late,
                                    ![i].total = t.doc.base + late]
      /\ pc'[h] = IF req[h].todo = {t} THEN "idle" ELSE "sweep"
      /\ req'[h] = IF req[h].todo = {t} THEN NoRequest
                   ELSE [req[h] EXCEPT !.todo = req[h].todo \ {t}]
  BY <1>1, <1>2 DEF Ledger, Typed, TypeOK
<1> HIDE DEF late
<1>8. /\ DOMAIN invoice' = DOMAIN invoice
      /\ \A j \in DOMAIN invoice : j # i => invoice'[j] = invoice[j]
      /\ invoice'[i] = [invoice[i] EXCEPT !.status = "overdue", !.late = late,
                                          !.total = invoice[i].base + late]
  BY <1>2, <1>7 DEF Invoice
<1>9. \A u \in req[h].todo : u.id = i => u = t
  BY <1>2 DEF Ledger, Funded, SnapshotsBacked
<1>10. pc'[h] = "sweep" => req'[h].todo = req[h].todo \ {t}
  BY <1>2, <1>7 DEF Request
<1>11. pc'[h] \in {"idle", "sweep"}
  BY <1>7
<1>12. QED
  BY <1>2, <1>5, <1>6, <1>8, <1>9, <1>10, <1>11

LEMMA SweepTidy ==
    ASSUME OneTill, Ledger, Tidy, NEW h \in Handlers, SweepInvoice(h)
    PROVE  Tidy'
<1>1. PICK i \in DOMAIN invoice, late \in Nat :
             /\ invoice[i].late <= late /\ invoice[i].status # "paid"
             /\ invoice[i].base \in Nat /\ invoice[i].late \in Nat
             /\ invoice[i].total = invoice[i].base + invoice[i].late
             /\ DOMAIN invoice' = DOMAIN invoice
             /\ \A j \in DOMAIN invoice : j # i => invoice'[j] = invoice[j]
             /\ invoice'[i] = [invoice[i] EXCEPT !.status = "overdue",
                                                 !.late = late,
                                                 !.total = invoice[i].base + late]
             /\ pc[h] = "sweep" /\ pc'[h] \in {"idle", "sweep"}
             /\ pc'[h] = "sweep" =>
                  req'[h].todo \subseteq {t \in req[h].todo : t.id # i}
  BY SweepFresh
<1>2. FreshSnapshots(h)' /\ LinesInHand(h)'
  BY <1>1 DEF Tidy, FreshSnapshots, LinesInHand
<1>3. invoice[i] \in Invoice
  BY DEF Ledger, Typed, TypeOK
<1>4. /\ invoice'[i].status = "overdue" /\ invoice'[i].paid = invoice[i].paid
      /\ invoice'[i].total = invoice[i].base + late
      /\ invoice[i].paid \in Nat
  BY <1>1, <1>3 DEF Invoice
<1>5. invoice[i].total = 0 \/ invoice[i].paid < invoice[i].total
  BY <1>1 DEF Tidy, StatusTrue
<1>6. invoice'[i].total = 0 \/ invoice'[i].paid < invoice'[i].total
  <2> DEFINE base == invoice[i].base
             before == invoice[i].late
             paid == invoice[i].paid
  <2>1. /\ base \in Nat /\ before \in Nat /\ paid \in Nat /\ before <= late
        /\ base + before = 0 \/ paid < base + before
        /\ paid <= base + before
    BY <1>1, <1>4, <1>5 DEF Ledger, BillsInOrder, BillsTrue
  <2> HIDE DEF base, before, paid
  <2>2. base + late = 0 \/ paid < base + late
    BY <2>1
  <2>3. QED
    BY <1>4, <2>2 DEF base, paid
<1>7. StatusTrue'
  BY <1>1, <1>4, <1>6 DEF Tidy, StatusTrue
<1>8. QED
  BY <1>2, <1>7 DEF Tidy, OneTill

LEMMA BeginSweepTidy ==
    ASSUME OneTill, Ledger, Tidy, NEW h \in Handlers, BeginSweep(h)
    PROVE  Tidy'
<1>1. /\ pc'[h] = "sweep" /\ req'[h].todo = PastDue /\ invoice' = invoice
  BY DEF Ledger, Typed, TypeOK, BeginSweep, NoRequest, store
<1>2. \A t \in PastDue : /\ t.id \in DOMAIN invoice /\ t.doc = invoice[t.id]
                         /\ t.doc.status \in Sweepable
  BY DEF PastDue
<1>3. FreshSnapshots(h)' /\ LinesInHand(h)'
  BY <1>1, <1>2 DEF FreshSnapshots, LinesInHand
<1>4. StatusTrue'
  BY <1>1 DEF Tidy, StatusTrue
<1>5. QED
  BY <1>3, <1>4 DEF Tidy, OneTill

\* A new invoice: on a number nobody used, with nothing paid.
LEMMA RaiseFresh ==
    ASSUME Ledger, NEW h \in Handlers, RaiseInvoice(h)
    PROVE  \E n :
             /\ n \notin DOMAIN invoice
             /\ DOMAIN invoice' = DOMAIN invoice \cup {n}
             /\ \A j \in DOMAIN invoice : invoice'[j] = invoice[j]
             /\ invoice'[n].total \in Nat /\ invoice'[n].paid = 0
             /\ invoice'[n].status = "issued" /\ invoice'[n].student = req[h].student
             /\ invoice'[n].period = req[h].period
             /\ pc[h] = "raise" /\ pc'[h] = "total" /\ req' = req
<1> DEFINE n == req[h].number
<1>1. pc[h] = "raise" /\ n \notin DOMAIN invoice /\ req[h].student \in Students
  BY DEF Ledger, InOrderOfDue, InvoiceNumbersApart, RaiseInvoice, Typed, LocalsOK,
         HoldsWhatItNeeds
<1>2. Fee[req[h].student] \in Nat
  BY <1>1, FeeLedgerAssumption DEF FeeLedgerAssumption
<1>3. QED
  BY <1>1, <1>2 DEF RaiseInvoice, Ledger, Typed, TypeOK

LEMMA RaiseTidy ==
    ASSUME OneTill, Ledger, Tidy, NEW h \in Handlers, RaiseInvoice(h)
    PROVE  Tidy'
<1>1. PICK n :
             /\ n \notin DOMAIN invoice
             /\ DOMAIN invoice' = DOMAIN invoice \cup {n}
             /\ \A j \in DOMAIN invoice : invoice'[j] = invoice[j]
             /\ invoice'[n].total \in Nat /\ invoice'[n].paid = 0
             /\ invoice'[n].status = "issued"
             /\ pc[h] = "raise" /\ pc'[h] = "total"
  BY RaiseFresh
<1>2. StatusTrue'
  BY <1>1 DEF Tidy, StatusTrue
<1>3. FreshSnapshots(h)' /\ LinesInHand(h)'
  BY <1>1 DEF FreshSnapshots, LinesInHand
<1>4. QED
  BY <1>2, <1>3 DEF Tidy, OneTill

\* The steps of a handler that write no invoice and read none to write it.
LEMMA ResumeKeepsTidy ==
    ASSUME Ledger, NEW h \in Handlers, Resume(h), ~ApplyToInvoice(h),
           ~SweepInvoice(h), ~RaiseInvoice(h), ~CollectOnline(h)
    PROVE  KeepsTidy(h)
<1> USE DEF KeepsTidy, Ledger, Typed, TypeOK, store, Request
<1>1. CASE TakeReceiptNumber(h) \/ WriteReceipt(h)
  BY <1>1 DEF TakeReceiptNumber, WriteReceipt
<1>2. CASE ReadOutstanding(h) \/ WriteOutstanding(h)
  BY <1>2 DEF ReadOutstanding, WriteOutstanding, AfterRefresh
<1>3. CASE PlaceOrder(h) \/ RefuseOrder(h) \/ BankOrder(h)
  BY <1>3 DEF PlaceOrder, RefuseOrder, BankOrder, Finish
<1>4. CASE FetchPayment(h) \/ CollectNothing(h)
  BY <1>4 DEF FetchPayment, CollectNothing, OnRemote, Finish
<1>5. CASE CheckBilled(h) \/ TakeInvoiceNumber(h)
  BY <1>5 DEF CheckBilled, TakeInvoiceNumber
<1>6. QED
  BY <1>1, <1>2, <1>3, <1>4, <1>5 DEF Resume

\* The same of a request that arrives.
LEMMA ArriveKeepsTidy ==
    ASSUME Ledger, NEW h \in Handlers, Arrive(h), ~BeginSweep(h),
           ~ \E s \in Students, i \in DOMAIN invoice \cup {0}, amount \in Amounts :
               Collect(h, s, i, amount)
    PROVE  KeepsTidy(h)
<1> USE DEF KeepsTidy, Ledger, Typed, TypeOK, store
<1>1. CASE \E o \in Orders, s \in Students, i \in DOMAIN invoice \cup {0},
              amount \in Amounts \cup {0} : BeginOrder(h, o, s, i, amount)
  BY <1>1 DEF BeginOrder
<1>2. CASE \E o \in Orders, genuine \in BOOLEAN : BeginConfirm(h, o, genuine)
  BY <1>2 DEF BeginConfirm
<1>3. CASE \E p \in Periods, pupils \in SUBSET Students : BeginBilling(h, p, pupils)
  BY <1>3 DEF BeginBilling
<1>4. QED
  BY <1>1, <1>2, <1>3 DEF Arrive

\* A collection of a captured order, and what confirm_payment hands it.
LEMMA OnlineCollection ==
    ASSUME Ledger, NEW h \in Handlers, CollectOnline(h)
    PROVE  LET o == req[h].order IN
           /\ o \in Orders /\ order[o].status # "none" /\ pc[h] = "collect"
           /\ order[o].invoice \in DOMAIN invoice \cup {0}
           /\ order[o].student \in Students /\ req[h] \in Request
           /\ req[h].lines = {} /\ h \notin Allocating
           /\ BeginCollection(h, req[h], order[o].student, order[o].invoice,
                              order[o].amount)
           /\ UNCHANGED <<store, orphaned>>
<1> DEFINE o == req[h].order
<1>1. /\ pc[h] = "collect" /\ UNCHANGED <<store, orphaned>>
      /\ BeginCollection(h, req[h], order[o].student, order[o].invoice,
                         order[o].amount)
  BY DEF CollectOnline
<1>2. o \in Orders /\ order[o].status # "none"
  BY <1>1, FeeLedgerAssumption
     DEF Ledger, Typed, LocalsOK, HoldsWhatItNeeds, FeeLedgerAssumption
<1>3. order[o].invoice \in DOMAIN invoice \cup {0} /\ order[o].student \in Students
  BY <1>2 DEF Ledger, Typed, OrdersOK
<1>4. req[h].lines = {} /\ req[h] \in Request
  BY <1>1 DEF Ledger, Funded, SnapshotsBacked, Typed, TypeOK
<1>5. h \notin Allocating
  BY <1>1 DEF Allocating
<1>6. QED
  BY <1>1, <1>2, <1>3, <1>4, <1>5

LEMMA TidyInit == Init => Tidy
  BY DEF Init, Tidy, StatusTrue, FreshSnapshots, LinesInHand

LEMMA TidyStep == OneTill /\ Ledger /\ Tidy /\ [Next]_vars => Tidy'
<1> SUFFICES ASSUME OneTill, Ledger, Tidy, [Next]_vars PROVE Tidy'
  OBVIOUS
<1>1. CASE Surroundings \/ UNCHANGED vars
  <2>1. UNCHANGED <<invoice, pc, req>>
    BY <1>1 DEF Surroundings, NextDay, Pay, Refund, vars, store
  <2>2. QED
    BY <2>1 DEF Tidy, StatusTrue, FreshSnapshots, LinesInHand
<1>2. ASSUME NEW h \in Handlers, Arrive(h) PROVE Tidy'
  <2>1. CASE \E s \in Students, i \in DOMAIN invoice \cup {0}, amount \in Amounts :
               Collect(h, s, i, amount)
    <3>1. PICK s \in Students, i \in DOMAIN invoice \cup {0}, amount \in Amounts :
               Collect(h, s, i, amount)
      BY <2>1
    <3>2. BeginCollection(h, NoRequest, s, i, amount) /\ invoice' = invoice
      BY <3>1 DEF Collect, store
    <3>3. NoRequest.lines = {}
      BY DEF NoRequest
    <3>4. QED
      BY <3>2, <3>3, NoRequestType, CollectionTidy
  <2>2. CASE BeginSweep(h)
    BY <2>2, BeginSweepTidy
  <2>3. QED
    BY <1>2, <2>1, <2>2, ArriveKeepsTidy, TidyLeftAlone
<1>3. ASSUME NEW h \in Handlers, Resume(h) PROVE Tidy'
  <2>1. CASE CollectOnline(h)
    BY <2>1, OnlineCollection, CollectionTidy DEF store
  <2>2. QED
    BY <1>3, <2>1, ApplyTidy, SweepTidy, RaiseTidy, ResumeKeepsTidy, TidyLeftAlone
<1>4. \A h \in Handlers : ~Abort(h)
  BY DEF OneTill, Abort
<1>5. QED
  BY <1>1, <1>2, <1>3, <1>4 DEF Next
-----------------------------------------------------------------------------
(* The ledger implements the fee book.                                     *)

\* With one handler the money in hand is what its own lines credit.
LEMMA HandOfOne ==
    ASSUME NEW h, NEW A \in SUBSET {h}, NEW f \in [A -> Int]
    PROVE  SumFunction(f) = IF h \in A THEN f[h] ELSE 0
<1>1. CASE h \in A
  <2>1. f \in [{h} -> Int]
    BY <1>1
  <2>2. QED
    BY <1>1, <2>1, SumOfOne
<1>2. CASE h \notin A
  <2>1. DOMAIN f = {}
    BY <1>2
  <2>2. QED
    BY <1>2, <2>1, SumOfNone
<1>3. QED
  BY <1>1, <1>2

\* What is in hand before and after a step of the one handler.
LEMMA InHandIs ==
    ASSUME OneTill, Ledger, Ledger', NEW h \in Handlers, NEW i
    PROVE  /\ InHand(i) = IF h \in Allocating THEN Credited(req[h].lines, i) ELSE 0
           /\ InHand(i)' =
                IF h \in Allocating' THEN Credited(req'[h].lines, i) ELSE 0
<1> DEFINE f == [g \in Allocating |-> Credited(req[g].lines, i)]
           k == [g \in Allocating' |-> Credited(req'[g].lines, i)]
<1>1. /\ Allocating \in SUBSET {h} /\ Allocating' \in SUBSET {h}
      /\ req[h].lines \in SUBSET Line /\ IsFiniteSet(req[h].lines)
      /\ req'[h].lines \in SUBSET Line /\ IsFiniteSet(req'[h].lines)
  BY DEF OneTill, Allocating, Ledger, Typed, TypeOK, Request, Funded, BooksFinite
<1>2. Credited(req[h].lines, i) \in Int /\ Credited(req'[h].lines, i) \in Int
  BY <1>1, CreditedNat
<1>3. /\ f \in [Allocating -> Int] /\ k \in [Allocating' -> Int]
      /\ h \in Allocating => f[h] = Credited(req[h].lines, i)
      /\ h \in Allocating' => k[h] = Credited(req'[h].lines, i)
  BY <1>1, <1>2
<1>4. InHand(i) = SumFunction(f) /\ InHand(i)' = SumFunction(k)
  BY DEF InHand
<1> HIDE DEF f, k
<1>5. /\ SumFunction(f) = IF h \in Allocating THEN f[h] ELSE 0
      /\ SumFunction(k) = IF h \in Allocating' THEN k[h] ELSE 0
  BY <1>1, <1>3, HandOfOne
<1>6. QED
  BY <1>3, <1>4, <1>5

\* The book's sums are the ledger's.
LEMMA BookSum == \A f : Book!SumFunction(f) = SumFunction(f)
  BY Zenon DEF Book!SumFunction, Book!SumFunctionOnSet, Book!FoldFunctionOnSet,
     Book!MapThenFoldSet, SumFunction, SumFunctionOnSet, FoldFunctionOnSet,
     MapThenFoldSet

\* Lines for an invoice each: what they credit is what the book says they do.
LEMMA WrittenCredits ==
    ASSUME NEW lines \in SUBSET Line, IsFiniteSet(lines), NEW i,
           \A l, m \in lines : l.invoice = m.invoice => l = m
    PROVE  Book!Applied(Written(lines), i) = Credited(lines, i)
<1> DEFINE mine == {l \in lines : l.invoice = i}
           theirs == {l \in Written(lines) : l.invoice = i}
<1>1. Book!Applied(Written(lines), i) = SumFunction([l \in theirs |-> l.applied])
  BY BookSum DEF Book!Applied
<1>2. Credited(lines, i) = SumFunction([l \in mine |-> l.applied])
  BY DEF Credited, LinesTotal
<1>3. CASE mine = {}
  <2>1. theirs = {}
    BY <1>3 DEF Written
  <2>2. DOMAIN [l \in mine |-> l.applied] = {} /\ DOMAIN [l \in theirs |-> l.applied] = {}
    BY <1>3, <2>1
  <2>3. QED
    BY <1>1, <1>2, <2>2, SumOfNone
<1>4. ASSUME NEW m \in mine PROVE Book!Applied(Written(lines), i) = Credited(lines, i)
  <2> DEFINE w == [invoice |-> m.invoice, applied |-> m.applied]
             f == [l \in {m} |-> l.applied]
             k == [l \in {w} |-> l.applied]
  <2>1. mine = {m}
    OBVIOUS
  <2>2. theirs = {w}
    <3>1. \A l \in lines : l.invoice = i => l = m
      OBVIOUS
    <3>2. m \in lines /\ m.invoice = i /\ w.invoice = i
      OBVIOUS
    <3>3. QED
      BY <3>1, <3>2 DEF Written
  <2>3. m.applied \in Nat /\ w.applied = m.applied
    BY DEF Line
  <2>4. f \in [{m} -> Int] /\ f[m] = m.applied /\ k \in [{w} -> Int] /\ k[w] = m.applied
    BY <2>3
  <2> HIDE DEF f, k, w, mine, theirs
  <2>5. SumFunction(f) = f[m] /\ SumFunction(k) = k[w]
    BY <2>4, SumOfOne
  <2>6. QED
    BY <1>1, <1>2, <2>1, <2>2, <2>4, <2>5 DEF f, k
<1>5. QED
  BY <1>3, <1>4

\* A step that moves no money and changes no total is no step of the book.
LEMMA StuttersByParts ==
    ASSUME DOMAIN invoice' = DOMAIN invoice, payments' = payments,
           \A i \in DOMAIN invoice :
             /\ invoice'[i].total = invoice[i].total
             /\ invoice'[i].paid - InHand(i)' = invoice[i].paid - InHand(i)
    PROVE  UNCHANGED <<Bills, Receipts>>
  BY DEF Bills, Receipts, InHand

LEMMA MoneylessInHand ==
    ASSUME NEW h \in Handlers, MovesNoMoney(h), NEW i
    PROVE  InHand(i)' = InHand(i)
<1>1. Allocating' = Allocating
  BY DEF Allocating, MovesNoMoney, Elsewhere
<1>2. \A g \in Allocating : req'[g].lines = req[g].lines
  BY DEF Allocating, MovesNoMoney, Elsewhere
<1>3. [g \in Allocating |-> Credited(req'[g].lines, i)] =
        [g \in Allocating |-> Credited(req[g].lines, i)]
  BY <1>2
<1>4. QED
  BY <1>1, <1>3 DEF InHand

LEMMA MoneylessStutters ==
    ASSUME NEW h \in Handlers, MovesNoMoney(h), invoice' = invoice
    PROVE  UNCHANGED <<Bills, Receipts>>
<1>1. payments' = payments /\ \A i \in DOMAIN invoice : InHand(i)' = InHand(i)
  BY MoneylessInHand DEF MovesNoMoney
<1>2. QED
  BY <1>1, StuttersByParts

\* A collection that begins has nothing in hand yet.
LEMMA CollectionStutters ==
    ASSUME OneTill, Ledger, Ledger', NEW h \in Handlers, h \notin Allocating,
           NEW request \in Request, request.lines = {}, NEW s, NEW i, NEW amount,
           BeginCollection(h, request, s, i, amount), UNCHANGED store
    PROVE  UNCHANGED <<Bills, Receipts>>
<1>1. /\ invoice' = invoice /\ payments' = payments
      /\ h \in Allocating' /\ req'[h].lines = {}
  BY DEF BeginCollection, store, Ledger, Typed, TypeOK, Request, Allocating
<1>2. \A j : InHand(j) = 0 /\ InHand(j)' = 0
  BY <1>1, InHandIs, CreditedNone
<1>3. QED
  BY <1>1, <1>2, StuttersByParts

\* A turn of the loop puts on the invoice what it takes in hand.
LEMMA ApplyStutters ==
    ASSUME OneTill, Ledger, Ledger', Tidy, NEW h \in Handlers, ApplyToInvoice(h)
    PROVE  UNCHANGED <<Bills, Receipts>>
<1>1. PICK i \in DOMAIN invoice, l \in Line :
             /\ l.invoice = i /\ l.applied \in Nat
             /\ \A m \in req[h].lines : m.invoice # i
             /\ req'[h].lines = req[h].lines \cup {l}
             /\ DOMAIN invoice' = DOMAIN invoice
             /\ \A j \in DOMAIN invoice : j # i => invoice'[j] = invoice[j]
             /\ invoice'[i] = [invoice[i] EXCEPT
                  !.paid = invoice[i].paid + l.applied,
                  !.status = IF invoice[i].paid + l.applied = invoice[i].total
                             THEN "paid" ELSE "partially_paid"]
             /\ pc[h] = "apply" /\ pc'[h] \in {"apply", "number"}
  BY ApplyFresh, ZenonT(40)
<1>2. /\ h \in Allocating /\ h \in Allocating' /\ payments' = payments
      /\ req[h].lines \in SUBSET Line /\ IsFiniteSet(req[h].lines)
  BY <1>1 DEF Allocating, ApplyToInvoice, Ledger, Typed, TypeOK, Request, Funded,
              BooksFinite
<1>3. ASSUME NEW j \in DOMAIN invoice
      PROVE  /\ invoice'[j].total = invoice[j].total
             /\ invoice'[j].paid - InHand(j)' = invoice[j].paid - InHand(j)
  <2> DEFINE more == IF l.invoice = j THEN l.applied ELSE 0
             before == Credited(req[h].lines, j)
             after == Credited(req'[h].lines, j)
  <2>1. invoice[j] \in Invoice
    BY DEF Ledger, Typed, TypeOK
  <2>2. /\ invoice[j].paid \in Nat /\ more \in Nat
        /\ l.invoice = j <=> j = i
    BY <1>1, <2>1 DEF Invoice
  <2>8. /\ invoice'[j].paid = invoice[j].paid + more
        /\ invoice'[j].total = invoice[j].total
    <3>1. CASE j = i
      BY <1>1, <2>1, <3>1 DEF Invoice
    <3>2. CASE j # i
      BY <1>1, <2>2, <3>2
    <3>3. QED
      BY <3>1, <3>2
  <2>3. Credited(WithLine(req[h].lines, l), j) = before + more
    BY <1>1, <1>2, CreditedWithLine
  <2>4. after = before + more
    BY <1>1, <2>3 DEF WithLine
  <2>5. before \in Nat
    BY <1>2, CreditedNat
  <2>6. InHand(j) = before /\ InHand(j)' = after
    BY <1>2, InHandIs
  <2> HIDE DEF more, before, after
  <2>7. QED
    BY <2>2, <2>8, <2>4, <2>5, <2>6
<1>4. QED
  BY <1>1, <1>2, <1>3, StuttersByParts

\* The bills as this state and the next one show them.
LEMMA BillsAre ==
    Bills = [i \in DOMAIN invoice |->
               [total |-> invoice[i].total, paid |-> invoice[i].paid - InHand(i)]]
  BY DEF Bills, InHand

LEMMA NextBills ==
    Bills' = [i \in DOMAIN invoice' |->
                [total |-> invoice'[i].total,
                 paid |-> invoice'[i].paid - InHand(i)']]
  BY DEF Bills, InHand

\* Writing a receipt is taking money: the bills are credited with its lines.
LEMMA ReceiptReceives ==
    ASSUME OneTill, Ledger, Ledger', Tidy, NEW h \in Handlers, WriteReceipt(h)
    PROVE  Book!BookNext
<1> DEFINE number == req[h].number
           lines == req[h].lines
           p == [number |-> number, student |-> req[h].student,
                 amount |-> req[h].asked - req[h].left,
                 lines |-> lines, order |-> req[h].order]
           r == [number |-> number, lines |-> Written(lines)]
<1>1. /\ pc[h] = "receipt" /\ \A q \in payments : q.number # number
      /\ lines \in SUBSET Line /\ IsFiniteSet(lines)
  BY DEF WriteReceipt, Ledger, Numbering, NoReceiptCollision, Typed, TypeOK, Request,
         Funded, BooksFinite
<1>2. /\ payments' = payments \cup {p} /\ invoice' = invoice
      /\ pc'[h] = "total" /\ req' = req
  BY <1>1 DEF WriteReceipt, Ledger, Typed, TypeOK
<1>3. /\ \A l \in lines : l.invoice \in DOMAIN invoice /\ l.applied > 0
      /\ \A l, m \in lines : l.invoice = m.invoice => l = m
      /\ lines # {}
  BY <1>1 DEF Tidy, LinesInHand
<1>4. h \in Allocating /\ h \notin Allocating'
  BY <1>1, <1>2 DEF Allocating
<1>5. \A i : /\ InHand(i) = Credited(lines, i) /\ InHand(i)' = 0
             /\ Book!Applied(Written(lines), i) = Credited(lines, i)
             /\ Credited(lines, i) \in Nat
  BY <1>1, <1>3, <1>4, InHandIs, WrittenCredits, CreditedNat
<1>6. /\ p.number = number /\ p.lines = lines
      /\ r.number = number /\ r.lines = Written(lines)
  OBVIOUS
<1>7. Receipts' = Receipts \cup {r}
  <2> HIDE DEF p
  <2>1. QED
    BY <1>2, <1>6 DEF Receipts
<1>8. \A q \in Receipts : q.number # number
  BY <1>1 DEF Receipts
<1>9. Written(lines) # {}
  BY <1>3 DEF Written
<1>10. \A l \in Written(lines) : l.invoice \in DOMAIN Bills /\ l.applied > 0
  BY <1>3, BillsAre DEF Written
<1>11. ASSUME NEW i \in DOMAIN invoice
       PROVE  /\ invoice[i].paid \in Nat /\ invoice[i].total \in Nat
              /\ invoice[i].paid <= invoice[i].total
  BY DEF Ledger, Typed, TypeOK, Invoice, BillsInOrder, BillsTrue
<1> HIDE DEF number, lines, p, r
<1>12. \A i \in DOMAIN Bills :
         Bills[i].paid + Book!Applied(Written(lines), i) <= Bills[i].total
  <2> SUFFICES ASSUME NEW i \in DOMAIN invoice
               PROVE  Bills[i].paid + Book!Applied(Written(lines), i) <= Bills[i].total
    BY BillsAre
  <2>1. Bills[i].paid = invoice[i].paid - Credited(lines, i) /\ Bills[i].total = invoice[i].total
    BY <1>5, BillsAre
  <2>2. QED
    BY <1>5, <1>11, <2>1
<1>13. Bills' = [i \in DOMAIN Bills |->
                   [Bills[i] EXCEPT !.paid = Bills[i].paid + Book!Applied(Written(lines), i)]]
  <2>1. ASSUME NEW i \in DOMAIN invoice
        PROVE  [Bills[i] EXCEPT !.paid = Bills[i].paid + Book!Applied(Written(lines), i)]
                 = [total |-> invoice'[i].total, paid |-> invoice'[i].paid - InHand(i)']
    <3>1. Bills[i] = [total |-> invoice[i].total, paid |-> invoice[i].paid - Credited(lines, i)]
      BY <1>5, BillsAre
    <3>2. Bills[i].paid + Book!Applied(Written(lines), i) = invoice'[i].paid - InHand(i)'
      BY <1>2, <1>5, <1>11, <3>1
    <3>3. QED
      BY <1>2, <3>1, <3>2
  <2>2. DOMAIN Bills = DOMAIN invoice /\ DOMAIN invoice' = DOMAIN invoice
    BY <1>2, BillsAre
  <2>3. QED
    BY <2>1, <2>2, NextBills
<1>14. Book!Receive(r.number, r.lines)
  BY <1>6, <1>7, <1>8, <1>9, <1>10, <1>12, <1>13 DEF Book!Receive, r
<1>15. r \in Receipts' \ Receipts
  BY <1>6, <1>7, <1>8
<1>16. QED
  BY <1>14, <1>15 DEF Book!BookNext
\* Between collections a bill shows what its invoice shows.
LEMMA NothingInHand ==
    ASSUME OneTill, Ledger, Ledger', NEW h \in Handlers, h \notin Allocating,
           h \notin Allocating'
    PROVE  /\ Bills = [i \in DOMAIN invoice |->
                         [total |-> invoice[i].total, paid |-> invoice[i].paid]]
           /\ Bills' = [i \in DOMAIN invoice' |->
                          [total |-> invoice'[i].total, paid |-> invoice'[i].paid]]
<1>1. \A i : InHand(i) = 0 /\ InHand(i)' = 0
  BY InHandIs
<1>2. \A i \in DOMAIN invoice : invoice[i].paid \in Nat
  BY DEF Ledger, Typed, TypeOK, Invoice
<1>3. \A i \in DOMAIN invoice' : invoice'[i].paid \in Nat
  BY DEF Ledger, Typed, TypeOK, Invoice
<1>4. \A i \in DOMAIN invoice : invoice[i].paid - InHand(i) = invoice[i].paid
  BY <1>1, <1>2
<1>5. \A i \in DOMAIN invoice' : invoice'[i].paid - InHand(i)' = invoice'[i].paid
  BY <1>1, <1>3
<1>6. Bills = [i \in DOMAIN invoice |->
                 [total |-> invoice[i].total, paid |-> invoice[i].paid]]
  BY <1>4, BillsAre
<1>7. QED
  BY <1>5, <1>6, NextBills

\* An invoice raised is a bill raised.
LEMMA InvoiceRaises ==
    ASSUME OneTill, Ledger, Ledger', NEW h \in Handlers, RaiseInvoice(h)
    PROVE  Book!BookNext
<1>1. PICK n :
             /\ n \notin DOMAIN invoice
             /\ DOMAIN invoice' = DOMAIN invoice \cup {n}
             /\ \A j \in DOMAIN invoice : invoice'[j] = invoice[j]
             /\ invoice'[n].total \in Nat /\ invoice'[n].paid = 0
             /\ pc[h] = "raise" /\ pc'[h] = "total"
  BY RaiseFresh
<1>2. h \notin Allocating /\ h \notin Allocating'
  BY <1>1 DEF Allocating
<1>3. /\ Bills = [i \in DOMAIN invoice |->
                    [total |-> invoice[i].total, paid |-> invoice[i].paid]]
      /\ Bills' = [i \in DOMAIN invoice' |->
                     [total |-> invoice'[i].total, paid |-> invoice'[i].paid]]
  BY <1>2, NothingInHand
<1>4. /\ DOMAIN Bills = DOMAIN invoice /\ DOMAIN Bills' = DOMAIN invoice \cup {n}
      /\ Bills'[n] = [total |-> Bills'[n].total, paid |-> 0]
      /\ \A j \in DOMAIN Bills : Bills'[j] = Bills[j]
  BY <1>1, <1>3
<1>5. Bills' = [i \in DOMAIN Bills \cup {n} |->
                  IF i = n THEN [total |-> Bills'[n].total, paid |-> 0] ELSE Bills[i]]
  <2>1. Bills' = [i \in DOMAIN Bills' |-> Bills'[i]]
    BY <1>3
  <2>2. \A i \in DOMAIN Bills' : Bills'[i] =
          IF i = n THEN [total |-> Bills'[n].total, paid |-> 0] ELSE Bills[i]
    BY <1>4
  <2>3. QED
    BY <1>4, <2>1, <2>2
<1>6. Receipts' = Receipts
  BY DEF RaiseInvoice, Receipts
<1>7. Book!Raise(n, Bills'[n].total)
  BY <1>1, <1>4, <1>5, <1>6 DEF Book!Raise
<1>8. QED
  BY <1>1, <1>4, <1>7 DEF Book!BookNext

\* An update of the late-fee sweep is a surcharge, and only on what is due.
LEMMA SweepSurcharges ==
    ASSUME OneTill, Ledger, Ledger', Tidy, NEW h \in Handlers, SweepInvoice(h)
    PROVE  Book!BookNext
<1>1. PICK i \in DOMAIN invoice, late \in Nat :
             /\ invoice[i].late <= late /\ invoice[i].status # "paid"
             /\ invoice[i].base \in Nat /\ invoice[i].late \in Nat
             /\ invoice[i].total = invoice[i].base + invoice[i].late
             /\ DOMAIN invoice' = DOMAIN invoice
             /\ \A j \in DOMAIN invoice : j # i => invoice'[j] = invoice[j]
             /\ invoice'[i] = [invoice[i] EXCEPT !.status = "overdue",
                                                 !.late = late,
                                                 !.total = invoice[i].base + late]
             /\ pc[h] = "sweep" /\ pc'[h] \in {"idle", "sweep"}
  BY SweepFresh
<1> DEFINE more == invoice[i].base + late
<1>2. h \notin Allocating /\ h \notin Allocating'
  BY <1>1 DEF Allocating
<1>3. /\ Bills = [j \in DOMAIN invoice |->
                    [total |-> invoice[j].total, paid |-> invoice[j].paid]]
      /\ Bills' = [j \in DOMAIN invoice' |->
                     [total |-> invoice'[j].total, paid |-> invoice'[j].paid]]
  BY <1>2, NothingInHand
<1>4. invoice[i] \in Invoice
  BY DEF Ledger, Typed, TypeOK
<1>5. invoice'[i].total = more /\ invoice'[i].paid = invoice[i].paid
  BY <1>1, <1>4 DEF Invoice
<1>6. more >= invoice[i].total
  BY <1>1
<1> HIDE DEF more
<1>7. Bills' = [Bills EXCEPT ![i].total = more]
  <2>1. /\ DOMAIN Bills = DOMAIN invoice
        /\ \A j \in DOMAIN invoice : j # i => Bills'[j] = Bills[j]
        /\ Bills[i] = [total |-> invoice[i].total, paid |-> invoice[i].paid]
        /\ Bills'[i] = [total |-> more, paid |-> invoice[i].paid]
    BY <1>1, <1>3, <1>5
  <2>2. Bills'[i] = [Bills[i] EXCEPT !.total = more]
    BY <2>1
  <2>3. Bills' = [j \in DOMAIN Bills |->
                    IF j = i THEN [Bills[i] EXCEPT !.total = more] ELSE Bills[j]]
    BY <1>1, <1>3, <2>1, <2>2
  <2>4. QED
    BY <2>1, <2>3
<1>8. /\ i \in DOMAIN Bills /\ Bills'[i].total = more
      /\ Bills[i].total = invoice[i].total /\ Bills[i].paid = invoice[i].paid
  BY <1>1, <1>3, <1>5
<1>9. Bills[i].total = 0 \/ Bills[i].paid < Bills[i].total
  BY <1>1, <1>8 DEF Tidy, StatusTrue
<1>10. Receipts' = Receipts
  BY DEF SweepInvoice, Receipts
<1>11. Book!Surcharge(i, Bills'[i].total)
  BY <1>6, <1>7, <1>8, <1>9, <1>10 DEF Book!Surcharge
<1>12. QED
  BY <1>8, <1>11 DEF Book!BookNext
-----------------------------------------------------------------------------
LEMMA BookStep ==
    OneTill /\ Ledger /\ Ledger' /\ Tidy /\ [Next]_vars =>
      [Book!BookNext]_Book!bookVars
<1> SUFFICES ASSUME OneTill, Ledger, Ledger', Tidy, [Next]_vars
             PROVE  Book!BookNext \/ UNCHANGED <<Bills, Receipts>>
  BY DEF Book!bookVars
<1>1. CASE Surroundings \/ UNCHANGED vars
  <2>1. UNCHANGED <<invoice, payments, pc, req>>
    BY <1>1 DEF Surroundings, NextDay, Pay, Refund, vars, store
  <2>2. \A i : InHand(i)' = InHand(i)
    BY <2>1 DEF InHand, Allocating
  <2>3. QED
    BY <2>1, <2>2, StuttersByParts
<1>2. ASSUME NEW h \in Handlers, Arrive(h) PROVE UNCHANGED <<Bills, Receipts>>
  <2>1. CASE \E s \in Students, i \in DOMAIN invoice \cup {0}, amount \in Amounts :
               Collect(h, s, i, amount)
    <3>1. PICK s \in Students, i \in DOMAIN invoice \cup {0}, amount \in Amounts :
               Collect(h, s, i, amount)
      BY <2>1
    <3>2. /\ BeginCollection(h, NoRequest, s, i, amount) /\ UNCHANGED store
          /\ h \notin Allocating
      BY <3>1 DEF Collect, Idle, Allocating
    <3>3. NoRequest.lines = {}
      BY DEF NoRequest
    <3>4. QED
      BY <3>2, <3>3, NoRequestType, CollectionStutters
  <2>2. CASE ~ \E s \in Students, i \in DOMAIN invoice \cup {0}, amount \in Amounts :
                 Collect(h, s, i, amount)
    <3>1. MovesNoMoney(h)
      BY <1>2, <2>2, ArriveMovesNoMoney DEF Ledger
    <3>2. invoice' = invoice
      BY <1>2, <2>2 DEF Arrive, BeginOrder, BeginConfirm, BeginBilling, BeginSweep, store
    <3>3. QED
      BY <3>1, <3>2, MoneylessStutters
  <2>3. QED
    BY <2>1, <2>2
<1>3. ASSUME NEW h \in Handlers, Resume(h)
      PROVE  Book!BookNext \/ UNCHANGED <<Bills, Receipts>>
  <2>1. CASE CollectOnline(h)
    BY <2>1, OnlineCollection, CollectionStutters
  <2>2. CASE ApplyToInvoice(h)
    BY <2>2, ApplyStutters
  <2>3. CASE WriteReceipt(h) \/ RaiseInvoice(h) \/ SweepInvoice(h)
    BY <2>3, ReceiptReceives, InvoiceRaises, SweepSurcharges
  <2>4. CASE ~(\/ CollectOnline(h) \/ ApplyToInvoice(h) \/ WriteReceipt(h)
               \/ RaiseInvoice(h) \/ SweepInvoice(h))
    <3>1. MovesNoMoney(h)
      BY <1>3, <2>4, ResumeMovesNoMoney DEF Ledger, InOrderOfDue
    <3>2. invoice' = invoice
      BY <1>3, <2>4, ResumeKeepsTidy DEF KeepsTidy
    <3>3. QED
      BY <3>1, <3>2, MoneylessStutters
  <2>5. QED
    BY <2>1, <2>2, <2>3, <2>4
<1>4. \A h \in Handlers : ~Abort(h)
  BY DEF OneTill, Abort
<1>5. QED
  BY <1>1, <1>2, <1>3, <1>4 DEF Next

\* Seen at the moments receipts are written, one till is the fee book: what a
\* bill shows paid moves by receipts alone, within its total, each receipt
\* under a number of its own and never for nothing.
THEOREM TillIsBook == ASSUME OneTill PROVE Spec => BookSpec
<1>1. Init => Book!BookInit
  <2> SUFFICES ASSUME Init PROVE Book!BookInit
    OBVIOUS
  <2>1. DOMAIN invoice = {} /\ payments = {}
    BY DEF Init
  <2>2. QED
    BY <2>1, BillsAre DEF Book!BookInit, Receipts
<1>2. Init => Ledger /\ Tidy
  BY LedgerInit, TidyInit
<1>3. Ledger /\ Tidy /\ [Next]_vars => Ledger' /\ Tidy'
  BY LedgerStep, TidyStep
<1>4. Ledger /\ Ledger' /\ Tidy /\ [Next]_vars => [Book!BookNext]_Book!bookVars
  BY BookStep
<1>5. QED
  BY <1>1, <1>2, <1>3, <1>4, PTL DEF Spec, BookSpec, Book!BookSpec

\* What is paid stays paid: no later write of the one till reopens it.
THEOREM PaidStaysPaid == ASSUME OneTill PROVE Spec => SettledStaysSettled
<1> DEFINE Kept == \A i \in DOMAIN invoice :
                     invoice[i].status = "paid" => invoice'[i].status = "paid"
<1>1. ASSUME Ledger, Tidy, [Next]_vars PROVE [Kept]_invoice
  <2> SUFFICES Kept \/ invoice' = invoice
    OBVIOUS
  <2>1. CASE Surroundings \/ UNCHANGED vars
    BY <2>1 DEF Surroundings, NextDay, Pay, Refund, vars, store
  <2>2. ASSUME NEW h \in Handlers, Arrive(h) PROVE invoice' = invoice
    BY <2>2 DEF Arrive, Collect, BeginOrder, BeginConfirm, BeginBilling, BeginSweep,
                store
  <2>3. ASSUME NEW h \in Handlers, Resume(h) PROVE Kept \/ invoice' = invoice
    <3>1. CASE CollectOnline(h)
      BY <3>1 DEF CollectOnline, store
    <3>2. CASE ApplyToInvoice(h)
      BY <1>1, <3>2, ApplyFresh
    <3>3. CASE RaiseInvoice(h)
      BY <1>1, <3>3, RaiseFresh
    <3>4. CASE SweepInvoice(h)
      BY <1>1, <3>4, SweepFresh
    <3>5. QED
      BY <1>1, <2>3, <3>1, <3>2, <3>3, <3>4, ResumeKeepsTidy DEF KeepsTidy
  <2>4. \A h \in Handlers : ~Abort(h)
    BY DEF OneTill, Abort
  <2>5. QED
    BY <1>1, <2>1, <2>2, <2>3, <2>4 DEF Next
<1>2. Init => Ledger /\ Tidy
  BY LedgerInit, TidyInit
<1>3. Ledger /\ Tidy /\ [Next]_vars => Ledger' /\ Tidy'
  BY LedgerStep, TidyStep
<1>4. QED
  BY <1>1, <1>2, <1>3, PTL DEF Spec, SettledStaysSettled
-----------------------------------------------------------------------------
(* Billed once, captured once.                                             *)

\* Between the check and the insert nobody else bills the student.
NotYetBilled(h) ==
    pc[h] \in {"invoice_number", "raise"} =>
        ~AlreadyBilled(req[h].student, req[h].period)

Billing == BilledOnce /\ \A h \in Handlers : NotYetBilled(h)

KeepsBilling(h) ==
    /\ DOMAIN invoice' = DOMAIN invoice
    /\ \A i \in DOMAIN invoice : /\ invoice'[i].student = invoice[i].student
                                 /\ invoice'[i].period = invoice[i].period
    /\ pc'[h] \in {"invoice_number", "raise"} =>
         /\ pc[h] \in {"invoice_number", "raise"}
         /\ req'[h].student = req[h].student
         /\ req'[h].period = req[h].period

LEMMA BillingLeftAlone ==
    ASSUME OneTill, Billing, NEW h \in Handlers, KeepsBilling(h)
    PROVE  Billing'
<1>1. BilledOnce'
  BY DEF Billing, BilledOnce, KeepsBilling
<1>2. NotYetBilled(h)'
  BY DEF Billing, NotYetBilled, AlreadyBilled, KeepsBilling
<1>3. QED
  BY <1>1, <1>2 DEF Billing, OneTill

\* An order about to be collected is not yet marked paid.
Unpaid(h) ==
    /\ pc[h] \in {"place", "reject", "decline", "fetch", "collect", "apply",
                  "number", "receipt"}
    /\ req[h].order # NoOrder
    => order[req[h].order].status # "paid"

\* The handler that wrote an order's receipt has yet to mark it paid.
Receipting(h, o) ==
    pc[h] \in {"total", "refresh", "bank"} /\ req[h].order = o

CapturedIsNoted ==
    \A p \in payments : p.order # NoOrder =>
        \/ order[p.order].status = "paid"
        \/ \E h \in Handlers : Receipting(h, p.order)

Capturing == /\ CapturedOnce /\ CapturedIsNoted
             /\ \A h \in Handlers : Unpaid(h)

KeepsCapturing(h) ==
    /\ payments' = payments
    /\ \A o \in Orders : order[o].status = "paid" => order'[o].status = "paid"
    /\ \A o \in Orders : Receipting(h, o) =>
         \/ order'[o].status = "paid"
         \/ pc'[h] \in {"total", "refresh", "bank"} /\ req'[h].order = o
    /\ pc'[h] \in {"place", "reject", "decline", "fetch", "collect", "apply",
                   "number", "receipt"} /\ req'[h].order # NoOrder =>
         order'[req'[h].order].status # "paid"

LEMMA CapturingLeftAlone ==
    ASSUME OneTill, Ledger, Capturing, NEW h \in Handlers, KeepsCapturing(h)
    PROVE  Capturing'
<1>1. \A p \in payments : p.order # NoOrder => p.order \in Orders
  BY DEF Ledger, Typed, TypeOK, Payment
<1>2. CapturedIsNoted'
  BY <1>1 DEF OneTill, Capturing, CapturedIsNoted, KeepsCapturing, Receipting
<1>3. Unpaid(h)'
  BY DEF KeepsCapturing, Unpaid
<1>4. CapturedOnce'
  BY DEF Capturing, CapturedOnce, KeepsCapturing
<1>5. QED
  BY <1>2, <1>3, <1>4 DEF Capturing, OneTill

\* The receipt of an order is its first.
LEMMA ReceiptCaptures ==
    ASSUME OneTill, Ledger, Capturing, NEW h \in Handlers, WriteReceipt(h)
    PROVE  Capturing'
<1> DEFINE o == req[h].order
           p == [number |-> req[h].number, student |-> req[h].student,
                 amount |-> req[h].asked - req[h].left,
                 lines |-> req[h].lines, order |-> o]
<1>1. pc[h] = "receipt" /\ \A q \in payments : q.number # req[h].number
  BY DEF WriteReceipt, Ledger, Numbering, NoReceiptCollision
<1>2. /\ payments' = payments \cup {p} /\ order' = order
      /\ pc'[h] = "total" /\ req' = req
  BY <1>1 DEF WriteReceipt, Ledger, Typed, TypeOK
<1>3. p.order = o
  OBVIOUS
<1> HIDE DEF p
<1>4. \A q \in payments : q.order # NoOrder => order[q.order].status = "paid"
  BY <1>1 DEF OneTill, Capturing, CapturedIsNoted, Receipting
<1>5. o # NoOrder => order[o].status # "paid"
  BY <1>1 DEF Capturing, Unpaid
<1>6. CapturedOnce'
  BY <1>2, <1>3, <1>4, <1>5 DEF Capturing, CapturedOnce
<1>7. CapturedIsNoted'
  BY <1>2, <1>3, <1>4 DEF CapturedIsNoted, Receipting
<1>8. Unpaid(h)'
  BY <1>2 DEF Unpaid
<1>9. QED
  BY <1>6, <1>7, <1>8 DEF Capturing, OneTill

\* Paying an invoice leaves it billed to whom and for what it was.
LEMMA ApplyKeepsDebtors ==
    ASSUME OneTill, Ledger, Tidy, NEW h \in Handlers, ApplyToInvoice(h)
    PROVE  /\ DOMAIN invoice' = DOMAIN invoice
           /\ \A j \in DOMAIN invoice : /\ invoice'[j].student = invoice[j].student
                                        /\ invoice'[j].period = invoice[j].period
           /\ pc[h] = "apply" /\ pc'[h] \in {"apply", "number"}
<1>1. PICK i \in DOMAIN invoice, l \in Line :
             /\ l.invoice = i /\ l.applied \in Nat
             /\ \A m \in req[h].lines : m.invoice # i
             /\ req'[h].lines = req[h].lines \cup {l}
             /\ DOMAIN invoice' = DOMAIN invoice
             /\ \A j \in DOMAIN invoice : j # i => invoice'[j] = invoice[j]
             /\ invoice'[i] = [invoice[i] EXCEPT
                  !.paid = invoice[i].paid + l.applied,
                  !.status = IF invoice[i].paid + l.applied = invoice[i].total
                             THEN "paid" ELSE "partially_paid"]
             /\ pc[h] = "apply" /\ pc'[h] \in {"apply", "number"}
  BY ApplyFresh, ZenonT(40)
<1>2. invoice[i] \in Invoice
  BY DEF Ledger, Typed, TypeOK
<1>3. /\ invoice'[i].student = invoice[i].student
      /\ invoice'[i].period = invoice[i].period
  BY <1>1, <1>2 DEF Invoice
<1>4. QED
  BY <1>1, <1>3

\* What the other steps do to an order and to the bills.
LEMMA ResumeKeepsBoth ==
    ASSUME Ledger, Capturing, Tidy, OneTill, NEW h \in Handlers, Resume(h),
           ~WriteReceipt(h), ~RaiseInvoice(h), ~CheckBilled(h)
    PROVE  KeepsCapturing(h) /\ KeepsBilling(h)
<1> USE DEF KeepsCapturing, KeepsBilling, Receipting
<1>a. /\ pc[h] \in Labels /\ req[h] \in Request /\ Unpaid(h) /\ order \in [Orders -> Order]
      /\ pc \in [Handlers -> Labels] /\ req \in [Handlers -> Request]
  BY DEF Ledger, Typed, TypeOK, Capturing
<1>b. HoldsWhatItNeeds(h)
  BY DEF Ledger, Typed, LocalsOK
<1>1. CASE ApplyToInvoice(h)
  <2>1. /\ DOMAIN invoice' = DOMAIN invoice
        /\ \A j \in DOMAIN invoice : /\ invoice'[j].student = invoice[j].student
                                     /\ invoice'[j].period = invoice[j].period
        /\ pc[h] = "apply" /\ pc'[h] \in {"apply", "number"}
    BY <1>1, ApplyKeepsDebtors
  <2>2. payments' = payments /\ order' = order /\ req'[h].order = req[h].order
    BY <1>1, <1>a DEF ApplyToInvoice, Request
  <2>3. QED
    BY <1>a, <2>1, <2>2 DEF Unpaid
<1>2. CASE SweepInvoice(h)
  <2>1. PICK i \in DOMAIN invoice, late \in Nat :
             /\ DOMAIN invoice' = DOMAIN invoice
             /\ \A j \in DOMAIN invoice : j # i => invoice'[j] = invoice[j]
             /\ invoice'[i] = [invoice[i] EXCEPT !.status = "overdue",
                                                 !.late = late,
                                                 !.total = invoice[i].base + late]
             /\ pc[h] = "sweep" /\ pc'[h] \in {"idle", "sweep"}
    BY ZenonT(40), <1>2, SweepFresh
  <2>2. invoice[i] \in Invoice
    BY DEF Ledger, Typed, TypeOK
  <2>3. invoice'[i].student = invoice[i].student /\ invoice'[i].period = invoice[i].period
    BY <2>1, <2>2 DEF Invoice
  <2>4. payments' = payments /\ order' = order
    BY <1>2 DEF SweepInvoice
  <2>5. QED
    BY <2>1, <2>3, <2>4
<1>3. CASE TakeReceiptNumber(h)
  BY <1>a, <1>3 DEF TakeReceiptNumber, Unpaid, Request
<1>4. CASE ReadOutstanding(h)
  BY <1>a, <1>4 DEF ReadOutstanding, store
<1>5. CASE WriteOutstanding(h)
  <2>1. CASE req[h].order # NoOrder
    BY <1>a, <1>5, <2>1 DEF WriteOutstanding, AfterRefresh
  <2>2. CASE req[h].order = NoOrder
    BY <1>a, <1>5, <2>2, FeeLedgerAssumption
       DEF WriteOutstanding, AfterRefresh, FeeLedgerAssumption
  <2>3. QED
    BY <2>1, <2>2
<1>6. CASE PlaceOrder(h)
  <2>1. pc[h] = "place" /\ order[req[h].order].status # "paid" /\ pc'[h] = "idle"
    BY <1>a, <1>b, <1>6, FeeLedgerAssumption
       DEF PlaceOrder, Finish, Unpaid, HoldsWhatItNeeds, FeeLedgerAssumption
  <2>2. \A o \in Orders : o # req[h].order => order'[o] = order[o]
    BY <1>a, <1>6 DEF PlaceOrder
  <2>3. payments' = payments /\ invoice' = invoice
    BY <1>6 DEF PlaceOrder
  <2>4. QED
    BY <2>1, <2>2, <2>3
<1>7. CASE RefuseOrder(h)
  <2>1. /\ pc[h] \in {"reject", "decline"} /\ order[req[h].order].status # "paid"
        /\ pc'[h] = "idle"
    BY <1>a, <1>b, <1>7, FeeLedgerAssumption
       DEF RefuseOrder, Finish, Unpaid, HoldsWhatItNeeds, FeeLedgerAssumption
  <2>2. \A o \in Orders : o # req[h].order => order'[o] = order[o]
    BY <1>a, <1>7 DEF RefuseOrder
  <2>3. payments' = payments /\ invoice' = invoice
    BY <1>7 DEF RefuseOrder
  <2>4. QED
    BY <2>1, <2>2, <2>3
<1>8. CASE FetchPayment(h)
  BY <1>a, <1>8 DEF FetchPayment, OnRemote, Unpaid, store
<1>9. CASE CollectOnline(h)
  <2>1. /\ pc[h] = "collect" /\ pc'[h] = "apply" /\ req'[h].order = req[h].order
        /\ UNCHANGED <<payments, order, invoice>>
    BY <1>a, <1>9 DEF CollectOnline, BeginCollection, store, Request
  <2>2. QED
    BY <1>a, <2>1 DEF Unpaid
<1>10. CASE CollectNothing(h)
  BY <1>a, <1>10 DEF CollectNothing, Finish, store
<1>11. CASE BankOrder(h)
  <2>1. pc[h] = "bank" /\ pc'[h] = "idle" /\ req[h].order \in Orders
    BY <1>a, <1>b, <1>11 DEF BankOrder, Finish, HoldsWhatItNeeds
  <2>2. order'[req[h].order].status = "paid"
    BY <1>a, <1>11, <2>1 DEF BankOrder, Order
  <2>3. \A o \in Orders : o # req[h].order => order'[o] = order[o]
    BY <1>a, <1>11 DEF BankOrder
  <2>4. payments' = payments /\ invoice' = invoice
    BY <1>11 DEF BankOrder
  <2>5. QED
    BY <2>1, <2>2, <2>3, <2>4
<1>12. CASE TakeInvoiceNumber(h)
  BY <1>a, <1>12 DEF TakeInvoiceNumber, Request
<1>13. QED
  BY <1>1, <1>2, <1>3, <1>4, <1>5, <1>6, <1>7, <1>8, <1>9, <1>10, <1>11, <1>12
     DEF Resume

LEMMA ArriveKeepsBoth ==
    ASSUME Ledger, NEW h \in Handlers, Arrive(h)
    PROVE  KeepsCapturing(h) /\ KeepsBilling(h)
<1> USE DEF KeepsCapturing, KeepsBilling, Receipting, Ledger, Typed, TypeOK, store,
            NoRequest, Idle
<1>1. CASE \E s \in Students, i \in DOMAIN invoice \cup {0}, amount \in Amounts :
             Collect(h, s, i, amount)
  <2>1. PICK s \in Students, i \in DOMAIN invoice \cup {0}, amount \in Amounts :
             Collect(h, s, i, amount)
    BY <1>1
  <2>2. /\ pc[h] = "idle" /\ pc'[h] = "apply" /\ req'[h].order = NoOrder
        /\ UNCHANGED <<invoice, payments, order>>
    BY <2>1 DEF Collect, BeginCollection
  <2>3. QED
    BY <2>2
<1>2. CASE \E o \in Orders, s \in Students, i \in DOMAIN invoice \cup {0},
              amount \in Amounts \cup {0} : BeginOrder(h, o, s, i, amount)
  <2>1. PICK o \in Orders, s \in Students, i \in DOMAIN invoice \cup {0},
              amount \in Amounts \cup {0} : BeginOrder(h, o, s, i, amount)
    BY <1>2
  <2>2. /\ pc[h] = "idle" /\ pc'[h] = "place" /\ req'[h].order = o
        /\ UNCHANGED <<invoice, payments, order>> /\ order[o].status = "none"
    BY <2>1 DEF BeginOrder
  <2>3. QED
    BY <2>2
<1>3. CASE \E o \in Orders, genuine \in BOOLEAN : BeginConfirm(h, o, genuine)
  <2>1. PICK o \in Orders, genuine \in BOOLEAN : BeginConfirm(h, o, genuine)
    BY <1>3
  <2>2. /\ pc[h] = "idle" /\ pc'[h] \in {"fetch", "reject"} /\ req'[h].order = o
        /\ UNCHANGED <<invoice, payments, order>> /\ order[o].status # "paid"
    BY <2>1 DEF BeginConfirm, Confirmable
  <2>3. QED
    BY <2>2
<1>4. CASE BeginSweep(h) \/ \E p \in Periods, pupils \in SUBSET Students :
             BeginBilling(h, p, pupils)
  BY <1>4 DEF BeginBilling, BeginSweep
<1>5. QED
  BY <1>1, <1>2, <1>3, <1>4 DEF Arrive

\* A student found unbilled is so until their invoice is raised.
LEMMA CheckKeepsBoth ==
    ASSUME OneTill, Ledger, Capturing, Billing, NEW h \in Handlers, CheckBilled(h)
    PROVE  Capturing' /\ Billing'
<1>1. /\ pc[h] = "check" /\ pc'[h] \in {"idle", "check", "invoice_number"}
      /\ UNCHANGED <<invoice, payments, order>>
  BY DEF CheckBilled, store, Ledger, Typed, TypeOK
<1>2. KeepsCapturing(h)
  BY <1>1 DEF KeepsCapturing, Receipting
<1>3. NotYetBilled(h)'
  <2>1. PICK s \in req[h].pupils : CheckBilled(h)!2!(s)
    BY DEF CheckBilled
  <2> DEFINE billed == AlreadyBilled(s, req[h].period)
  <2>2. pc'[h] = "invoice_number" =>
          /\ ~billed
          /\ req'[h] = [req[h] EXCEPT !.student = IF billed THEN NoStudent ELSE s,
                                      !.pupils = req[h].pupils \ {s}]
    BY <2>1 DEF Ledger, Typed, TypeOK
  <2>3. req[h] \in Request
    BY DEF Ledger, Typed, TypeOK
  <2>4. pc'[h] = "invoice_number" =>
          req'[h].student = s /\ req'[h].period = req[h].period /\ ~billed
    BY <2>2, <2>3 DEF Request
  <2>5. QED
    BY <1>1, <2>4 DEF NotYetBilled, AlreadyBilled
<1>4. BilledOnce'
  BY <1>1 DEF Billing, BilledOnce
<1>5. QED
  BY <1>2, <1>3, <1>4, CapturingLeftAlone DEF Billing, OneTill

LEMMA RaiseKeepsBoth ==
    ASSUME OneTill, Ledger, Capturing, Billing, NEW h \in Handlers, RaiseInvoice(h)
    PROVE  Capturing' /\ Billing'
<1>1. PICK n :
             /\ n \notin DOMAIN invoice
             /\ DOMAIN invoice' = DOMAIN invoice \cup {n}
             /\ \A j \in DOMAIN invoice : invoice'[j] = invoice[j]
             /\ invoice'[n].student = req[h].student
             /\ invoice'[n].period = req[h].period
             /\ pc[h] = "raise" /\ pc'[h] = "total" /\ req' = req
  BY RaiseFresh
<1>2. UNCHANGED <<payments, order>>
  BY DEF RaiseInvoice
<1>3. KeepsCapturing(h)
  BY <1>1, <1>2 DEF KeepsCapturing, Receipting
<1>4. ~AlreadyBilled(req[h].student, req[h].period)
  BY <1>1 DEF Billing, NotYetBilled
<1>5. BilledOnce'
  BY <1>1, <1>4 DEF Billing, BilledOnce, AlreadyBilled
<1>6. NotYetBilled(h)'
  BY <1>1 DEF NotYetBilled
<1>7. QED
  BY <1>3, <1>5, <1>6, CapturingLeftAlone DEF Billing, OneTill

LEMMA BothStep ==
    OneTill /\ Ledger /\ Tidy /\ Capturing /\ Billing /\ [Next]_vars =>
      Capturing' /\ Billing'
<1> SUFFICES ASSUME OneTill, Ledger, Tidy, Capturing, Billing, [Next]_vars
             PROVE  Capturing' /\ Billing'
  OBVIOUS
<1>1. CASE Surroundings \/ UNCHANGED vars
  <2>1. UNCHANGED <<invoice, payments, order, pc, req>>
    BY <1>1 DEF Surroundings, NextDay, Pay, Refund, vars, store
  <2>2. Billing'
    BY <2>1 DEF Billing, BilledOnce, NotYetBilled, AlreadyBilled
  <2>3. CapturedOnce' /\ CapturedIsNoted'
    BY <2>1 DEF Capturing, CapturedOnce, CapturedIsNoted, Receipting
  <2>4. \A h \in Handlers : Unpaid(h)'
    BY <2>1 DEF Capturing, Unpaid
  <2>5. QED
    BY <2>2, <2>3, <2>4 DEF Capturing
<1>2. ASSUME NEW h \in Handlers, Arrive(h) PROVE Capturing' /\ Billing'
  BY <1>2, ArriveKeepsBoth, CapturingLeftAlone, BillingLeftAlone
<1>3. ASSUME NEW h \in Handlers, Resume(h) PROVE Capturing' /\ Billing'
  <2>1. CASE WriteReceipt(h)
    <3>1. KeepsBilling(h)
      BY <2>1 DEF KeepsBilling, WriteReceipt, Ledger, Typed, TypeOK
    <3>2. QED
      BY <2>1, <3>1, ReceiptCaptures, BillingLeftAlone
  <2>2. CASE CheckBilled(h) \/ RaiseInvoice(h)
    BY <2>2, CheckKeepsBoth, RaiseKeepsBoth
  <2>3. QED
    BY <1>3, <2>1, <2>2, ResumeKeepsBoth, CapturingLeftAlone, BillingLeftAlone
<1>4. \A h \in Handlers : ~Abort(h)
  BY DEF OneTill, Abort
<1>5. QED
  BY <1>1, <1>2, <1>3, <1>4 DEF Next

\* The callback and the webhook of one payment leave one receipt.
THEOREM OrderCapturedOnce == ASSUME OneTill PROVE Spec => []CapturedOnce
<1>1. Init => Ledger /\ Tidy
  BY LedgerInit, TidyInit
<1>2. Init => Capturing /\ Billing
  BY DEF Init, Capturing, Billing, CapturedOnce, CapturedIsNoted, Unpaid, BilledOnce,
         NotYetBilled
<1>3. Ledger /\ Tidy /\ Capturing /\ Billing /\ [Next]_vars =>
        Ledger' /\ Tidy' /\ Capturing' /\ Billing'
  BY LedgerStep, TidyStep, BothStep
<1>4. Capturing => CapturedOnce
  BY DEF Capturing
<1>5. QED
  BY <1>1, <1>2, <1>3, <1>4, PTL DEF Spec
-----------------------------------------------------------------------------
(* The outstanding figure.                                                 *)

\* A collection or a billing under way that will still refresh the figure of
\* s: the student it is for, or one whose invoice it has paid.
Refreshing(h, s) ==
    \/ /\ pc[h] \in {"apply", "number", "receipt", "total", "refresh"}
       /\ req[h].student = s
    \/ /\ pc[h] \in {"apply", "number", "receipt"}
       /\ \E l \in req[h].lines : invoice[l.invoice].student = s

Known(s) == \/ TouchedUnseen(s) \/ outstanding[s] = Owed(s)
            \/ \E h \in Handlers : Refreshing(h, s)

\* What the aggregate read is still true when it is written.
ReadIsTrue(h) ==
    \A s \in Students :
        pc[h] = "refresh" /\ req[h].student = s => dueRead[h] = Owed(s)

Owing == /\ \A s \in Students : Known(s)
         /\ \A h \in Handlers : ReadIsTrue(h)

LEMMA BilledFinite ==
    ASSUME TypeOK, NEW s
    PROVE  IsFiniteSet(Billed(s)) /\ \A i \in Billed(s) : Balance(invoice[i]) \in Int
<1>1. IsFiniteSet(1 .. invoiceSeq)
  <2>1. invoiceSeq \in Int
    BY DEF TypeOK
  <2>2. QED
    BY <2>1, FS_Interval
<1>2. Billed(s) \subseteq 1 .. invoiceSeq
  BY DEF TypeOK, Billed
<1>3. IsFiniteSet(Billed(s))
  BY <1>1, <1>2, FS_Subset
<1>4. \A i \in Billed(s) : invoice[i] \in Invoice
  BY DEF TypeOK, Billed
<1>5. \A i \in Billed(s) : Balance(invoice[i]) \in Int
  BY <1>4 DEF Balance, Invoice
<1>6. QED
  BY <1>3, <1>5

\* What the aggregate of _refresh_outstanding sums, the open invoices, is all
\* that is owed: nothing is left to pay on the others.
LEMMA OpenIsOwed ==
    ASSUME TypeOK, StatusTrue, NEW s
    PROVE  TotalDue(s) = Owed(s)
<1> DEFINE S == Billed(s)
           R == OpenInvoices(s)
           f == [i \in S |-> Balance(invoice[i])]
<1>1. IsFiniteSet(S) /\ \A i \in S : f[i] \in Int
  BY BilledFinite
<1>2. R \in SUBSET S
  BY DEF OpenInvoices, Billed
<1>3. \A i \in S \ R : f[i] = 0
  <2> SUFFICES ASSUME NEW i \in S \ R PROVE f[i] = 0
    OBVIOUS
  <2>1. invoice[i] \in Invoice /\ i \in DOMAIN invoice /\ invoice[i].status = "paid"
    BY DEF TypeOK, Billed, OpenInvoices, Invoice, InvoiceStatus
  <2>2. QED
    BY <2>1 DEF StatusTrue, Balance, Invoice
<1>4. TotalDue(s) = SumFunction([i \in R |-> f[i]])
  <2>1. [i \in R |-> f[i]] = [i \in R |-> Balance(invoice[i])]
    BY <1>2
  <2>2. QED
    BY <2>1 DEF TotalDue
<1>5. Owed(s) = SumFunction(f) /\ DOMAIN f = S
  BY DEF Owed
<1> HIDE DEF S, R, f
<1>6. SumFunctionOnSet(f, S) = SumFunctionOnSet(f, R)
  BY <1>1, <1>2, <1>3, SumWithoutZeros
<1>7. SumFunction([i \in R |-> f[i]]) = SumFunctionOnSet(f, R)
  BY <1>1, <1>2, SumOfRest
<1>8. QED
  BY <1>4, <1>5, <1>6, <1>7 DEF SumFunction

\* What a student owes moves with that student's invoices only.
LEMMA OwedAgrees ==
    ASSUME NEW s,
           \A i \in DOMAIN invoice' : invoice'[i].student = s => i \in DOMAIN invoice,
           DOMAIN invoice \subseteq DOMAIN invoice',
           \A i \in DOMAIN invoice :
             /\ invoice'[i].student = invoice[i].student
             /\ invoice[i].student = s => Balance(invoice'[i]) = Balance(invoice[i])
    PROVE  Owed(s)' = Owed(s)
<1>1. {i \in DOMAIN invoice' : invoice'[i].student = s} = Billed(s)
  BY DEF Billed
<1>2. [i \in Billed(s) |-> Balance(invoice'[i])] = [i \in Billed(s) |-> Balance(invoice[i])]
  BY DEF Billed
<1>3. QED
  BY <1>1, <1>2 DEF Owed, Billed

LEMMA TouchedStays ==
    ASSUME NEW s, DOMAIN invoice \subseteq DOMAIN invoice', payments \subseteq payments',
           \A i \in DOMAIN invoice : /\ invoice'[i].student = invoice[i].student
                                     /\ invoice[i].late # 0 => invoice'[i].late # 0
    PROVE  TouchedUnseen(s) => TouchedUnseen(s)'
  BY DEF TouchedUnseen

\* A student's figure stays known through a step that does not touch it.
LEMMA KnownLeftAlone ==
    ASSUME OneTill, Owing, NEW h \in Handlers, NEW s \in Students,
           TouchedUnseen(s) => TouchedUnseen(s)',
           Refreshing(h, s) => Refreshing(h, s)' \/ TouchedUnseen(s)',
           outstanding'[s] = outstanding[s], Owed(s)' = Owed(s)
    PROVE  Known(s)'
<1>1. \/ TouchedUnseen(s) \/ outstanding[s] = Owed(s) \/ Refreshing(h, s)
  BY DEF OneTill, Owing, Known
<1>2. QED
  BY <1>1 DEF Known

\* A step that writes no invoice, no receipt and no figure.
LEMMA OwingLeftAlone ==
    ASSUME OneTill, Owing, NEW h \in Handlers,
           UNCHANGED <<invoice, payments, outstanding>>, pc'[h] # "refresh",
           \A s \in Students : Refreshing(h, s) => Refreshing(h, s)'
    PROVE  Owing'
<1>1. ASSUME NEW s \in Students PROVE Known(s)'
  <2>1. Owed(s)' = Owed(s) /\ (TouchedUnseen(s) => TouchedUnseen(s)')
    BY OwedAgrees, TouchedStays
  <2>2. QED
    BY <2>1, KnownLeftAlone
<1>2. ReadIsTrue(h)'
  BY DEF ReadIsTrue
<1>3. QED
  BY <1>1, <1>2 DEF Owing, OneTill

LEMMA QuietOwing ==
    ASSUME OneTill, Ledger, Owing, NEW h \in Handlers, Resume(h), ~ApplyToInvoice(h),
           ~WriteReceipt(h), ~ReadOutstanding(h), ~WriteOutstanding(h),
           ~RaiseInvoice(h), ~SweepInvoice(h)
    PROVE  Owing'
<1>a. pc \in [Handlers -> Labels] /\ req \in [Handlers -> Request]
  BY DEF Ledger, Typed, TypeOK
<1> DEFINE Waits == /\ UNCHANGED <<invoice, payments, outstanding>>
                    /\ pc[h] \in {"place", "reject", "decline", "fetch", "collect",
                                  "bank", "check", "invoice_number"}
                    /\ pc'[h] # "refresh"
<1>1. CASE TakeReceiptNumber(h)
  <2>1. /\ pc[h] = "number" /\ pc'[h] = "receipt"
        /\ req'[h].student = req[h].student /\ req'[h].lines = req[h].lines
        /\ UNCHANGED <<invoice, payments, outstanding>>
    BY <1>a, <1>1 DEF TakeReceiptNumber, Request
  <2>2. \A s \in Students : Refreshing(h, s) => Refreshing(h, s)'
    BY <2>1 DEF Refreshing
  <2>3. QED
    BY <2>1, <2>2, OwingLeftAlone
<1>2. CASE PlaceOrder(h) \/ RefuseOrder(h) \/ BankOrder(h)
  <2>1. Waits
    BY <1>a, <1>2 DEF PlaceOrder, RefuseOrder, BankOrder, Finish
  <2>2. QED
    BY <2>1, OwingLeftAlone DEF Refreshing
<1>3. CASE FetchPayment(h) \/ CollectOnline(h) \/ CollectNothing(h)
  <2>1. Waits
    BY <1>a, <1>3 DEF FetchPayment, CollectOnline, CollectNothing, BeginCollection,
                      OnRemote, Finish, store
  <2>2. QED
    BY <2>1, OwingLeftAlone DEF Refreshing
<1>4. CASE CheckBilled(h) \/ TakeInvoiceNumber(h)
  <2>1. Waits
    BY <1>a, <1>4 DEF CheckBilled, TakeInvoiceNumber, store
  <2>2. QED
    BY <2>1, OwingLeftAlone DEF Refreshing
<1>5. QED
  BY <1>1, <1>2, <1>3, <1>4 DEF Resume

LEMMA ArriveOwing ==
    ASSUME OneTill, Ledger, Owing, NEW h \in Handlers, Arrive(h)
    PROVE  Owing'
<1>1. /\ UNCHANGED <<invoice, payments, outstanding>>
      /\ pc[h] = "idle" /\ pc'[h] # "refresh"
  BY DEF Arrive, Collect, BeginOrder, BeginConfirm, BeginBilling, BeginSweep, Idle,
         BeginCollection, store, Ledger, Typed, TypeOK
<1>2. QED
  BY <1>1, OwingLeftAlone DEF Refreshing

LEMMA ApplyOwing ==
    ASSUME OneTill, Ledger, Tidy, Owing, NEW h \in Handlers, ApplyToInvoice(h)
    PROVE  Owing'
<1>1. PICK i \in DOMAIN invoice, l \in Line :
             /\ l.invoice = i /\ l.applied \in Nat
             /\ \A m \in req[h].lines : m.invoice # i
             /\ req'[h].lines = req[h].lines \cup {l}
             /\ DOMAIN invoice' = DOMAIN invoice
             /\ \A j \in DOMAIN invoice : j # i => invoice'[j] = invoice[j]
             /\ invoice'[i] = [invoice[i] EXCEPT
                  !.paid = invoice[i].paid + l.applied,
                  !.status = IF invoice[i].paid + l.applied = invoice[i].total
                             THEN "paid" ELSE "partially_paid"]
             /\ pc[h] = "apply" /\ pc'[h] \in {"apply", "number"}
             /\ req'[h].student = req[h].student
  BY ApplyFresh, ZenonT(40)
<1>2. invoice[i] \in Invoice
  BY DEF Ledger, Typed, TypeOK
<1>3. /\ invoice'[i].student = invoice[i].student
      /\ invoice'[i].late = invoice[i].late
  BY <1>1, <1>2 DEF Invoice
<1>4. \A j \in DOMAIN invoice : /\ invoice'[j].student = invoice[j].student
                                /\ invoice'[j].late = invoice[j].late
  BY <1>1, <1>3
<1>5. payments' = payments /\ outstanding' = outstanding
  BY DEF ApplyToInvoice
<1>6. \A m \in req[h].lines : m.invoice \in DOMAIN invoice
  BY <1>1 DEF Tidy, LinesInHand
<1>7. ASSUME NEW s \in Students PROVE Known(s)'
  <2>1. CASE invoice[i].student = s
    <3>1. Refreshing(h, s)'
      BY <1>1, <1>3, <2>1 DEF Refreshing
    <3>2. QED
      BY <3>1 DEF Known
  <2>2. CASE invoice[i].student # s
    <3>1. Owed(s)' = Owed(s)
      BY <1>1, <1>4, <2>2, OwedAgrees
    <3>2. TouchedUnseen(s) => TouchedUnseen(s)'
      BY <1>1, <1>4, <1>5, TouchedStays
    <3>3. Refreshing(h, s) => Refreshing(h, s)'
      BY <1>1, <1>4, <1>6 DEF Refreshing
    <3>4. QED
      BY <1>5, <3>1, <3>2, <3>3, KnownLeftAlone
  <2>3. QED
    BY <2>1, <2>2
<1>8. ReadIsTrue(h)'
  BY <1>1 DEF ReadIsTrue
<1>9. QED
  BY <1>7, <1>8 DEF Owing, OneTill

LEMMA ReceiptOwing ==
    ASSUME OneTill, Ledger, Tidy, Owing, NEW h \in Handlers, WriteReceipt(h)
    PROVE  Owing'
<1> DEFINE p == [number |-> req[h].number, student |-> req[h].student,
                 amount |-> req[h].asked - req[h].left,
                 lines |-> req[h].lines, order |-> req[h].order]
<1>1. pc[h] = "receipt" /\ \A q \in payments : q.number # req[h].number
  BY DEF WriteReceipt, Ledger, Numbering, NoReceiptCollision
<1>2. /\ payments' = payments \cup {p} /\ invoice' = invoice
      /\ pc'[h] = "total" /\ req' = req /\ outstanding' = outstanding
  BY <1>1 DEF WriteReceipt, Ledger, Typed, TypeOK
<1>3. p.student = req[h].student /\ p.lines = req[h].lines
  OBVIOUS
<1> HIDE DEF p
<1>4. \A l \in req[h].lines : l.invoice \in DOMAIN invoice
  BY <1>1 DEF Tidy, LinesInHand
<1>5. ASSUME NEW s \in Students PROVE Known(s)'
  <2>1. Owed(s)' = Owed(s) /\ (TouchedUnseen(s) => TouchedUnseen(s)')
    BY <1>2, OwedAgrees, TouchedStays
  <2>2. CASE req[h].student = s
    <3>1. Refreshing(h, s)'
      BY <1>2, <2>2 DEF Refreshing
    <3>2. QED
      BY <3>1 DEF Known
  <2>3. CASE req[h].student # s
    <3>1. Refreshing(h, s) => TouchedUnseen(s)'
      BY <1>1, <1>2, <1>3, <1>4, <2>3 DEF Refreshing, TouchedUnseen
    <3>2. QED
      BY <1>2, <2>1, <3>1, KnownLeftAlone
  <2>4. QED
    BY <2>2, <2>3
<1>6. ReadIsTrue(h)'
  BY <1>2 DEF ReadIsTrue
<1>7. QED
  BY <1>5, <1>6 DEF Owing, OneTill

\* The aggregate, then the write of what it gave: nothing has moved between.
LEMMA RefreshOwing ==
    ASSUME OneTill, Ledger, Tidy, Owing, NEW h \in Handlers,
           ReadOutstanding(h) \/ WriteOutstanding(h)
    PROVE  Owing'
<1>1. CASE ReadOutstanding(h)
  <2>1. /\ UNCHANGED <<invoice, payments, outstanding, req>>
        /\ pc[h] = "total" /\ pc'[h] = "refresh" /\ req[h] \in Request
        /\ dueRead'[h] = TotalDue(req[h].student)
    BY <1>1 DEF ReadOutstanding, store, Ledger, Typed, TypeOK
  <2>2. ASSUME NEW s \in Students PROVE Owed(s)' = Owed(s) /\ Known(s)'
    <3>1. Owed(s)' = Owed(s) /\ (TouchedUnseen(s) => TouchedUnseen(s)')
      BY <2>1, OwedAgrees, TouchedStays
    <3>2. Refreshing(h, s) => Refreshing(h, s)'
      BY <2>1 DEF Refreshing
    <3>3. QED
      BY <2>1, <3>1, <3>2, KnownLeftAlone
  <2>3. \A s : TotalDue(s) = Owed(s)
    BY OpenIsOwed DEF Ledger, Typed, Tidy
  <2>4. ReadIsTrue(h)'
    BY <2>1, <2>2, <2>3 DEF ReadIsTrue
  <2>5. QED
    BY <2>2, <2>4 DEF Owing, OneTill
<1>2. CASE WriteOutstanding(h)
  <2>1. /\ UNCHANGED <<invoice, payments>> /\ pc[h] = "refresh" /\ pc'[h] # "refresh"
        /\ outstanding' = [outstanding EXCEPT ![req[h].student] = dueRead[h]]
    BY <1>2 DEF WriteOutstanding, AfterRefresh, Ledger, Typed, TypeOK
  <2>2. ASSUME NEW s \in Students PROVE Known(s)'
    <3>1. Owed(s)' = Owed(s) /\ (TouchedUnseen(s) => TouchedUnseen(s)')
      BY <2>1, OwedAgrees, TouchedStays
    <3>2. CASE req[h].student = s
      <4>1. outstanding'[s] = dueRead[h]
        BY <2>1, <3>2 DEF Ledger, Typed, TypeOK
      <4>2. dueRead[h] = Owed(s)
        BY <2>1, <3>2 DEF Owing, ReadIsTrue
      <4>3. QED
        BY <3>1, <4>1, <4>2 DEF Known
    <3>3. CASE req[h].student # s
      <4>1. outstanding'[s] = outstanding[s]
        BY <2>1, <3>3 DEF Ledger, Typed, TypeOK
      <4>2. ~Refreshing(h, s)
        BY <2>1, <3>3 DEF Refreshing
      <4>3. QED
        BY <3>1, <4>1, <4>2, KnownLeftAlone
    <3>4. QED
      BY <3>2, <3>3
  <2>3. ReadIsTrue(h)'
    BY <2>1 DEF ReadIsTrue
  <2>4. QED
    BY <2>2, <2>3 DEF Owing, OneTill
<1>3. QED
  BY <1>1, <1>2

\* A bill raised is a figure to refresh.
LEMMA RaiseOwing ==
    ASSUME OneTill, Ledger, Owing, NEW h \in Handlers, RaiseInvoice(h)
    PROVE  Owing'
<1>1. PICK n :
             /\ n \notin DOMAIN invoice
             /\ DOMAIN invoice' = DOMAIN invoice \cup {n}
             /\ \A j \in DOMAIN invoice : invoice'[j] = invoice[j]
             /\ invoice'[n].student = req[h].student
             /\ pc[h] = "raise" /\ pc'[h] = "total" /\ req' = req
  BY RaiseFresh
<1>2. UNCHANGED <<payments, outstanding>>
  BY DEF RaiseInvoice
<1>3. ASSUME NEW s \in Students PROVE Known(s)'
  <2>1. CASE req[h].student = s
    <3>1. Refreshing(h, s)'
      BY <1>1, <2>1 DEF Refreshing
    <3>2. QED
      BY <3>1 DEF Known
  <2>2. CASE req[h].student # s
    <3>1. Owed(s)' = Owed(s)
      BY <1>1, <2>2, OwedAgrees
    <3>2. TouchedUnseen(s) => TouchedUnseen(s)'
      BY <1>1, <1>2, TouchedStays
    <3>3. ~Refreshing(h, s)
      BY <1>1 DEF Refreshing
    <3>4. QED
      BY <1>2, <3>1, <3>2, <3>3, KnownLeftAlone
  <2>3. QED
    BY <2>1, <2>2
<1>4. ReadIsTrue(h)'
  BY <1>1 DEF ReadIsTrue
<1>5. QED
  BY <1>3, <1>4 DEF Owing, OneTill

\* A late fee is one of the cases set aside, and no fee changes nothing owed.
LEMMA SweepOwing ==
    ASSUME OneTill, Ledger, Tidy, Owing, NEW h \in Handlers, SweepInvoice(h)
    PROVE  Owing'
<1>1. PICK i \in DOMAIN invoice, late \in Nat :
             /\ invoice[i].late <= late /\ invoice[i].status # "paid"
             /\ invoice[i].base \in Nat /\ invoice[i].late \in Nat
             /\ invoice[i].total = invoice[i].base + invoice[i].late
             /\ DOMAIN invoice' = DOMAIN invoice
             /\ \A j \in DOMAIN invoice : j # i => invoice'[j] = invoice[j]
             /\ invoice'[i] = [invoice[i] EXCEPT !.status = "overdue",
                                                 !.late = late,
                                                 !.total = invoice[i].base + late]
             /\ pc[h] = "sweep" /\ pc'[h] \in {"idle", "sweep"}
  BY SweepFresh
<1>2. invoice[i] \in Invoice
  BY DEF Ledger, Typed, TypeOK
<1>3. /\ invoice'[i].student = invoice[i].student /\ invoice'[i].late = late
      /\ invoice'[i].paid = invoice[i].paid
      /\ invoice'[i].total = invoice[i].base + late
  BY <1>1, <1>2 DEF Invoice
<1>4. UNCHANGED <<payments, outstanding>>
  BY DEF SweepInvoice
<1>5. ASSUME NEW s \in Students PROVE Known(s)'
  <2>1. CASE invoice[i].student = s /\ late # 0
    <3>1. TouchedUnseen(s)'
      BY <1>1, <1>3, <2>1 DEF TouchedUnseen
    <3>2. QED
      BY <3>1 DEF Known
  <2>2. CASE invoice[i].student # s \/ late = 0
    <3>1. late = 0 => Balance(invoice'[i]) = Balance(invoice[i])
      <4>1. late = 0 => invoice'[i].total = invoice[i].total
        BY <1>1, <1>3
      <4>2. QED
        BY <1>3, <4>1 DEF Balance
    <3>2. Owed(s)' = Owed(s)
      BY <1>1, <1>3, <2>2, <3>1, OwedAgrees
    <3>3. invoice[i].late # 0 => late # 0
      BY <1>1
    <3>4. TouchedUnseen(s) => TouchedUnseen(s)'
      BY <1>1, <1>3, <1>4, <3>3, TouchedStays
    <3>5. ~Refreshing(h, s)
      BY <1>1 DEF Refreshing
    <3>6. QED
      BY <1>4, <3>2, <3>4, <3>5, KnownLeftAlone
  <2>3. QED
    BY <2>1, <2>2
<1>6. ReadIsTrue(h)'
  BY <1>1 DEF ReadIsTrue
<1>7. QED
  BY <1>5, <1>6 DEF Owing, OneTill

LEMMA OwingStep ==
    OneTill /\ Ledger /\ Tidy /\ Owing /\ [Next]_vars => Owing'
<1> SUFFICES ASSUME OneTill, Ledger, Tidy, Owing, [Next]_vars PROVE Owing'
  OBVIOUS
<1>1. CASE Surroundings \/ UNCHANGED vars
  <2>1. UNCHANGED <<invoice, payments, outstanding, pc, req, dueRead>>
    BY <1>1 DEF Surroundings, NextDay, Pay, Refund, vars, store
  <2>2. \A s \in Students :
          Owed(s)' = Owed(s) /\ (TouchedUnseen(s) => TouchedUnseen(s)')
    BY <2>1, OwedAgrees, TouchedStays
  <2>3. \A h \in Handlers, s \in Students : Refreshing(h, s) => Refreshing(h, s)'
    BY <2>1 DEF Refreshing
  <2>4. \A s \in Students : Known(s)'
    BY <2>1, <2>2, <2>3 DEF Owing, Known
  <2>5. \A h \in Handlers : ReadIsTrue(h)'
    BY <2>1, <2>2 DEF Owing, ReadIsTrue
  <2>6. QED
    BY <2>4, <2>5 DEF Owing
<1>2. ASSUME NEW h \in Handlers, Arrive(h) PROVE Owing'
  BY <1>2, ArriveOwing
<1>3. ASSUME NEW h \in Handlers, Resume(h) PROVE Owing'
  BY <1>3, ApplyOwing, ReceiptOwing, RefreshOwing, RaiseOwing, SweepOwing, QuietOwing
<1>4. \A h \in Handlers : ~Abort(h)
  BY DEF OneTill, Abort
<1>5. QED
  BY <1>1, <1>2, <1>3, <1>4 DEF Next

\* A student is billed once for a period, and between requests the figure kept
\* on them is what their invoices add up to, the cases set aside apart.
THEOREM DuesStayInOrder == ASSUME OneTill PROVE Spec => []DuesInOrder
<1>1. Init => Ledger /\ Tidy
  BY LedgerInit, TidyInit
<1>2. Init => Capturing /\ Billing
  BY DEF Init, Capturing, Billing, CapturedOnce, CapturedIsNoted, Unpaid, BilledOnce,
         NotYetBilled
<1>3. Init => Owing
  <2> SUFFICES ASSUME Init PROVE Owing
    OBVIOUS
  <2>1. ASSUME NEW s \in Students PROVE outstanding[s] = Owed(s)
    <3>1. Billed(s) = {} /\ outstanding[s] = 0
      BY DEF Init, Billed
    <3>2. DOMAIN [i \in Billed(s) |-> Balance(invoice[i])] = {}
      BY <3>1
    <3>3. QED
      BY <3>1, <3>2, SumOfNone DEF Owed
  <2>2. \A h \in Handlers : ReadIsTrue(h)
    BY DEF Init, ReadIsTrue
  <2>3. QED
    BY <2>1, <2>2 DEF Owing, Known
<1>4. Ledger /\ Tidy /\ Capturing /\ Billing /\ Owing /\ [Next]_vars =>
        Ledger' /\ Tidy' /\ Capturing' /\ Billing' /\ Owing'
  BY LedgerStep, TidyStep, BothStep, OwingStep
<1>5. Billing /\ Owing => DuesInOrder
  BY DEF Billing, Owing, Known, Refreshing, DuesInOrder, OutstandingFresh, AllIdle,
         Idle
<1>6. QED
  BY <1>1, <1>2, <1>3, <1>4, <1>5, PTL DEF Spec
=============================================================================
