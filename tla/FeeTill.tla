------------------------------- MODULE FeeTill -------------------------------
(***************************************************************************)
(* FeeLedger when requests do not overlap: what the comments of the fee    *)
(* and payment services promise is true of one till that finishes each     *)
(* request before the next.  The same definitions are what a run with two  *)
(* handlers refutes.                                                       *)
(***************************************************************************)
EXTENDS FeeLedger

\* The ledger at the moments receipts are written: what a running collection
\* has credited so far is not yet on a bill.
Bills == [i \in DOMAIN invoice |->
            [total |-> invoice[i].total, paid |-> invoice[i].paid - InHand(i)]]

\* What a receipt says of each line.
Written(lines) ==
    {[invoice |-> l.invoice, applied |-> l.applied] : l \in lines}
Receipts == {[number |-> p.number, lines |-> Written(p.lines)] : p \in payments}

Book == INSTANCE FeeBook WITH bills <- Bills, book <- Receipts

\* Seen at the moments receipts are written, the ledger is the abstract book:
\* a bill is credited exactly what its receipts say, never past its total.
BookSpec == Book!BookSpec

\* An invoice that has been settled is never reopened by a later write.
SettledStaysSettled ==
    [][\A i \in DOMAIN invoice :
         invoice[i].status = "paid" => invoice'[i].status = "paid"]_invoice

\* generate_invoices: a student already billed for a period is skipped, not
\* billed twice.
BilledOnce ==
    \A i, j \in DOMAIN invoice :
        /\ invoice[i].student = invoice[j].student
        /\ invoice[i].period = invoice[j].period
        => i = j

\* gateway: capture is idempotent, the callback and the webhook of one
\* payment leave one receipt.
CapturedOnce ==
    \A p, q \in payments : p.order = q.order /\ p.order # NoOrder => p = q

AllIdle == \A h \in Handlers : Idle(h)

\* Invoices of s that the sweep surcharged or a payment in another student's
\* name reached: the code refreshes no figure for s after those.
TouchedUnseen(s) ==
    \E i \in DOMAIN invoice : invoice[i].student = s /\
        \/ invoice[i].late # 0
        \/ \E p \in payments :
             p.student # s /\ \E l \in p.lines : l.invoice = i

Billed(s) == {i \in DOMAIN invoice : invoice[i].student = s}
Owed(s)   == SumFunction([i \in Billed(s) |-> Balance(invoice[i])])

\* Between requests the outstanding figure on a student is everything billed
\* to them less everything paid, the two unrefreshed cases aside.
OutstandingFresh ==
    AllIdle => \A s \in Students :
        TouchedUnseen(s) \/ outstanding[s] = Owed(s)

\* What is owed: billed once for a period, and summed up on the student.
DuesInOrder == BilledOnce /\ OutstandingFresh

-----------------------------------------------------------------------------
(* Liveness.  A handler that has been started is run to its end; the       *)
(* provider retries its webhook until the order is banked.                 *)

Fairness ==
    /\ \A h \in Handlers : WF_vars(Resume(h))
    /\ \A h \in Confirmers, o \in Orders : SF_vars(BeginConfirm(h, o, TRUE))

FairSpec == Spec /\ Fairness

\* The dues an order was placed for are settled, and by no money of its own.
SettledByOthers(o) ==
    /\ Targets(order[o].student, order[o].invoice) = {}
    /\ \A p \in payments : p.order # o
    /\ \A h \in Handlers : req[h].order # o

\* A captured payment reaches a receipt, unless it is given back or its dues
\* are settled first: then the code has nowhere to put it.
CapturedIsBanked ==
    \A o \in Orders :
        gateway[o] = "captured" ~>
            \/ order[o].status = "paid" \/ gateway[o] = "refunded"
            \/ SettledByOthers(o)
=============================================================================
