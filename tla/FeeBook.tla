------------------------------- MODULE FeeBook -------------------------------
(***************************************************************************)
(* What the fee office promises, with the database calls left out: bills,  *)
(* and a receipt book that is the only way a bill's paid figure moves.     *)
(* Taking money is one step: the receipt is written and the bills it names *)
(* are credited together, each up to what it still owes.                   *)
(***************************************************************************)
EXTENDS Integers, Functions

VARIABLES
    bills,   \* bill number -> [total, paid]
    book     \* the receipts: [number, lines]

bookVars == <<bills, book>>

Applied(lines, i) ==
    LET those == {l \in lines : l.invoice = i}
    IN  SumFunction([l \in those |-> l.applied])

\* A bill is raised under a number never used, with nothing paid on it.
Raise(n, amount) ==
    /\ n \notin DOMAIN bills
    /\ bills' = [i \in DOMAIN bills \cup {n} |->
                   IF i = n THEN [total |-> amount, paid |-> 0] ELSE bills[i]]
    /\ UNCHANGED book

\* A late fee is added to a bill that still owes something, or never owed.
Surcharge(i, total) ==
    /\ bills[i].total = 0 \/ bills[i].paid < bills[i].total
    /\ total >= bills[i].total
    /\ bills' = [bills EXCEPT ![i].total = total]
    /\ UNCHANGED book

\* Money is taken: a fresh receipt, each line within the bill's balance.
Receive(number, lines) ==
    /\ \A r \in book : r.number # number
    /\ lines # {}
    /\ \A l \in lines : l.invoice \in DOMAIN bills /\ l.applied > 0
    /\ \A i \in DOMAIN bills :
         bills[i].paid + Applied(lines, i) <= bills[i].total
    /\ book'  = book \cup {[number |-> number, lines |-> lines]}
    /\ bills' = [i \in DOMAIN bills |->
                   [bills[i] EXCEPT !.paid = @ + Applied(lines, i)]]

BookInit == bills = [i \in {} |-> 0] /\ book = {}

BookNext ==
    \/ \E n \in DOMAIN bills' \ DOMAIN bills : Raise(n, bills'[n].total)
    \/ \E i \in DOMAIN bills : Surcharge(i, bills'[i].total)
    \/ \E r \in book' \ book : Receive(r.number, r.lines)

BookSpec == BookInit /\ [][BookNext]_bookVars
=============================================================================
