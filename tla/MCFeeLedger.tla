---------------------------- MODULE MCFeeLedger ----------------------------
(* Small instances of FeeLedger.                                           *)
EXTENDS FeeLedger

CONSTANTS a, b, s1, p1, p2, o1

MCFee == [s \in Students |-> 2]
=============================================================================
