----------------------------- MODULE MCFeeTill -----------------------------
(* Small instances of FeeTill.                                             *)
EXTENDS FeeTill

CONSTANTS a, b, s1, s2, p1, p2, o1

MCFee == [s \in Students |-> 2]
=============================================================================
