------------------------------ MODULE MCLibrary ------------------------------
(* Small instances of Library.                                             *)
EXTENDS Library, TLC

CONSTANTS a, b, i1, i2, b1, b2

MCCopies == [i \in Items |-> IF i = i1 THEN 2 ELSE 1]
MCLimit  == [p \in Borrowers |-> IF p = b1 THEN 2 ELSE 1]

=============================================================================
