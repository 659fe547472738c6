------------------------------ MODULE MCFleet ------------------------------
(* Small instances of Fleet for TLC.                                       *)
EXTENDS Fleet, TLC

CONSTANTS n1, n2, p1

Symmetry == Permutations(Node)

=============================================================================
