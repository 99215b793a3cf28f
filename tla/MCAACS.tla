------------------------------- MODULE MCAACS ------------------------------
(* Instances of AACS for TLC. *)
EXTENDS AACS, TLC

CONSTANTS n1, n2, n3

Symmetry == Permutations(Node)
=============================================================================
