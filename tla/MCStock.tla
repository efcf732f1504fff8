------------------------------- MODULE MCStock -------------------------------
(* Instances of Stock for TLC. *)
EXTENDS Stock, TLC

CONSTANTS r1, r2, j1, j2

\* The invoice of the first job needs two units, of the second one.
MCLineQty == [j \in Jobs |-> IF j = j1 THEN 2 ELSE 1]

Symmetry == Permutations(Requests)
=============================================================================
