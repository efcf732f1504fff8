----------------------------- MODULE MCPartOrder -----------------------------
(* Instances of PartOrder for TLC. *)
EXTENDS PartOrder, TLC

CONSTANTS r1, r2, l1, l2, l3

\* Lines of two units and a single one.
MCQuantity == [l \in Lines |-> IF l = l3 THEN 1 ELSE 2]

Symmetry == Permutations(Requests)
=============================================================================
