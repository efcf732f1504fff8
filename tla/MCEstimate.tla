----------------------------- MODULE MCEstimate -----------------------------
(* Instances of Estimate for TLC. *)
EXTENDS Estimate, TLC

CONSTANTS x, y, fee, none, k1

Options == [l \in Lines |-> IF l \in {x, y} THEN "size" ELSE NoGroup]
\* Bound: one line for each document.
OneLineEach == home[x] \in {0, 1} /\ home[y] \in {0, 2}

Symmetric == Permutations(Requests)
=============================================================================
