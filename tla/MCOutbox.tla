------------------------------ MODULE MCOutbox ------------------------------
(* Instances of Outbox for TLC. *)
EXTENDS Outbox, TLC

CONSTANTS e1, e2, e3, w1, w2, o1

MCOrgOf == [e \in Events |-> o1]

Symmetry == Permutations(Events) \cup Permutations(Workers)
=============================================================================
