--------------------------- MODULE MCInvoiceLedger ---------------------------
(* Instances of InvoiceLedger for TLC. *)
EXTENDS InvoiceLedger, TLC

CONSTANTS r1, r2, p1, p2, p3, d1, c1

MCDepositAmount == [d \in Deposits |-> 1]

Symmetry == Permutations(Requests) \cup Permutations(Payments)
=============================================================================
