--------------------------- MODULE InvoiceAccount ---------------------------
(***************************************************************************)
(* What an invoice promises accounting, without requests, sessions or      *)
(* processors: money moves on an issued invoice only, one payment batch or *)
(* refund at a time, the net of all recorded money stays between nothing   *)
(* and the total, and the status is a function of that net.                *)
(***************************************************************************)
EXTENDS Integers

CONSTANT Total

VARIABLES
  net,    \* recorded payments less recorded refunds
  status  \* of the invoice

vars == <<net, status>>

Standing(n) ==
  IF n >= Total THEN "PAID" ELSE IF n > 0 THEN "PARTIALLY_PAID" ELSE "ISSUED"

Init == net = 0 /\ status = "NONE"

Create == status = "NONE" /\ status' = "DRAFT" /\ UNCHANGED net

Issue == status = "DRAFT" /\ status' = "ISSUED" /\ UNCHANGED net

Move(n) ==
  /\ status \notin {"NONE", "DRAFT"}
  /\ n # net
  /\ net' = n
  /\ status' = Standing(n)

Next == Create \/ Issue \/ \E n \in 0..Total : Move(n)

Spec == Init /\ [][Next]_vars
=============================================================================
