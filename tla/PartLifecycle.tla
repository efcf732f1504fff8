---------------------------- MODULE PartLifecycle ----------------------------
(***************************************************************************)
(* What a part order promises (docs/adr/0015: REQUESTED, ORDERED,          *)
(* RECEIVED, with cancellation before receipt): goods arrive only while it *)
(* is placed, never more of a line than was ordered, and it is complete as *)
(* soon as, and only when, all of them are there.                          *)
(***************************************************************************)
EXTENDS Integers

CONSTANTS Lines, Quantity

VARIABLES
  status,   \* the state of the order
  arrived   \* units of each line that have arrived

vars == <<status, arrived>>

Init ==
  /\ status = "NONE"
  /\ arrived = [l \in Lines |-> 0]

Request ==
  /\ status = "NONE"
  /\ status' = "REQUESTED"
  /\ UNCHANGED arrived

Place ==
  /\ status = "REQUESTED"
  /\ status' = "ORDERED"
  /\ UNCHANGED arrived

Cancel ==
  /\ status \in {"REQUESTED", "ORDERED"}
  /\ status' = "CANCELLED"
  /\ UNCHANGED arrived

Complete == \A l \in Lines : arrived[l] = Quantity[l]

Arrive ==
  /\ status = "ORDERED"
  /\ arrived' \in [Lines -> Int]
  /\ \A l \in Lines : arrived[l] <= arrived'[l] /\ arrived'[l] <= Quantity[l]
  /\ arrived' # arrived
  /\ status' = IF Complete' THEN "RECEIVED" ELSE "ORDERED"

Next == Request \/ Place \/ Cancel \/ Arrive

Spec == Init /\ [][Next]_vars
=============================================================================
