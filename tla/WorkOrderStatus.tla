--------------------------- MODULE WorkOrderStatus ---------------------------
(***************************************************************************)
(* The work-order state machine (work-orders/work-order-state-machine.ts). *)
(***************************************************************************)

WorkOrderStatuses ==
  {"DRAFT", "ESTIMATING", "AWAITING_AUTHORIZATION", "AUTHORIZED", "IN_PROGRESS",
   "BLOCKED", "COMPLETED", "INVOICED", "CLOSED", "CANCELLED"}

\* VALID_TRANSITIONS: where a work order in a status may go next.
ValidTransitions == [
  DRAFT                  |-> {"ESTIMATING", "CANCELLED"},
  ESTIMATING             |-> {"AWAITING_AUTHORIZATION", "DRAFT", "CANCELLED"},
  AWAITING_AUTHORIZATION |-> {"AUTHORIZED", "ESTIMATING", "CANCELLED"},
  AUTHORIZED             |-> {"IN_PROGRESS", "CANCELLED"},
  IN_PROGRESS            |-> {"BLOCKED", "COMPLETED", "CANCELLED"},
  BLOCKED                |-> {"IN_PROGRESS", "CANCELLED"},
  COMPLETED              |-> {"INVOICED", "CANCELLED"},
  INVOICED               |-> {"CLOSED"},
  CLOSED                 |-> {},
  CANCELLED              |-> {}]

CanTransition(from, to) == to \in ValidTransitions[from]
=============================================================================
