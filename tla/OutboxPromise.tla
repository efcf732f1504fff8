---------------------------- MODULE OutboxPromise ----------------------------
(***************************************************************************)
(* What the outbox promises the transactions that write to it, without     *)
(* drains, leases or retries: an accepted event stays pending until it is  *)
(* delivered, after its handler ran at least once, or given up; neither    *)
(* end is ever left, and a settled event causes no further side effect.    *)
(***************************************************************************)
CONSTANT Events

VARIABLES
  status,  \* "absent", "pending", "delivered" or "dead"
  ran      \* has the side effect of the event taken place?

vars == <<status, ran>>

Init ==
  /\ status = [e \in Events |-> "absent"]
  /\ ran = [e \in Events |-> FALSE]

Accept(e) ==
  /\ status[e] = "absent"
  /\ status' = [status EXCEPT ![e] = "pending"]
  /\ UNCHANGED ran

Run(e) ==
  /\ status[e] = "pending"
  /\ ran' = [ran EXCEPT ![e] = TRUE]
  /\ UNCHANGED status

Deliver(e) ==
  /\ status[e] = "pending"
  /\ ran[e]
  /\ status' = [status EXCEPT ![e] = "delivered"]
  /\ UNCHANGED ran

GiveUp(e) ==
  /\ status[e] = "pending"
  /\ status' = [status EXCEPT ![e] = "dead"]
  /\ UNCHANGED ran

Next ==
  \E e \in Events : Accept(e) \/ Run(e) \/ Deliver(e) \/ GiveUp(e)

Spec == Init /\ [][Next]_vars
=============================================================================
