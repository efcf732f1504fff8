------------------------------ MODULE Agreement ------------------------------
(***************************************************************************)
(* What a customer may rely on (ADR 0014): documents are offered as a      *)
(* whole, and not changed afterwards; each line is decided at most once,   *)
(* and for good; choosing an alternative declines the others; a document   *)
(* is withdrawn as a whole, and only while nothing of it is decided.       *)
(***************************************************************************)
EXTENDS Integers

CONSTANTS Lines, Documents, GroupOf, NoGroup

VARIABLES
  place,  \* the document a line is in, 0 for none
  stage   \* what has become of the line

vars == <<place, stage>>

Stages == {"none", "draft", "offered", "approved", "declined", "withdrawn"}

Init ==
  /\ place = [l \in Lines |-> 0]
  /\ stage = [l \in Lines |-> "none"]

Content(d) == {l \in Lines : place[l] = d}
Alternatives(l, m) ==
  l # m /\ place[l] = place[m] /\ GroupOf[l] = GroupOf[m] /\ GroupOf[l] # NoGroup

\* A line is put into a document that has not been offered, or taken out.
Draft(l, d) ==
  /\ stage[l] = "none"
  /\ \A m \in Content(d) : stage[m] = "draft"
  /\ place' = [place EXCEPT ![l] = d]
  /\ stage' = [stage EXCEPT ![l] = "draft"]

Drop(l) ==
  /\ stage[l] = "draft"
  /\ place' = [place EXCEPT ![l] = 0]
  /\ stage' = [stage EXCEPT ![l] = "none"]

\* The whole document is offered, with fees added to it; what the shop applies
\* by itself is approved by the same step.
Offer(d, fees, applied) ==
  /\ \A l \in Content(d) : stage[l] = "draft"
  /\ \A l \in fees : stage[l] = "none"
  /\ applied \in {{}, Content(d)}
  /\ place' = [l \in Lines |-> IF l \in fees THEN d ELSE place[l]]
  /\ stage' = [l \in Lines |-> IF l \in applied THEN "approved"
                               ELSE IF l \in Content(d) \cup fees THEN "offered"
                               ELSE stage[l]]

\* Of one document, what is on offer is approved or declined.
Decide(d, picked, refused) ==
  /\ picked \cap refused = {}
  /\ \A l \in picked \cup refused : place[l] = d /\ stage[l] = "offered"
  /\ \A l \in picked, m \in Lines :
       Alternatives(l, m) => m \in refused \/ stage[m] = "declined"
  /\ stage' = [l \in Lines |-> IF l \in picked THEN "approved"
                               ELSE IF l \in refused THEN "declined" ELSE stage[l]]
  /\ UNCHANGED place

Withdraw(d) ==
  /\ \A l \in Content(d) : stage[l] = "offered"
  /\ stage' = [l \in Lines |-> IF place[l] = d THEN "withdrawn" ELSE stage[l]]
  /\ UNCHANGED place

Next ==
  \/ \E l \in Lines : Drop(l) \/ \E d \in Documents : Draft(l, d)
  \/ \E d \in Documents :
       \/ Withdraw(d)
       \/ \E s, t \in SUBSET Lines : Offer(d, s, t) \/ Decide(d, s, t)

Spec == Init /\ [][Next]_vars
=============================================================================
