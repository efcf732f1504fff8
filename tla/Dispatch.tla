------------------------------ MODULE Dispatch ------------------------------
(***************************************************************************)
(* Roadside service calls, pickup and delivery runs, appointments: their   *)
(* stages, and the work orders that calls and appointments turn into.      *)
(* Source: service-calls/, transport/, appointments/appointment-service.ts.*)
(*                                                                         *)
(* Every request reads the stage, checks that it may go on from there, and *)
(* later writes the new stage without looking again (READ COMMITTED, no    *)
(* lock, no condition); between the two it may ask a map service for the   *)
(* way.  Not modelled: the booking rules of appointments and who goes.     *)
(***************************************************************************)
EXTENDS FiniteSets

CONSTANTS
  Errands,      \* service calls, transport jobs and appointments
  Dispatchers,  \* requests that may be in flight at once
  JobOrders,    \* bound: the work orders they can turn into
  NoErrand, NoJobOrder

ASSUME DispatchAssumption ==
  /\ NoErrand \notin Errands
  /\ NoJobOrder \notin JobOrders

VARIABLES
  sort,       \* of each errand: "call", "run" or "visit"; it never changes
  stage,      \* status of each errand
  recorded,   \* the stages it has been in: the timestamp columns of calls and
              \* runs, the audit events of appointments
  converted,  \* work_order_id of each call and appointment
  madeFrom,   \* the errand each work order was made from
  asking,     \* what each request does: "none", "move", "convert" or "link"
  errand,     \* for which errand
  target,     \* the stage it goes to
  made        \* the work order it has made

errandVars == <<sort, stage, recorded, converted, madeFrom>>
askVars == <<asking, errand, target, made>>
dispatchVars == <<errandVars, askVars>>

CallMoves ==
  {<<"REQUESTED", "DISPATCHED">>, <<"REQUESTED", "CANCELLED">>,
   <<"DISPATCHED", "EN_ROUTE">>, <<"DISPATCHED", "CANCELLED">>,
   <<"EN_ROUTE", "ON_SCENE">>, <<"EN_ROUTE", "CANCELLED">>,
   <<"ON_SCENE", "COMPLETED">>}

RunMoves ==
  {<<"SCHEDULED", "EN_ROUTE">>, <<"SCHEDULED", "CANCELLED">>,
   <<"EN_ROUTE", "COMPLETED">>, <<"EN_ROUTE", "CANCELLED">>}

VisitMoves ==
  {<<"SCHEDULED", "CONFIRMED">>, <<"SCHEDULED", "CHECKED_IN">>,
   <<"SCHEDULED", "CANCELLED">>, <<"SCHEDULED", "NO_SHOW">>,
   <<"CONFIRMED", "CHECKED_IN">>, <<"CONFIRMED", "CANCELLED">>,
   <<"CONFIRMED", "NO_SHOW">>, <<"CHECKED_IN", "COMPLETED">>}

Stages ==
  {"REQUESTED", "DISPATCHED", "EN_ROUTE", "ON_SCENE", "COMPLETED", "CANCELLED",
   "SCHEDULED", "CONFIRMED", "CHECKED_IN", "NO_SHOW"}

FirstStage(e) == IF sort[e] = "call" THEN "REQUESTED" ELSE "SCHEDULED"

Moves(e) ==
  CASE sort[e] = "call" -> CallMoves
    [] sort[e] = "run" -> RunMoves
    [] sort[e] = "visit" -> VisitMoves

\* Mutant: only what is over (isServiceCallTerminal) cannot go on.
MayMoveIfOpen(e, to) == stage[e] \notin {"COMPLETED", "CANCELLED", "NO_SHOW"}

\* canTransitionServiceCall, canTransitionTransport, canTransitionAppointment.
MayMove(e, to) == <<stage[e], to>> \in Moves(e)

DispatchInit ==
  /\ sort \in [Errands -> {"call", "run", "visit"}]
  /\ stage = [e \in Errands |-> FirstStage(e)]
  /\ recorded = [e \in Errands |-> {}]
  /\ converted = [e \in Errands |-> NoJobOrder]
  /\ madeFrom = [w \in JobOrders |-> NoErrand]
  /\ asking = [d \in Dispatchers |-> "none"]
  /\ errand = [d \in Dispatchers |-> NoErrand]
  /\ target = [d \in Dispatchers |-> "none"]
  /\ made = [d \in Dispatchers |-> NoJobOrder]

-----------------------------------------------------------------------------
(* From stage to stage. *)

\* dispatchServiceCall, advanceServiceCallStatus, cancelServiceCall,
\* startTransportJob, completeTransportJob, cancelTransportJob,
\* transitionAppointment: the read and the checks ...
BeginMove(d, e, to) ==
  /\ asking[d] = "none"
  /\ MayMove(e, to)
  /\ asking' = [asking EXCEPT ![d] = "move"]
  /\ errand' = [errand EXCEPT ![d] = e]
  /\ target' = [target EXCEPT ![d] = to]
  /\ UNCHANGED <<errandVars, made>>

Answered(d) ==
  /\ asking' = [asking EXCEPT ![d] = "none"]
  /\ errand' = [errand EXCEPT ![d] = NoErrand]
  /\ target' = [target EXCEPT ![d] = "none"]
  /\ made' = [made EXCEPT ![d] = NoJobOrder]

\* ... and the update, whatever the stage is now.
Move(d) ==
  /\ asking[d] = "move"
  /\ stage' = [stage EXCEPT ![errand[d]] = target[d]]
  /\ recorded' = [recorded EXCEPT ![errand[d]] = @ \cup {target[d]}]
  /\ Answered(d)
  /\ UNCHANGED <<sort, converted, madeFrom>>

-----------------------------------------------------------------------------
(* Into a work order. *)

\* A call that is under way, an appointment whose customer has arrived.
Convertible(e) ==
  /\ converted[e] = NoJobOrder
  /\ \/ sort[e] = "call" /\ stage[e] \notin {"COMPLETED", "CANCELLED"}
     \/ sort[e] = "visit" /\ stage[e] = "CHECKED_IN"

\* convertServiceCallToWorkOrder, convertAppointmentToWorkOrder: the checks ...
BeginConvert(d, e) ==
  /\ asking[d] = "none"
  /\ Convertible(e)
  /\ asking' = [asking EXCEPT ![d] = "convert"]
  /\ errand' = [errand EXCEPT ![d] = e]
  /\ UNCHANGED <<errandVars, target, made>>

\* ... the work order, committed on its own ...
MakeJobOrder(d) ==
  /\ asking[d] = "convert"
  /\ \E w \in JobOrders :
       /\ madeFrom[w] = NoErrand
       /\ madeFrom' = [madeFrom EXCEPT ![w] = errand[d]]
       /\ made' = [made EXCEPT ![d] = w]
  /\ asking' = [asking EXCEPT ![d] = "link"]
  /\ UNCHANGED <<sort, stage, recorded, converted, errand, target>>

\* The where clause of the link: a call is linked once, an appointment again.
Linkable(e) == sort[e] = "call" => converted[e] = NoJobOrder

\* ... and the link; a call that lost the race leaves its work order behind.
LinkJobOrder(d) ==
  /\ asking[d] = "link"
  /\ converted' = IF Linkable(errand[d])
                  THEN [converted EXCEPT ![errand[d]] = made[d]]
                  ELSE converted
  /\ Answered(d)
  /\ UNCHANGED <<sort, stage, recorded, madeFrom>>

\* A check fails, the transaction is rolled back or the process dies.
DropRequest(d) ==
  /\ asking[d] # "none"
  /\ Answered(d)
  /\ UNCHANGED errandVars

DispatchNext ==
  \E d \in Dispatchers :
    \/ \E e \in Errands, to \in Stages : BeginMove(d, e, to)
    \/ \E e \in Errands : BeginConvert(d, e)
    \/ Move(d) \/ MakeJobOrder(d) \/ LinkJobOrder(d) \/ DropRequest(d)

DispatchSpec == DispatchInit /\ [][DispatchNext]_dispatchVars

-----------------------------------------------------------------------------
(* Properties. *)

\* The columns and what the requests remember.
DispatchTypeOK ==
  /\ sort \in [Errands -> {"call", "run", "visit"}]
  /\ stage \in [Errands -> Stages]
  /\ recorded \in [Errands -> SUBSET Stages]
  /\ converted \in [Errands -> JobOrders \cup {NoJobOrder}]
  /\ madeFrom \in [JobOrders -> Errands \cup {NoErrand}]
  /\ asking \in [Dispatchers -> {"none", "move", "convert", "link"}]
  /\ errand \in [Dispatchers -> Errands \cup {NoErrand}]
  /\ target \in [Dispatchers -> Stages \cup {"none"}]
  /\ made \in [Dispatchers -> JobOrders \cup {NoJobOrder}]

\* What an errand has been through can be trusted although each update rests on
\* a stage that may be long gone and cancellations overwrite arrivals: every
\* recorded stage was reached from a stage that is recorded too, so a call that
\* was ever completed had been on scene, en route and dispatched.
StagesInOrder ==
  \A e \in Errands : \A s \in recorded[e] \cup {stage[e]} :
    \/ s = FirstStage(e)
    \/ \E p \in recorded[e] \cup {FirstStage(e)} : <<p, s>> \in Moves(e)

\* Work orders come from where they say, also those of two requests that convert
\* one errand at once: the one an errand is linked to was made from it, and those
\* of an appointment were made after the customer had arrived.
OrdersHaveOrigin ==
  /\ \A e \in Errands : converted[e] # NoJobOrder => madeFrom[converted[e]] = e
  /\ \A w \in JobOrders :
       madeFrom[w] # NoErrand /\ sort[madeFrom[w]] = "visit"
         => "CHECKED_IN" \in recorded[madeFrom[w]]

\* The board, its timestamps and its links tell one story, whoever overlaps.
ErrandsAreTraceable == StagesInOrder /\ OrdersHaveOrigin
=============================================================================
