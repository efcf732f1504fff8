-------------------------------- MODULE Desk --------------------------------
(***************************************************************************)
(* Parts of the program that share no state, side by side: in each         *)
(* behaviour one of them moves and the others stay as they began.          *)
(***************************************************************************)
EXTENDS Estimate, Access, Operators, CashDrawer, Pricing, NumberSeries, Dispatch,
        Reminders

VARIABLE area  \* the part that moves

Areas ==
  {"estimate", "access", "operators", "cash drawer", "pricing", "numbers", "dispatch",
   "reminders"}

\* A part that does not move begins in one way only; grants and staff are alike,
\* so which of them come first makes no difference.
Parked ==
  /\ area # "access" => terms = [i \in Invitations |-> CHOOSE t \in Offers : TRUE]
  /\ <<holder, isAdmin>> =
       LET g == CHOOSE g \in Grants : TRUE
           u == CHOOSE u \in Staff : TRUE
       IN  <<[h \in Grants |-> IF h = g THEN u ELSE Outsider], {g}>>
  /\ area # "pricing" => ~taxInclusive
  /\ area # "numbers" =>
       LET p == CHOOSE p \in Prefixes : TRUE IN orderPrefix = p /\ invoicePrefix = p
  /\ area # "dispatch" => sort = [e \in Errands |-> "call"]

DeskInit ==
  /\ area \in Areas
  /\ Init /\ AccessInit /\ OperatorsInit /\ CashDrawerInit /\ PricingInit
  /\ NumbersInit /\ DispatchInit /\ RemindersInit
  /\ Parked

DeskNext ==
  /\ UNCHANGED area
  /\ IF area = "estimate" THEN Next ELSE UNCHANGED vars
  /\ IF area = "access" THEN AccessNext ELSE UNCHANGED accessVars
  /\ IF area = "operators" THEN OperatorsNext ELSE UNCHANGED operatorVars
  /\ IF area = "cash drawer" THEN CashDrawerNext ELSE UNCHANGED drawerVars
  /\ IF area = "pricing" THEN PricingNext ELSE UNCHANGED pricingVars
  /\ IF area = "numbers" THEN NumbersNext ELSE UNCHANGED numberVars
  /\ IF area = "dispatch" THEN DispatchNext ELSE UNCHANGED dispatchVars
  /\ IF area = "reminders" THEN RemindersNext ELSE UNCHANGED reminderVars

deskVars ==
  <<area, vars, accessVars, operatorVars, drawerVars, pricingVars, numberVars, dispatchVars,
    reminderVars>>

DeskSpec == DeskInit /\ [][DeskNext]_deskVars

\* The types of all parts but the estimate, whose own run checks them.
DeskTypeOK ==
  /\ AccessTypeOK /\ OperatorsTypeOK /\ CashDrawerTypeOK /\ PricingTypeOK
  /\ NumbersTypeOK /\ DispatchTypeOK /\ RemindersTypeOK
=============================================================================
