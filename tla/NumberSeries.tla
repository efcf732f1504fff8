---------------------------- MODULE NumberSeries ----------------------------
(***************************************************************************)
(* The numbers of work orders, one series for an organization, and of      *)
(* invoices, one series for each location and prefix.                      *)
(* Source: work-orders/work-order-repository.ts,                           *)
(* invoices/invoice-service.ts, estimates/work-preferences-service.ts,     *)
(* organizations/regional-settings.ts.                                     *)
(*                                                                         *)
(* A number is its prefix and the digits that follow.  The latest number   *)
(* is read in one statement, the row with the next one is inserted in a    *)
(* later one.  Not modelled: prefixes that end in a digit, which the code  *)
(* takes for a part of the number, and prefixes that begin with another.   *)
(***************************************************************************)
EXTENDS Integers, FiniteSets

CONSTANTS
  Clerks,     \* requests that may be in flight at once
  Locations,
  Prefixes,
  Rank,       \* their order as strings
  NoPrefix,   \* a location that has no prefix of its own
  First,      \* 1001; smaller here, for the number of digits to change
  Last,       \* bound: the largest number issued
  Width       \* the power of ten above a number: 10 for 9, 100 for 10

ASSUME NumberAssumption ==
  /\ NoPrefix \notin Prefixes
  /\ Rank \in [Prefixes -> Int]
  /\ \A p, q \in Prefixes : Rank[p] = Rank[q] => p = q
  /\ Locations \cap {"none", "orders"} = {}
  /\ First \in Nat \ {0}
  /\ Last \in Nat
  /\ Width \in [1..Last -> Nat \ {0}]

VARIABLES
  orderPrefix,    \* organizations.work_order_number_prefix
  invoicePrefix,  \* organizations.invoice_number_prefix
  ownPrefix,      \* locations.invoice_number_prefix
  orders,         \* numbers of the organization's work orders
  invoices,       \* numbers of each location's invoices
  series,         \* what each request is about to number
  proposal        \* the number it is about to use

settingVars == <<orderPrefix, invoicePrefix, ownPrefix>>
clerkVars == <<series, proposal>>
numberVars == <<settingVars, orders, invoices, clerkVars>>

Numbers == [prefix : Prefixes, n : 1..Last]

NoNumber == [prefix |-> NoPrefix, n |-> 0]

NumbersInit ==
  /\ orderPrefix \in Prefixes
  /\ invoicePrefix \in Prefixes
  /\ ownPrefix = [l \in Locations |-> NoPrefix]
  /\ orders = {}
  /\ invoices = [l \in Locations |-> {}]
  /\ series = [c \in Clerks |-> "none"]
  /\ proposal = [c \in Clerks |-> NoNumber]

-----------------------------------------------------------------------------
(* Numbers as the database orders them. *)

\* As strings the digits of m are less than those of n: as decimals of one
\* length, and of equal ones the shorter is less.
Before(m, n) ==
  \/ m * Width[n] < n * Width[m]
  \/ m * Width[n] = n * Width[m] /\ m < n

StringLess(a, b) ==
  \/ Rank[a.prefix] < Rank[b.prefix]
  \/ a.prefix = b.prefix /\ Before(a.n, b.n)

\* ORDER BY number DESC LIMIT 1.
Latest(numbers) ==
  CHOOSE a \in numbers : \A b \in numbers : ~StringLess(a, b)

\* First, or one more than the digits of the latest.
NumberAfter(numbers, p) ==
  [prefix |-> p, n |-> IF numbers = {} THEN First ELSE Latest(numbers).n + 1]

\* generateWorkOrderNumber.
NextOrder == NumberAfter(orders, orderPrefix)

\* The location's prefix, or the organization's.
PrefixOf(l) == IF ownPrefix[l] = NoPrefix THEN invoicePrefix ELSE ownPrefix[l]

\* Mutant: the series of a new prefix goes on from the old one.
NextInvoiceOfAny(l) == NumberAfter(invoices[l], PrefixOf(l))

\* generateInvoiceNumber: the latest that starts with the prefix.
NextInvoice(l) ==
  NumberAfter({a \in invoices[l] : a.prefix = PrefixOf(l)}, PrefixOf(l))

-----------------------------------------------------------------------------
(* Settings. *)

UpdateWorkPreferences ==
  /\ orderPrefix' \in Prefixes
  /\ invoicePrefix' \in Prefixes
  /\ UNCHANGED <<ownPrefix, orders, invoices, clerkVars>>

UpdateLocationSettings(l) ==
  /\ \E p \in Prefixes \cup {NoPrefix} : ownPrefix' = [ownPrefix EXCEPT ![l] = p]
  /\ UNCHANGED <<orderPrefix, invoicePrefix, orders, invoices, clerkVars>>

-----------------------------------------------------------------------------
(* Work orders and invoices. *)

Propose(c, s, number) ==
  /\ series[c] = "none"
  /\ number.n <= Last
  /\ series' = [series EXCEPT ![c] = s]
  /\ proposal' = [proposal EXCEPT ![c] = number]
  /\ UNCHANGED <<settingVars, orders, invoices>>

\* The request ends, its row inserted or not.
Retire(c) ==
  /\ series' = [series EXCEPT ![c] = "none"]
  /\ proposal' = [proposal EXCEPT ![c] = NoNumber]

\* create: the number is generated ...
NumberOrder(c) == Propose(c, "orders", NextOrder)

\* ... and the row inserted: work_orders_org_number_unique.
InsertOrder(c) ==
  /\ series[c] = "orders"
  /\ proposal[c] \notin orders
  /\ orders' = orders \cup {proposal[c]}
  /\ Retire(c)
  /\ UNCHANGED <<settingVars, invoices>>

\* createInvoiceFromWorkOrder likewise.
NumberInvoice(c, l) == Propose(c, l, NextInvoice(l))

\* invoices_org_location_number_unique.
InsertInvoice(c) ==
  /\ series[c] \in Locations
  /\ proposal[c] \notin invoices[series[c]]
  /\ invoices' = [invoices EXCEPT ![series[c]] = @ \cup {proposal[c]}]
  /\ Retire(c)
  /\ UNCHANGED <<settingVars, orders>>

\* The number is taken, or the request fails for another reason.
FailToNumber(c) ==
  /\ series[c] # "none"
  /\ Retire(c)
  /\ UNCHANGED <<settingVars, orders, invoices>>

NumbersNext ==
  \/ UpdateWorkPreferences
  \/ \E l \in Locations : UpdateLocationSettings(l)
  \/ \E c \in Clerks :
       \/ NumberOrder(c) \/ InsertOrder(c)
       \/ (\E l \in Locations : NumberInvoice(c, l)) \/ InsertInvoice(c)
       \/ FailToNumber(c)

NumbersSpec == NumbersInit /\ [][NumbersNext]_numberVars

-----------------------------------------------------------------------------
(* Properties. *)

\* The columns and what the requests remember.
NumbersTypeOK ==
  /\ orderPrefix \in Prefixes /\ invoicePrefix \in Prefixes
  /\ ownPrefix \in [Locations -> Prefixes \cup {NoPrefix}]
  /\ orders \subseteq Numbers
  /\ invoices \in [Locations -> SUBSET Numbers]
  /\ series \in [Clerks -> Locations \cup {"none", "orders"}]
  /\ proposal \in [Clerks -> Numbers \cup {NoNumber}]

\* "Gapless per-establishment series (legal requirement in much of the EU)":
\* whoever overlaps, fails half-way or changes a prefix, and also where the
\* number of digits grows, an invoice's number is the first of its location
\* and prefix or follows one that was issued.
Gapless ==
  \A l \in Locations : \A a \in invoices[l] :
    a.n = First \/ [a EXCEPT !.n = a.n - 1] \in invoices[l]
=============================================================================
