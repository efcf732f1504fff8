----------------------------- MODULE CashDrawer -----------------------------
(***************************************************************************)
(* The cash drawers of one location: the shared house drawer and the       *)
(* cashiers' personal tills, the payments that land in them and what is    *)
(* counted when they close.                                                *)
(* Source: src/modules/billing/cash-drawer-service.ts and the services     *)
(* that record payments.                                                   *)
(*                                                                         *)
(* All of it is at READ COMMITTED: a payment resolves its drawer and       *)
(* commits later, a close reads the status, then the payments, then        *)
(* writes.  Only the order of times matters: the clock counts openings,    *)
(* and a time equal to an opening's is after it.                           *)
(***************************************************************************)
EXTENDS Integers

CONSTANTS
  Drawers,    \* rows of cash_drawer_sessions
  Cashiers,
  House,      \* the owner of a shared drawer (owner_user_id is null)
  Payments,
  NoDrawer,   \* drawer_session_id is null
  Closers,    \* requests that close a drawer
  MaxClock    \* bound: openings

ASSUME CashDrawerAssumption ==
  House \notin Cashiers /\ NoDrawer \notin Drawers /\ MaxClock \in Nat

VARIABLES
  clock,
  drawer,      \* "unused", "open" or "closed"
  owner,       \* owner_user_id
  openedAt,
  payment,     \* "new", "resolved" (in flight) or "recorded"
  stamp,       \* drawer_session_id
  receivedAt,
  postDated,   \* history: payments whose received_at lay in the future
  closer,      \* the drawer a request closes
  step,        \* "idle", "loaded" or "totalled"
  totals,      \* methodTotals as the request has computed them
  counted,     \* methodTotals of a closed drawer
  closedTwice  \* history: drawers that two overlapping requests closed

paymentVars == <<payment, stamp, receivedAt, postDated>>
closeVars == <<closer, step, totals, counted, closedTwice>>
drawerVars == <<clock, drawer, owner, openedAt, paymentVars, closeVars>>

CashDrawerInit ==
  /\ clock = 0
  /\ drawer = [d \in Drawers |-> "unused"]
  /\ owner = [d \in Drawers |-> House]
  /\ openedAt = [d \in Drawers |-> 0]
  /\ payment = [p \in Payments |-> "new"]
  /\ stamp = [p \in Payments |-> NoDrawer]
  /\ receivedAt = [p \in Payments |-> 0]
  /\ postDated = {}
  /\ closer = [c \in Closers |-> NoDrawer]
  /\ step = [c \in Closers |-> "idle"]
  /\ totals = [c \in Closers |-> {}]
  /\ counted = [d \in Drawers |-> {}]
  /\ closedTwice = {}

OpenOf(o) == {d \in Drawers : drawer[d] = "open" /\ owner[d] = o}

\* openCashDrawer: cash_drawer_one_shared_per_location and one_open_per_owner
\* decide between two that overlap.  Mutant: no such index.
MayOpenAlways(o) == TRUE

MayOpen(o) == OpenOf(o) = {}

OpenCashDrawer ==
  \E d \in Drawers, o \in Cashiers \cup {House} :
    /\ clock < MaxClock
    /\ drawer[d] = "unused"
    /\ MayOpen(o)
    /\ clock' = clock + 1
    /\ drawer' = [drawer EXCEPT ![d] = "open"]
    /\ owner' = [owner EXCEPT ![d] = o]
    /\ openedAt' = [openedAt EXCEPT ![d] = clock']
    /\ UNCHANGED <<paymentVars, closeVars>>

-----------------------------------------------------------------------------
(* Payments. *)

\* Mutant: the id of the owner, not of the drawer.
DrawerForOwner(o) == IF OpenOf(o) # {} THEN {o} ELSE {NoDrawer}

\* resolveDrawerForPayment: the recorder's own till, else the house drawer; a
\* processor's webhook has no recorder.
DrawerFor(o) ==
  IF OpenOf(o) # {} THEN OpenOf(o)
  ELSE IF OpenOf(House) # {} THEN OpenOf(House)
  ELSE {NoDrawer}

ResolveDrawer(p) ==
  /\ payment[p] = "new"
  /\ \E o \in Cashiers \cup {House} : \E d \in DrawerFor(o) :
       stamp' = [stamp EXCEPT ![p] = d]
  /\ payment' = [payment EXCEPT ![p] = "resolved"]
  /\ UNCHANGED <<clock, drawer, owner, openedAt, receivedAt, postDated, closeVars>>

\* The payment commits: received now, or at the time the request or the deposit
\* names.
RecordPayment(p) ==
  /\ payment[p] = "resolved"
  /\ \E t \in 0..MaxClock :
       /\ receivedAt' = [receivedAt EXCEPT ![p] = t]
       /\ postDated' = IF t > clock THEN postDated \cup {p} ELSE postDated
  /\ payment' = [payment EXCEPT ![p] = "recorded"]
  /\ UNCHANGED <<clock, drawer, owner, openedAt, stamp, closeVars>>

\* A check fails, or the process dies.
DropPayment(p) ==
  /\ payment[p] = "resolved"
  /\ payment' = [payment EXCEPT ![p] = "new"]
  /\ stamp' = [stamp EXCEPT ![p] = NoDrawer]
  /\ UNCHANGED <<clock, drawer, owner, openedAt, receivedAt, postDated, closeVars>>

-----------------------------------------------------------------------------
(* Closing. *)

\* methodTotalsForDrawer: stamped payments, and for the house drawer those
\* without a stamp since it opened.  Mutant: a personal till inherits them too.
TakingsOfAll(d) ==
  {p \in Payments :
     /\ payment[p] = "recorded"
     /\ stamp[p] = d \/ (stamp[p] = NoDrawer /\ receivedAt[p] >= openedAt[d])}

Takings(d) ==
  {p \in Payments :
     /\ payment[p] = "recorded"
     /\ \/ stamp[p] = d
        \/ owner[d] = House /\ stamp[p] = NoDrawer /\ receivedAt[p] >= openedAt[d]}

\* closeCashDrawer, first read: session_not_open.
LoadDrawer(c) ==
  /\ step[c] = "idle"
  /\ \E d \in Drawers :
       /\ drawer[d] = "open"
       /\ closer' = [closer EXCEPT ![c] = d]
  /\ step' = [step EXCEPT ![c] = "loaded"]
  /\ UNCHANGED <<clock, drawer, owner, openedAt, paymentVars, totals, counted, closedTwice>>

TotalDrawer(c) ==
  /\ step[c] = "loaded"
  /\ totals' = [totals EXCEPT ![c] = Takings(closer[c])]
  /\ step' = [step EXCEPT ![c] = "totalled"]
  /\ UNCHANGED <<clock, drawer, owner, openedAt, paymentVars, closer, counted, closedTwice>>

Leave(c) ==
  /\ closer' = [closer EXCEPT ![c] = NoDrawer]
  /\ step' = [step EXCEPT ![c] = "idle"]
  /\ totals' = [totals EXCEPT ![c] = {}]

\* The update does not ask for the status again: the last of two overwrites.
CloseCashDrawer(c) ==
  /\ step[c] = "totalled"
  /\ LET d == closer[c]
     IN /\ drawer' = [drawer EXCEPT ![d] = "closed"]
        /\ counted' = [counted EXCEPT ![d] = totals[c]]
        /\ closedTwice' = IF drawer[d] = "closed" THEN closedTwice \cup {d} ELSE closedTwice
  /\ Leave(c)
  /\ UNCHANGED <<clock, owner, openedAt, paymentVars>>

DropClose(c) ==
  /\ step[c] # "idle"
  /\ Leave(c)
  /\ UNCHANGED <<clock, drawer, owner, openedAt, paymentVars, counted, closedTwice>>

CashDrawerNext ==
  \/ OpenCashDrawer
  \/ \E p \in Payments : ResolveDrawer(p) \/ RecordPayment(p) \/ DropPayment(p)
  \/ \E c \in Closers : LoadDrawer(c) \/ TotalDrawer(c) \/ CloseCashDrawer(c) \/ DropClose(c)

CashDrawerSpec == CashDrawerInit /\ [][CashDrawerNext]_drawerVars

-----------------------------------------------------------------------------
(* Properties. *)

\* Every variable keeps its type.
CashDrawerTypeOK ==
  /\ clock \in 0..MaxClock
  /\ drawer \in [Drawers -> {"unused", "open", "closed"}]
  /\ owner \in [Drawers -> Cashiers \cup {House}]
  /\ openedAt \in [Drawers -> 0..MaxClock]
  /\ payment \in [Payments -> {"new", "resolved", "recorded"}]
  /\ stamp \in [Payments -> Drawers \cup {NoDrawer}]
  /\ receivedAt \in [Payments -> 0..MaxClock]
  /\ postDated \subseteq Payments
  /\ closer \in [Closers -> Drawers \cup {NoDrawer}]
  /\ step \in [Closers -> {"idle", "loaded", "totalled"}]
  /\ totals \in [Closers -> SUBSET Payments]
  /\ counted \in [Drawers -> SUBSET Payments]
  /\ closedTwice \subseteq Drawers

\* However payments, openings and closings overlap, the count of one drawer
\* only has a payment in it: a personal till never inherits what has no stamp,
\* and of the house drawers the windows do not meet.  Payments dated in the
\* future and drawers closed by two requests at once are not promised this.
CountedOnce ==
  \A d, e \in Drawers :
    d # e /\ closedTwice \cap {d, e} = {} => counted[d] \cap counted[e] \subseteq postDated
=============================================================================
