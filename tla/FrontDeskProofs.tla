-------------------------- MODULE FrontDeskProofs ---------------------------
(***************************************************************************)
(* Proofs about the front desk: what cash drawers count (CashDrawer), what *)
(* lines and invoices cost (Pricing), numbers (NumberSeries), errands      *)
(* (Dispatch), maintenance reminders (Reminders), and all of these beside  *)
(* each other (Desk).                                                      *)
(***************************************************************************)
EXTENDS Sums, AccessProofs, Desk

-----------------------------------------------------------------------------
(* CashDrawer: for any drawers, cashiers, payments and requests that close. *)

Used(d) == drawer[d] # "unused"
HouseDrawers == {d \in Drawers : Used(d) /\ owner[d] = House}

\* Drawers were opened one after the other, and of the house drawers only the
\* last is open.
OpenedInTurn ==
  /\ \A d \in Drawers : Used(d) => openedAt[d] >= 1 /\ openedAt[d] <= clock
  /\ \A d, e \in Drawers : Used(d) /\ Used(e) /\ openedAt[d] = openedAt[e] => d = e
  /\ \A d, e \in HouseDrawers : drawer[d] = "open" => openedAt[e] <= openedAt[d]

\* What the count of a drawer may have in it.
Belongs(p, d) ==
  /\ payment[p] = "recorded"
  /\ \/ stamp[p] = d
     \/ owner[d] = House /\ stamp[p] = NoDrawer /\ receivedAt[p] >= openedAt[d]

\* No house drawer that opened after d reaches back to the payment.
Enclosed(p, d) ==
  stamp[p] = NoDrawer =>
    \A e \in HouseDrawers : openedAt[e] > openedAt[d] => receivedAt[p] < openedAt[e]

CountsBelong ==
  /\ \A d \in Drawers : \A p \in counted[d] : Belongs(p, d) /\ drawer[d] = "closed"
  /\ \A c \in Closers : step[c] # "idle" => closer[c] \in Drawers /\ Used(closer[c])
  /\ \A c \in Closers : step[c] = "totalled" => \A p \in totals[c] : Belongs(p, closer[c])

DrawerInv ==
  /\ CashDrawerTypeOK
  /\ OpenedInTurn
  /\ \A p \in Payments : payment[p] = "recorded" /\ p \notin postDated => receivedAt[p] <= clock
  /\ CountsBelong
  /\ \A d \in HouseDrawers \ closedTwice : \A p \in counted[d] \ postDated : Enclosed(p, d)

\* Nothing is open or counted at first.
LEMMA DrawerInit ==
  ASSUME CashDrawerInit
  PROVE  DrawerInv
BY CashDrawerAssumption
   DEF CashDrawerInit, DrawerInv, CashDrawerTypeOK, OpenedInTurn, CountsBelong, HouseDrawers, Used

\* A new drawer opens after everything that has been received.
LEMMA OpenKeeps ==
  ASSUME DrawerInv, OpenCashDrawer
  PROVE  DrawerInv'
<1> USE CashDrawerAssumption
<1>1. PICK d \in Drawers, o \in Cashiers \cup {House} :
        /\ clock < MaxClock /\ drawer[d] = "unused" /\ MayOpen(o)
        /\ clock' = clock + 1
        /\ drawer' = [drawer EXCEPT ![d] = "open"]
        /\ owner' = [owner EXCEPT ![d] = o]
        /\ openedAt' = [openedAt EXCEPT ![d] = clock']
        /\ UNCHANGED <<paymentVars, closeVars>>
  BY DEF OpenCashDrawer
<1>2. /\ UNCHANGED <<payment, stamp, receivedAt, postDated>>
      /\ UNCHANGED <<closer, step, totals, counted, closedTwice>>
  BY <1>1 DEF paymentVars, closeVars
<1>3. CashDrawerTypeOK'
  BY <1>1, <1>2 DEF DrawerInv, CashDrawerTypeOK
<1>4. /\ \A e \in Drawers : e # d => /\ drawer'[e] = drawer[e] /\ owner'[e] = owner[e]
                                     /\ openedAt'[e] = openedAt[e]
      /\ drawer'[d] = "open" /\ owner'[d] = o /\ openedAt'[d] = clock + 1
  BY <1>1 DEF DrawerInv, CashDrawerTypeOK
<1>5. clock \in Nat /\ \A e \in Drawers : openedAt[e] \in Nat
  BY DEF DrawerInv, CashDrawerTypeOK
<1>6. OpenedInTurn'
  <2>1. \A e \in Drawers : Used(e)' => e = d \/ (e # d /\ Used(e))
    BY <1>4 DEF Used
  <2>2. \A e \in Drawers : Used(e)' => openedAt'[e] >= 1 /\ openedAt'[e] <= clock'
    BY <1>1, <1>4, <1>5, <2>1 DEF DrawerInv, OpenedInTurn
  <2>3. \A e, f \in Drawers : Used(e)' /\ Used(f)' /\ openedAt'[e] = openedAt'[f] => e = f
    BY <1>4, <1>5, <2>1 DEF DrawerInv, OpenedInTurn
  <2>4. ASSUME NEW e \in HouseDrawers', NEW f \in HouseDrawers', drawer'[e] = "open"
        PROVE  openedAt'[f] <= openedAt'[e]
    <3>1. CASE e = d
      BY <1>1, <1>4, <2>2, <3>1 DEF HouseDrawers
    <3>2. CASE e # d
      <4>1. e \in HouseDrawers /\ drawer[e] = "open"
        BY <1>4, <2>4, <3>2 DEF HouseDrawers, Used
      <4>2. o # House /\ f # d
        BY <1>1, <1>4, <2>4, <4>1 DEF MayOpen, OpenOf, HouseDrawers
      <4>3. f \in HouseDrawers
        BY <1>4, <4>2 DEF HouseDrawers, Used
      <4> QED BY <1>4, <3>2, <4>1, <4>2, <4>3 DEF DrawerInv, OpenedInTurn, HouseDrawers
    <3> QED BY <3>1, <3>2
  <2> QED BY <2>2, <2>3, <2>4 DEF OpenedInTurn
<1>7. \A p \in Payments, e \in Drawers : e # d => (Belongs(p, e)' <=> Belongs(p, e))
  BY <1>2, <1>4 DEF Belongs
<1>8. CountsBelong'
  <2>1. counted[d] = {} /\ \A c \in Closers : step[c] # "idle" => closer[c] # d
    BY <1>1 DEF DrawerInv, CountsBelong, Used
  <2> QED BY <1>2, <1>4, <1>7, <2>1 DEF DrawerInv, CountsBelong, CashDrawerTypeOK, Used
<1>9. ASSUME NEW e \in HouseDrawers' \ closedTwice', NEW p \in counted'[e] \ postDated'
      PROVE  Enclosed(p, e)'
  <2>1. e # d /\ e \in HouseDrawers \ closedTwice /\ p \in counted[e] \ postDated
    BY <1>1, <1>2, <1>4, <1>9 DEF DrawerInv, CountsBelong, HouseDrawers, Used
  <2>2. Enclosed(p, e) /\ p \in Payments /\ payment[p] = "recorded"
    BY <2>1 DEF DrawerInv, CountsBelong, Belongs, CashDrawerTypeOK, HouseDrawers
  <2>3. receivedAt[p] <= clock /\ receivedAt[p] \in Nat
    BY <2>1, <2>2 DEF DrawerInv, CashDrawerTypeOK
  <2>4. \A f \in HouseDrawers' : f = d \/ f \in HouseDrawers
    BY <1>4 DEF HouseDrawers, Used
  <2> QED BY <1>2, <1>4, <1>5, <2>1, <2>2, <2>3, <2>4 DEF Enclosed, HouseDrawers
<1>10. \A p \in Payments : payment'[p] = "recorded" /\ p \notin postDated' => receivedAt'[p] <= clock'
  BY <1>1, <1>2, <1>5 DEF DrawerInv, CashDrawerTypeOK
<1> QED BY <1>3, <1>6, <1>8, <1>9, <1>10 DEF DrawerInv

\* A payment that moves is in no count yet.
LEMMA PaymentKeeps ==
  ASSUME DrawerInv, NEW p \in Payments,
         ResolveDrawer(p) \/ RecordPayment(p) \/ DropPayment(p)
  PROVE  DrawerInv'
<1> USE CashDrawerAssumption
<1>1. /\ payment[p] # "recorded"
      /\ UNCHANGED <<clock, drawer, owner, openedAt, closer, step, totals, counted, closedTwice>>
  BY DEF ResolveDrawer, RecordPayment, DropPayment, closeVars
<1>2. CashDrawerTypeOK'
  <2>1. CASE ResolveDrawer(p)
    <3>1. \A o : DrawerFor(o) \subseteq Drawers \cup {NoDrawer}
      BY DEF DrawerFor, OpenOf
    <3> QED BY <1>1, <2>1, <3>1 DEF ResolveDrawer, DrawerInv, CashDrawerTypeOK
  <2>2. CASE RecordPayment(p)
    BY <1>1, <2>2 DEF RecordPayment, DrawerInv, CashDrawerTypeOK
  <2>3. CASE DropPayment(p)
    BY <1>1, <2>3 DEF DropPayment, DrawerInv, CashDrawerTypeOK
  <2> QED BY <2>1, <2>2, <2>3
<1>3. \A q \in Payments : q # p => /\ payment'[q] = payment[q] /\ stamp'[q] = stamp[q]
                                  /\ receivedAt'[q] = receivedAt[q]
                                  /\ (q \in postDated' <=> q \in postDated)
  BY DEF ResolveDrawer, RecordPayment, DropPayment, DrawerInv, CashDrawerTypeOK
<1>4. payment'[p] = "recorded" /\ p \notin postDated' => receivedAt'[p] <= clock'
  BY <1>1 DEF ResolveDrawer, RecordPayment, DropPayment, DrawerInv, CashDrawerTypeOK
<1>5. \A q \in Payments : \A d : Belongs(q, d) => q # p /\ Belongs(q, d)'
  BY <1>1, <1>3 DEF Belongs
<1>6. CountsBelong'
  BY <1>1, <1>5 DEF DrawerInv, CountsBelong, CashDrawerTypeOK, Used
<1>7. OpenedInTurn'
  BY <1>1 DEF DrawerInv, OpenedInTurn, HouseDrawers, Used
<1>8. ASSUME NEW d \in HouseDrawers' \ closedTwice', NEW q \in counted'[d] \ postDated'
      PROVE  Enclosed(q, d)'
  <2>1. d \in HouseDrawers \ closedTwice /\ q \in counted[d] /\ q \in Payments /\ d \in Drawers
    BY <1>1, <1>8 DEF HouseDrawers, Used, DrawerInv, CashDrawerTypeOK
  <2>2. q # p /\ q \notin postDated
    BY <1>3, <1>5, <1>8, <2>1 DEF DrawerInv, CountsBelong
  <2> QED BY <1>1, <1>3, <2>1, <2>2 DEF DrawerInv, Enclosed, HouseDrawers, Used
<1> QED BY <1>2, <1>3, <1>4, <1>6, <1>7, <1>8, <1>1 DEF DrawerInv

\* A close counts what belongs to its drawer; if the drawer is still open, no
\* other house drawer has been opened since.
LEMMA ClosingKeeps ==
  ASSUME DrawerInv, NEW c \in Closers,
         LoadDrawer(c) \/ TotalDrawer(c) \/ CloseCashDrawer(c) \/ DropClose(c)
  PROVE  DrawerInv'
<1>1. UNCHANGED <<clock, owner, openedAt, payment, stamp, receivedAt, postDated>>
  BY DEF LoadDrawer, TotalDrawer, CloseCashDrawer, DropClose, paymentVars
<1>2. \A p, d : Belongs(p, d)' <=> Belongs(p, d)
  BY <1>1 DEF Belongs
<1>3. CASE LoadDrawer(c)
  BY <1>1, <1>2, <1>3 DEF LoadDrawer, DrawerInv, CashDrawerTypeOK, OpenedInTurn, CountsBelong,
                          HouseDrawers, Used, Enclosed
<1>4. CASE TotalDrawer(c)
  <2>1. Takings(closer[c]) \subseteq Payments /\ \A p \in Takings(closer[c]) : Belongs(p, closer[c])
    BY DEF Takings, Belongs
  <2> QED BY <1>1, <1>2, <1>4, <2>1
          DEF TotalDrawer, DrawerInv, CashDrawerTypeOK, OpenedInTurn, CountsBelong,
              HouseDrawers, Used, Enclosed
<1>5. CASE DropClose(c)
  BY <1>1, <1>2, <1>5 DEF DropClose, Leave, DrawerInv, CashDrawerTypeOK, OpenedInTurn,
                          CountsBelong, HouseDrawers, Used, Enclosed
<1>6. CASE CloseCashDrawer(c)
  <2> DEFINE d == closer[c]
  <2>1. /\ step[c] = "totalled" /\ d \in Drawers /\ Used(d)
        /\ drawer' = [drawer EXCEPT ![d] = "closed"]
        /\ counted' = [counted EXCEPT ![d] = totals[c]]
        /\ closedTwice' = IF drawer[d] = "closed" THEN closedTwice \cup {d} ELSE closedTwice
        /\ closer' = [closer EXCEPT ![c] = NoDrawer]
        /\ step' = [step EXCEPT ![c] = "idle"]
        /\ totals' = [totals EXCEPT ![c] = {}]
    BY <1>6 DEF CloseCashDrawer, Leave, DrawerInv, CountsBelong
  <2>2. CashDrawerTypeOK'
    BY <1>1, <2>1 DEF DrawerInv, CashDrawerTypeOK
  <2>3. \A e \in Drawers : Used(e)' <=> Used(e)
    BY <2>1 DEF Used, DrawerInv, CashDrawerTypeOK
  <2>4. HouseDrawers' = HouseDrawers
    BY <1>1, <2>3 DEF HouseDrawers
  <2>5. \A e \in Drawers : drawer'[e] = "open" => drawer[e] = "open"
    BY <2>1 DEF DrawerInv, CashDrawerTypeOK
  <2>6. OpenedInTurn'
    BY <1>1, <2>3, <2>4, <2>5 DEF DrawerInv, OpenedInTurn, HouseDrawers
  <2>7. CountsBelong'
    BY <1>2, <2>1, <2>3 DEF DrawerInv, CountsBelong, CashDrawerTypeOK
  <2>8. ASSUME NEW e \in HouseDrawers \ closedTwice', NEW p \in counted'[e] \ postDated
        PROVE  Enclosed(p, e)
    <3>1. CASE e = d
      <4>1. drawer[d] = "open"
        BY <2>1, <2>8, <3>1 DEF DrawerInv, CashDrawerTypeOK, Used
      <4>2. \A f \in HouseDrawers : openedAt[f] <= openedAt[e]
        BY <2>8, <3>1, <4>1 DEF DrawerInv, OpenedInTurn
      <4> QED BY <4>2 DEF Enclosed, DrawerInv, CashDrawerTypeOK, HouseDrawers
    <3>2. CASE e # d
      BY <2>1, <2>8, <3>2 DEF DrawerInv, CashDrawerTypeOK, HouseDrawers
    <3> QED BY <3>1, <3>2
  <2> QED BY <1>1, <2>2, <2>4, <2>6, <2>7, <2>8 DEF DrawerInv, Enclosed
<1> QED BY <1>3, <1>4, <1>5, <1>6

\* No step opens two drawers of one till at once or totals a payment of another.
LEMMA DrawerStep ==
  ASSUME DrawerInv, [CashDrawerNext]_drawerVars
  PROVE  DrawerInv'
<1>1. CASE UNCHANGED drawerVars
  BY <1>1 DEF drawerVars, paymentVars, closeVars, DrawerInv, CashDrawerTypeOK, OpenedInTurn,
              CountsBelong, Belongs, Enclosed, HouseDrawers, Used
<1>2. CASE CashDrawerNext
  BY <1>2, OpenKeeps, PaymentKeeps, ClosingKeeps DEF CashDrawerNext
<1> QED BY <1>1, <1>2

\* However payments, openings and closings overlap, a payment that is not dated
\* in the future is in the count of one drawer only, unless two requests close
\* that drawer at once (cash-drawer-service.ts, methodTotalsForDrawer).
THEOREM PaymentsCountedOnce == CashDrawerSpec => []CountedOnce
<1>1. CashDrawerInit => DrawerInv
  BY DrawerInit
<1>2. DrawerInv /\ [CashDrawerNext]_drawerVars => DrawerInv'
  BY DrawerStep
<1>3. ASSUME DrawerInv PROVE CountedOnce
  <2> SUFFICES ASSUME NEW d \in Drawers, NEW e \in Drawers, d # e,
                      d \notin closedTwice, e \notin closedTwice,
                      NEW p \in counted[d] \cap counted[e], p \notin postDated
               PROVE  FALSE
    BY DEF CountedOnce
  <2>1. /\ p \in Payments /\ Belongs(p, d) /\ Belongs(p, e)
        /\ drawer[d] = "closed" /\ drawer[e] = "closed"
    BY <1>3 DEF DrawerInv, CountsBelong, CashDrawerTypeOK
  <2>2. stamp[p] = NoDrawer /\ d \in HouseDrawers /\ e \in HouseDrawers
    BY <2>1, CashDrawerAssumption DEF Belongs, HouseDrawers, Used
  <2>3. Enclosed(p, d) /\ Enclosed(p, e)
    BY <1>3, <2>2 DEF DrawerInv
  <2>4. openedAt[d] # openedAt[e] /\ openedAt[d] \in Int /\ openedAt[e] \in Int
        /\ receivedAt[p] \in Int
    BY <1>3, <2>1, <2>2 DEF DrawerInv, OpenedInTurn, HouseDrawers, CashDrawerTypeOK
  <2> QED BY <2>1, <2>2, <2>3, <2>4, CashDrawerAssumption DEF Belongs, Enclosed
<1> QED BY <1>1, <1>2, <1>3, PTL DEF CashDrawerSpec

-----------------------------------------------------------------------------
(* Pricing: for any amounts, and any number of lines. *)

\* Truncated division, with its remainder.
LEMMA QuotientFacts ==
  ASSUME NEW n \in Int, NEW d \in Nat \ {0}
  PROVE  /\ Quotient(n, d) \in Int
         /\ Quotient(-n, d) = -Quotient(n, d)
         /\ n >= 0 => n - d * Quotient(n, d) \in 0..(d - 1)
         /\ n < 0 => d * Quotient(n, d) - n \in 0..(d - 1)
<1>1. \A k \in Nat : k \div d \in Int /\ k - d * (k \div d) \in 0..(d - 1)
  <2> TAKE k \in Nat
  <2>1. k \div d \in Int /\ k % d \in 0..(d - 1) /\ k = d * (k \div d) + (k % d)
    OBVIOUS
  <2> QED BY <2>1
<1>2. CASE n >= 0
  <2>1. Quotient(n, d) = n \div d
    BY <1>2 DEF Quotient
  <2>2. CASE n = 0
    BY <1>1, <2>1, <2>2 DEF Quotient
  <2>3. CASE n > 0
    BY <1>1, <2>1, <2>3 DEF Quotient
  <2> QED BY <1>2, <2>2, <2>3
<1>3. CASE n < 0
  <2>1. Quotient(n, d) = -((-n) \div d) /\ Quotient(-n, d) = (-n) \div d /\ -n \in Nat
    BY <1>3 DEF Quotient
  <2>2. PICK q \in Int : q = (-n) \div d /\ (-n) - d * q \in 0..(d - 1)
    BY <1>1, <2>1
  <2>3. d * (-q) = -(d * q)
    BY <2>2
  <2> QED BY <1>3, <2>1, <2>2, <2>3
<1> QED BY <1>2, <1>3

\* ratioRounded returns an integer that is nearest to the ratio, and of two that
\* are equally near the one further from zero (money.ts).
THEOREM RoundsToNearest ==
  ASSUME NEW n \in Int, NEW d \in Nat \ {0}
  PROVE  /\ RatioRounded(n, d) \in Int
         /\ n >= 0 => 2 * (n - d * RatioRounded(n, d)) \in (-d)..(d - 1)
         /\ n < 0 => 2 * (n - d * RatioRounded(n, d)) \in (1 - d)..d
<1> DEFINE q == Quotient(n, d)
<1>1. q \in Int /\ d * q \in Int /\ d * (q + 1) = d * q + d /\ d * (q - 1) = d * q - d
  <2>1. \A k \in Int : d * k \in Int /\ d * (k + 1) = d * k + d /\ d * (k - 1) = d * k - d
    OBVIOUS
  <2>2. q \in Int
    BY QuotientFacts
  <2> HIDE DEF q
  <2> QED BY <2>1, <2>2
<1>2. n >= 0 => n - d * q \in 0..(d - 1)
  BY QuotientFacts
<1>3. n < 0 => d * q - n \in 0..(d - 1)
  BY QuotientFacts
<1>4. RatioRounded(n, d) = IF 2 * Magnitude(n - d * q) >= d
                           THEN (IF n < 0 THEN q - 1 ELSE q + 1) ELSE q
  BY DEF RatioRounded
<1> HIDE DEF q
<1>5. CASE n >= 0
  BY <1>1, <1>2, <1>4, <1>5 DEF Magnitude
<1>6. CASE n < 0
  BY <1>1, <1>3, <1>4, <1>6 DEF Magnitude
<1> QED BY <1>5, <1>6

\* What rounds up on a charge rounds down by as much on its credit.
LEMMA RoundingIsOdd ==
  ASSUME NEW n \in Int, NEW d \in Nat \ {0}
  PROVE  RatioRounded(-n, d) = -RatioRounded(n, d)
<1> DEFINE q == Quotient(n, d)
<1>1. q \in Int /\ Quotient(-n, d) = -q /\ d * q \in Int /\ d * (-q) = -(d * q)
  BY QuotientFacts
<1>2. n = 0 => q = 0
  BY DEF Quotient
<1>3. Magnitude((-n) - d * (-q)) = Magnitude(n - d * q)
  BY <1>1 DEF Magnitude
<1>4. n = 0 => 2 * Magnitude(n - d * q) < d
  BY <1>1, <1>2 DEF Magnitude
<1>5. RatioRounded(n, d) = IF 2 * Magnitude(n - d * q) >= d
                           THEN (IF n < 0 THEN q - 1 ELSE q + 1) ELSE q
  BY DEF RatioRounded
<1>6. RatioRounded(-n, d) = IF 2 * Magnitude(n - d * q) >= d
                            THEN (IF -n < 0 THEN (-q) - 1 ELSE (-q) + 1) ELSE -q
  BY <1>1, <1>3 DEF RatioRounded
<1> HIDE DEF q
<1>7. CASE 2 * Magnitude(n - d * q) >= d
  <2>1. n # 0
    BY <1>1, <1>4, <1>7 DEF Magnitude
  <2> QED BY <1>1, <1>5, <1>6, <1>7, <2>1
<1>8. CASE ~(2 * Magnitude(n - d * q) >= d)
  BY <1>1, <1>5, <1>6, <1>8
<1> QED BY <1>7, <1>8

\* A credit of the same terms, without discount, takes back exactly what a line
\* charges, be the tax on top of the price or contained in it: the part of
\* CreditUndoes that concerns one line, for any quantity, price and rate.
THEOREM LineCredited ==
  ASSUME NEW t \in Terms, t.discount = 0, NEW inclusive \in BOOLEAN
  PROVE  LET charge == CalculateLine(t, inclusive)
             credit == CalculateLine(Negated(t), inclusive)
         IN  /\ charge.gross + credit.gross = 0
             /\ charge.tax + credit.tax = 0
             /\ charge.total + credit.total = 0
<1> DEFINE c == Negated(t)
<1>1. /\ t.price \in Int /\ t.quantity \in Nat /\ t.rate \in Nat
      /\ c.price = -t.price /\ c.quantity = t.quantity /\ c.discount = 0
      /\ c.rate = t.rate /\ c.taxable = t.taxable
  BY DEF Terms, Negated
<1>2. PICK n \in Int : n = t.quantity * t.price
  BY <1>1
<1>3. c.quantity * c.price = -n
  BY <1>1, <1>2
<1>4. Gross(t) \in Int /\ Gross(c) = -Gross(t)
  BY <1>2, <1>3, RoundingIsOdd, RoundsToNearest DEF Gross
<1>5. Net(t) = Gross(t) /\ Net(c) = -Gross(t)
  BY <1>1, <1>4 DEF Net
<1>6. PICK k \in Int : k = Net(t) * t.rate
  BY <1>1, <1>4, <1>5
<1>7. Net(c) * c.rate = -k
  BY <1>1, <1>4, <1>5, <1>6
<1>8. PICK m \in Int : m = Net(t) * 10000
  BY <1>4, <1>5
<1>9. Net(c) * 10000 = -m
  BY <1>4, <1>5, <1>8
<1>10. PICK d \in Nat \ {0} : d = 10000 + t.rate
  BY <1>1
<1>11. /\ RatioRounded(k, 10000) \in Int /\ RatioRounded(-k, 10000) = -RatioRounded(k, 10000)
       /\ RatioRounded(m, d) \in Int /\ RatioRounded(-m, d) = -RatioRounded(m, d)
  <2>1. \A i \in Int : \A e \in Nat \ {0} :
          RatioRounded(i, e) \in Int /\ RatioRounded(-i, e) = -RatioRounded(i, e)
    BY RoundingIsOdd, RoundsToNearest
  <2> HIDE DEF RatioRounded
  <2>2. RatioRounded(k, 10000) \in Int /\ RatioRounded(-k, 10000) = -RatioRounded(k, 10000)
    <3>1. 10000 \in Nat \ {0}
      OBVIOUS
    <3> QED BY <1>6, <2>1, <3>1
  <2>3. RatioRounded(m, d) \in Int /\ RatioRounded(-m, d) = -RatioRounded(m, d)
    BY <2>1
  <2> QED BY <2>2, <2>3
<1>12. TaxOf(t, inclusive) \in Int /\ TaxOf(c, inclusive) = -TaxOf(t, inclusive)
  <2>1. TaxOf(t, inclusive) = IF ~t.taxable THEN 0
                              ELSE IF inclusive THEN Gross(t) - RatioRounded(m, d)
                              ELSE RatioRounded(k, 10000)
    BY <1>5, <1>6, <1>8, <1>10 DEF TaxOf
  <2>2. TaxOf(c, inclusive) = IF ~t.taxable THEN 0
                              ELSE IF inclusive THEN (-Gross(t)) - RatioRounded(-m, d)
                              ELSE RatioRounded(-k, 10000)
    BY <1>1, <1>5, <1>7, <1>9, <1>10 DEF TaxOf
  <2> HIDE DEF c
  <2> QED BY <1>4, <1>11, <2>1, <2>2
<1>13. \A l : /\ CalculateLine(l, inclusive).gross = Gross(l)
              /\ CalculateLine(l, inclusive).tax = TaxOf(l, inclusive)
              /\ CalculateLine(l, inclusive).total
                   = IF inclusive THEN Net(l) ELSE Net(l) + TaxOf(l, inclusive)
  BY DEF CalculateLine
<1>14. \A g, x \in Int : g + (-g) = 0 /\ x + (-x) = 0 /\ (g + x) + ((-g) + (-x)) = 0
  OBVIOUS
<1> SUFFICES /\ Gross(t) + Gross(c) = 0
             /\ TaxOf(t, inclusive) + TaxOf(c, inclusive) = 0
             /\ Net(t) + Net(c) = 0
             /\ (Net(t) + TaxOf(t, inclusive)) + (Net(c) + TaxOf(c, inclusive)) = 0
  BY <1>13
<1> HIDE DEF c
<1> QED BY <1>4, <1>5, <1>12, <1>14

-----------------------------------------------------------------------------
(* What lines add up to. *)

\* A sum over lines is that of the values of the field.
LEMMA AddIsSum ==
  ASSUME NEW field, NEW ls, NEW S, IsFiniteSet(S), NEW f,
         \A i \in S : ls[i].amounts[field] \in Int /\ f[i] = ls[i].amounts[field]
  PROVE  /\ AddOf(field, ls, S) = SumFunctionOnSet(f, S)
         /\ AddOf(field, ls, S) \in Int
<1> DEFINE v == [i \in S |-> ls[i].amounts[field]]
<1>1. AddOf(field, ls, S) = SumFunctionOnSet(v, S)
  BY Zenon DEF AddOf
<1>2. \A i \in S : v[i] = f[i] /\ v[i] \in Int
  OBVIOUS
<1> HIDE DEF v
<1>3. SumFunctionOnSet(v, S) \in Int
  BY <1>2, SumInt
<1>4. SumFunctionOnSet(v, S) = SumFunctionOnSet(f, S)
  BY <1>2, SumAgrees
<1> QED BY <1>1, <1>3, <1>4

\* Some of the lines and the others add up to all.
LEMMA AddSplits ==
  ASSUME NEW field, NEW ls, NEW S, IsFiniteSet(S), \A i \in S : ls[i].amounts[field] \in Int,
         NEW U \in SUBSET S
  PROVE  AddOf(field, ls, S) = AddOf(field, ls, U) + AddOf(field, ls, S \ U)
<1> DEFINE f == [i \in S |-> ls[i].amounts[field]]
           R == S \ U
<1>1. IsFiniteSet(U) /\ IsFiniteSet(R) /\ R \subseteq S
  BY FS_Subset
<1>2. \A i \in S : ls[i].amounts[field] \in Int /\ f[i] = ls[i].amounts[field] /\ f[i] \in Int
  OBVIOUS
<1>3. \A i \in R : ls[i].amounts[field] \in Int /\ f[i] = ls[i].amounts[field]
  BY <1>1, <1>2
<1> HIDE DEF f
<1>4. SumFunctionOnSet(f, S) = SumFunctionOnSet(f, U) + SumFunctionOnSet(f, R)
  BY <1>2, SumSplits
<1> HIDE DEF R
<1>5. AddOf(field, ls, S) = SumFunctionOnSet(f, S)
  BY <1>2, AddIsSum
<1>6. AddOf(field, ls, U) = SumFunctionOnSet(f, U)
  BY <1>1, <1>2, AddIsSum
<1>7. AddOf(field, ls, R) = SumFunctionOnSet(f, R)
  BY <1>1, <1>3, AddIsSum
<1> QED BY <1>4, <1>5, <1>6, <1>7 DEF R

\* Lines that take back others one by one, in any order, take back their sum.
LEMMA AddCredits ==
  ASSUME NEW field, NEW a, NEW b, NEW S, NEW U, IsFiniteSet(S), NEW match,
         \A i \in S : /\ a[i].amounts[field] \in Int
                      /\ match[i] \in U
                      /\ b[match[i]].amounts[field] = -a[i].amounts[field],
         \A i, j \in S : match[i] = match[j] => i = j,
         \A j \in U : \E i \in S : match[i] = j
  PROVE  AddOf(field, b, U) = -AddOf(field, a, S)
<1> DEFINE f == [i \in S |-> a[i].amounts[field]]
           g == [i \in S |-> -a[i].amounts[field]]
           h == [j \in U |-> b[j].amounts[field]]
<1>1. AddOf(field, b, U) = SumFunctionOnSet(h, U) /\ AddOf(field, a, S) = SumFunctionOnSet(f, S)
  BY Zenon DEF AddOf
<1>2. \A i \in S : f[i] \in Int /\ g[i] = -f[i] /\ g[i] \in Int /\ h[match[i]] = g[i]
  OBVIOUS
<1> HIDE DEF f, g, h
<1>3. SumFunctionOnSet(h, U) = SumFunctionOnSet(g, S)
  <2>1. \A i \in S : g[i] \in Int /\ h[match[i]] = g[i]
    BY <1>2
  <2>2. \A i \in S : match[i] \in U
    OBVIOUS
  <2>3. \A i, j \in S : match[i] = match[j] => i = j
    OBVIOUS
  <2>4. \A j \in U : \E i \in S : match[i] = j
    OBVIOUS
  <2>5. IsFiniteSet(S)
    OBVIOUS
  <2> QED BY ONLY <2>1, <2>2, <2>3, <2>4, <2>5, SumRenamed
<1>4. SumFunctionOnSet(g, S) = -SumFunctionOnSet(f, S)
  BY <1>2, SumNegates
<1> QED BY <1>1, <1>3, <1>4

\* The amounts of a line are integers, its discount is not negative.
LEMMA LineTypes ==
  ASSUME NEW t \in Terms, NEW inclusive \in BOOLEAN
  PROVE  CalculateLine(t, inclusive) \in Amounts
<1>1. /\ t.price \in Int /\ t.quantity \in Nat /\ t.rate \in Nat /\ t.discount \in Nat
  BY DEF Terms
<1>2. t.quantity * t.price \in Int
  BY <1>1
<1>3. Gross(t) \in Int
  BY <1>2, RoundsToNearest DEF Gross
<1>4. Net(t) \in Int
  BY <1>1, <1>3 DEF Net
<1>5. Net(t) * 10000 \in Int /\ Net(t) * t.rate \in Int /\ 10000 + t.rate \in Nat \ {0}
  BY <1>1, <1>4
<1>6. /\ RatioRounded(Net(t) * 10000, 10000 + t.rate) \in Int
      /\ RatioRounded(Net(t) * t.rate, 10000) \in Int
  <2>1. \A n \in Int : \A d \in Nat \ {0} : RatioRounded(n, d) \in Int
    BY RoundsToNearest
  <2>2. 10000 \in Nat \ {0}
    OBVIOUS
  <2> HIDE DEF RatioRounded
  <2> QED BY <1>5, <2>1, <2>2
<1>7. TaxOf(t, inclusive) \in Int
  BY <1>4, <1>6 DEF TaxOf
<1> QED BY <1>1, <1>3, <1>4, <1>7 DEF CalculateLine, Amounts

\* Lines add up to integers, and to a discount that is not negative.
LEMMA LinesCount ==
  ASSUME NEW ls, NEW S, IsFiniteSet(S), \A i \in S : ls[i] \in PricedLines
  PROVE  /\ \A field \in {"gross", "tax", "total"} :
              /\ \A i \in S : ls[i].amounts[field] \in Int
              /\ AddOf(field, ls, S) \in Int
         /\ AddOf("discount", ls, S) \in Nat
<1>1. \A i \in S : ls[i].amounts \in Amounts
  BY DEF PricedLines
<1>2. ASSUME NEW field \in {"gross", "tax", "total"}
      PROVE  /\ \A i \in S : ls[i].amounts[field] \in Int
             /\ AddOf(field, ls, S) \in Int
  <2>1. \A i \in S : ls[i].amounts[field] \in Int
    BY <1>1 DEF Amounts
  <2> DEFINE f == [i \in S |-> ls[i].amounts[field]]
  <2>2. \A i \in S : f[i] = ls[i].amounts[field]
    OBVIOUS
  <2> HIDE DEF f
  <2> QED BY <2>1, <2>2, AddIsSum
<1>3. AddOf("discount", ls, S) \in Nat
  <2> DEFINE v == [i \in S |-> ls[i].amounts["discount"]]
  <2>1. AddOf("discount", ls, S) = SumFunctionOnSet(v, S)
    BY Zenon DEF AddOf
  <2>2. \A i \in S : v[i] \in Nat
    BY <1>1 DEF Amounts
  <2> HIDE DEF v
  <2> QED BY <2>1, <2>2, SumNat
<1> QED BY <1>2, <1>3

-----------------------------------------------------------------------------
(* An invoice over a document and over what takes it back. *)

\* The lines of sealed documents carry the amounts of their terms, and an invoice
\* over both documents the sums of both, which are sealed.
PricesInv ==
  /\ PricingTypeOK
  /\ \A doc \in Documents : \A i \in DOMAIN entered[doc] :
       entered[doc][i].amounts = CalculateLine(entered[doc][i].terms, Inclusive(doc))
  /\ \A doc \in presented : \A f \in DOMAIN fees[doc] : fees[doc][f] = FeeLine(f, doc)
  /\ bill # NotBilled /\ "CHANGE_ORDER" \in bill.documents =>
       /\ Documents \subseteq presented
       /\ bill.subtotal = Billed("gross", Documents)
       /\ bill.tax = Billed("tax", Documents)
       /\ bill.total = Billed("total", Documents)

\* Both sorts of lines of a document are typed, and finitely many.
LEMMA DocumentLines ==
  ASSUME PricingTypeOK, NEW doc \in Documents
  PROVE  /\ IsFiniteSet(DOMAIN entered[doc]) /\ IsFiniteSet(DOMAIN fees[doc])
         /\ \A i \in DOMAIN entered[doc] : entered[doc][i] \in PricedLines
         /\ \A f \in DOMAIN fees[doc] : fees[doc][f] \in PricedLines
<1>1. entered[doc] \in Seq(PricedLines)
  BY DEF PricingTypeOK
<1>2. DOMAIN entered[doc] = 1..Len(entered[doc]) /\ Len(entered[doc]) \in Nat
  BY <1>1
<1>3. IsFiniteSet(DOMAIN entered[doc])
  BY <1>2, FS_Interval
<1>4. IsFiniteSet(DOMAIN fees[doc])
  BY PricingAssumption, FS_Subset DEF PricingTypeOK
<1> QED BY <1>1, <1>3, <1>4 DEF PricingTypeOK

\* The labor of a document, which is an integer.
LEMMA LaborTypes ==
  ASSUME PricingTypeOK, NEW doc \in Documents
  PROVE  LaborGross(entered[doc]) \in Int
<1> DEFINE S == {i \in DOMAIN entered[doc] : entered[doc][i].terms.labor}
<1>1. IsFiniteSet(S) /\ \A i \in S : entered[doc][i] \in PricedLines
  BY DocumentLines, FS_Subset
<1>2. LaborGross(entered[doc]) = AddOf("gross", entered[doc], S)
  BY DEF LaborGross
<1> HIDE DEF S
<1> QED BY <1>1, <1>2, LinesCount

\* The terms of the line of a fee on an integer.
LEMMA FeeTypes ==
  ASSUME NEW f \in ShopFees, NEW g \in Int
  PROVE  FeeTerms(f, g) \in Terms
<1> DEFINE fee == FeeOf[f]
<1>1. /\ fee.rate \in Nat /\ fee.amount \in Nat /\ fee.taxable \in BOOLEAN /\ fee.taxRate \in Nat
      /\ fee.maximum # NoMaximum => fee.maximum \in Nat
  BY PricingAssumption DEF FeeRows
<1> HIDE DEF fee
<1>2. g * fee.rate \in Int
  BY <1>1
<1>3. Quotient(g * fee.rate, 10000) \in Int
  <2>1. \A n \in Int : Quotient(n, 10000) \in Int
    BY QuotientFacts
  <2> QED BY <1>2, <2>1
<1>4. FeeAmount(fee, g) \in Int
  BY <1>1, <1>3 DEF FeeAmount
<1> QED BY <1>1, <1>4 DEF FeeTerms, Terms, fee

\* The line of a fee is typed.
LEMMA FeeLineTypes ==
  ASSUME PricingTypeOK, NEW doc \in Documents, NEW f \in ShopFees
  PROVE  FeeLine(f, doc) \in PricedLines
<1> DEFINE t == FeeTerms(f, LaborGross(entered[doc]))
<1>1. t \in Terms
  BY LaborTypes, FeeTypes
<1>2. CalculateLine(t, Inclusive(doc)) \in Amounts
  BY <1>1, LineTypes DEF Inclusive, PricingTypeOK
<1>3. FeeLine(f, doc) = [terms |-> t, amounts |-> CalculateLine(t, Inclusive(doc))]
  BY DEF FeeLine, PricedLine
<1> HIDE DEF t
<1> QED BY <1>1, <1>2, <1>3 DEF PricedLines

\* A percentage without maximum of a credit is the credit of the percentage.
LEMMA FeeCredited ==
  ASSUME NEW f \in ShopFees, NEW g \in Int,
         FeeOf[f].calculation = "PERCENT_OF_LABOR", FeeOf[f].maximum = NoMaximum
  PROVE  FeeTerms(f, -g) = Negated(FeeTerms(f, g)) /\ FeeTerms(f, g).discount = 0
<1> DEFINE fee == FeeOf[f]
<1>1. fee.rate \in Nat
  BY PricingAssumption DEF FeeRows
<1>2. fee.calculation = "PERCENT_OF_LABOR" /\ fee.maximum = NoMaximum
  OBVIOUS
<1> HIDE DEF fee
<1>3. PICK n \in Int : n = g * fee.rate
  BY <1>1
<1>4. (-g) * fee.rate = -n
  BY <1>1, <1>3
<1>5. Quotient(-n, 10000) = -Quotient(n, 10000)
  BY QuotientFacts
<1>6. FeeAmount(fee, -g) = -FeeAmount(fee, g)
  BY <1>2, <1>3, <1>4, <1>5 DEF FeeAmount
<1>7. FeeAmount(FeeOf[f], -g) = -FeeAmount(FeeOf[f], g)
  BY <1>6 DEF fee
<1> DEFINE t == FeeTerms(f, g)
<1>8. FeeTerms(f, -g) = [t EXCEPT !.price = -t.price]
  <2> DEFINE a == FeeAmount(FeeOf[f], g)
  <2>1. PICK labor : labor = FALSE
    OBVIOUS
  <2> DEFINE record(x) ==
               [quantity |-> 1000, price |-> x, discount |-> 0, taxable |-> FeeOf[f].taxable,
                rate |-> FeeOf[f].taxRate, labor |-> labor, shopFee |-> f]
  <2>2. t = record(a) /\ FeeTerms(f, -g) = record(-a)
    <3>1. \A x : FeeTerms(f, x) = record(FeeAmount(FeeOf[f], x))
      BY <2>1, Zenon DEF FeeTerms
    <3> HIDE DEF record
    <3> QED BY <1>7, <3>1, Zenon
  <2> HIDE DEF t, a
  <2>3. record(a).price = a /\ [record(a) EXCEPT !.price = -a] = record(-a)
    OBVIOUS
  <2> HIDE DEF record
  <2> QED BY <2>2, <2>3
<1>9. t.discount = 0
  BY DEF FeeTerms
<1> QED BY <1>8, <1>9 DEF Negated

\* A credit, field by field.  What a line is worth before tax does not depend on
\* the mode of its document.
LEMMA CreditNegates ==
  ASSUME NEW t \in Terms, t.discount = 0, NEW m \in BOOLEAN, NEW n \in BOOLEAN,
         NEW field \in {"gross", "tax", "total"}, field = "gross" \/ m = n
  PROVE  CalculateLine(Negated(t), n)[field] = -CalculateLine(t, m)[field]
<1>1. Negated(t) \in Terms
  BY DEF Negated, Terms
<1>2. /\ CalculateLine(t, m) \in Amounts /\ CalculateLine(t, n) \in Amounts
      /\ CalculateLine(Negated(t), n) \in Amounts
  BY <1>1, LineTypes
<1>3. /\ CalculateLine(t, n).gross + CalculateLine(Negated(t), n).gross = 0
      /\ CalculateLine(t, n).tax + CalculateLine(Negated(t), n).tax = 0
      /\ CalculateLine(t, n).total + CalculateLine(Negated(t), n).total = 0
  BY LineCredited
<1>4. ASSUME NEW a \in Amounts, NEW b \in Amounts,
             a.gross + b.gross = 0, a.tax + b.tax = 0, a.total + b.total = 0
      PROVE  b[field] = -a[field]
  <2>1. /\ a.gross \in Int /\ a.tax \in Int /\ a.total \in Int
        /\ b.gross \in Int /\ b.tax \in Int /\ b.total \in Int
    BY DEF Amounts
  <2>2. b.gross = -a.gross /\ b.tax = -a.tax /\ b.total = -a.total
    <3>1. \A i, j \in Int : i + j = 0 => j = -i
      OBVIOUS
    <3> QED BY <1>4, <2>1, <3>1
  <2> QED BY <2>2
<1>5. CalculateLine(Negated(t), n)[field] = -CalculateLine(t, n)[field]
  BY <1>2, <1>3, <1>4
<1>6. CalculateLine(t, n).gross = CalculateLine(t, m).gross
  BY DEF CalculateLine
<1> QED BY <1>5, <1>6

\* Nothing is entered, sealed or billed yet.
LEMMA PricesInit == PricingInit => PricesInv
<1> SUFFICES ASSUME PricingInit PROVE PricesInv
  OBVIOUS
<1>1. << >> \in Seq(PricedLines) /\ DOMAIN << >> = {}
  OBVIOUS
<1>2. PricingTypeOK
  BY <1>1 DEF PricingInit, PricingTypeOK
<1> QED BY <1>1, <1>2 DEF PricingInit, PricesInv, Documents

\* The catalog of fees changes no document.
LEMMA CatalogKeepsPrices ==
  ASSUME PricesInv, NEW f \in ShopFees, CreateShopFee(f) \/ DeactivateShopFee(f)
  PROVE  PricesInv'
<1>1. UNCHANGED <<taxInclusive, entered, fees, presented, bill>>
  BY DEF CreateShopFee, DeactivateShopFee
<1>2. feeStatus' \in [ShopFees -> {"ABSENT", "ACTIVE", "INACTIVE"}]
  BY DEF CreateShopFee, DeactivateShopFee, PricesInv, PricingTypeOK
<1>3. PricingTypeOK'
  BY <1>1, <1>2 DEF PricesInv, PricingTypeOK
<1>4. /\ \A doc : Inclusive(doc)' = Inclusive(doc)
      /\ \A doc, g : FeeLine(g, doc)' = FeeLine(g, doc)
      /\ \A field : Billed(field, Documents)' = Billed(field, Documents)
  BY <1>1 DEF Inclusive, FeeLine, PricedLine, Billed
<1> QED BY <1>1, <1>3, <1>4 DEF PricesInv

\* A line enters a document that is not sealed.
LEMMA LineKeepsPrices ==
  ASSUME PricesInv, NEW doc \in Documents, AddPricedLine(doc)
  PROVE  PricesInv'
<1> DEFINE old == entered[doc]
<1>1. PICK t \in Offered : entered' = [entered EXCEPT ![doc] = Append(@, PricedLine(t, doc))]
  BY DEF AddPricedLine
<1> DEFINE l == PricedLine(t, doc)
<1>2. /\ doc \notin presented
      /\ UNCHANGED <<taxInclusive, feeStatus, fees, presented, bill>>
  BY DEF AddPricedLine
<1>3. /\ taxInclusive \in BOOLEAN /\ old \in Seq(PricedLines)
      /\ entered \in [Documents -> Seq(PricedLines)]
  BY DEF PricesInv, PricingTypeOK
<1>4. l \in PricedLines /\ l.amounts = CalculateLine(l.terms, Inclusive(doc))
  <2>1. t \in Terms /\ Inclusive(doc) \in BOOLEAN
    BY <1>3, PricingAssumption DEF Inclusive
  <2>2. CalculateLine(t, Inclusive(doc)) \in Amounts
    BY <2>1, LineTypes
  <2> QED BY <2>1, <2>2 DEF PricedLine, PricedLines
<1>5. entered' = [entered EXCEPT ![doc] = Append(old, l)]
  BY <1>1, <1>3
<1>6. \A e : Inclusive(e)' = Inclusive(e)
  BY <1>2 DEF Inclusive
<1> HIDE DEF l
<1>7. /\ Append(old, l) \in Seq(PricedLines)
      /\ \A i \in DOMAIN Append(old, l) :
           (i \in DOMAIN old /\ Append(old, l)[i] = old[i]) \/ Append(old, l)[i] = l
  BY <1>3, <1>4
<1>8. PricingTypeOK'
  BY <1>2, <1>5, <1>7 DEF PricesInv, PricingTypeOK
<1>9. ASSUME NEW e \in Documents, NEW i \in DOMAIN entered'[e]
      PROVE  entered'[e][i].amounts = CalculateLine(entered'[e][i].terms, Inclusive(e)')
  <2>1. CASE e = doc
    <3>1. entered'[e] = Append(old, l)
      BY <1>3, <1>5, <2>1
    <3>2. (i \in DOMAIN old /\ entered'[e][i] = old[i]) \/ entered'[e][i] = l
      BY <1>7, <1>9, <3>1
    <3> QED BY <1>4, <1>6, <2>1, <3>2 DEF PricesInv
  <2>2. CASE e # doc
    <3>1. entered'[e] = entered[e]
      BY <1>3, <1>5, <2>2
    <3> QED BY <1>6, <1>9, <3>1 DEF PricesInv
  <2> QED BY <2>1, <2>2
<1>10. \A e \in presented : entered'[e] = entered[e] /\ \A f : FeeLine(f, e)' = FeeLine(f, e)
  <2> TAKE e \in presented
  <2>1. entered'[e] = entered[e]
    BY <1>2, <1>3, <1>5 DEF PricesInv, PricingTypeOK
  <2> QED BY <1>6, <2>1 DEF FeeLine, PricedLine
<1>11. (\A e \in presented : \A f \in DOMAIN fees[e] : fees[e][f] = FeeLine(f, e))'
  BY <1>2, <1>10 DEF PricesInv
<1>12. bill # NotBilled => "CHANGE_ORDER" \notin bill.documents
  BY <1>2 DEF PricesInv
<1> QED BY <1>2, <1>8, <1>9, <1>11, <1>12 DEF PricesInv

\* Sealing a document adds its fees.
LEMMA SealKeepsPrices ==
  ASSUME PricesInv, NEW doc \in Documents, PresentDocument(doc)
  PROVE  PricesInv'
<1> DEFINE added == [f \in FeesFor(doc) |-> FeeLine(f, doc)]
<1>1. /\ doc \notin presented /\ presented' = presented \cup {doc}
      /\ fees' = [fees EXCEPT ![doc] = added]
      /\ UNCHANGED <<taxInclusive, feeStatus, entered, bill>>
  BY DEF PresentDocument
<1>2. PricingTypeOK /\ DOMAIN fees = Documents /\ presented \subseteq Documents
  BY DEF PricesInv, PricingTypeOK
<1>3. /\ DOMAIN added \subseteq ShopFees
      /\ \A f \in DOMAIN added : added[f] = FeeLine(f, doc) /\ added[f] \in PricedLines
  BY <1>2, FeeLineTypes DEF FeesFor
<1> HIDE DEF added
<1>4. /\ DOMAIN fees' = Documents /\ fees'[doc] = added
      /\ \A e \in Documents : e # doc => fees'[e] = fees[e]
  BY <1>1, <1>2
<1>5. PricingTypeOK'
  BY <1>1, <1>2, <1>3, <1>4 DEF PricingTypeOK
<1>6. \A e : Inclusive(e)' = Inclusive(e) /\ \A f : FeeLine(f, e)' = FeeLine(f, e)
  BY <1>1 DEF Inclusive, FeeLine, PricedLine
<1>7. ASSUME NEW e \in presented', NEW f \in DOMAIN fees'[e]
      PROVE  fees'[e][f] = FeeLine(f, e)'
  BY <1>1, <1>2, <1>3, <1>4, <1>6, <1>7 DEF PricesInv
<1>8. bill # NotBilled => "CHANGE_ORDER" \notin bill.documents
  BY <1>1 DEF PricesInv
<1>9. (\A e \in Documents : \A i \in DOMAIN entered[e] :
         entered[e][i].amounts = CalculateLine(entered[e][i].terms, Inclusive(e)))'
  BY <1>1, <1>6 DEF PricesInv
<1> QED BY <1>1, <1>5, <1>7, <1>8, <1>9 DEF PricesInv

\* What documents come to is an integer, and their discount is not negative.
LEMMA BilledTypes ==
  ASSUME PricingTypeOK, NEW docs
  PROVE  /\ \A field \in {"gross", "tax", "total"} : Billed(field, docs) \in Int
         /\ Billed("discount", docs) \in Nat
<1>1. \A doc \in Documents :
        /\ \A field \in {"gross", "tax", "total"} :
             Add(field, entered[doc]) \in Int /\ Add(field, fees[doc]) \in Int
        /\ Add("discount", entered[doc]) \in Nat /\ Add("discount", fees[doc]) \in Nat
  BY DocumentLines, LinesCount DEF Add
<1> QED BY <1>1 DEF Billed, Documents

\* The invoice adds up what is sealed.
LEMMA BillKeepsPrices ==
  ASSUME PricesInv, BillLines
  PROVE  PricesInv'
<1>1. /\ "BASELINE" \in presented
      /\ bill' = [documents |-> presented,
                  subtotal |-> Billed("gross", presented),
                  discount |-> Billed("discount", presented),
                  tax |-> Billed("tax", presented), total |-> Billed("total", presented)]
      /\ UNCHANGED <<taxInclusive, feeStatus, entered, fees, presented>>
  BY DEF BillLines
<1>2. PricingTypeOK /\ presented \subseteq Documents
  BY DEF PricesInv, PricingTypeOK
<1>3. PricingTypeOK'
  <2>1. /\ Billed("gross", presented) \in Int /\ Billed("discount", presented) \in Nat
        /\ Billed("tax", presented) \in Int /\ Billed("total", presented) \in Int
    BY <1>2, BilledTypes
  <2> QED BY <1>1, <1>2, <2>1 DEF PricingTypeOK
<1>4. /\ \A doc : Inclusive(doc)' = Inclusive(doc)
      /\ \A doc, f : FeeLine(f, doc)' = FeeLine(f, doc)
      /\ \A field : Billed(field, Documents)' = Billed(field, Documents)
  BY <1>1 DEF Inclusive, FeeLine, PricedLine, Billed
<1>5. "CHANGE_ORDER" \in presented => presented = Documents
  BY <1>1, <1>2 DEF Documents
<1>6. ("CHANGE_ORDER" \in bill.documents =>
        /\ Documents \subseteq presented
        /\ bill.subtotal = Billed("gross", Documents)
        /\ bill.tax = Billed("tax", Documents)
        /\ bill.total = Billed("total", Documents))'
  BY <1>1, <1>4, <1>5
<1> QED BY <1>1, <1>3, <1>4, <1>6 DEF PricesInv

\* No step changes the lines or the fees of a sealed document.
LEMMA PricesStep == PricesInv /\ [PricingNext]_pricingVars => PricesInv'
<1> SUFFICES ASSUME PricesInv, [PricingNext]_pricingVars PROVE PricesInv'
  OBVIOUS
<1>1. CASE UNCHANGED pricingVars
  BY <1>1 DEF pricingVars, PricesInv, PricingTypeOK, FeeLine, PricedLine, Billed, Inclusive
<1>2. CASE PricingNext
  BY <1>2, CatalogKeepsPrices, LineKeepsPrices, SealKeepsPrices, BillKeepsPrices DEF PricingNext
<1> QED BY <1>1, <1>2

\* The lines of the change order take back those of the estimate, and so does its
\* labor that of the estimate.
LEMMA LinesTakenBack ==
  ASSUME PricesInv, TakenBack, NEW field \in {"gross", "tax", "total"},
         field = "gross" \/ ~taxInclusive
  PROVE  /\ Add(field, entered["CHANGE_ORDER"]) = -Add(field, entered["BASELINE"])
         /\ LaborGross(entered["CHANGE_ORDER"]) = -LaborGross(entered["BASELINE"])
<1> DEFINE work == entered["BASELINE"]
           credit == entered["CHANGE_ORDER"]
<1>1. /\ IsFiniteSet(DOMAIN work)
      /\ \A i \in DOMAIN work : work[i] \in PricedLines
      /\ \A i \in DOMAIN credit : credit[i] \in PricedLines
  BY DocumentLines DEF PricesInv, Documents
<1>2. /\ \A i \in DOMAIN work : work[i].amounts = CalculateLine(work[i].terms, taxInclusive)
      /\ \A i \in DOMAIN credit : credit[i].amounts = CalculateLine(credit[i].terms, FALSE)
      /\ taxInclusive \in BOOLEAN
  <2>1. taxInclusive \in BOOLEAN
    BY DEF PricesInv, PricingTypeOK
  <2>2. Inclusive("BASELINE") = taxInclusive /\ Inclusive("CHANGE_ORDER") = FALSE
    BY <2>1 DEF Inclusive
  <2> QED BY <2>1, <2>2 DEF PricesInv, Documents
<1>3. PICK match \in Bijection(DOMAIN work, DOMAIN credit) :
        \A i \in DOMAIN match :
          work[i].terms.discount = 0 /\ credit[match[i]].terms = Negated(work[i].terms)
  BY DEF TakenBack
<1>4. /\ match \in [DOMAIN work -> DOMAIN credit]
      /\ \A i, j \in DOMAIN work : match[i] = match[j] => i = j
      /\ \A j \in DOMAIN credit : \E i \in DOMAIN work : match[i] = j
  BY DEF Bijection, Injection, Surjection, IsInjective
<1>5. ASSUME NEW i \in DOMAIN work
      PROVE  /\ work[i].terms \in Terms /\ work[i].terms.discount = 0
             /\ match[i] \in DOMAIN credit
             /\ credit[match[i]].terms = Negated(work[i].terms)
             /\ credit[match[i]].terms.labor = work[i].terms.labor
  <2>1. work[i].terms \in Terms
    BY <1>1 DEF PricedLines
  <2>2. /\ match[i] \in DOMAIN credit /\ work[i].terms.discount = 0
        /\ credit[match[i]].terms = Negated(work[i].terms)
    BY <1>3, <1>4
  <2> QED BY <2>1, <2>2 DEF Negated, Terms
<1>6. ASSUME NEW k \in {"gross", "tax", "total"}, k = "gross" \/ ~taxInclusive,
             NEW i \in DOMAIN work
      PROVE  /\ work[i].amounts[k] \in Int
             /\ credit[match[i]].amounts[k] = -work[i].amounts[k]
  <2>1. CalculateLine(Negated(work[i].terms), FALSE)[k]
          = -CalculateLine(work[i].terms, taxInclusive)[k]
    BY <1>2, <1>5, <1>6, CreditNegates
  <2>2. work[i].amounts[k] \in Int
    BY <1>1, LinesCount
  <2> QED BY <1>2, <1>5, <2>1, <2>2
<1> DEFINE S == DOMAIN work
           U == DOMAIN credit
           L == {i \in S : work[i].terms.labor}
           K == {i \in U : credit[i].terms.labor}
<1>7. IsFiniteSet(L)
  BY <1>1, FS_Subset
<1>8. /\ \A i \in L : i \in S /\ match[i] \in K
      /\ \A j \in K : \E i \in L : match[i] = j
  BY <1>4, <1>5
<1>9. /\ Add(field, work) = AddOf(field, work, S) /\ Add(field, credit) = AddOf(field, credit, U)
      /\ LaborGross(work) = AddOf("gross", work, L)
      /\ LaborGross(credit) = AddOf("gross", credit, K)
  BY DEF Add, LaborGross
<1> HIDE DEF L, K
<1>10. AddOf("gross", credit, K) = -AddOf("gross", work, L)
  <2>1. \A i \in L : /\ work[i].amounts["gross"] \in Int /\ match[i] \in K
                     /\ credit[match[i]].amounts["gross"] = -work[i].amounts["gross"]
    BY <1>6, <1>8
  <2>2. \A i, j \in L : match[i] = match[j] => i = j
    BY <1>4, <1>8
  <2> HIDE DEF work, credit
  <2> QED BY <1>7, <1>8, <2>1, <2>2, AddCredits
<1>11. AddOf(field, credit, U) = -AddOf(field, work, S)
  <2>1. \A i \in S : /\ work[i].amounts[field] \in Int /\ match[i] \in U
                     /\ credit[match[i]].amounts[field] = -work[i].amounts[field]
    BY <1>5, <1>6
  <2> HIDE DEF work, credit
  <2> QED BY <1>1, <1>4, <2>1, AddCredits
<1> QED BY <1>9, <1>10, <1>11

\* Of the fees some cancel out, and the others are kept.
LEMMA OnlyFeesRemain ==
  ASSUME PricesInv, bill # NotBilled, TakenBack, NEW field \in {"gross", "tax", "total"},
         field = "gross" \/ ~taxInclusive
  PROVE  Billed(field, Documents) = FeesKept(field)
<1> DEFINE work == entered["BASELINE"]
           credit == entered["CHANGE_ORDER"]
           charged == fees["BASELINE"]
           returned == fees["CHANGE_ORDER"]
           B == DOMAIN charged
           C == DOMAIN returned
           T == FeesTakenBack
           g == LaborGross(work)
<1>1. /\ IsFiniteSet(DOMAIN work) /\ IsFiniteSet(B) /\ IsFiniteSet(C)
      /\ \A i \in DOMAIN work : work[i] \in PricedLines
      /\ \A f \in B : charged[f] \in PricedLines
      /\ \A f \in C : returned[f] \in PricedLines
  BY DocumentLines DEF PricesInv, Documents
<1>2. /\ Add(field, credit) = -Add(field, work) /\ LaborGross(credit) = -g
      /\ g \in Int /\ Add(field, work) \in Int
  BY <1>1, LinesTakenBack, LaborTypes, LinesCount DEF PricesInv, Documents, Add
<1>3. T \subseteq B /\ T \subseteq C /\ T \subseteq ShopFees
  BY DEF FeesTakenBack, PricesInv, PricingTypeOK, Documents
<1>4. ASSUME NEW f \in T
      PROVE  returned[f].amounts[field] = -charged[f].amounts[field]
  <2>1. /\ taxInclusive \in BOOLEAN
        /\ Inclusive("BASELINE") = taxInclusive /\ Inclusive("CHANGE_ORDER") = FALSE
    BY DEF Inclusive, PricesInv, PricingTypeOK
  <2>2. charged[f] = FeeLine(f, "BASELINE") /\ returned[f] = FeeLine(f, "CHANGE_ORDER")
    BY <1>3 DEF PricesInv, TakenBack, Documents
  <2>3. /\ charged[f].amounts = CalculateLine(FeeTerms(f, g), taxInclusive)
        /\ returned[f].amounts = CalculateLine(FeeTerms(f, -g), FALSE)
    <3>1. LaborGross(entered["BASELINE"]) = g /\ LaborGross(entered["CHANGE_ORDER"]) = -g
      BY <1>2
    <3>2. /\ charged[f] = PricedLine(FeeTerms(f, g), "BASELINE")
          /\ returned[f] = PricedLine(FeeTerms(f, -g), "CHANGE_ORDER")
      <4> HIDE DEF charged, returned, g
      <4> QED BY <2>2, <3>1 DEF FeeLine
    <3> HIDE DEF charged, returned, g
    <3>3. /\ \A t : PricedLine(t, "BASELINE").amounts = CalculateLine(t, taxInclusive)
          /\ \A t : PricedLine(t, "CHANGE_ORDER").amounts = CalculateLine(t, FALSE)
      BY <2>1 DEF PricedLine
    <3> QED BY <3>2, <3>3
  <2> HIDE DEF charged, returned, g
  <2>4. FeeTerms(f, -g) = Negated(FeeTerms(f, g)) /\ FeeTerms(f, g).discount = 0
    BY <1>2, <1>3, FeeCredited DEF FeesTakenBack
  <2>5. FeeTerms(f, g) \in Terms
    BY <1>2, <1>3, FeeTypes
  <2>6. CalculateLine(Negated(FeeTerms(f, g)), FALSE)[field]
          = -CalculateLine(FeeTerms(f, g), taxInclusive)[field]
    BY <2>1, <2>4, <2>5, CreditNegates
  <2> QED BY <2>3, <2>4, <2>6
<1>5. /\ Add(field, charged) = AddOf(field, charged, B)
      /\ Add(field, returned) = AddOf(field, returned, C)
      /\ Billed(field, Documents)
           = (Add(field, work) + Add(field, charged)) + (Add(field, credit) + Add(field, returned))
      /\ FeesKept(field) = AddOf(field, charged, B \ T) + AddOf(field, returned, C \ T)
  BY DEF Add, Billed, FeesKept, Documents
<1> HIDE DEF work, credit, charged, returned, B, C, T, g
<1>6. /\ \A f \in B : charged[f].amounts[field] \in Int
      /\ \A f \in C : returned[f].amounts[field] \in Int
  BY <1>1, LinesCount
<1>7. IsFiniteSet(T) /\ IsFiniteSet(B \ T) /\ IsFiniteSet(C \ T)
  BY <1>1, <1>3, FS_Subset, FS_Difference
<1>8. AddOf(field, charged, B) = AddOf(field, charged, T) + AddOf(field, charged, B \ T)
  BY <1>1, <1>3, <1>6, AddSplits
<1>9. AddOf(field, returned, C) = AddOf(field, returned, T) + AddOf(field, returned, C \ T)
  BY <1>1, <1>3, <1>6, AddSplits
<1>10. AddOf(field, returned, T) = -AddOf(field, charged, T)
  <2> DEFINE match == [f \in T |-> f]
  <2>1. \A f \in T : /\ charged[f].amounts[field] \in Int /\ match[f] \in T
                     /\ returned[match[f]].amounts[field] = -charged[f].amounts[field]
    BY <1>3, <1>4, <1>6
  <2>2. /\ \A f, h \in T : match[f] = match[h] => f = h
        /\ \A h \in T : \E f \in T : match[f] = h
    OBVIOUS
  <2> HIDE DEF match
  <2> QED BY <1>7, <2>1, <2>2, AddCredits
<1>11. /\ AddOf(field, charged, T) \in Int /\ AddOf(field, charged, B \ T) \in Int
       /\ AddOf(field, returned, C \ T) \in Int
  <2>1. /\ \A f \in T : charged[f] \in PricedLines
        /\ \A f \in B \ T : charged[f] \in PricedLines
        /\ \A f \in C \ T : returned[f] \in PricedLines
    BY <1>1, <1>3
  <2> DEFINE BT == B \ T
             CT == C \ T
  <2>2. /\ IsFiniteSet(BT) /\ \A f \in BT : charged[f] \in PricedLines
        /\ IsFiniteSet(CT) /\ \A f \in CT : returned[f] \in PricedLines
    BY <1>7, <2>1
  <2> HIDE DEF BT, CT
  <2>3. AddOf(field, charged, BT) \in Int /\ AddOf(field, returned, CT) \in Int
    BY <2>2, LinesCount
  <2>4. AddOf(field, charged, T) \in Int
    BY <1>7, <2>1, LinesCount
  <2> QED BY <2>3, <2>4 DEF BT, CT
<1> QED BY <1>2, <1>5, <1>8, <1>9, <1>10, <1>11

\* In every sequence of lines, presentations, changes of fees and billing the
\* pricing state is of its type: the totals of documents of any length are integers,
\* and no discount becomes negative (money.ts, sumLines).
THEOREM PricesAreTyped == PricingSpec => []PricingTypeOK
<1>1. PricesInv => PricingTypeOK
  BY DEF PricesInv
<1> QED BY <1>1, PricesInit, PricesStep, PTL DEF PricingSpec

\* For documents of any length, amounts of any size, any fees and lines taken back
\* in any order, work and its reversal come to nothing on one invoice but the fees
\* that the code does not take back.
THEOREM ReversalLeavesFees == PricingSpec => []CreditUndoes
<1>1. PricesInv => CreditUndoes
  <2> SUFFICES ASSUME PricesInv, bill # NotBilled, TakenBack
               PROVE  /\ bill.subtotal = FeesKept("gross")
                      /\ ~taxInclusive => /\ bill.tax = FeesKept("tax")
                                          /\ bill.total = FeesKept("total")
    BY DEF CreditUndoes
  <2>1. /\ bill.subtotal = Billed("gross", Documents) /\ bill.tax = Billed("tax", Documents)
        /\ bill.total = Billed("total", Documents)
    BY DEF PricesInv, TakenBack
  <2>2. Billed("gross", Documents) = FeesKept("gross")
    BY OnlyFeesRemain
  <2>3. ~taxInclusive => /\ Billed("tax", Documents) = FeesKept("tax")
                         /\ Billed("total", Documents) = FeesKept("total")
    BY OnlyFeesRemain
  <2> QED BY <2>1, <2>2, <2>3
<1> QED BY <1>1, PricesInit, PricesStep, PTL DEF PricingSpec

-----------------------------------------------------------------------------
(* Numbers as the database orders them. *)

\* A factor that both sides of a comparison share.
LEMMA Scaled ==
  ASSUME NEW x \in Nat, NEW y \in Nat, NEW k \in Nat \ {0}
  PROVE  /\ x < y <=> x * k < y * k
         /\ x = y <=> x * k = y * k
<1>1. x < y => x * k < y * k
  BY SMT
<1>2. y < x => y * k < x * k
  BY SMT
<1>3. x * k \in Nat /\ y * k \in Nat
  BY SMT
<1> QED BY <1>1, <1>2, <1>3

\* Digits are ordered transitively.
LEMMA BeforeTransitive ==
  ASSUME NEW k \in 1..Last, NEW m \in 1..Last, NEW n \in 1..Last,
         Before(k, m), Before(m, n)
  PROVE  Before(k, n)
<1> DEFINE a == Width[k]
           b == Width[m]
           c == Width[n]
<1>1. a \in Nat \ {0} /\ b \in Nat \ {0} /\ c \in Nat \ {0}
  BY NumberAssumption
<1>2. k \in Nat /\ m \in Nat /\ n \in Nat
  BY NumberAssumption
<1>3. /\ k * b < m * a \/ (k * b = m * a /\ k < m)
      /\ m * c < n * b \/ (m * c = n * b /\ m < n)
  BY DEF Before
<1> HIDE DEF a, b, c
<1>4. /\ k * b \in Nat /\ m * a \in Nat /\ m * c \in Nat /\ n * b \in Nat
      /\ k * c \in Nat /\ n * a \in Nat
  BY <1>1, <1>2, SMT
<1>5. /\ k * b < m * a <=> (k * b) * c < (m * a) * c
      /\ k * b = m * a <=> (k * b) * c = (m * a) * c
  BY <1>1, <1>4, Scaled
<1>6. /\ m * c < n * b <=> (m * c) * a < (n * b) * a
      /\ m * c = n * b <=> (m * c) * a = (n * b) * a
  BY <1>1, <1>4, Scaled
<1>7. /\ k * c < n * a <=> (k * c) * b < (n * a) * b
      /\ k * c = n * a <=> (k * c) * b = (n * a) * b
  BY <1>1, <1>4, Scaled
<1>8. /\ (k * b) * c = (k * c) * b
      /\ (m * a) * c = (m * c) * a
      /\ (n * b) * a = (n * a) * b
  BY <1>1, <1>2, SMT
<1>9. /\ (k * b) * c \in Nat /\ (m * a) * c \in Nat /\ (n * b) * a \in Nat
  BY <1>1, <1>4, SMT
<1>10. k * c < n * a \/ (k * c = n * a /\ k < n)
  <2> DEFINE u == (k * c) * b
             v == (m * c) * a
             w == (n * a) * b
  <2>1. u \in Nat /\ v \in Nat /\ w \in Nat
    BY <1>8, <1>9
  <2>2. u < v \/ (u = v /\ k < m)
    BY <1>3, <1>5, <1>8
  <2>3. v < w \/ (v = w /\ m < n)
    BY <1>3, <1>6, <1>8
  <2>4. u < w \/ (u = w /\ k < n)
    <3> HIDE DEF u, v, w
    <3> QED BY <1>2, <2>1, <2>2, <2>3
  <2> QED BY <1>7, <2>4
<1> QED BY <1>10 DEF Before, a, b, c

\* So are the numbers.
LEMMA StringOrder ==
  ASSUME NEW a \in Numbers, NEW b \in Numbers, NEW c \in Numbers
  PROVE  /\ ~StringLess(a, a)
         /\ StringLess(a, b) /\ StringLess(b, c) => StringLess(a, c)
<1>1. /\ a.n \in 1..Last /\ b.n \in 1..Last /\ c.n \in 1..Last
      /\ a.prefix \in Prefixes /\ b.prefix \in Prefixes /\ c.prefix \in Prefixes
  BY DEF Numbers
<1>2. /\ Rank[a.prefix] \in Int /\ Rank[b.prefix] \in Int /\ Rank[c.prefix] \in Int
  BY <1>1, NumberAssumption
<1>3. ~StringLess(a, a)
  BY <1>1, <1>2, NumberAssumption DEF StringLess, Before
<1>4. Before(a.n, b.n) /\ Before(b.n, c.n) => Before(a.n, c.n)
  BY <1>1, BeforeTransitive
<1> QED BY <1>2, <1>3, <1>4 DEF StringLess

\* A set of numbers has a latest one, if it has any.
Sorted(S) == S = {} \/ \E a \in S : \A b \in S : ~StringLess(a, b)

\* One more number leaves one of them the latest.
LEMMA SortedAdd ==
  ASSUME NEW S \in SUBSET Numbers, NEW x \in Numbers, Sorted(S)
  PROVE  Sorted(S \cup {x})
<1>1. ~StringLess(x, x)
  BY StringOrder
<1>2. CASE S = {}
  BY <1>1, <1>2 DEF Sorted
<1>3. CASE S # {}
  <2>1. PICK a \in S : \A b \in S : ~StringLess(a, b)
    BY <1>3 DEF Sorted
  <2>2. CASE StringLess(a, x)
    <3>1. \A b \in S : ~StringLess(x, b)
      BY <2>1, <2>2, StringOrder
    <3> QED BY <1>1, <3>1 DEF Sorted
  <2>3. CASE ~StringLess(a, x)
    BY <2>1, <2>3 DEF Sorted
  <2> QED BY <2>2, <2>3
<1> QED BY <1>2, <1>3

-----------------------------------------------------------------------------
(* NumberSeries: no gaps. *)

OfPrefix(l, p) == {a \in invoices[l] : a.prefix = p}

\* An invoice's number is the first of its series or follows one that is there.
Follows(l, a) == a.n = First \/ [a EXCEPT !.n = a.n - 1] \in invoices[l]

\* Every series has a latest number, and what a request is about to insert
\* follows one that was issued.
SeriesInv ==
  /\ NumbersTypeOK
  /\ Gapless
  /\ Sorted(orders)
  /\ \A l \in Locations, p \in Prefixes : Sorted(OfPrefix(l, p))
  /\ \A c \in Clerks : series[c] \in Locations => Follows(series[c], proposal[c])
  /\ \A c \in Clerks : series[c] # "none" => proposal[c] \in Numbers

\* All series are empty at first, and nobody proposes a number.
LEMMA SeriesInit == NumbersInit => SeriesInv
<1> SUFFICES ASSUME NumbersInit PROVE SeriesInv
  OBVIOUS
<1>1. NumbersTypeOK
  BY NumberAssumption DEF NumbersInit, NumbersTypeOK
<1>2. \A l \in Locations, p \in Prefixes : OfPrefix(l, p) = {}
  BY DEF NumbersInit, OfPrefix
<1> QED BY <1>1, <1>2, NumberAssumption DEF NumbersInit, SeriesInv, Gapless, Sorted

\* Requests begin, end and settings change: no invoice is made.
LEMMA SeriesQuiet ==
  ASSUME SeriesInv, NumbersTypeOK', UNCHANGED invoices, Sorted(orders'),
         \A c \in Clerks : series'[c] \in Locations => Follows(series'[c], proposal'[c]),
         \A c \in Clerks : series'[c] # "none" => proposal'[c] \in Numbers
  PROVE  SeriesInv'
<1>1. \A l, a : Follows(l, a)' <=> Follows(l, a)
  BY DEF Follows
<1>2. \A l, p : OfPrefix(l, p)' = OfPrefix(l, p)
  BY DEF OfPrefix
<1>3. /\ Sorted(orders)'
      /\ \A l \in Locations, p \in Prefixes : Sorted(OfPrefix(l, p))'
  BY <1>2 DEF SeriesInv, Sorted, StringLess, Before
<1>4. \A c \in Clerks : series'[c] \in Locations => Follows(series[c], proposal[c])'
  BY DEF Follows
<1> QED BY <1>3, <1>4 DEF SeriesInv, Gapless

\* The number a request proposes for an invoice is the first of its series or
\* follows the latest.
LEMMA NextFollows ==
  ASSUME SeriesInv, NEW l \in Locations
  PROVE  /\ NextInvoice(l).prefix \in Prefixes /\ NextInvoice(l).n \in Nat \ {0}
         /\ Follows(l, NextInvoice(l))
<1> DEFINE p == PrefixOf(l)
           S == OfPrefix(l, p)
<1>1. p \in Prefixes
  BY DEF SeriesInv, NumbersTypeOK, PrefixOf
<1>2. NextInvoice(l) = [prefix |-> p, n |-> IF S = {} THEN First ELSE Latest(S).n + 1]
  BY DEF NextInvoice, NumberAfter, OfPrefix
<1>3. CASE S = {}
  BY <1>1, <1>2, <1>3, NumberAssumption DEF Follows
<1>4. CASE S # {}
  <2>1. Latest(S) \in S
    <3>1. \E a \in S : \A b \in S : ~StringLess(a, b)
      BY <1>1, <1>4 DEF SeriesInv, Sorted
    <3> QED BY <3>1 DEF Latest
  <2>2. Latest(S) \in invoices[l] /\ Latest(S) \in Numbers /\ Latest(S).prefix = p
    BY <2>1 DEF OfPrefix, SeriesInv, NumbersTypeOK
  <2>3. Latest(S).n \in 1..Last
    BY <2>2 DEF Numbers
  <2>4. Latest(S) = [prefix |-> p, n |-> Latest(S).n]
    BY <2>2 DEF Numbers
  <2>5. [NextInvoice(l) EXCEPT !.n = NextInvoice(l).n - 1] = [prefix |-> p, n |-> Latest(S).n]
    BY <1>2, <1>4, <2>3, NumberAssumption
  <2> QED BY <1>1, <1>2, <1>4, <2>2, <2>3, <2>4, <2>5, NumberAssumption DEF Follows
<1> QED BY <1>3, <1>4

\* A request ends.
LEMMA RetireSeries ==
  ASSUME SeriesInv, NEW c \in Clerks, Retire(c)
  PROVE  /\ series' \in [Clerks -> Locations \cup {"none", "orders"}]
         /\ proposal' \in [Clerks -> Numbers \cup {NoNumber}]
         /\ series'[c] = "none"
         /\ \A d \in Clerks : d # c => series'[d] = series[d] /\ proposal'[d] = proposal[d]
BY DEF Retire, SeriesInv, NumbersTypeOK

\* The number that is inserted continues its series, or is refused.
LEMMA InsertSeries ==
  ASSUME SeriesInv, NEW c \in Clerks, InsertInvoice(c)
  PROVE  SeriesInv'
<1> DEFINE l == series[c]
           x == proposal[c]
<1>1. /\ l \in Locations /\ x \in Numbers /\ Follows(l, x)
      /\ invoices' = [invoices EXCEPT ![l] = @ \cup {x}]
      /\ Retire(c) /\ UNCHANGED <<orderPrefix, invoicePrefix, ownPrefix, orders>>
      /\ x.prefix \in Prefixes
  BY NumberAssumption DEF InsertInvoice, SeriesInv, settingVars, Numbers
<1>2. /\ invoices' \in [Locations -> SUBSET Numbers]
      /\ \A k \in Locations : invoices[k] \subseteq invoices'[k]
      /\ \A k \in Locations : k # l => invoices'[k] = invoices[k]
      /\ invoices'[l] = invoices[l] \cup {x}
  BY <1>1 DEF SeriesInv, NumbersTypeOK
<1>3. \A k \in Locations, a \in Numbers : Follows(k, a) => Follows(k, a)'
  BY <1>2 DEF Follows
<1>4. NumbersTypeOK'
  BY <1>1, <1>2, RetireSeries DEF SeriesInv, NumbersTypeOK
<1>5. Gapless'
  <2>1. \A k \in Locations, a \in Numbers : a \in invoices[k] => Follows(k, a)
    BY DEF SeriesInv, Gapless, Follows
  <2>2. \A k \in Locations : \A a \in invoices'[k] : Follows(k, a)'
    BY <1>1, <1>2, <1>3, <2>1 DEF SeriesInv, NumbersTypeOK
  <2> QED BY <2>2 DEF Gapless, Follows
<1>6. ASSUME NEW k \in Locations, NEW p \in Prefixes
      PROVE  Sorted(OfPrefix(k, p))'
  <2>1. Sorted(OfPrefix(k, p)) /\ OfPrefix(k, p) \subseteq Numbers
    BY DEF SeriesInv, OfPrefix, NumbersTypeOK
  <2>2. CASE k = l /\ p = x.prefix
    <3>1. OfPrefix(k, p)' = OfPrefix(k, p) \cup {x}
      BY <1>2, <2>2 DEF OfPrefix
    <3>2. Sorted(OfPrefix(k, p) \cup {x})
      BY <1>1, <2>1, SortedAdd
    <3> QED BY <3>1, <3>2 DEF Sorted, StringLess, Before
  <2>3. CASE ~(k = l /\ p = x.prefix)
    <3>1. OfPrefix(k, p)' = OfPrefix(k, p)
      BY <1>2, <2>3 DEF OfPrefix
    <3> QED BY <2>1, <3>1 DEF Sorted, StringLess, Before
  <2> QED BY <2>2, <2>3
<1>7. \A d \in Clerks :
        /\ series'[d] \in Locations => Follows(series[d], proposal[d])'
        /\ series'[d] # "none" => proposal'[d] \in Numbers
  <2> SUFFICES ASSUME NEW d \in Clerks, series'[d] # "none"
               PROVE  /\ series'[d] \in Locations => Follows(series[d], proposal[d])'
                      /\ proposal'[d] \in Numbers
    BY NumberAssumption
  <2>1. series'[d] = series[d] /\ proposal'[d] = proposal[d]
    BY <1>1, RetireSeries
  <2> QED BY <1>3, <2>1 DEF SeriesInv, Follows
<1>8. Sorted(orders)'
  BY <1>1 DEF SeriesInv, Sorted, StringLess, Before
<1> QED BY <1>4, <1>5, <1>6, <1>7, <1>8 DEF SeriesInv

\* No step leaves a gap.
LEMMA SeriesStep == SeriesInv /\ [NumbersNext]_numberVars => SeriesInv'
<1> SUFFICES ASSUME SeriesInv, [NumbersNext]_numberVars PROVE SeriesInv'
  OBVIOUS
<1>1. CASE UpdateWorkPreferences
  <2>1. NumbersTypeOK'
    BY <1>1 DEF UpdateWorkPreferences, clerkVars, SeriesInv, NumbersTypeOK
  <2> QED BY <1>1, <2>1, SeriesQuiet DEF UpdateWorkPreferences, clerkVars, SeriesInv
<1>2. ASSUME NEW l \in Locations, UpdateLocationSettings(l) PROVE SeriesInv'
  <2>1. NumbersTypeOK'
    BY <1>2 DEF UpdateLocationSettings, clerkVars, SeriesInv, NumbersTypeOK
  <2> QED BY <1>2, <2>1, SeriesQuiet DEF UpdateLocationSettings, clerkVars, SeriesInv
<1>3. ASSUME NEW c \in Clerks, NEW s \in Locations \cup {"orders"}, NEW number,
             Propose(c, s, number), number \in Numbers,
             s \in Locations => Follows(s, number)
      PROVE  SeriesInv'
  <2>1. NumbersTypeOK'
    BY <1>3 DEF Propose, settingVars, SeriesInv, NumbersTypeOK
  <2>2. /\ series'[c] = s /\ proposal'[c] = number
        /\ \A d \in Clerks : d # c => series'[d] = series[d] /\ proposal'[d] = proposal[d]
    BY <1>3 DEF Propose, SeriesInv, NumbersTypeOK
  <2> QED BY <1>3, <2>1, <2>2, SeriesQuiet DEF Propose, SeriesInv
<1>4. ASSUME NEW c \in Clerks, NumberOrder(c) PROVE SeriesInv'
  <2>1. Propose(c, "orders", NextOrder) /\ NextOrder.n <= Last
    BY <1>4 DEF NumberOrder, Propose
  <2>2. NextOrder \in Numbers
    <3>1. CASE orders = {}
      BY <2>1, <3>1, NumberAssumption DEF NextOrder, NumberAfter, Numbers, SeriesInv, NumbersTypeOK
    <3>2. CASE orders # {}
      <4>1. Latest(orders) \in orders
        BY <3>2 DEF SeriesInv, Sorted, Latest
      <4> QED BY <2>1, <3>2, <4>1 DEF NextOrder, NumberAfter, Numbers, SeriesInv, NumbersTypeOK
    <3> QED BY <3>1, <3>2
  <2> QED BY <1>3, <2>1, <2>2, NumberAssumption
<1>5. ASSUME NEW c \in Clerks, NEW l \in Locations, NumberInvoice(c, l) PROVE SeriesInv'
  <2>1. Propose(c, l, NextInvoice(l)) /\ NextInvoice(l).n <= Last
    BY <1>5 DEF NumberInvoice, Propose
  <2>2. NextInvoice(l) \in Numbers
    <3>1. NextInvoice(l) = [prefix |-> NextInvoice(l).prefix, n |-> NextInvoice(l).n]
      BY DEF NextInvoice, NumberAfter
    <3> QED BY <2>1, <3>1, NextFollows, NumberAssumption DEF Numbers
  <2> QED BY <1>3, <2>1, <2>2, NextFollows
<1>6. ASSUME NEW c \in Clerks, InsertOrder(c) \/ FailToNumber(c) PROVE SeriesInv'
  <2>1. /\ Retire(c) /\ UNCHANGED <<settingVars, invoices>>
        /\ orders' = orders \/ (proposal[c] \in Numbers /\ orders' = orders \cup {proposal[c]})
    BY <1>6 DEF InsertOrder, FailToNumber, SeriesInv
  <2>2. NumbersTypeOK'
    BY <2>1, RetireSeries DEF settingVars, SeriesInv, NumbersTypeOK
  <2>3. \A d \in Clerks : series'[d] # "none" => series'[d] = series[d] /\ proposal'[d] = proposal[d]
    BY <2>1, RetireSeries
  <2>4. Sorted(orders')
    BY <2>1, SortedAdd DEF SeriesInv, NumbersTypeOK
  <2> QED BY <2>1, <2>2, <2>3, <2>4, SeriesQuiet, NumberAssumption DEF SeriesInv
<1>7. CASE UNCHANGED numberVars
  <2>1. NumbersTypeOK'
    BY <1>7 DEF numberVars, settingVars, clerkVars, SeriesInv, NumbersTypeOK
  <2> QED BY <1>7, <2>1, SeriesQuiet DEF numberVars, clerkVars, SeriesInv
<1> QED BY <1>1, <1>2, <1>4, <1>5, <1>6, <1>7, InsertSeries DEF NumbersNext

\* The invoice numbers of a location and prefix have no gap, however requests
\* overlap and fail and prefixes change (generateInvoiceNumber).
THEOREM InvoicesAreGapless == NumbersSpec => []Gapless
<1>1. SeriesInv => Gapless
  BY DEF SeriesInv
<1> QED BY <1>1, SeriesInit, SeriesStep, PTL DEF NumbersSpec

-----------------------------------------------------------------------------
(* Dispatch: errands are traceable. *)

\* A stage that was reached, or the first one.
Reached(e) == recorded[e] \cup {FirstStage(e)}

\* What a request is about to write rests on a stage that was reached.
ErrandInv ==
  /\ DispatchTypeOK
  /\ \A e \in Errands : stage[e] \in Reached(e)
  /\ ErrandsAreTraceable
  /\ \A d \in Dispatchers :
       /\ asking[d] # "none" => errand[d] \in Errands
       /\ asking[d] = "move" =>
            \E p \in Reached(errand[d]) : <<p, target[d]>> \in Moves(errand[d])
       /\ asking[d] = "convert" /\ sort[errand[d]] = "visit" =>
            "CHECKED_IN" \in recorded[errand[d]]
       /\ asking[d] = "link" => made[d] \in JobOrders /\ madeFrom[made[d]] = errand[d]

\* An errand begins at the first stage, which is recorded.
LEMMA ErrandInit == DispatchInit => ErrandInv
<1> SUFFICES ASSUME DispatchInit PROVE ErrandInv
  OBVIOUS
<1>1. \A e \in Errands : FirstStage(e) \in Stages
  BY DEF FirstStage, Stages
<1>2. DispatchTypeOK
  BY <1>1 DEF DispatchInit, DispatchTypeOK
<1>3. ErrandsAreTraceable
  BY DispatchAssumption DEF DispatchInit, ErrandsAreTraceable, StagesInOrder, OrdersHaveOrigin
<1> QED BY <1>2, <1>3 DEF DispatchInit, ErrandInv, Reached

\* The moves of all errands are between stages.
LEMMA MoveStages ==
  ASSUME NEW e \in Errands, NEW p, NEW to, <<p, to>> \in Moves(e),
         sort[e] \in {"call", "run", "visit"}
  PROVE  to \in Stages
BY DEF Moves, CallMoves, RunMoves, VisitMoves, Stages

\* Errands and the requests that are about them stay as they are.
LEMMA ErrandQuiet ==
  ASSUME ErrandInv, DispatchTypeOK', UNCHANGED errandVars,
         \A d \in Dispatchers :
           /\ asking'[d] # "none" => errand'[d] \in Errands
           /\ asking'[d] = "move" =>
                \E p \in Reached(errand'[d]) : <<p, target'[d]>> \in Moves(errand'[d])
           /\ asking'[d] = "convert" /\ sort[errand'[d]] = "visit" =>
                "CHECKED_IN" \in recorded[errand'[d]]
           /\ asking'[d] = "link" => made'[d] \in JobOrders /\ madeFrom[made'[d]] = errand'[d]
  PROVE  ErrandInv'
<1>1. \A e : /\ FirstStage(e)' = FirstStage(e) /\ Moves(e)' = Moves(e)
             /\ Reached(e)' = Reached(e)
  BY DEF errandVars, FirstStage, Moves, Reached
<1>2. ErrandsAreTraceable'
  BY <1>1 DEF ErrandInv, errandVars, ErrandsAreTraceable, StagesInOrder, OrdersHaveOrigin
<1>3. \A e \in Errands : stage'[e] \in Reached(e)'
  BY <1>1 DEF ErrandInv, errandVars
<1> QED BY <1>1, <1>2, <1>3 DEF ErrandInv, errandVars, Reached, Moves, FirstStage

\* A request ends.
LEMMA AnsweredFacts ==
  ASSUME ErrandInv, NEW d \in Dispatchers, Answered(d)
  PROVE  /\ asking' \in [Dispatchers -> {"none", "move", "convert", "link"}]
         /\ errand' \in [Dispatchers -> Errands \cup {NoErrand}]
         /\ target' \in [Dispatchers -> Stages \cup {"none"}]
         /\ made' \in [Dispatchers -> JobOrders \cup {NoJobOrder}]
         /\ asking'[d] = "none"
         /\ \A c \in Dispatchers : c # d =>
              /\ asking'[c] = asking[c] /\ errand'[c] = errand[c]
              /\ target'[c] = target[c] /\ made'[c] = made[c]
BY DEF Answered, ErrandInv, DispatchTypeOK

\* What requests rest on stays true while errands only go on.
LEMMA ErrandsGoOn ==
  ASSUME ErrandInv, DispatchTypeOK', sort' = sort, NEW d \in Dispatchers, Answered(d),
         \A e \in Errands : recorded[e] \subseteq recorded'[e],
         \A e \in Errands : stage'[e] \in Reached(e)',
         ErrandsAreTraceable', madeFrom' = madeFrom
  PROVE  ErrandInv'
<1>1. \A e : FirstStage(e)' = FirstStage(e) /\ Moves(e)' = Moves(e)
  BY DEF FirstStage, Moves
<1>2. \A e \in Errands : Reached(e) \subseteq Reached(e)'
  BY <1>1 DEF Reached
<1>3. ASSUME NEW c \in Dispatchers, asking'[c] # "none"
      PROVE  /\ errand'[c] \in Errands
             /\ asking'[c] = "move" =>
                  \E p \in Reached(errand[c])' : <<p, target'[c]>> \in Moves(errand[c])'
             /\ asking'[c] = "convert" /\ sort[errand'[c]] = "visit" =>
                  "CHECKED_IN" \in recorded'[errand'[c]]
             /\ asking'[c] = "link" => made'[c] \in JobOrders /\ madeFrom[made'[c]] = errand'[c]
  <2>1. /\ asking'[c] = asking[c] /\ errand'[c] = errand[c]
        /\ target'[c] = target[c] /\ made'[c] = made[c]
    BY <1>3, AnsweredFacts
  <2>2. errand[c] \in Errands
    BY <1>3, <2>1 DEF ErrandInv
  <2>3. asking[c] = "move" =>
          \E p \in Reached(errand[c]) : <<p, target[c]>> \in Moves(errand[c])
    BY DEF ErrandInv
  <2>4. /\ Reached(errand[c])' = recorded'[errand[c]] \cup {FirstStage(errand[c])}
        /\ Moves(errand[c])' = Moves(errand[c])
    BY <1>1, <2>1 DEF Reached, Moves, FirstStage
  <2>5. Reached(errand[c]) \subseteq recorded'[errand[c]] \cup {FirstStage(errand[c])}
    BY <2>2 DEF Reached
  <2> QED BY <2>1, <2>2, <2>3, <2>4, <2>5 DEF ErrandInv
<1> QED BY <1>3 DEF ErrandInv

\* A move, however stale, goes to a stage that a recorded one allows.
LEMMA MoveErrand ==
  ASSUME ErrandInv, NEW d \in Dispatchers, Move(d)
  PROVE  ErrandInv'
<1> DEFINE e == errand[d]
           to == target[d]
<1>1. /\ asking[d] = "move" /\ e \in Errands /\ Answered(d)
      /\ stage' = [stage EXCEPT ![e] = to]
      /\ recorded' = [recorded EXCEPT ![e] = @ \cup {to}]
      /\ UNCHANGED <<sort, converted, madeFrom>>
  BY DEF Move, ErrandInv
<1>2. PICK p \in Reached(e) : <<p, to>> \in Moves(e)
  BY <1>1 DEF ErrandInv
<1>3. to \in Stages
  BY <1>1, <1>2, MoveStages DEF ErrandInv, DispatchTypeOK
<1>4. /\ stage' \in [Errands -> Stages] /\ recorded' \in [Errands -> SUBSET Stages]
      /\ stage'[e] = to /\ recorded'[e] = recorded[e] \cup {to}
      /\ \A f \in Errands : f # e => stage'[f] = stage[f] /\ recorded'[f] = recorded[f]
  BY <1>1, <1>3 DEF ErrandInv, DispatchTypeOK
<1>5. DispatchTypeOK'
  BY <1>1, <1>4, AnsweredFacts DEF ErrandInv, DispatchTypeOK
<1>6. \A f : FirstStage(f)' = FirstStage(f) /\ Moves(f)' = Moves(f)
  BY <1>1 DEF FirstStage, Moves
<1>7. \A f \in Errands : recorded[f] \subseteq recorded'[f]
  BY <1>4
<1>8. \A f \in Errands : stage'[f] \in Reached(f)'
  BY <1>4, <1>6 DEF ErrandInv, Reached
<1>9. StagesInOrder'
  <2> SUFFICES ASSUME NEW f \in Errands, NEW s \in recorded'[f] \cup {stage'[f]},
                      s # FirstStage(f)
               PROVE  \E q \in recorded'[f] \cup {FirstStage(f)} : <<q, s>> \in Moves(f)
    BY <1>6 DEF StagesInOrder
  <2>1. CASE f = e /\ s = to
    BY <1>2, <1>7, <2>1 DEF Reached
  <2>2. CASE ~(f = e /\ s = to)
    <3>1. s \in recorded[f] \cup {stage[f]}
      BY <1>4, <2>2
    <3>2. \E q \in recorded[f] \cup {FirstStage(f)} : <<q, s>> \in Moves(f)
      BY <3>1 DEF ErrandInv, ErrandsAreTraceable, StagesInOrder
    <3> QED BY <1>7, <3>2
  <2> QED BY <2>1, <2>2
<1>10. OrdersHaveOrigin'
  BY <1>1, <1>7 DEF ErrandInv, DispatchTypeOK, ErrandsAreTraceable, OrdersHaveOrigin
<1> QED BY <1>1, <1>5, <1>7, <1>8, <1>9, <1>10, ErrandsGoOn DEF ErrandsAreTraceable

\* A link is to a work order that was made from the errand.
LEMMA LinkErrand ==
  ASSUME ErrandInv, NEW d \in Dispatchers, LinkJobOrder(d)
  PROVE  ErrandInv'
<1>1. /\ asking[d] = "link" /\ Answered(d) /\ errand[d] \in Errands
      /\ made[d] \in JobOrders /\ madeFrom[made[d]] = errand[d]
      /\ converted' \in {converted, [converted EXCEPT ![errand[d]] = made[d]]}
      /\ UNCHANGED <<sort, stage, recorded, madeFrom>>
  BY DEF LinkJobOrder, ErrandInv
<1>2. DispatchTypeOK'
  BY <1>1, AnsweredFacts DEF ErrandInv, DispatchTypeOK
<1>3. \A f : FirstStage(f)' = FirstStage(f) /\ Moves(f)' = Moves(f) /\ Reached(f)' = Reached(f)
  BY <1>1 DEF FirstStage, Moves, Reached
<1>4. StagesInOrder'
  BY <1>1, <1>3 DEF ErrandInv, ErrandsAreTraceable, StagesInOrder
<1>5. OrdersHaveOrigin'
  BY <1>1 DEF ErrandInv, DispatchTypeOK, ErrandsAreTraceable, OrdersHaveOrigin
<1>6. \A f \in Errands : stage'[f] \in Reached(f)'
  BY <1>1, <1>3 DEF ErrandInv
<1> QED BY <1>1, <1>2, <1>4, <1>5, <1>6, ErrandsGoOn DEF ErrandsAreTraceable

\* A work order that is made of an errand says so.
LEMMA MakeErrandOrder ==
  ASSUME ErrandInv, NEW d \in Dispatchers, MakeJobOrder(d)
  PROVE  ErrandInv'
<1>1. PICK w \in JobOrders :
        /\ asking[d] = "convert" /\ madeFrom[w] = NoErrand
        /\ madeFrom' = [madeFrom EXCEPT ![w] = errand[d]]
        /\ made' = [made EXCEPT ![d] = w]
        /\ asking' = [asking EXCEPT ![d] = "link"]
        /\ UNCHANGED <<sort, stage, recorded, converted, errand, target>>
  BY DEF MakeJobOrder
<1>2. errand[d] \in Errands
  BY <1>1 DEF ErrandInv
<1>3. DispatchTypeOK'
  BY <1>1, <1>2 DEF ErrandInv, DispatchTypeOK
<1>4. \A f : FirstStage(f)' = FirstStage(f) /\ Moves(f)' = Moves(f) /\ Reached(f)' = Reached(f)
  BY <1>1 DEF FirstStage, Moves, Reached
<1>5. /\ madeFrom'[w] = errand[d]
      /\ \A v \in JobOrders : madeFrom[v] # NoErrand => madeFrom'[v] = madeFrom[v]
      /\ \A v \in JobOrders : madeFrom'[v] # NoErrand => v = w \/ madeFrom'[v] = madeFrom[v]
  BY <1>1 DEF ErrandInv, DispatchTypeOK
<1>6. StagesInOrder'
  BY <1>1, <1>4 DEF ErrandInv, ErrandsAreTraceable, StagesInOrder
<1>7. OrdersHaveOrigin'
  <2>1. \A e \in Errands : converted[e] # NoJobOrder =>
          converted[e] \in JobOrders /\ madeFrom[converted[e]] = e
    BY DEF ErrandInv, DispatchTypeOK, ErrandsAreTraceable, OrdersHaveOrigin
  <2>2. \A e \in Errands : converted'[e] # NoJobOrder => madeFrom'[converted'[e]] = e
    BY <1>1, <1>5, <2>1, DispatchAssumption
  <2>3. sort[errand[d]] = "visit" => "CHECKED_IN" \in recorded[errand[d]]
    BY <1>1 DEF ErrandInv
  <2>4. \A v \in JobOrders : madeFrom[v] # NoErrand /\ sort[madeFrom[v]] = "visit"
          => "CHECKED_IN" \in recorded[madeFrom[v]]
    BY DEF ErrandInv, ErrandsAreTraceable, OrdersHaveOrigin
  <2>5. \A v \in JobOrders : madeFrom'[v] # NoErrand /\ sort'[madeFrom'[v]] = "visit"
          => "CHECKED_IN" \in recorded'[madeFrom'[v]]
    BY <1>1, <1>5, <2>3, <2>4
  <2> QED BY <2>2, <2>5 DEF OrdersHaveOrigin
<1>8. ASSUME NEW c \in Dispatchers
      PROVE  /\ asking'[c] # "none" => errand'[c] \in Errands
             /\ asking'[c] = "move" =>
                  \E p \in Reached(errand[c])' : <<p, target'[c]>> \in Moves(errand[c])'
             /\ asking'[c] = "convert" /\ sort'[errand'[c]] = "visit" =>
                  "CHECKED_IN" \in recorded'[errand'[c]]
             /\ asking'[c] = "link" => made'[c] \in JobOrders /\ madeFrom'[made'[c]] = errand'[c]
  <2>1. CASE c = d
    <3>1. asking'[c] = "link" /\ made'[c] = w
      BY <1>1, <2>1 DEF ErrandInv, DispatchTypeOK
    <3> QED BY <1>1, <1>2, <1>5, <2>1, <3>1
  <2>2. CASE c # d
    <3>1. asking'[c] = asking[c] /\ made'[c] = made[c]
      BY <1>1, <2>2 DEF ErrandInv, DispatchTypeOK
    <3>2. /\ Reached(errand[c])' = Reached(errand[c]) /\ Moves(errand[c])' = Moves(errand[c])
      BY <1>1 DEF Reached, Moves, FirstStage
    <3> QED BY <1>1, <1>5, <3>1, <3>2, DispatchAssumption DEF ErrandInv
  <2> QED BY <2>1, <2>2
<1>9. \A f \in Errands : stage'[f] \in Reached(f)'
  BY <1>1, <1>4 DEF ErrandInv
<1> QED BY <1>3, <1>6, <1>7, <1>8, <1>9 DEF ErrandInv, ErrandsAreTraceable

\* A request begins with what it has read.
LEMMA BeginErrand ==
  ASSUME ErrandInv, NEW d \in Dispatchers, NEW e \in Errands, NEW to \in Stages,
         BeginMove(d, e, to) \/ BeginConvert(d, e)
  PROVE  ErrandInv'
<1>1. /\ errand' = [errand EXCEPT ![d] = e]
      /\ \/ /\ asking' = [asking EXCEPT ![d] = "move"]
            /\ target' = [target EXCEPT ![d] = to]
            /\ <<stage[e], to>> \in Moves(e)
         \/ /\ asking' = [asking EXCEPT ![d] = "convert"]
            /\ target' = target
            /\ sort[e] = "visit" => stage[e] = "CHECKED_IN"
      /\ UNCHANGED <<errandVars, made>>
  BY DEF BeginMove, MayMove, BeginConvert, Convertible
<1>2. DispatchTypeOK'
  BY <1>1 DEF ErrandInv, DispatchTypeOK, errandVars
<1>3. stage[e] \in Reached(e) /\ (sort[e] = "visit" /\ stage[e] = "CHECKED_IN" => stage[e] \in recorded[e])
  BY DEF ErrandInv, Reached, FirstStage
<1>4. ASSUME NEW c \in Dispatchers
      PROVE  /\ asking'[c] # "none" => errand'[c] \in Errands
             /\ asking'[c] = "move" =>
                  \E p \in Reached(errand'[c]) : <<p, target'[c]>> \in Moves(errand'[c])
             /\ asking'[c] = "convert" /\ sort[errand'[c]] = "visit" =>
                  "CHECKED_IN" \in recorded[errand'[c]]
             /\ asking'[c] = "link" => made'[c] \in JobOrders /\ madeFrom[made'[c]] = errand'[c]
  <2>1. CASE c = d
    <3>1. errand'[c] = e /\ asking'[c] \in {"move", "convert"}
      BY <1>1, <2>1 DEF ErrandInv, DispatchTypeOK
    <3>2. asking'[c] = "move" => target'[c] = to /\ <<stage[e], to>> \in Moves(e)
      BY <1>1, <2>1 DEF ErrandInv, DispatchTypeOK
    <3>3. asking'[c] = "convert" => (sort[e] = "visit" => stage[e] = "CHECKED_IN")
      BY <1>1, <2>1 DEF ErrandInv, DispatchTypeOK
    <3> QED BY <1>3, <3>1, <3>2, <3>3
  <2>2. CASE c # d
    <3>1. /\ asking'[c] = asking[c] /\ errand'[c] = errand[c]
          /\ target'[c] = target[c] /\ made'[c] = made[c]
      BY <1>1, <2>2 DEF ErrandInv, DispatchTypeOK
    <3> QED BY <3>1 DEF ErrandInv
  <2> QED BY <2>1, <2>2
<1> QED BY <1>1, <1>2, <1>4, ErrandQuiet

\* No step makes an errand untraceable.
LEMMA ErrandStep == ErrandInv /\ [DispatchNext]_dispatchVars => ErrandInv'
<1> SUFFICES ASSUME ErrandInv, [DispatchNext]_dispatchVars PROVE ErrandInv'
  OBVIOUS
<1>1. CASE UNCHANGED dispatchVars
  <2>1. DispatchTypeOK' /\ UNCHANGED <<errandVars, asking, errand, target, made>>
    BY <1>1 DEF dispatchVars, errandVars, askVars, ErrandInv, DispatchTypeOK
  <2> QED BY <2>1, ErrandQuiet DEF ErrandInv
<1>2. ASSUME NEW d \in Dispatchers, DropRequest(d) PROVE ErrandInv'
  <2>1. Answered(d) /\ UNCHANGED errandVars
    BY <1>2 DEF DropRequest
  <2>2. DispatchTypeOK'
    BY <2>1, AnsweredFacts DEF errandVars, ErrandInv, DispatchTypeOK
  <2>3. \A c \in Dispatchers : asking'[c] # "none" =>
          /\ asking'[c] = asking[c] /\ errand'[c] = errand[c]
          /\ target'[c] = target[c] /\ made'[c] = made[c]
    BY <2>1, AnsweredFacts
  <2>4. ASSUME NEW c \in Dispatchers, asking'[c] # "none"
        PROVE  /\ errand'[c] \in Errands
               /\ asking'[c] = "move" =>
                    \E p \in Reached(errand'[c]) : <<p, target'[c]>> \in Moves(errand'[c])
               /\ asking'[c] = "convert" /\ sort[errand'[c]] = "visit" =>
                    "CHECKED_IN" \in recorded[errand'[c]]
               /\ asking'[c] = "link" => made'[c] \in JobOrders /\ madeFrom[made'[c]] = errand'[c]
    BY <2>3, <2>4 DEF ErrandInv
  <2> QED BY <2>1, <2>2, <2>4, ErrandQuiet
<1>3. CASE DispatchNext
  <2>1. PICK d \in Dispatchers :
          \/ \E e \in Errands, to \in Stages : BeginMove(d, e, to)
          \/ \E e \in Errands : BeginConvert(d, e)
          \/ Move(d) \/ MakeJobOrder(d) \/ LinkJobOrder(d) \/ DropRequest(d)
    BY <1>3 DEF DispatchNext
  <2>2. "CANCELLED" \in Stages
    BY DEF Stages
  <2>3. ASSUME NEW e \in Errands, BeginConvert(d, e) PROVE ErrandInv'
    BY <2>2, <2>3, BeginErrand
  <2> QED BY <1>2, <2>1, <2>3, BeginErrand, MoveErrand, MakeErrandOrder, LinkErrand
<1> QED BY <1>1, <1>3

\* However requests overlap and whatever they overwrite, an errand has been
\* through the stages that lead to where it is, and work orders come from the
\* errand they are linked to (service-calls, transport, appointments).
THEOREM ErrandsStayTraceable == DispatchSpec => []ErrandsAreTraceable
<1>1. ErrandInv => ErrandsAreTraceable
  BY DEF ErrandInv
<1> QED BY <1>1, ErrandInit, ErrandStep, PTL DEF DispatchSpec

-----------------------------------------------------------------------------
(* Reminders: for any schedules, sweeps, intervals and cooldowns. *)

\* Sweeps that are about to text a schedule, and those that have texted it and
\* not yet stamped it.
AboutTo(s) == {w \in Sweeps : s \in targets[w] /\ texted[w] # s}
HasTexted(s) == {w \in Sweeps : texted[w] = s}

\* A text now would not be one too many.
Spaced(s) == lastText[s] = Never \/ lastText[s] + Cooldown <= time

\* A sweep that looks now does not text the schedule too early.
Stamped(s) ==
  \/ Spaced(s)
  \/ reminded[s] # Never /\ lastText[s] <= reminded[s]
  \/ s \in deleted

\* Faults and overlaps that no text has used up.
Spare(s) == faults[s] + overlaps[s] - repeats[s]

\* Each text that sweeps may still send too early has a fault or an overlap to
\* its account; the first of several is free if enough time has passed.
Afforded(s) ==
  /\ Spare(s) >= 0
  /\ IsFiniteSet(AboutTo(s))
  /\ AboutTo(s) # {} => Spare(s) >= Cardinality(AboutTo(s)) - 1
  /\ AboutTo(s) # {} /\ ~Spaced(s) => Spare(s) >= Cardinality(AboutTo(s))
  /\ AboutTo(s) = {} /\ HasTexted(s) = {} /\ ~Stamped(s) => Spare(s) >= 1

\* What sweeps remember lies in the past and is of schedules that were created.
SweepsAreSound ==
  /\ existing \cap deleted = {}
  /\ \A w \in Sweeps : texted[w] # NoSchedule => texted[w] \in targets[w]
  /\ \A w \in Sweeps : targets[w] \subseteq existing \cup deleted
  /\ \A w \in Sweeps : began[w] <= time
  /\ \A s \in Schedules : lastText[s] <= time /\ reminded[s] <= time

SweepsInv == RemindersTypeOK /\ SweepsAreSound /\ \A s \in Schedules : Afforded(s)

\* Nothing is listed or texted at first.
LEMMA SweepsInit == RemindersInit => SweepsInv
<1> SUFFICES ASSUME RemindersInit PROVE SweepsInv
  OBVIOUS
<1>1. RemindersTypeOK
  BY RemindersAssumption DEF RemindersInit, RemindersTypeOK, Times, Never
<1>2. SweepsAreSound
  BY DEF RemindersInit, SweepsAreSound, Never
<1>3. ASSUME NEW s \in Schedules PROVE Afforded(s)
  <2>1. AboutTo(s) = {} /\ Spare(s) = 0 /\ Spaced(s)
    BY DEF RemindersInit, AboutTo, Spare, Spaced
  <2> QED BY <2>1, FS_EmptySet DEF Afforded, Stamped
<1> QED BY <1>1, <1>2, <1>3 DEF SweepsInv

\* The columns and the memory of a sweep keep their types.
LEMMA SweepTypes == RemindersTypeOK /\ [RemindersNext]_reminderVars => RemindersTypeOK'
<1> SUFFICES ASSUME RemindersTypeOK, [RemindersNext]_reminderVars PROVE RemindersTypeOK'
  OBVIOUS
<1> USE RemindersAssumption DEF RemindersTypeOK, Times, Never
<1>1. CASE UNCHANGED reminderVars
  BY <1>1 DEF reminderVars, scheduleVars, sweepVars, historyVars
<1>2. CASE Tick
  BY <1>2 DEF Tick, scheduleVars, sweepVars, historyVars
<1>3. ASSUME NEW s \in Schedules,
             CreateSchedule(s) \/ MarkServiced(s) \/ DeleteSchedule(s) \/ RecordMileage(s)
      PROVE  RemindersTypeOK'
  <2>1. CASE CreateSchedule(s)
    BY <2>1 DEF CreateSchedule, sweepVars, historyVars
  <2>2. CASE MarkServiced(s)
    BY <2>2 DEF MarkServiced, sweepVars
  <2>3. CASE DeleteSchedule(s)
    BY <2>3 DEF DeleteSchedule, sweepVars, historyVars
  <2>4. CASE RecordMileage(s)
    BY <2>4 DEF RecordMileage, sweepVars, historyVars
  <2> QED BY <1>3, <2>1, <2>2, <2>3, <2>4
<1>4. ASSUME NEW w \in Sweeps, BeginSweep(w) PROVE RemindersTypeOK'
  BY <1>4 DEF BeginSweep, scheduleVars, historyVars
<1>5. ASSUME NEW w \in Sweeps, FindDueForReminders(w) PROVE RemindersTypeOK'
  BY <1>5 DEF FindDueForReminders, scheduleVars
<1>6. ASSUME NEW w \in Sweeps, SendText(w) PROVE RemindersTypeOK'
  BY <1>6 DEF SendText, scheduleVars
<1>7. ASSUME NEW w \in Sweeps, StampReminder(w) PROVE RemindersTypeOK'
  BY <1>7 DEF StampReminder, Proceed, historyVars
<1>8. ASSUME NEW w \in Sweeps, FailToText(w) PROVE RemindersTypeOK'
  BY <1>8 DEF FailToText, Proceed, scheduleVars, historyVars
<1>9. ASSUME NEW w \in Sweeps, FailSweep(w) PROVE RemindersTypeOK'
  BY <1>9 DEF FailSweep, Proceed, scheduleVars
<1> QED
  BY <1>1, <1>2, <1>3, <1>4, <1>5, <1>6, <1>7, <1>8, <1>9 DEF RemindersNext

\* The memory of sweeps stays sound.
LEMMA SweepSound ==
  RemindersTypeOK /\ SweepsAreSound /\ [RemindersNext]_reminderVars => SweepsAreSound'
<1> SUFFICES ASSUME RemindersTypeOK, SweepsAreSound, [RemindersNext]_reminderVars
             PROVE SweepsAreSound'
  OBVIOUS
<1> USE RemindersAssumption DEF RemindersTypeOK, Times, Never, SweepsAreSound
<1>1. CASE UNCHANGED reminderVars
  BY <1>1 DEF reminderVars, scheduleVars, sweepVars, historyVars
<1>2. CASE Tick
  BY <1>2 DEF Tick, scheduleVars, sweepVars, historyVars
<1>3. ASSUME NEW s \in Schedules,
             CreateSchedule(s) \/ MarkServiced(s) \/ DeleteSchedule(s) \/ RecordMileage(s)
      PROVE  SweepsAreSound'
  <2>1. CASE CreateSchedule(s)
    BY <2>1 DEF CreateSchedule, sweepVars, historyVars
  <2>2. CASE MarkServiced(s)
    BY <2>2 DEF MarkServiced, sweepVars
  <2>3. CASE DeleteSchedule(s)
    BY <2>3 DEF DeleteSchedule, sweepVars, historyVars
  <2>4. CASE RecordMileage(s)
    BY <2>4 DEF RecordMileage, sweepVars, historyVars
  <2> QED BY <1>3, <2>1, <2>2, <2>3, <2>4
<1>4. ASSUME NEW w \in Sweeps, BeginSweep(w) PROVE SweepsAreSound'
  BY <1>4 DEF BeginSweep, scheduleVars, historyVars
<1>5. ASSUME NEW w \in Sweeps, FindDueForReminders(w) PROVE SweepsAreSound'
  BY <1>5 DEF FindDueForReminders, scheduleVars
<1>6. ASSUME NEW w \in Sweeps, SendText(w) PROVE SweepsAreSound'
  BY <1>6 DEF SendText, scheduleVars
<1>7. ASSUME NEW w \in Sweeps, StampReminder(w) PROVE SweepsAreSound'
  BY <1>7 DEF StampReminder, Proceed, historyVars
<1>8. ASSUME NEW w \in Sweeps, FailToText(w) PROVE SweepsAreSound'
  BY <1>8 DEF FailToText, Proceed, scheduleVars, historyVars
<1>9. ASSUME NEW w \in Sweeps, FailSweep(w) PROVE SweepsAreSound'
  BY <1>9 DEF FailSweep, Proceed, scheduleVars
<1> QED
  BY <1>1, <1>2, <1>3, <1>4, <1>5, <1>6, <1>7, <1>8, <1>9 DEF RemindersNext

\* The account of a schedule in integers.
LEMMA SpareIsInt ==
  ASSUME RemindersTypeOK, NEW s \in Schedules
  PROVE  /\ Spare(s) \in Int
         /\ faults[s] \in Int /\ overlaps[s] \in Int /\ repeats[s] \in Int
BY RemindersAssumption DEF RemindersTypeOK, Spare

\* A step after which no more sweeps are about to text the schedule.
LEMMA FewerAbout ==
  ASSUME NEW s \in Schedules, RemindersTypeOK, RemindersTypeOK', Afforded(s),
         Spare(s)' >= Spare(s),
         AboutTo(s)' \subseteq AboutTo(s),
         Spaced(s) => Spaced(s)',
         Stamped(s) => Stamped(s)',
         HasTexted(s)' = {} => HasTexted(s) = {} \/ Spare(s)' >= 1 \/ Stamped(s)'
  PROVE  Afforded(s)'
<1> DEFINE B == AboutTo(s)
           C == AboutTo(s)'
<1>1. Spare(s) \in Int /\ Spare(s)' \in Int
  <2>1. Spare(s) \in Int
    BY SpareIsInt
  <2>2. Spare(s)' \in Int
    BY RemindersAssumption DEF RemindersTypeOK, Spare
  <2> QED BY <2>1, <2>2
<1>2. IsFiniteSet(B) /\ IsFiniteSet(C) /\ Cardinality(C) <= Cardinality(B)
  BY FS_Subset DEF Afforded
<1>3. /\ Cardinality(B) \in Nat /\ Cardinality(C) \in Nat
      /\ B # {} => Cardinality(B) >= 1
  BY <1>2, FS_CardinalityType, FS_EmptySet
<1>4. Spaced(s)' => Stamped(s)'
  BY DEF Stamped
<1>5. Spaced(s) => Stamped(s)
  BY DEF Stamped
<1>6. C # {} => B # {}
  OBVIOUS
<1>7. /\ Spare(s) >= 0
      /\ B # {} => Spare(s) >= Cardinality(B) - 1
      /\ B # {} /\ ~Spaced(s) => Spare(s) >= Cardinality(B)
      /\ B = {} /\ HasTexted(s) = {} /\ ~Stamped(s) => Spare(s) >= 1
  BY DEF Afforded
<1> HIDE DEF B, C
<1>8. /\ Spare(s)' >= 0
      /\ C # {} => Spare(s)' >= Cardinality(C) - 1
      /\ C # {} /\ ~Spaced(s)' => Spare(s)' >= Cardinality(C)
      /\ C = {} /\ HasTexted(s)' = {} /\ ~Stamped(s)' => Spare(s)' >= 1
  BY <1>1, <1>2, <1>3, <1>4, <1>5, <1>6, <1>7
<1> QED
  BY <1>2, <1>8 DEF Afforded, C

\* A step that neither sweeps nor texts nor touches the accounts.
LEMMA ScheduleAfforded ==
  ASSUME SweepsInv, RemindersTypeOK', NEW s \in Schedules,
         UNCHANGED <<targets, texted, repeats, faults, overlaps>>,
         Spaced(s) => Spaced(s)',
         Stamped(s) => Stamped(s)'
  PROVE  Afforded(s)'
<1>1. AboutTo(s)' = AboutTo(s) /\ HasTexted(s)' = HasTexted(s) /\ Spare(s)' = Spare(s)
  BY DEF AboutTo, HasTexted, Spare
<1>2. Spare(s) \in Int
  BY SpareIsInt DEF SweepsInv
<1> QED
  BY <1>1, <1>2, FewerAbout DEF SweepsInv

\* A sweep that lists a schedule which another one holds pays for the overlap;
\* one that nobody holds has a text to its account, or none that is too early.
LEMMA FindAfforded ==
  ASSUME SweepsInv, RemindersTypeOK', NEW w \in Sweeps, FindDueForReminders(w),
         NEW s \in Schedules
  PROVE  Afforded(s)'
<1> DEFINE found == {x \in existing : Due(x, began[w]) /\ ~Recently(x, began[w])}
           held == \E v \in Sweeps : s \in targets[v]
<1>0. /\ RemindersTypeOK /\ SweepsAreSound /\ Afforded(s)
  BY DEF SweepsInv
<1>1. /\ began[w] # Never /\ targets[w] = {}
      /\ targets' = [targets EXCEPT ![w] = found]
      /\ overlaps'[s] = IF s \in found /\ held THEN overlaps[s] + 1 ELSE overlaps[s]
      /\ UNCHANGED <<time, scheduleVars, began, texted, lastText, repeats, faults>>
  BY DEF FindDueForReminders
<1>2. texted[w] = NoSchedule
  BY <1>0, <1>1 DEF SweepsAreSound
<1>3. HasTexted(s)' = HasTexted(s)
  BY <1>1 DEF HasTexted
<1>4. (Spaced(s)' <=> Spaced(s)) /\ (Stamped(s)' <=> Stamped(s))
  BY <1>1 DEF Spaced, Stamped, scheduleVars
<1>5. Spare(s) \in Int /\ faults[s] \in Int /\ overlaps[s] \in Int /\ repeats[s] \in Int
  BY <1>0, SpareIsInt
<1>6. CASE s \notin found
  <2>1. AboutTo(s)' \subseteq AboutTo(s)
    BY <1>0, <1>1, <1>6 DEF AboutTo, RemindersTypeOK
  <2>2. Spare(s)' = Spare(s)
    BY <1>1, <1>6 DEF Spare
  <2> QED BY <1>0, <1>3, <1>4, <1>5, <2>1, <2>2, FewerAbout
<1>7. CASE s \in found
  <2> DEFINE B == AboutTo(s)
  <2>1. w \notin B /\ AboutTo(s)' = B \cup {w}
    BY <1>0, <1>1, <1>2, <1>7, RemindersAssumption DEF AboutTo, RemindersTypeOK
  <2>2. IsFiniteSet(B)
    BY <1>0 DEF Afforded
  <2>3. /\ IsFiniteSet(B \cup {w})
        /\ Cardinality(B \cup {w}) = Cardinality(B) + 1
        /\ Cardinality(B) \in Nat
        /\ B = {} => Cardinality(B) = 0
    BY <2>1, <2>2, FS_AddElement, FS_CardinalityType, FS_EmptySet
  <2>4. /\ Spare(s) >= 0
        /\ B # {} => Spare(s) >= Cardinality(B) - 1
        /\ B # {} /\ ~Spaced(s) => Spare(s) >= Cardinality(B)
        /\ B = {} /\ HasTexted(s) = {} /\ ~Stamped(s) => Spare(s) >= 1
    BY <1>0 DEF Afforded
  <2>5. CASE held
    <3>1. Spare(s)' = Spare(s) + 1
      BY <1>1, <1>5, <1>7, <2>5 DEF Spare
    <3> HIDE DEF B, held, found
    <3>2. /\ Spare(s)' >= 0
          /\ Spare(s)' >= Cardinality(B \cup {w}) - 1
          /\ ~Spaced(s) => Spare(s)' >= Cardinality(B \cup {w})
      BY <1>5, <2>3, <2>4, <3>1
    <3> QED BY <1>4, <2>1, <2>3, <3>2 DEF Afforded
  <2>6. CASE ~held
    <3>1. Spare(s)' = Spare(s)
      BY <1>1, <2>6 DEF Spare
    <3>2. B = {} /\ HasTexted(s) = {}
      BY <1>0, <2>6, RemindersAssumption DEF AboutTo, HasTexted, SweepsAreSound
    <3>3. Stamped(s) => Spaced(s)
      <4>1. /\ s \notin deleted
            /\ reminded[s] = Never \/ ~(reminded[s] > began[w] - Cooldown)
        BY <1>0, <1>7 DEF SweepsAreSound, Recently
      <4>2. /\ began[w] \in Int /\ began[w] <= time /\ time \in Int
            /\ reminded[s] \in Int /\ lastText[s] \in Int /\ Cooldown \in Int
        BY <1>0, RemindersAssumption DEF SweepsAreSound, RemindersTypeOK, Times, Never
      <4> QED BY <4>1, <4>2 DEF Stamped, Spaced
    <3> HIDE DEF B, held, found
    <3>4. /\ Spare(s)' >= 0
          /\ Spare(s)' >= Cardinality(B \cup {w}) - 1
          /\ ~Spaced(s) => Spare(s)' >= Cardinality(B \cup {w})
      BY <1>5, <2>3, <2>4, <3>1, <3>2, <3>3
    <3> QED BY <1>4, <2>1, <2>3, <3>4 DEF Afforded
  <2> QED BY <2>5, <2>6
<1> QED BY <1>6, <1>7

\* A text uses up what the sweep had to its account.
LEMMA TextAfforded ==
  ASSUME SweepsInv, RemindersTypeOK', NEW w \in Sweeps, SendText(w), NEW s \in Schedules
  PROVE  Afforded(s)'
<1>0. /\ RemindersTypeOK /\ SweepsAreSound /\ Afforded(s)
  BY DEF SweepsInv
<1>1. PICK x \in targets[w] :
        /\ texted[w] = NoSchedule
        /\ texted' = [texted EXCEPT ![w] = x]
        /\ lastText' = [lastText EXCEPT ![x] = time]
        /\ repeats' = IF lastText[x] # Never /\ time < lastText[x] + Cooldown
                      THEN [repeats EXCEPT ![x] = @ + 1] ELSE repeats
        /\ UNCHANGED <<time, scheduleVars, began, targets, faults, overlaps>>
  BY DEF SendText
<1>2. x \in Schedules
  BY <1>0, <1>1 DEF RemindersTypeOK
<1>5. Spare(s) \in Int /\ faults[s] \in Int /\ overlaps[s] \in Int /\ repeats[s] \in Int
  BY <1>0, SpareIsInt
<1>3. CASE s # x
  <2>1. AboutTo(s)' = AboutTo(s)
    BY <1>0, <1>1, <1>3, RemindersAssumption DEF AboutTo, RemindersTypeOK
  <2>2. HasTexted(s)' = HasTexted(s)
    BY <1>0, <1>1, <1>3, RemindersAssumption DEF HasTexted, RemindersTypeOK
  <2>3. Spare(s)' = Spare(s) /\ lastText'[s] = lastText[s]
    BY <1>0, <1>1, <1>3 DEF Spare, RemindersTypeOK
  <2>4. (Spaced(s)' <=> Spaced(s)) /\ (Stamped(s)' <=> Stamped(s))
    BY <1>1, <2>3 DEF Spaced, Stamped, scheduleVars
  <2> QED BY <1>0, <1>5, <2>1, <2>2, <2>3, <2>4, FewerAbout
<1>4. CASE s = x
  <2> DEFINE B == AboutTo(s)
             C == AboutTo(s)'
  <2>1. w \in B /\ C = B \ {w}
    BY <1>0, <1>1, <1>2, <1>4, RemindersAssumption DEF AboutTo, RemindersTypeOK
  <2>2. w \in HasTexted(s)'
    BY <1>0, <1>1, <1>4 DEF HasTexted, RemindersTypeOK
  <2>3. IsFiniteSet(B)
    BY <1>0 DEF Afforded
  <2>4. /\ IsFiniteSet(C)
        /\ Cardinality(C) = Cardinality(B) - 1
        /\ Cardinality(B) \in Nat
    BY <2>1, <2>3, FS_RemoveElement, FS_CardinalityType
  <2>5. /\ Spare(s) >= 0
        /\ B # {} => Spare(s) >= Cardinality(B) - 1
        /\ B # {} /\ ~Spaced(s) => Spare(s) >= Cardinality(B)
    BY <1>0 DEF Afforded
  <2>6. Spare(s)' = IF Spaced(s) THEN Spare(s) ELSE Spare(s) - 1
    <3>1. /\ lastText[s] \in Int /\ time \in Int /\ Cooldown \in Int
          /\ repeats' = IF ~Spaced(s) THEN [repeats EXCEPT ![s] = @ + 1] ELSE repeats
      BY <1>0, <1>1, <1>4, RemindersAssumption DEF RemindersTypeOK, Times, Never, Spaced
    <3>2. repeats'[s] = IF Spaced(s) THEN repeats[s] ELSE repeats[s] + 1
      BY <1>0, <3>1 DEF RemindersTypeOK
    <3> QED BY <1>1, <1>5, <3>2 DEF Spare
  <2>7. B # {}
    BY <2>1
  <2>8. Cardinality(B) >= 1
    BY <2>3, <2>4, <2>7, FS_EmptySet
  <2> HIDE DEF B, C
  <2>9. Spare(s)' >= 0 /\ Spare(s)' >= Cardinality(C)
    BY <1>5, <2>4, <2>5, <2>6, <2>7, <2>8
  <2> QED BY <1>5, <2>2, <2>4, <2>6, <2>9 DEF Afforded, C
<1> QED BY <1>3, <1>4

\* A sweep that goes on or ends gives up what it was about to text.
LEMMA ProceedShrinks ==
  ASSUME SweepsInv, NEW w \in Sweeps, NEW rest \in SUBSET targets[w], Proceed(w, rest),
         texted[w] \notin rest, NEW s \in Schedules
  PROVE  /\ AboutTo(s)' \subseteq AboutTo(s)
         /\ texted[w] # s => HasTexted(s)' = HasTexted(s)
BY RemindersAssumption
   DEF Proceed, AboutTo, HasTexted, SweepsInv, RemindersTypeOK, SweepsAreSound

\* Whatever a step does, what is texted too early has been paid for.
LEMMA SweepStep == SweepsInv /\ [RemindersNext]_reminderVars => SweepsInv'
<1> SUFFICES ASSUME SweepsInv, [RemindersNext]_reminderVars PROVE SweepsInv'
  OBVIOUS
<1>0. RemindersTypeOK /\ SweepsAreSound
  BY DEF SweepsInv
<1>1. RemindersTypeOK' /\ SweepsAreSound'
  BY <1>0, SweepTypes, SweepSound
<1> SUFFICES ASSUME NEW s \in Schedules PROVE Afforded(s)'
  BY <1>1 DEF SweepsInv
<1>a. /\ Afforded(s)
      /\ Spare(s) \in Int /\ faults[s] \in Int /\ overlaps[s] \in Int /\ repeats[s] \in Int
  BY <1>0, SpareIsInt DEF SweepsInv
<1>b. /\ time \in Int /\ lastText[s] \in Int /\ reminded[s] \in Int
      /\ Cooldown \in Int /\ Cooldown > 0 /\ lastText[s] <= time
  BY <1>0, RemindersAssumption DEF RemindersTypeOK, SweepsAreSound, Times, Never
<1>2. CASE UNCHANGED reminderVars
  BY <1>1, <1>2, ScheduleAfforded
     DEF reminderVars, scheduleVars, sweepVars, historyVars, Spaced, Stamped
<1>3. CASE Tick
  <2>1. (Spaced(s) => Spaced(s)') /\ (Stamped(s) => Stamped(s)')
    BY <1>3, <1>b DEF Tick, scheduleVars, historyVars, Spaced, Stamped
  <2> QED BY <1>1, <1>3, <2>1, ScheduleAfforded DEF Tick, sweepVars, historyVars
<1>4. ASSUME NEW x \in Schedules,
             CreateSchedule(x) \/ MarkServiced(x) \/ DeleteSchedule(x) \/ RecordMileage(x)
      PROVE  Afforded(s)'
  <2>1. CASE CreateSchedule(x)
    BY <1>1, <2>1, ScheduleAfforded
       DEF CreateSchedule, sweepVars, historyVars, Spaced, Stamped
  <2>2. CASE MarkServiced(x)
    <3>1. (Spaced(s) => Spaced(s)') /\ (Stamped(s) => Stamped(s)')
      BY <1>0, <2>2 DEF MarkServiced, Spaced, Stamped, RemindersTypeOK
    <3> QED BY <1>1, <2>2, <3>1, ScheduleAfforded DEF MarkServiced, sweepVars
  <2>3. CASE DeleteSchedule(x)
    BY <1>1, <2>3, ScheduleAfforded
       DEF DeleteSchedule, sweepVars, historyVars, Spaced, Stamped
  <2>4. CASE RecordMileage(x)
    BY <1>1, <2>4, ScheduleAfforded
       DEF RecordMileage, sweepVars, historyVars, Spaced, Stamped
  <2> QED BY <1>4, <2>1, <2>2, <2>3, <2>4
<1>5. ASSUME NEW w \in Sweeps, BeginSweep(w) PROVE Afforded(s)'
  BY <1>1, <1>5, ScheduleAfforded DEF BeginSweep, scheduleVars, historyVars, Spaced, Stamped
<1>6. ASSUME NEW w \in Sweeps, FindDueForReminders(w) PROVE Afforded(s)'
  BY <1>1, <1>6, FindAfforded
<1>7. ASSUME NEW w \in Sweeps, SendText(w) PROVE Afforded(s)'
  BY <1>1, <1>7, TextAfforded
<1>8. ASSUME NEW w \in Sweeps, StampReminder(w) PROVE Afforded(s)'
  <2>1. /\ texted[w] # NoSchedule
        /\ Proceed(w, targets[w] \ {texted[w]})
        /\ UNCHANGED <<time, existing, deleted, serviced, worn, historyVars>>
        /\ reminded' = IF texted[w] \in existing
                       THEN [reminded EXCEPT ![texted[w]] = time] ELSE reminded
    BY <1>8 DEF StampReminder
  <2>2. /\ AboutTo(s)' \subseteq AboutTo(s)
        /\ texted[w] # s => HasTexted(s)' = HasTexted(s)
    BY <2>1, ProceedShrinks
  <2>3. Spare(s)' = Spare(s) /\ (Spaced(s)' <=> Spaced(s))
    BY <2>1 DEF historyVars, Spare, Spaced
  <2>4. reminded'[s] = reminded[s] \/ reminded'[s] = time
    BY <1>0, <2>1 DEF RemindersTypeOK
  <2>5. Stamped(s) => Stamped(s)'
    <3>1. time # Never
      BY <1>0 DEF RemindersTypeOK, Never
    <3>2. UNCHANGED <<lastText, deleted>>
      BY <2>1 DEF historyVars
    <3> QED BY <1>b, <2>3, <2>4, <3>1, <3>2 DEF Stamped
  <2>6. texted[w] = s => Stamped(s)'
    <3>1. time # Never
      BY <1>0 DEF RemindersTypeOK, Never
    <3>2. s \in existing \cup deleted \/ texted[w] # s
      BY <1>0, <2>1 DEF SweepsAreSound
    <3>3. texted[w] = s /\ s \in existing => reminded'[s] = time
      BY <1>0, <2>1 DEF RemindersTypeOK
    <3>4. UNCHANGED <<lastText, deleted>>
      BY <2>1 DEF historyVars
    <3> QED BY <1>b, <3>1, <3>2, <3>3, <3>4 DEF Stamped
  <2> QED BY <1>0, <1>1, <1>a, <2>2, <2>3, <2>5, <2>6, FewerAbout
<1>9. ASSUME NEW w \in Sweeps, FailToText(w) PROVE Afforded(s)'
  <2>1. PICK x \in targets[w] : Proceed(w, targets[w] \ {x})
    BY <1>9 DEF FailToText
  <2>2. texted[w] = NoSchedule /\ UNCHANGED <<time, scheduleVars, historyVars>>
    BY <1>9 DEF FailToText
  <2>3. texted[w] # s /\ texted[w] \notin targets[w]
    BY <1>0, <2>2, RemindersAssumption DEF RemindersTypeOK
  <2>4. AboutTo(s)' \subseteq AboutTo(s) /\ HasTexted(s)' = HasTexted(s)
    BY <2>1, <2>3, ProceedShrinks
  <2>5. Spare(s)' = Spare(s) /\ (Spaced(s)' <=> Spaced(s)) /\ (Stamped(s)' <=> Stamped(s))
    BY <2>2 DEF scheduleVars, historyVars, Spare, Spaced, Stamped
  <2> QED BY <1>0, <1>1, <1>a, <2>4, <2>5, FewerAbout
<1>10. ASSUME NEW w \in Sweeps, FailSweep(w) PROVE Afforded(s)'
  <2>1. /\ Proceed(w, {}) \/ Proceed(w, targets[w] \ {texted[w]})
        /\ UNCHANGED <<time, scheduleVars, lastText, repeats, overlaps>>
    BY <1>10 DEF FailSweep
  <2>2. /\ AboutTo(s)' \subseteq AboutTo(s)
        /\ texted[w] # s => HasTexted(s)' = HasTexted(s)
    BY <2>1, ProceedShrinks
  <2>3. (Spaced(s)' <=> Spaced(s)) /\ (Stamped(s)' <=> Stamped(s))
    BY <2>1 DEF scheduleVars, Spaced, Stamped
  <2>4. faults'[s] = IF texted[w] = s THEN faults[s] + 1 ELSE faults[s]
    BY <1>0, <1>10, RemindersAssumption DEF FailSweep, RemindersTypeOK
  <2>5. Spare(s)' = IF texted[w] = s THEN Spare(s) + 1 ELSE Spare(s)
    BY <1>a, <2>1, <2>4 DEF Spare
  <2>6. Spare(s) >= 0
    BY <1>a DEF Afforded
  <2>7. Spare(s)' >= Spare(s) /\ (texted[w] = s => Spare(s)' >= 1)
    BY <1>a, <2>5, <2>6
  <2> QED BY <1>0, <1>1, <1>a, <2>2, <2>3, <2>7, FewerAbout
<1> QED
  BY <1>2, <1>3, <1>4, <1>5, <1>6, <1>7, <1>8, <1>9, <1>10 DEF RemindersNext

\* Each text within the cooldown of the last one is paid for by a fault between
\* a text and its stamp or by sweeps that overlap, for any number of sweeps and
\* schedules and whatever is serviced, driven or deleted meanwhile
\* (maintenance-service.ts: findDueForReminders and the sweep of run-worker.ts).
THEOREM RemindersAreSpaced == RemindersSpec => [](RemindersTypeOK /\ RemindersSpaced)
<1>1. SweepsInv => RemindersTypeOK /\ RemindersSpaced
  BY SpareIsInt DEF SweepsInv, Afforded, Spare, RemindersSpaced
<1> QED BY <1>1, SweepsInit, SweepStep, PTL DEF RemindersSpec

-----------------------------------------------------------------------------
(* The parts side by side. *)

\* Each part keeps its own invariant while another moves: none reads or writes
\* what is not its own.
LEMMA PartsInvariant ==
  DeskSpec => [](/\ FoundInv /\ OperatorsInv /\ DrawerInv /\ PricesInv
                 /\ SeriesInv /\ ErrandInv /\ SweepsInv)
<1>1. DeskInit => AccessInit /\ OperatorsInit /\ CashDrawerInit /\ PricingInit
                  /\ NumbersInit /\ DispatchInit /\ RemindersInit
  BY DEF DeskInit
<1>2. [DeskNext]_deskVars =>
        /\ [AccessNext]_accessVars /\ [OperatorsNext]_operatorVars
        /\ [CashDrawerNext]_drawerVars /\ [PricingNext]_pricingVars
        /\ [NumbersNext]_numberVars /\ [DispatchNext]_dispatchVars
        /\ [RemindersNext]_reminderVars
  BY DEF DeskNext, deskVars
<1> QED
  BY <1>1, <1>2, FoundInit, FoundStep, OperatorsInitInv, OperatorsStepInv, DrawerInit, DrawerStep,
     PricesInit, PricesStep, SeriesInit, SeriesStep, ErrandInit, ErrandStep, SweepsInit, SweepStep,
     PTL DEF DeskSpec

\* Whatever the constants, every part that shares the desk stays of its type.
THEOREM DeskIsTyped == DeskSpec => []DeskTypeOK
<1>1. (/\ FoundInv /\ OperatorsInv /\ DrawerInv /\ PricesInv
       /\ SeriesInv /\ ErrandInv /\ SweepsInv) => DeskTypeOK
  BY DEF FoundInv, OperatorsInv, DrawerInv, PricesInv, SeriesInv, ErrandInv, SweepsInv, DeskTypeOK
<1> QED BY <1>1, PartsInvariant, PTL
=============================================================================
