------------------------------- MODULE MCDesk -------------------------------
(* Values of Desk's constants for TLC. *)
EXTENDS Desk, TLC

CONSTANTS
  x, y, fee, none, k1,  \* estimate lines, an authorization link
  consumables, supplies, disposal, \* shop fees
  ann, bob, key1, key2, \* users, and the keys of two self-service requests
  ro, ab                \* prefixes of numbers

\* The two lines are options of one choice.
Options == [l \in Lines |-> IF l = fee THEN NoGroup ELSE "size"]

\* Both self-service requests are of one user.
Sender == key1 :> ann @@ key2 :> ann

\* Labor whose gross and tax end in a half, the flat fee entered by hand without
\* tax, a discount.
Menu ==
  LET labor == [quantity |-> 1500, price |-> 7, discount |-> 0, taxable |-> TRUE,
                rate |-> 5000, labor |-> TRUE, shopFee |-> NoFee]
      byHand == [labor EXCEPT !.quantity = 1000, !.price = 2, !.taxable = FALSE, !.rate = 0,
                              !.labor = FALSE, !.shopFee = supplies]
  IN  {labor, Negated(labor), byHand, Negated(byHand), [labor EXCEPT !.discount = 3]}

\* A share of the labor on both documents, a flat fee on both, a share with a
\* maximum on one.
FeeCatalog ==
  LET share(r, m, for) ==
        [calculation |-> "PERCENT_OF_LABOR", amount |-> 0, rate |-> r, maximum |-> m,
         taxable |-> TRUE, taxRate |-> 5000, appliesTo |-> for]
  IN  consumables :> share(1500, NoMaximum, "BOTH")
      @@ supplies :> [share(0, NoMaximum, "BOTH") EXCEPT !.calculation = "FLAT", !.amount = 2]
      @@ disposal :> share(5000, 1, "BASELINE")

\* The prefixes, later and earlier as strings.
Alphabet == ro :> 2 @@ ab :> 1

Tens == [n \in 1..Last |-> IF n < 10 THEN 10 ELSE 100]
=============================================================================
