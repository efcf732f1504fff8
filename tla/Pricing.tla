------------------------------ MODULE Pricing ------------------------------
(***************************************************************************)
(* The money of one work order: the lines of its estimate and of a change  *)
(* order, the shop fees that presenting them adds, and the invoice over    *)
(* both.                                                                   *)
(* Source: src/modules/shared/money.ts, taxes/shop-fee-service.ts and the  *)
(* estimate, change-order and invoice services where they price.           *)
(*                                                                         *)
(* Amounts are integers of minor units, quantities thousandths, rates      *)
(* basis points.  Who may change a line when is Estimate's subject: here   *)
(* one request runs at a time.                                             *)
(***************************************************************************)
EXTENDS Integers, Sequences, FiniteSets, Functions

CONSTANTS
  Offered,    \* what a line may say
  MaxLines,   \* bound: lines that are entered into one document
  ShopFees,   \* names of the fees that the organization may have
  FeeOf,      \* the terms of each
  NoMaximum,  \* of a fee without one
  NoFee,      \* of a line that does not stand for a fee
  NotBilled   \* no invoice yet

Documents == {"BASELINE", "CHANGE_ORDER"}

\* Is a line labor?  Is it entered by hand in the place of a fee, in the group
\* "shop-fee" and under its name?
Terms ==
  [quantity : Nat, price : Int, discount : Nat, taxable : BOOLEAN, rate : Nat,
   labor : BOOLEAN, shopFee : ShopFees \cup {NoFee}]

FeeRows ==
  [calculation : {"FLAT", "PERCENT_OF_LABOR"}, amount : Nat, rate : Nat,
   maximum : Nat \cup {NoMaximum}, taxable : BOOLEAN, taxRate : Nat,
   appliesTo : Documents \cup {"BOTH"}]

ASSUME PricingAssumption ==
  /\ Offered \subseteq Terms
  /\ IsFiniteSet(ShopFees)
  /\ FeeOf \in [ShopFees -> FeeRows]

VARIABLES
  taxInclusive,  \* the organization's tax display mode when it was estimated
  feeStatus,     \* whether each fee exists and is active
  entered,       \* lines of each document, as priced when they were added
  fees,          \* its fee lines, by the fee
  presented,     \* documents that are sealed
  bill           \* the invoice: the documents it covers, its amounts

pricingVars == <<taxInclusive, feeStatus, entered, fees, presented, bill>>

-----------------------------------------------------------------------------
(* money.ts *)

Magnitude(n) == IF n < 0 THEN -n ELSE n

\* Division of BigInts truncates; d is positive.
Quotient(n, d) == IF n < 0 THEN -((-n) \div d) ELSE n \div d

\* Mutant: halves are rounded up, as Math.round does.
RoundHalfUp(n, d) == (2 * n + d) \div (2 * d)

\* Half away from zero.
RatioRounded(n, d) ==
  LET q == Quotient(n, d)
  IN  IF 2 * Magnitude(n - d * q) >= d THEN (IF n < 0 THEN q - 1 ELSE q + 1) ELSE q

Gross(t) == RatioRounded(t.quantity * t.price, 1000)

Net(t) == Gross(t) - t.discount

\* discount_on_credit, discount_exceeds_line.
Calculable(t) ==
  /\ Gross(t) < 0 => t.discount = 0
  /\ Gross(t) >= 0 => t.discount <= Gross(t)

\* The tax on top of the net price, or the tax that it contains.
TaxOf(t, inclusive) ==
  IF ~t.taxable THEN 0
  ELSE IF inclusive THEN Net(t) - RatioRounded(Net(t) * 10000, 10000 + t.rate)
  ELSE RatioRounded(Net(t) * t.rate, 10000)

CalculateLine(t, inclusive) ==
  [gross |-> Gross(t), discount |-> t.discount, tax |-> TaxOf(t, inclusive),
   total |-> IF inclusive THEN Net(t) ELSE Net(t) + TaxOf(t, inclusive)]

-----------------------------------------------------------------------------
(* The catalog of fees. *)

\* createShopFee: a name is not used again (duplicate_name).
CreateShopFee(f) ==
  /\ feeStatus[f] = "ABSENT"
  /\ feeStatus' = [feeStatus EXCEPT ![f] = "ACTIVE"]
  /\ UNCHANGED <<taxInclusive, entered, fees, presented, bill>>

\* deactivateShopFee: documents keep the lines they have.
DeactivateShopFee(f) ==
  /\ feeStatus[f] # "ABSENT"
  /\ feeStatus' = [feeStatus EXCEPT ![f] = "INACTIVE"]
  /\ UNCHANGED <<taxInclusive, entered, fees, presented, bill>>

-----------------------------------------------------------------------------
(* Documents. *)

\* createChangeOrder leaves tax_inclusive at its default.
Inclusive(doc) == taxInclusive /\ doc = "BASELINE"

PricingInit ==
  /\ taxInclusive \in BOOLEAN
  /\ feeStatus = [f \in ShopFees |-> "ABSENT"]
  /\ entered = [doc \in Documents |-> << >>]
  /\ fees = [doc \in Documents |-> << >>]
  /\ presented = {}
  /\ bill = NotBilled

PricedLine(t, doc) == [terms |-> t, amounts |-> CalculateLine(t, Inclusive(doc))]

\* addLine: credits (credit_line_not_allowed) are for change orders, and those
\* are for a presented estimate.
AddPricedLine(doc) ==
  /\ doc \notin presented
  /\ doc = "CHANGE_ORDER" => "BASELINE" \in presented
  /\ Len(entered[doc]) < MaxLines
  /\ \E t \in Offered :
       /\ t.price < 0 => doc = "CHANGE_ORDER"
       /\ Calculable(t)
       /\ entered' = [entered EXCEPT ![doc] = Append(@, PricedLine(t, doc))]
  /\ UNCHANGED <<taxInclusive, feeStatus, fees, presented, bill>>

\* What the lines with numbers in S add up to, and all lines.
AddOf(field, ls, S) == SumFunctionOnSet([i \in S |-> ls[i].amounts[field]], S)
Add(field, ls) == AddOf(field, ls, DOMAIN ls)

LaborGross(ls) == AddOf("gross", ls, {i \in DOMAIN ls : ls[i].terms.labor})

\* resolveFeeAmountMinor: the maximum is for percentages.
FeeAmount(fee, laborGross) ==
  LET share == Quotient(laborGross * fee.rate, 10000)
  IN  IF fee.calculation = "FLAT" THEN fee.amount
      ELSE IF fee.maximum # NoMaximum /\ share > fee.maximum THEN fee.maximum
      ELSE share

FeeTerms(f, laborGross) ==
  [quantity |-> 1000, price |-> FeeAmount(FeeOf[f], laborGross), discount |-> 0,
   taxable |-> FeeOf[f].taxable, rate |-> FeeOf[f].taxRate, labor |-> FALSE, shopFee |-> f]

FeeLine(f, doc) == PricedLine(FeeTerms(f, LaborGross(entered[doc])), doc)

\* feeLinesForPresentation: active fees for such a document, but for those that
\* it has by hand.
FeesFor(doc) ==
  {f \in ShopFees :
    /\ feeStatus[f] = "ACTIVE"
    /\ FeeOf[f].appliesTo \in {doc, "BOTH"}
    /\ \A i \in DOMAIN entered[doc] : entered[doc][i].terms.shopFee # f}

\* presentRevision and presentChangeOrder add the fees and seal; a change order
\* is not empty.
PresentDocument(doc) ==
  /\ doc \notin presented
  /\ doc = "CHANGE_ORDER" => "BASELINE" \in presented /\ entered[doc] # << >>
  /\ fees' = [fees EXCEPT ![doc] = [f \in FeesFor(doc) |-> FeeLine(f, doc)]]
  /\ presented' = presented \cup {doc}
  /\ UNCHANGED <<taxInclusive, feeStatus, entered, bill>>

\* What the documents of a set come to.
Billed(field, docs) ==
  LET of(doc) ==
        IF doc \in docs THEN Add(field, entered[doc]) + Add(field, fees[doc]) ELSE 0
  IN  of("BASELINE") + of("CHANGE_ORDER")

\* createInvoiceFromWorkOrder of everything presented, all of it approved; a
\* document that is not presented is not read.
BillLines ==
  /\ bill = NotBilled
  /\ "BASELINE" \in presented
  /\ bill' = [documents |-> presented,
              subtotal |-> Billed("gross", presented),
              discount |-> Billed("discount", presented),
              tax |-> Billed("tax", presented), total |-> Billed("total", presented)]
  /\ UNCHANGED <<taxInclusive, feeStatus, entered, fees, presented>>

PricingNext ==
  \/ \E f \in ShopFees : CreateShopFee(f) \/ DeactivateShopFee(f)
  \/ \E doc \in Documents : AddPricedLine(doc) \/ PresentDocument(doc)
  \/ BillLines

PricingSpec == PricingInit /\ [][PricingNext]_pricingVars

-----------------------------------------------------------------------------
(* Properties. *)

Amounts == [gross : Int, discount : Nat, tax : Int, total : Int]
PricedLines == [terms : Terms, amounts : Amounts]

\* Every variable keeps its type.
PricingTypeOK ==
  /\ taxInclusive \in BOOLEAN
  /\ feeStatus \in [ShopFees -> {"ABSENT", "ACTIVE", "INACTIVE"}]
  /\ entered \in [Documents -> Seq(PricedLines)]
  /\ DOMAIN fees = Documents
  /\ \A doc \in Documents :
       /\ DOMAIN fees[doc] \subseteq ShopFees
       /\ \A f \in DOMAIN fees[doc] : fees[doc][f] \in PricedLines
  /\ presented \subseteq Documents
  /\ bill \in {NotBilled} \cup
       [documents : SUBSET Documents, subtotal : Int, discount : Nat, tax : Int, total : Int]

Negated(t) == [t EXCEPT !.price = -t.price]

\* The change order of the invoice takes back what was entered into the estimate,
\* line by line and in any order.
TakenBack ==
  /\ "CHANGE_ORDER" \in bill.documents
  /\ \E match \in Bijection(DOMAIN entered["BASELINE"], DOMAIN entered["CHANGE_ORDER"]) :
       \A i \in DOMAIN match :
         LET t == entered["BASELINE"][i].terms
         IN  t.discount = 0 /\ entered["CHANGE_ORDER"][match[i]].terms = Negated(t)

\* Fees that presenting the change order takes back: percentages of the labor
\* without a maximum, which both documents were given.
FeesTakenBack ==
  {f \in DOMAIN fees["BASELINE"] \cap DOMAIN fees["CHANGE_ORDER"] :
    FeeOf[f].calculation = "PERCENT_OF_LABOR" /\ FeeOf[f].maximum = NoMaximum}

\* The other fee lines of both documents.
FeesKept(field) ==
  LET of(doc) == AddOf(field, fees[doc], DOMAIN fees[doc] \ FeesTakenBack)
  IN  of("BASELINE") + of("CHANGE_ORDER")

\* Who is billed for work and for its reversal owes the fees that reversing does
\* not take back, to the cent, and is taxed on nothing else: nothing at all if the
\* fees are percentages that did not change.  What rounds up on a charge rounds
\* down on the credit of the same terms, whatever is done to the catalog of fees in
\* between.  The code keeps a flat fee, and charges it again; a fee for one sort of
\* document, or that was created or deactivated between the two; and what a
\* maximum has cut off is credited all the same.  In an organization whose prices
\* include the tax, only the subtotal is right.
CreditUndoes ==
  bill # NotBilled /\ TakenBack =>
    /\ bill.subtotal = FeesKept("gross")
    /\ ~taxInclusive => bill.tax = FeesKept("tax") /\ bill.total = FeesKept("total")
=============================================================================
