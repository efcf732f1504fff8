---------------------------- MODULE InvoiceLedger ----------------------------
(***************************************************************************)
(* The money side of one work order: its invoice, the payments recorded    *)
(* against it at the counter, from deposits and by the payment processor's *)
(* webhook, and the refunds.  Source: src/modules/invoices/                *)
(* invoice-service.ts and src/modules/billing/.                            *)
(*                                                                         *)
(* A request is a sequence of steps.  Its transaction runs at READ         *)
(* COMMITTED and locks nothing when it reads, so it is split where other   *)
(* requests may commit in between: one step for what it reads, one for the *)
(* commit, which writes values computed from what was read.  A conditional *)
(* update (updateMany ... where) tests its condition at the commit.        *)
(***************************************************************************)
EXTENDS Integers, FiniteSets, Functions, WorkOrderStatus

CONSTANTS
  Requests,       \* requests that may be in flight at once
  Total,          \* total_minor of the invoice, fixed when it is created
  Payments,       \* bound: ids for rows of payments
  Deposits,       \* deposits the customer may leave on the work order
  DepositAmount,  \* amount_minor of each
  Checkouts,      \* bound: checkout sessions at the payment processor
  Counter,        \* source of a payment recorded by staff
  Nothing,        \* "no subject"
  MaxTenders,     \* tenders one payment may be split into (10)
  MayCrash        \* may a server process die between two steps?

Sources == {Counter} \cup Deposits \cup Checkouts

ASSUME LedgerAssumption ==
  /\ Total \in Nat
  /\ IsFiniteSet(Payments)
  /\ DepositAmount \in [Deposits -> Nat \ {0}]
  /\ Deposits \cap Checkouts = {}
  /\ Counter \notin Deposits \cup Checkouts
  /\ Nothing \notin Payments \cup Deposits \cup Checkouts
  /\ MaxTenders \in Nat \ {0}
  /\ MayCrash \in BOOLEAN

VARIABLES
  (* Rows. *)
  woStatus,   \* work_orders.status
  inv,        \* invoices.status, or "NONE" before the invoice exists
  paid,       \* invoices.paid_minor
  amountOf,   \* payments.amount_minor, 0 while the id is unused
  source,     \* where each payment came from
  refunded,   \* sum of the refund rows of each payment
  taken,      \* rows of deposits
  applied,    \* deposits with applied_invoice_id set
  (* The payment processor. *)
  checkout,   \* amount of each checkout session, 0 before it exists
  charged,    \* sessions the customer paid
  returned,   \* money the processor gave back, for each payment
  (* Requests. *)
  pc,         \* the step each request takes next
  subject,    \* the payment, deposit or checkout it is about
  amount,     \* the amount it settled on
  readPaid    \* paid_minor as it read it

invVars == <<woStatus, inv, paid>>
payVars == <<amountOf, source>>
depositVars == <<taken, applied>>
processorVars == <<checkout, charged, returned>>
requestVars == <<pc, subject, amount, readPaid>>
vars == <<invVars, payVars, refunded, depositVars, processorVars, requestVars>>

Init ==
  /\ woStatus = "AUTHORIZED"
  /\ inv = "NONE"
  /\ paid = 0
  /\ amountOf = [p \in Payments |-> 0]
  /\ source = [p \in Payments |-> Counter]
  /\ refunded = [p \in Payments |-> 0]
  /\ taken = {}
  /\ applied = {}
  /\ checkout = [c \in Checkouts |-> 0]
  /\ charged = {}
  /\ returned = [p \in Payments |-> 0]
  /\ pc = [r \in Requests |-> "idle"]
  /\ subject = [r \in Requests |-> Nothing]
  /\ amount = [r \in Requests |-> 0]
  /\ readPaid = [r \in Requests |-> 0]

-----------------------------------------------------------------------------
(* Helpers. *)

Recorded == {p \in Payments : amountOf[p] > 0}
Unused == Payments \ Recorded

\* Mutant: a draft takes money.
PayableDraft == inv # "NONE"

\* The status check every way of paying makes (VOID is never assigned).
Payable == inv \notin {"NONE", "DRAFT"}

\* Mutant: the balance ignores what is paid already.
BalanceTotal == Total

Balance == Total - paid

\* Status of an invoice after a payment that brings it to n.
PaidStatus(n) == IF n >= Total THEN "PAID" ELSE "PARTIALLY_PAID"

\* Mutant: a full refund leaves the invoice partially paid.
NetStatusPartial(n) == IF n >= Total THEN "PAID" ELSE "PARTIALLY_PAID"

\* Status of an invoice after a refund that brings it to n.
NetStatus(n) ==
  IF n >= Total THEN "PAID" ELSE IF n > 0 THEN "PARTIALLY_PAID" ELSE "ISSUED"

\* Mutant: a payment is refundable in full again and again.
RefundableAll(p) == amountOf[p]

Refundable(p) == amountOf[p] - refunded[p]

\* Mutant: the idempotency lookup is dropped.
SeenNever(c) == FALSE

\* Has a payment of this checkout been recorded?
Seen(c) == \E p \in Recorded : source[p] = c

\* Mutant: the webhook amount is not clamped to the balance.
ClampedNot(c, balance) == checkout[c]

\* What the webhook records of a checkout, given the balance it read.
Clamped(c, balance) == IF checkout[c] > balance THEN balance ELSE checkout[c]

\* Mutant: the deposit is claimed without its condition.
ClaimableAlways(d) == TRUE

\* updateMany where appliedInvoiceId is null: is the deposit still open?
Claimable(d) == d \notin applied

\* Mutant: card payments are refunded at the counter, like cash.
ViaProcessorNever(p) == FALSE

\* Was the payment charged by the processor?  (A paid session carries its
\* payment_intent, so the row of a webhook has a processor_charge_id.)
ViaProcessor(p) == source[p] \in Checkouts

Finish(r, next) ==
  /\ pc' = [pc EXCEPT ![r] = next]
  /\ subject' = [subject EXCEPT ![r] = Nothing]
  /\ amount' = [amount EXCEPT ![r] = 0]
  /\ readPaid' = [readPaid EXCEPT ![r] = 0]

\* A read step: the request goes on to next with what it decided.
Proceed(r, next, s, a, read) ==
  /\ pc' = [pc EXCEPT ![r] = next]
  /\ subject' = [subject EXCEPT ![r] = s]
  /\ amount' = [amount EXCEPT ![r] = a]
  /\ readPaid' = [readPaid EXCEPT ![r] = read]

-----------------------------------------------------------------------------
(* The work order and the invoice. *)

\* Staff move the work order (transitionStatus from the work-order page).  Its
\* read and its conditional update are one step: if the status changes in
\* between, the update matches no row and the transition fails.
MoveWorkOrder(to) ==
  /\ CanTransition(woStatus, to)
  /\ woStatus' = to
  /\ UNCHANGED <<inv, paid, payVars, refunded, depositVars, processorVars, requestVars>>

\* createInvoiceFromWorkOrder, up to its checks.
CreateRead(r) ==
  /\ pc[r] = "idle"
  /\ woStatus \in {"COMPLETED", "AUTHORIZED", "IN_PROGRESS"}
  /\ inv = "NONE"
  /\ Proceed(r, "create", Nothing, 0, 0)
  /\ UNCHANGED <<invVars, payVars, refunded, depositVars, processorVars>>

\* Its commit; a second invoice fails on the unique index.
CreateCommit(r) ==
  /\ pc[r] = "create"
  /\ inv' = IF inv = "NONE" THEN "DRAFT" ELSE inv
  /\ Finish(r, "idle")
  /\ UNCHANGED <<woStatus, paid, payVars, refunded, depositVars, processorVars>>

\* issueInvoice: the conditional update commits on its own ...
IssueCommit(r) ==
  /\ pc[r] = "idle"
  /\ inv = "DRAFT"
  /\ inv' = "ISSUED"
  /\ Finish(r, "invoiced")
  /\ UNCHANGED <<woStatus, paid, payVars, refunded, depositVars, processorVars>>

\* ... and the work order follows in a second transaction.  The follow-up of
\* a settled invoice is the same with CLOSED; errors are swallowed.
FollowUp(r, step, to) ==
  /\ pc[r] = step
  /\ woStatus' = IF CanTransition(woStatus, to) THEN to ELSE woStatus
  /\ Finish(r, "idle")
  /\ UNCHANGED <<inv, paid, payVars, refunded, depositVars, processorVars>>

FollowUpInvoiced(r) == FollowUp(r, "invoiced", "INVOICED")
FollowUpClosed(r) == FollowUp(r, "closed", "CLOSED")

-----------------------------------------------------------------------------
(* Payments at the counter and from deposits. *)

\* Rows for a payment of a in all, split into the tenders ids.
InsertPayments(ids, split, src) ==
  /\ amountOf' = [p \in Payments |-> IF p \in ids THEN split[p] ELSE amountOf[p]]
  /\ source' = [p \in Payments |-> IF p \in ids THEN src ELSE source[p]]

\* recordPayment and recordPaymentTenders, up to their checks.
PaymentRead(r) ==
  /\ pc[r] = "idle"
  /\ Payable
  /\ \E a \in 1..Balance : Proceed(r, "pay", Counter, a, paid)
  /\ UNCHANGED <<invVars, payVars, refunded, depositVars, processorVars>>

\* paid_minor becomes what the request read plus the tenders, status with it.
PaymentCommit(r) ==
  /\ pc[r] = "pay"
  /\ \E ids \in SUBSET Unused :
       /\ Cardinality(ids) \in 1..MaxTenders
       /\ \E split \in [ids -> 1..amount[r]] :
            /\ SumFunction(split) = amount[r]
            /\ InsertPayments(ids, split, Counter)
  /\ paid' = readPaid[r] + amount[r]
  /\ inv' = PaidStatus(paid')
  /\ Finish(r, IF inv' = "PAID" THEN "closed" ELSE "idle")
  /\ UNCHANGED <<woStatus, refunded, depositVars, processorVars>>

\* recordDeposit: at any time of the work order's life.
TakeDeposit(d) ==
  /\ taken' = taken \cup {d}
  /\ d \notin taken
  /\ UNCHANGED <<invVars, payVars, refunded, applied, processorVars, requestVars>>

\* applyDeposit, up to its checks.
DepositRead(r) ==
  /\ pc[r] = "idle"
  /\ Payable
  /\ \E d \in taken \ applied :
       /\ DepositAmount[d] <= Balance
       /\ Proceed(r, "deposit", d, DepositAmount[d], paid)
  /\ UNCHANGED <<invVars, payVars, refunded, depositVars, processorVars>>

\* The claim of the deposit, the payment row and the invoice, in one commit.
DepositCommit(r) ==
  /\ pc[r] = "deposit"
  /\ Claimable(subject[r])
  /\ \E p \in Unused : InsertPayments({p}, [q \in {p} |-> amount[r]], subject[r])
  /\ applied' = applied \cup {subject[r]}
  /\ paid' = readPaid[r] + amount[r]
  /\ inv' = PaidStatus(paid')
  /\ Finish(r, "idle")
  /\ UNCHANGED <<woStatus, refunded, taken, processorVars>>

\* deposit_already_applied: a concurrent apply was faster.
DepositRefused(r) ==
  /\ pc[r] = "deposit"
  /\ ~Claimable(subject[r])
  /\ Finish(r, "idle")
  /\ UNCHANGED <<invVars, payVars, refunded, depositVars, processorVars>>

-----------------------------------------------------------------------------
(* Payments through the processor. *)

\* createInvoicePaymentLink reads the balance ...
LinkRead(r) ==
  /\ pc[r] = "idle"
  /\ Payable
  /\ Balance > 0
  /\ Proceed(r, "link", Nothing, Balance, paid)
  /\ UNCHANGED <<invVars, payVars, refunded, depositVars, processorVars>>

\* ... and the processor opens a checkout session over it.  Older links stay
\* valid; which one the invoice remembers makes no difference to the webhook.
LinkCreate(r) ==
  /\ pc[r] = "link"
  /\ \E c \in Checkouts :
       /\ checkout[c] = 0
       /\ checkout' = [checkout EXCEPT ![c] = amount[r]]
  /\ Finish(r, "idle")
  /\ UNCHANGED <<invVars, payVars, refunded, depositVars, charged, returned>>

\* External: the customer pays a checkout session.
CustomerPays(c) ==
  /\ checkout[c] > 0
  /\ c \notin charged
  /\ charged' = charged \cup {c}
  /\ UNCHANGED <<invVars, payVars, refunded, depositVars, checkout, returned, requestVars>>

\* recordStripeCheckoutCompleted reads the invoice.  The processor delivers the
\* event of a paid session any number of times, also twice at once.
WebhookRead(r) ==
  /\ pc[r] = "idle"
  /\ Payable
  /\ \E c \in charged : Proceed(r, "dedup", c, 0, paid)
  /\ UNCHANGED <<invVars, payVars, refunded, depositVars, processorVars>>

\* It looks for an earlier payment of the session and clamps the amount; a
\* duplicate and a settled invoice are acknowledged and ignored.
WebhookDedup(r) ==
  /\ pc[r] = "dedup"
  /\ LET a == Clamped(subject[r], Total - readPaid[r])
     IN  IF Seen(subject[r]) \/ a <= 0
         THEN Finish(r, "idle")
         ELSE Proceed(r, "webhook", subject[r], a, readPaid[r])
  /\ UNCHANGED <<invVars, payVars, refunded, depositVars, processorVars>>

WebhookCommit(r) ==
  /\ pc[r] = "webhook"
  /\ \E p \in Unused : InsertPayments({p}, [q \in {p} |-> amount[r]], subject[r])
  /\ paid' = readPaid[r] + amount[r]
  /\ inv' = PaidStatus(paid')
  /\ Finish(r, "idle")
  /\ UNCHANGED <<woStatus, refunded, depositVars, processorVars>>

-----------------------------------------------------------------------------
(* Refunds. *)

\* refundPayment reads the payment and its refunds, outside any transaction.
RefundRead(r) ==
  /\ pc[r] = "idle"
  /\ \E p \in Recorded : \E a \in 1..Refundable(p) :
       Proceed(r, IF ViaProcessor(p) THEN "processor" ELSE "refund", p, a, 0)
  /\ UNCHANGED <<invVars, payVars, refunded, depositVars, processorVars>>

\* Rows that record the same checkout session as payment p.
SameCheckout(p) == {q \in Payments : source[q] = source[p]}

\* The processor gives the money back, never more than it was paid ...
ProcessorRefunds(r) ==
  /\ pc[r] = "processor"
  /\ LET p == subject[r]
     IN  /\ SumFunctionOnSet(returned, SameCheckout(p)) + amount[r] <= checkout[source[p]]
         /\ returned' = [returned EXCEPT ![p] = @ + amount[r]]
  /\ Proceed(r, "refund", subject[r], amount[r], 0)
  /\ UNCHANGED <<invVars, payVars, refunded, depositVars, checkout, charged>>

\* ... or refuses or cannot be reached (processor_refund_failed).
ProcessorFails(r) ==
  /\ pc[r] = "processor"
  /\ Finish(r, "idle")
  /\ UNCHANGED <<invVars, payVars, refunded, depositVars, processorVars>>

\* Inside the transaction the invoice is read again.
RefundReadInvoice(r) ==
  /\ pc[r] = "refund"
  /\ Proceed(r, "refundWrite", subject[r], amount[r], paid)
  /\ UNCHANGED <<invVars, payVars, refunded, depositVars, processorVars>>

\* Mutant: the database accepts a negative paid_minor.
CheckAmountsNot(n) == TRUE

\* The CHECK constraint invoices_amounts_check on paid_minor.
CheckAmounts(n) == n >= 0

\* Mutant: the refund is not taken off the invoice.
PaidLessNothing(n, a) == n

\* paid_minor, net of a refund.
PaidLess(n, a) == n - a

RefundCommit(r) ==
  /\ pc[r] = "refundWrite"
  /\ LET n == PaidLess(readPaid[r], amount[r])
     IN  /\ CheckAmounts(n)
         /\ paid' = n
         /\ inv' = NetStatus(n)
  /\ refunded' = [refunded EXCEPT ![subject[r]] = @ + amount[r]]
  /\ Finish(r, "idle")
  /\ UNCHANGED <<woStatus, payVars, depositVars, processorVars>>

\* The CHECK constraint fails: the transaction rolls back, the refund row with
\* it, whatever the processor gave back.
RefundAborts(r) ==
  /\ pc[r] = "refundWrite"
  /\ ~CheckAmounts(PaidLess(readPaid[r], amount[r]))
  /\ Finish(r, "idle")
  /\ UNCHANGED <<invVars, payVars, refunded, depositVars, processorVars>>

\* The server process dies; an open transaction rolls back.
Crash(r) ==
  /\ MayCrash
  /\ pc[r] # "idle"
  /\ Finish(r, "idle")
  /\ UNCHANGED <<invVars, payVars, refunded, depositVars, processorVars>>

-----------------------------------------------------------------------------

Step(r) ==
  \/ CreateRead(r) \/ CreateCommit(r)
  \/ IssueCommit(r) \/ FollowUpInvoiced(r)
  \/ PaymentRead(r) \/ PaymentCommit(r) \/ FollowUpClosed(r)
  \/ DepositRead(r) \/ DepositCommit(r) \/ DepositRefused(r)
  \/ LinkRead(r) \/ LinkCreate(r)
  \/ WebhookRead(r) \/ WebhookDedup(r) \/ WebhookCommit(r)
  \/ RefundRead(r) \/ ProcessorRefunds(r) \/ ProcessorFails(r)
  \/ RefundReadInvoice(r) \/ RefundCommit(r) \/ RefundAborts(r)
  \/ Crash(r)

Next ==
  \/ \E to \in WorkOrderStatuses : MoveWorkOrder(to)
  \/ \E d \in Deposits : TakeDeposit(d)
  \/ \E c \in Checkouts : CustomerPays(c)
  \/ \E r \in Requests : Step(r)

Spec == Init /\ [][Next]_vars

-----------------------------------------------------------------------------
(* Properties that hold however requests interleave and servers crash. *)

Steps == {"idle", "create", "invoiced", "closed", "pay", "deposit", "link", "dedup",
          "webhook", "processor", "refund", "refundWrite"}

\* Types: the columns of the tables and what each request remembers; the paid
\* amount is never negative.
TypeOK ==
  /\ woStatus \in WorkOrderStatuses
  /\ inv \in {"NONE", "DRAFT", "ISSUED", "PARTIALLY_PAID", "PAID"}
  /\ paid \in Nat
  /\ amountOf \in [Payments -> Nat]
  /\ source \in [Payments -> Sources]
  /\ refunded \in [Payments -> Nat]
  /\ taken \subseteq Deposits
  /\ applied \subseteq taken
  /\ checkout \in [Checkouts -> Nat]
  /\ charged \subseteq Checkouts
  /\ returned \in [Payments -> Nat]
  /\ pc \in [Requests -> Steps]
  /\ subject \in [Requests -> {Nothing, Counter} \cup Payments \cup Deposits \cup Checkouts]
  /\ amount \in [Requests -> Nat]
  /\ readPaid \in [Requests -> Nat]

\* paid_minor never exceeds the total, though every way of paying checks it
\* against a value that may be stale when it commits (and the database no
\* longer does): each commit writes a value its own read justified. It is part
\* of what keeps the status and the amount in step (StatusMatchesPaid).
PaidWithinTotal == paid <= Total

\* The status tells the truth about paid_minor: paid in full, in part, or
\* nothing; a draft has taken no money.
StatusMatchesPaid ==
  /\ inv \in {"NONE", "DRAFT", "ISSUED"} => paid = 0
  /\ inv = "PARTIALLY_PAID" => 0 < paid /\ paid < Total
  /\ inv = "PAID" => paid = Total

\* A deposit pays its invoice once: applied deposits have exactly one payment
\* row and open ones none ("so a concurrent apply can't double-pay").
DepositPaysOnce ==
  /\ \A d \in applied : \E p \in Recorded : source[p] = d
  /\ \A p, q \in Recorded : source[p] \in Deposits /\ source[p] = source[q] => p = q
  /\ \A p \in Recorded : source[p] \in Deposits => source[p] \in applied

\* No payment belongs to an invoice that was not issued (part of the inductive
\* invariant of InvoiceLedgerProofs).
NoMoneyOnDraft == Recorded # {} => Payable

\* Money is recorded or given back on issued invoices only: the status each
\* request checked still holds when it commits, and no commit takes it back.
MoneyOnlyOnIssued ==
  [][<<amountOf, refunded>>' # <<amountOf, refunded>>
       => {inv, inv'} \cap {"NONE", "DRAFT"} = {}]_vars

\* "nothing is recorded unless the processor accepts the refund": what the books
\* show as refunded on a card payment really went back to the customer.
CardRefundsWereMade ==
  \A p \in Recorded : source[p] \in Checkouts => refunded[p] <= returned[p]

-----------------------------------------------------------------------------
(* Properties that hold while requests do not overlap. *)

RecordedNet == SumFunction(amountOf) - SumFunction(refunded)

\* "the invoice's paid amount is tracked net of refunds so AR balances stay
\* truthful": paid_minor is what the payment and refund rows add up to.
LedgerBalanced == paid = RecordedNet

\* A payment is never refunded beyond its amount (refund_exceeds_payment).
RefundWithinPayment == \A p \in Payments : refunded[p] <= amountOf[p]

\* "A replayed webhook must never double-pay."
CheckoutPaysOnce ==
  \A p, q \in Recorded : source[p] \in Checkouts /\ source[p] = source[q] => p = q

\* Accounting sees an account whose balance the rows determine and whose status
\* follows the balance.
Account == INSTANCE InvoiceAccount WITH net <- RecordedNet, status <- inv

ImplementsAccount == Account!Spec
=============================================================================
