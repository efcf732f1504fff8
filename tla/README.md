# A TLA+ model of ShopOS

ShopOS is the back office of repair shops: work orders, estimates and their authorization, invoices and
payments, stock, loaners, memberships of a tenant's staff.  It is a Next.js application over PostgreSQL
(Prisma); the logic is in `src/modules/`, most of it as functions that run one interactive transaction each.
This directory holds TLA+ modules of its hard parts, the TLC configurations that check them and proofs
checked by TLAPS.

Paths below are relative to the root of the repository.

## 1. The system

### 1.1 What makes it hard

* **Every interactive transaction runs at READ COMMITTED** and reads before it writes; nothing but the
  outbox claim takes a lock when it reads.  Two requests that overlap may each read a row, decide on it and
  write a value computed from it.  Some writes are guarded (`updateMany` with a condition, unique indexes,
  CHECK constraints), some are not.  The exceptions, at SERIALIZABLE, are
  `memberships/membership-service.ts` (three operations), `platform/operator-grants.ts` (revoking) and
  `organizations/provision-organization.ts`.
* **Several transactions make one operation**: issuing an invoice commits, then moves the work order in a
  second transaction whose failure is swallowed; a refund calls the payment processor before it opens its
  transaction.  A process may die in between.
* **External actors repeat themselves**: the processor redelivers webhooks, customers pay old links, the
  outbox dispatches again what a dead worker held.
* **Timers overlap**: the worker polls and sweeps with `setInterval` and starts again whether or not the last run
  has ended; several worker processes may run.
* **Time**: leases and retries of the outbox, cooldowns of reminders, expiry of links, invitations and grants.

### 1.2 Components

| Component | State | Operations | Correct when |
|---|---|---|---|
| Transactional outbox, workers (`outbox/`, `scripts/run-worker.ts`) | `outbox_events`, drains in flight | enqueue, claim, revalidate, dispatch, publish, retry, dead-letter | one drain per row, nothing lost, at least once, dead letters only for cause, queue never blocked |
| Invoices, payments (`invoices/`) | `invoices`, `payments`, work-order status | create, issue, record payment / tenders | the paid amount is the sum of the rows and within the total; the status agrees with it; settled jobs close |
| Deposits, links, webhook, refunds (`billing/`) | `deposits`, `refunds`, checkout sessions | record/apply deposit, create link, webhook, refund | each deposit and each session pays once; no refund beyond a payment; card refunds in the books were made |
| Work orders (`work-orders/`) | `work_orders`, assignments, tasks, quality checks | create, number, transitions, assignment, QC | only valid transitions, with their prerequisites; numbers are unique |
| Estimates and authorization (`estimates/`) | revisions, lines, decisions, links, change orders | edit, present, supersede, void, decide, invoice lines | a decision is final and about what was presented; no work and no invoice without approval |
| Part orders (`parts/`) | `part_orders`, their lines | request, place, receive, cancel | what arrived is in stock, complete when and only when all is there, end states final |
| Inventory (`inventory/`) | `inventory_items`, `inventory_movements`, `inventory_reservations` | adjust, receive, issue, reserve, release, consume | counts agree with movements and are never negative; holds end, and a job's parts leave the shelf once |
| Cash drawers (`billing/cash-drawer-service.ts`) | sessions, attribution of payments | open, close, resolve | no payment in two counts |
| Memberships, invitations (`memberships/`) | memberships, roles, invitations | invite, accept, cancel, change role, deactivate, reactivate | an organization keeps an owner; members were invited |
| Provisioning (`organizations/provision-organization.ts`) | idempotency records, organizations | provision | one organization per key, one self-service organization per user |
| Platform operators (`platform/operator-grants.ts`) | grants | grant, extend, revoke, expire | the platform keeps an administrator |
| Money, taxes, fees (`shared/money.ts`, `taxes/`) | amounts of lines, documents, invoices | price, add fees, bill | totals are the sums of their parts; a credit takes back what a charge took, fees as section 4.3 says |
| Number series (in `work-orders/`, `invoices/`) | prefixes, numbers | next number, change of prefix | unique, invoices without gaps |
| Service calls, transport, appointments | three state machines, links to work orders | create, move, convert | stages follow each other; work orders know what they came from |
| Maintenance reminders (`assets/maintenance-service.ts`, `scripts/run-worker.ts`) | schedules, sweeps in flight | schedule, service, sweep, text, stamp | due vehicles are reminded, and not again within the cooldown |
| Loaners, time entries | check-outs, reservations, running entries | reserve, check out, return, clock in/out | not modelled, see section 6 |
| Tenancy, identity, portal, connectors, reports, customers, UI | sessions, records | checks, CRUD, external calls, projections | not modelled, see section 6 |

Calls between them: every business transaction may insert outbox rows; `invoices/` and `estimates/` call
`transitionStatus` of `work-orders/` after their commit; cancelling a work order and declining a line release
reservations; creating an invoice bills what the estimate says was approved and consumes stock; payments resolve the
open cash drawer; calls and appointments create work orders in a transaction of their own.

## 2. The modules

### 2.1 Outbox (`Outbox`, `OutboxPromise`, `MCOutbox`, `OutboxProofs`)

`Outbox` models `outbox/outbox-dispatcher.ts` with the drains of any number of worker processes.  The
variables `enqueued`, `published`, `attempts`, `due` and `dead` are the columns of `outbox_events`; `due[e]`
is `available_at - now()`, so time is relative and the state space finite.  A drain is the program counter
`pc[w]`, the rows of its batch it has not settled (`held`), the row it works on (`cur`) and what it read of the
rows when it claimed them (`seen`).  One action is one statement the database sees:

| Action | Code |
|---|---|
| `Enqueue`, `ChangeOrganizationStatus` | `outboxEvent.create` of a business transaction; `changeOrganizationStatus`, which enqueues too |
| `Claim` | `claimAndHideBatch`: the `FOR UPDATE SKIP LOCKED` transaction |
| `Revalidate` | `revalidateJobTenantContext` |
| `HandlerReturns`, `HandlerThrows` | `handler.handle`; it may throw before or after its side effect (`sendWorkOrderCustomerEmail` sends, then writes an activity row) |
| `MarkPublished`, `MarkSkipped`, `MarkRetry`, `MarkDeadLettered` | the four ways `dispatchRow` settles a row |
| `DispatchError` | a database error inside `dispatchRow`'s `try` |
| `Abandon` | a crash, a shutdown, or an error of the `catch` block that ends `drainOnce` |
| `Tick` | a unit of time |

The poll timer starts a new drain while an earlier one of the same process still runs, so a worker process is
not an actor: `Workers` bounds the drains in flight.  `effects` and `failures` are history variables.
The constant `Overrun` says whether a drain may still be at work when its lease has run out.  The code takes
it for granted that it may not (60 s for a batch of 50 handlers) and does not enforce it; the properties of
exclusive claims are stated for `Overrun = FALSE` and everything that does not need it for both.

`OutboxPromise` is what business transactions rely on: an accepted event stays pending until it is
delivered, after its handler ran, or given up; no side effect follows.  `Outbox` implements it through the
refinement mapping `Promise`.

### 2.2 Ledger (`InvoiceLedger`, `InvoiceAccount`, `WorkOrderStatus`, `MCInvoiceLedger`, `InvoiceLedgerProofs`)

`InvoiceLedger` models everything that touches the money of one work order: its invoice
(`invoices/invoice-service.ts`), payments at the counter, deposits, payment links, the processor's webhook and
refunds (`billing/`).  The system never relates two invoices, so one is enough.  A request is a program counter
with the subject, the amount and the `paid_minor` it has read.  Its transaction is split exactly where other
requests may commit between a read and a write that depends on it:

| Actions | Code |
|---|---|
| `CreateRead`, `CreateCommit` | `createInvoiceFromWorkOrder` |
| `IssueCommit`, `FollowUpInvoiced` | `issueInvoice` and its second transaction |
| `PaymentRead`, `PaymentCommit`, `FollowUpClosed` | `recordPayment`, `recordPaymentTenders` (a payment of 1 to `MaxTenders` rows) and their second transaction |
| `TakeDeposit`, `DepositRead`, `DepositCommit`, `DepositRefused` | `recordDeposit`, `applyDeposit` |
| `LinkRead`, `LinkCreate` | `createInvoicePaymentLink` around the processor's call |
| `CustomerPays` | external |
| `WebhookRead`, `WebhookDedup`, `WebhookCommit` | `recordStripeCheckoutCompleted`: each SELECT at READ COMMITTED sees its own snapshot |
| `RefundRead`, `ProcessorRefunds`, `ProcessorFails`, `RefundReadInvoice`, `RefundCommit`, `RefundAborts` | `refundPayment` |
| `MoveWorkOrder` | `transitionStatus` called by staff |
| `Crash` | the server process dies; what is open rolls back, what is committed stays |

`WorkOrderStatus` is the state machine of `work-orders/work-order-state-machine.ts`.  `InvoiceAccount` is the
account accounting believes in: a balance that the rows determine and a status that is a function of it.

Assumptions on the environment: the processor never returns more than a session was charged; a paid session
carries its `payment_intent`, so a webhook payment has a `processor_charge_id`; the webhook's `user.upsert` with
an empty `update` takes no row lock once the system user exists.  Which business prerequisites
`transitionStatus` checks is left open (`MoveWorkOrder` may take any valid transition), which allows more
behaviours than the code.

### 2.3 Part orders (`PartOrder`, `PartLifecycle`, `MCPartOrder`, `PartOrderProofs`)

`PartOrder` models `parts/part-order-service.ts` for one order.  An operation is a load (`LoadToPlace`,
`LoadToCancel`, `LoadToReceive`), which checks the status and, for a receipt, the quantities, and a commit
(`MarkOrdered`, `CancelPartOrder`, `ReceiveItems`), which overwrites the status and `received_quantity` with
values computed from the load, and *increments* the stock.  `RollBack` is a commit that PostgreSQL refuses: a
deadlock, a lost connection, or `part_orders_receipt_check`, which is the reason that a received order cannot be
cancelled or reopened by a stale request: neither operation clears `received_at` (`ReceiptCheck`).  `shelved` is the
sum of the RECEIVED movements of a line, which is what its item was incremented by, in the same transaction.

`PartLifecycle` is the lifecycle of ADR 0015.  The refinement takes the stock movements of a linked line, not its
`received_quantity`, for the goods that arrived, so that it relates the order to the shelf.

### 2.4 Stock (`Stock`, `MCStock`, `StockProofs`)

`Stock` models the counts, movements and holds of one item, the operations of
`inventory/inventory-service.ts` on them, and the places that release holds.

| Actions | Code |
|---|---|
| `ReadItem`, `ChangeStock` | `adjustStock`, `issueStock`, `receiveIntoStock` of an existing item |
| `ReceiveGoods` | the increment of `receiveItems` (`PartOrder`) |
| `ReadForReserve`, `CheckAvailable`, `Reserve` | `reserveStock`: item and work order, sum of holds, insert |
| `Release` | `releaseActiveReservations`, by hand and for declined or superseded lines |
| `CancelJob`, `CloseJob` | `transitionStatus`; its status is guarded by a conditional update, so it is one step |
| `ReadForIssue`, `ReadItemForIssue`, `IssueHolds` | `issueReservationsForWorkOrder`: holds, item, commit; once the item is written its row is locked, so the holds of one item are one commit |
| `ReadForInvoice`, `ReadHoldsForInvoice`, `SkipLine`, `ConsumeLine` | `autoConsumeStockForInvoice` of a new invoice; `InvoiceOnly` if the organization issues by hand |
| `RollBack` | any transaction that fails |

`booked` is the sum of the movements; `shortfall` what the discrepancy events of issued lines report;
`issues` counts the "Issued from reservation" movements of a hold.  Abstractions: an invoice has one line with the
item; a job is open, closed or cancelled; its invoice is created once, so the index that makes consumption
idempotent per invoice line is never needed.  A hold is consumed without another look at its status, so what is left of
the issue's idempotence is that it reads ACTIVE holds only: `IssuesOverlap` bounds what follows from that.

### 2.5 Estimate (`Estimate`, `Agreement`, `WorkOrderStatus`, `MCEstimate`, `EstimateProofs`)

`Estimate` models what the shop and the customer agree on for one work order: `estimates/estimate-service.ts`,
`change-order-service.ts`, `authorization-service.ts`, `authorization-link-service.ts`, the public route by which a link
decides, and of `work-orders/` and `invoices/` the parts that ask whether something was approved.  A request keeps in
`rev`, `via`, `goal`, `from`, `yes` and `no` what it has read and is about to write.

| Actions | Code |
|---|---|
| `CreateDraftRevision`, `LoadForChangeOrder`, `CreateChangeOrder` | new documents, numbered by the latest |
| `LoadToEdit`, `AddLine`, `RemoveLine` | lines of a draft; what is decided or billed cannot go (foreign keys) |
| `LoadToPresent`, `PresentRevision`, `PresentChangeOrder`, `ApplyChangeOrder`, `FollowPresented` | sealing with shop fees and a link, the credit policy, and the transition after the commit |
| `LoadToSupersede`, `SupersedeRevision`, `LoadToVoid`, `VoidChangeOrder` | withdrawing a document |
| `LoadForLink`, `CreateAuthorizationLink`, `ResendAuthorizationLink`, `LinkEnds` | links, which expire or are revoked |
| `LoadDecisions`, `RecordAuthorization`, `FollowDecided` | decisions at the counter, in one transaction |
| `OpenLink`, `RecordByLink`, `MarkLinkUsed`, `AuthorizeByLink` | the public route: no transaction, each statement a step |
| `LoadMove`, `TransitionStatus`, `FollowUpFails` | `transitionStatus` with its prerequisites and its conditional update |
| `LoadForInvoice`, `CreateInvoice` | the lines `createInvoiceFromWorkOrder` bills under `invoiceLinePolicy` |
| `Fail` | a check that fails, a roll back, a process that dies |

Of the prerequisites of `COMPLETED` the quality check, which an organization may require, is left out: the model
completes more work orders than the code.  `Billable` leaves out that a line without `authorization_required` is billed
unasked (`invoice-service.ts:171`): the column is true by default and no code sets it.

`Agreement` is what ADR 0014 promises the customer: documents are offered as a whole and not changed afterwards, each
line is decided once and for good, choosing an alternative declines the others, and a document with a decision is not
withdrawn.  `Estimate` implements it while requests at the counter do not overlap.

### 2.6 Access and operators (`Access`, `Operators`, `Serializable`, `AccessProofs`)

`Access` models memberships, roles, invitations and provisioning; `Operators` the grants of platform operators.  Their
critical operations are serializable transactions.  `Serializable` says once what that level forbids, as far as they
rely on it: a transaction works on the snapshot it began with and fails if it writes a row that was written since, or
if it and a serializable transaction that committed since have each read what the other writes.  So a request is
`Begin...`, with all its checks, and a commit that finds its rows `barred` or not.  Operations at READ COMMITTED
(`AssignRole`, `InviteMember`, `CancelInvitation`, `GrantOperatorRole`, `ExtendOperatorGrant`) are one conditional write and
count as writes only.  PostgreSQL rejects more than the model does; such a request fails, which `Abandon` allows at
any time.

The organization plugin of the auth library (`identity/auth.ts:113`, served by `app/api/auth/[...all]/route.ts`) has routes of its
own that write members and invitations, outside these transactions.  It is not code of the repository and is left out: the
properties are about the services above.

`Promotions` says whether `assignRole` may meet a transaction about the same member.  It is outside the serializable
world, and section 4 says what then happens; the properties are stated for `Promotions = FALSE`.

### 2.7 Cash drawers (`CashDrawer`, `FrontDeskProofs`)

The drawers of one location: a shared one and the cashiers' own.  `ResolveDrawer` and `RecordPayment` are the stamp and the
later commit of any service that records a payment; `LoadDrawer`, `TotalDrawer` and `CloseCashDrawer` the three steps of
a close, whose update is unconditional.  Only the order of times matters: `clock` counts openings.  `postDated` and
`closedTwice` are history.  `MayOpen` is the pair of partial unique indexes.

### 2.8 Pricing (`Pricing`, `FrontDeskProofs`)

`shared/money.ts` as operators (`RatioRounded` rounds half away from zero), `CalculateLine` in both tax modes, the shop
fees that presentation adds (`taxes/shop-fee-service.ts`) and the sums of an invoice over a baseline and a change
order.  Requests do not overlap here; who may change what when is the subject of `Estimate`.

| Actions | Code |
|---|---|
| `CreateShopFee`, `DeactivateShopFee` | the catalog, which may change between any two steps |
| `AddPricedLine` | `addLine` of the estimate and of the change order; a line may be labor, or stand for a fee by hand (group `shop-fee`, its name) |
| `PresentDocument` | `presentRevision`, `presentChangeOrder`: `FeesFor` are the active fees for such a document (`appliesTo`) that it does not have by hand, `FeeAmount` is flat or a share of the document's labor up to a maximum |
| `BillLines` | `createInvoiceFromWorkOrder` |

`TakenBack` says that the lines that were entered into the change order are the negations of those of the estimate, in any order.
`FeesTakenBack` are the fees that presenting it takes back with them, `FeesKept` the sum of the others.

### 2.9 Number series (`NumberSeries`, `FrontDeskProofs`)

Work orders have one series for the organization, found by the greatest number *as a string* (`StringLess`), whatever
its prefix (modelled for section 4.3; no property but its types depends on it); invoices one for each location and prefix.  A number is proposed in one step and inserted in a later one, against
unique indexes.  Prefixes that begin with another one, or end in a digit, are left out and described in section 4.

### 2.10 Service calls, transport, appointments (`Dispatch`, `FrontDeskProofs`)

Three state machines with the same protocol: `BeginMove` reads and checks, `Move` overwrites.  `BeginConvert`,
`MakeJobOrder` and `LinkJobOrder` are the three commits that turn a call or an appointment into a work order; a call is
linked only once, an appointment again and again.  `recorded` stands for the timestamp columns of calls and runs, and for
the audit events of appointments, which have none.

### 2.11 Reminders (`Reminders`, `FrontDeskProofs`)

Maintenance schedules and the sweep of `run-worker.ts`.  `BeginSweep` takes the time, which the sweep goes by until it
ends; `FindDueForReminders` lists, `SendText` texts, `StampReminder` suppresses the next text.  `FailToText` and `FailSweep`
are a provider that refuses and an error or a crash after or before a text.  `lastText`, `repeats`, `faults` and
`overlaps` are history.  A sweep lists at most 500 schedules (`maintenance-service.ts:301`); the model has fewer.  The cooldown is
a constant, though an organization may change it: the property is about organizations that do not.

### 2.12 The desk (`Desk`, `MCDesk`, `FrontDeskProofs`)

The parts of 2.6 to 2.11 and `Estimate` for a single request share no state.  `Desk` puts them side by side: the
variable `area` says which one moves in a behaviour, the others stay as they began.  `Parked` gives a part that does not
move one initial state; of grants and staff, which are alike, it fixes the ones that come first.  `MCDesk` holds the values
of the constants.

### 2.13 Sums (`Sums`)

Not a part of the program: lemmas about the sum of a function over a finite set, for the proofs about rows that add up.

## 3. The runs

| Run | Checks | Bounds |
|---|---|---|
| `outbox` | claims are disjoint and true to the rows (`DrainsAreExclusive`), failures count, dead letters for cause, effects and publications explained, refinement of `OutboxPromise` | 3 events, batches of 2, 2 drains, 2 attempts, lease 2, backoff 1 (shorter than the lease, as in the code), 1 fault |
| `outbox_live` | `EventuallySettled` under `FairSpec`, with `Overrun` | 2 events, 2 drains, batches of 1 |
| `ledger_concurrent` | what holds when requests overlap and processes die | 2 requests, total 2, 2 payments, 1 deposit, 1 session |
| `ledger_sequential` | what holds when requests do not overlap, crashes included, and the refinement of `InvoiceAccount` | 1 request, total 3, 3 payments, 1 deposit, 1 session |
| `ledger_lost_update` | a statement that overlapping requests break: `LedgerBalanced` | 2 requests |
| `part_order_concurrent` | what holds when requests that place, cancel and receive overlap | 2 requests, 2 linked lines and a free one, quantities 2, 2, 1 |
| `part_order_sequential` | the refinement of `PartLifecycle` | the same with 1 request |
| `part_order_stuck` | a statement that two overlapping receipts break: `CompletesWhenReceived` | 2 requests, 2 lines |
| `stock_concurrent` | counts are natural numbers (`TypeOK`), issued holds stay consumed and are issued again only by overlapping requests | 2 requests, 1 job, 2 holds, 2 units, 1 adjustment or receipt |
| `stock_sequential` | the count is explained, holds are final and end with a cancelled job | 1 request, 2 jobs, 2 holds, 3 units, 1 adjustment or receipt |
| `estimate_concurrent` | a work order is worked on and billed only for what was approved, whoever overlaps | 2 requests, 2 documents with a line each (`OneLineEach`), 1 link, decisions by link, `AUTO_APPLY`, `APPROVED_ONLY` |
| `desk` | the parts of section 2.12, and the refinement of `Agreement` | below |

The bounds of `desk`, by part:

* estimate: 1 request, 2 documents, 2 lines that are options of one choice, and a fee.
* access: 2 users, 2 organizations, 2 self-service keys of one user, 1 invitation, 2 serializable transactions.
* operators: 3 users and 3 grants, 2 revocations.
* cash drawer: 2 drawers, 1 cashier and the house, 2 payments, 2 closes, 2 openings.
* pricing: up to 2 lines in each of 2 documents, with amounts whose tax or gross ends in a half, one of them a fee by hand; three
  fees, created and deactivated at any time: 15 % of labor on both documents, a flat one on both, and a share with a maximum on
  estimates only.
* numbers: 2 requests, 1 location, 2 prefixes in either order as strings, numbers 9 and 10, so that the number of
  digits changes.
* dispatch: 1 errand of each sort, 2 requests, 2 work orders.
* reminders: 1 schedule, 2 sweeps, interval 2, cooldown 2, time up to 3, 1 fault and 1 overlap.

Why the bounds are enough: the protocols are pairwise (a stale writer and the one it overwrites, two claims of
one row, two deliveries of one event, two owners who remove each other), so two actors show every conflict, and the
theorems of section 5 cover the rest for the properties proved.  Two attempts distinguish the first, a later and the last
failure.  A total of 2 distinguishes unpaid, partly paid and paid; 3 leaves room for a partial payment, a partial refund
and a clamped webhook.  Bounds that the code does not have are constants or guards of their own: `Events`, `MaxAge`
(a row does not age further), `MaxFaults`, `EffectCap` (history counters saturate), `Payments`, `Checkouts`,
`Holds`, `MaxQty`, `MaxQuantity`, `MaxCounts`, `MaxRevisions`, `Lines`, `Links`, `Orgs`, `Invitations`, `Grants`, `Drawers`,
`MaxClock`, `MaxLines`, `Last`, `JobOrders`, `MaxTime`.  Two holds and quantities up to 2 let an invoice use up one hold and
shrink another; two lines of an order are what a write skew needs, and quantity 2 a partial receipt.  One errand is enough
because no step relates two.

`CHECK_DEADLOCK FALSE` stands where the system may come to rest: all requests come from outside, and with all
ids of a bounded set used no further one can start.

Symmetry: events and workers, requests and payments are interchangeable, in what the abstract specifications say of them too; it is
not used with liveness.

**Fairness** (`FairSpec` of `Outbox`): weak fairness of `Tick` (time passes) and of each drain: `setInterval`
fires again and again, statements return or fail, handlers end.  A drain may fail for as long as
`MaxFaults` allows and each handler may throw every time; the code's own bound on attempts is what makes
the property true.  Nothing else in the system runs by itself but the reminder sweep, which nothing waits for; all
other steps are requests, which nobody has to send.

## 4. What the runs show

### 4.1 What holds

* **Outbox.**  While drains end within their lease, the outbox is exclusive, counts attempts, and delivers at least once;
  whatever drains do, events settle in the end, rows are published only after their handler ran and dead-lettered only
  after `maxAttempts` failures.
* **Ledger.**  However requests overlap, an invoice's status agrees with its paid amount, which stays within the total;
  a deposit pays once; card refunds in the books were made; money moves on issued invoices only.
* **Part orders and stock.**  However requests overlap, goods that an order says were received are in stock and were
  ordered, and a received order stays so; counts are not negative, issued holds stay consumed, and only requests that overlap
  issue a hold again.  Without overlap, an order keeps its lifecycle, movements and discrepancies explain the count, and a hold
  that ended does not change.
* **Estimates.**  However requests at the counter and by link overlap or die, a work order that is authorized or further
  has an approved line (a decision of a change order is not taken for that of the estimate), and under
  `APPROVED_ONLY` an invoice bills approved lines only.  One request at a time, and by the counter, the service keeps
  `Agreement`.
* **Access.**  However deactivations, revocations, reactivations, invitations and provisioning overlap, an organization
  keeps an active owner, was founded once by its key and as self-service allows, and has members who founded it or
  accepted an invitation that was not cancelled.  The last ADMIN grant of the platform is never revoked.
* **Counter.**  Only one drawer counts a payment, unless it is dated in the future or one of the drawers was closed by two
  requests at once.  A credit undoes a charge of the same terms to the cent, tax included.  Who is billed for work and its
  reversal owes the fees that the code does not take back, listed in 4.3, and nothing else.
* **Front desk.**  Invoice numbers have no gaps, whoever fails or changes a prefix.  Stages and timestamps of an errand tell
  a story its state machine allows, and work orders come from where they say.  A customer who is reminded too early has
  a fault or an overlapping sweep to thank for each such text.

### 4.2 Findings

Two statements of the repository are not borne out (in `PROJECT.json`, each with the run that shows it):

1. *"the invoice's paid amount is tracked net of refunds so AR balances stay truthful"* (`refund-service.ts:25`): of two
   overlapping writers of `paid_minor` one is lost (`ledger_lost_update`).
2. *"The order completes when every line is fully received"* (`part-order-service.ts:292`): two receipts of different
   lines leave it ORDERED with nothing left to receive (`part_order_stuck`).

Some properties are checked without overlap because overlap breaks them.  A second element in `Requests` of
`MCLedgerSequential.cfg`, `MCPartOrderSequential.cfg` or `MCStockSequential.cfg` shows it:

* `RefundWithinPayment`: two refunds both find the remainder of a payment.
* `CheckoutPaysOnce`: two deliveries of one webhook that overlap both record the payment, as no unique index backs the
  look-up, though *"A replayed webhook must never double-pay"* (`processor-payment-service.ts:109`).
* `ImplementsLifecycle`: two receipts of one line exceed its quantity; a request that read the order before it was
  cancelled places it again.
* `CountIsExplained`: of two changes of the count both movements stay and one change is lost.
* `CancelledHoldsNothing`: a reservation under way when its job is cancelled still makes its hold.
* `HoldsAreFinal`: two issues of one hold take it off the shelf twice, which is as often as `IssuesOverlap` allows two requests; a
  hold that was released meanwhile is consumed.

No property is stated of the shelf that a reservation finds: of one request at a time it would repeat the check that was
just made, and two that overlap both find the same units free (`inventory-service.ts:968`), so that more is held than is there.

`Promotions = TRUE` in `MCDesk.cfg` breaks `OwnerRemains`, which the comments of `role-policy.ts:118` and
`membership-service.ts:569` claim: a deactivation of a member who is no owner begins; `assignRole`, at READ COMMITTED, makes
the member an owner; the only other owner is deactivated; the first deactivation commits.

### 4.3 Behaviours that no property states

Of the models:

* **Outbox.**  A drain that outlives its lease writes its retry date over the lease of the drain that took the row over, and
  sets `attempts` back to what it read plus one, below `maxAttempts` even for a row that was dead-lettered meanwhile.  This is
  why the exclusive properties are stated for `Overrun = FALSE`.  An organization suspended between `Revalidate` and
  `HandlerReturns` has the handler's side effect nonetheless.  `organization.suspended` events themselves are dead-lettered
  unhandled, as their own organization is suspended.
* **Ledger.**  An invoice may be made from an AUTHORIZED or IN_PROGRESS work order, which can then be neither INVOICED nor
  CLOSED: both follow-up transitions fail and their errors are swallowed, so that full settlement
  (`invoice-service.ts:498`) leaves the job open.  So does a crash between the payment and its follow-up.  An invoice of total
  zero is issued and can never become PAID.  What the webhook clamps or ignores as `already_settled` is money charged and
  recorded nowhere.
* **Stock.**  A job that is closed keeps its active holds.  An invoice counts the units held for its job beside the units on
  hand that they are part of: one held unit is issued for an invoice of two, though the comment at
  `inventory-service.ts:1229` says *"so held stock is never double-counted"*.
* **Estimate.**  No unique index backs the decision of a line: two authorizations that overlap both decide it, and a link
  decides lines that were decided, or whose revision was superseded, and does not look at options.  Several draft change
  orders can be presented, so that more than one is pending.  Superseding a change order always fails on its
  number.  The credit policy approves the lines of a change order and not the fees added by the same step.  `presentRevision` on a
  work order that is already authorized commits and then throws.  A line that is added while its revision is presented is in the
  presented document, and its total may not be.  Of several presented baselines an invoice takes the latest; what is approved or
  presented after the invoice is never billed.
* **Access.**  Revoking the owner role of a member whose `authRole` is owner leaves the member an owner for the counts.  The
  revocation of an owner who is not active is refused as if it were the last one.
* **Operators.**  `extendOperatorGrant` may give the last administrator an expiry.  A grant that has expired and was not
  revoked keeps its user from getting another one.  An expired ADMIN grant cannot be revoked while one live administrator is left.
* **Cash drawers.**  A payment that was stamped with a drawer and commits after the count is in no count.  A second close
  overwrites the first.  A payment dated in the future may be in several counts of house drawers, a payment without a stamp
  dated before any opening is in none.
* **Pricing.**  `createChangeOrder` does not copy the tax mode, so that the change orders of an organization with inclusive prices
  are taxed on top; `CreditUndoes` speaks of the subtotal only there.  Of the fees that presenting adds, reversing the work takes
  back the uncapped shares of labor that both documents were given.  It does not take back a flat fee, which the reversal is charged
  once more; a fee for estimates only; or one that was deactivated in between.  A share for change orders only, or created in
  between, is credited without having been charged.  A maximum caps the charge and not the credit.
* **Number series.**  *"highest existing number for the org"* (`work-order-repository.ts:281`) is the greatest string.  After 9999
  and 10000 (9 and 10 in the model) every later creation proposes 10000 again and fails; so it does, after one success, once the
  prefix is changed to one that sorts earlier than the old one.  The latter is true of work orders only, invoices look at their own prefix.
* **Dispatch.**  A call that was ON_SCENE can become CANCELLED when the cancellation read it earlier, though its state machine
  allows cancellation before arrival only.  A conversion that loses the race, or dies, leaves a work order that nothing links to; of an
  appointment the last link wins.
* **Reminders.**  The stamp follows the text, so a crash between them, or a second sweep in between, repeats it.

Seen in the code and outside the models:

* **Pricing.**  The stored tax of a tax stack uses the summed rate, its components are rounded one by one
  (`taxes/tax-stacks.ts:46`): 10 at 5 % + 5 % is 1, and 1 + 1.  Of the e-invoice, the VAT breakdown takes the total with tax as its
  basis.  `reQuoteDeclinedLine` drops the discount of a line it quotes *"at its original price"*.
* **Number series.**  Where one invoice prefix begins another (`INV-` and `INV-B-`), the shorter series takes the other's
  numbers for its own and skips or stops; a prefix that ends in a digit is parsed as part of the number.
* **Reminders of appointments** (`appointment-reminder-service.ts`).  The header says *"the sweep enqueues at most one event per
  appointment per day"*; there is no such check, so each sweep of the twelve-hour window texts again, and no-shows are texted
  until their status changes.
* **Appointments.**  `rescheduleAppointment` does not call `assertWithinBookingRules`, and the capacity is checked without a lock.
* **Quality checks, inspections, warranties.**  A check that is failed while a transition to COMPLETED runs leaves a completed
  order with a failed check.  A condition that is set while an inspection is completed changes a completed one.  Warranty terms
  that are set while an invoice is issued change an issued one.
* **Loaners.**  The index `loaner_reservations_no_overlap` compares start times only; the overlap is checked by a read.
* **Entitlements** (`plans.ts`) are stored and enforced nowhere.

## 5. What is proved

Eight modules of proofs: one for each group of components, and `Sums`.  All theorems hold for every value of the constants,
under the named assumptions of the modules.  Of these some concern proofs only, `IsFiniteSet` of the ledger's `Payments`, the
stock's `Holds` and `Requests` and the `ShopFees`: tables are finite, and so are the requests in flight, and neither the sum nor
the number of infinitely many is defined.

Some theorems say what holds while requests do not overlap.  They assume `Requests = {r}`: one identity, which any number of
requests use one after the other, and which a crash or a failure may end between any two steps.  Without that assumption they
are false, as section 4 shows.

`Sums`: how the sum of a finite set changes when a value changes, an element leaves, values are renamed, negated or compared, and
that a sum over a set is that over a part and the rest.  The library's induction theorems cannot be used, as they take an operator as a
parameter; the lemmas are proved by the smallest counterexample instead.  The subsets of a finite set for which a claim is
false, if there are any, have a member that contains no other (`MinimalSubset`, from the well-foundedness of strict inclusion), and
without one of its elements the claim is true of it.  The recursion of the library's `SumFunctionOnSet`, which is
defined by a `CHOOSE` of a recursive function, is justified in the same way (`IsSumExists`, `IsSumUnique`).

`OutboxProofs`:

* `TypeCorrect`: types, and that a drain in a dispatch works on a row it holds.
* `ExclusiveClaims` (assuming `~Overrun`): `DrainsAreExclusive`, that is `NoCollision` and `ClaimHolds`.  Disjointness alone is
  not inductive: it holds because a held row is hidden for at least what is left of the lease, and `Tick` cannot use up a lease
  while the drain runs.  `DrainInv` says this for every held row, with `due` and `lease` in step.
* `AttemptsGrow` (assuming `~Overrun`): from `ClaimHolds`, which says that `seen` is still true when it is used.
* `RowsSettledForCause`: no assumption on speed.  `FateInv` relates `attempts`, `seen` and `failures`: every count a
  drain has read or written is backed by as many failures.  It assumes `EffectCap >= MaxAttempts`, that is,
  history counters that do not saturate before they matter.
* `EffectsAreExplained` (both assumptions): every side effect too many is paid for by a fault.
* `OutboxKeepsPromise` (both assumptions): initial states map to initial states and every step to a step of
  `OutboxPromise` or a stutter.

`InvoiceLedgerProofs`, with and without crashes:

* `LedgerTypeCorrect`; `paid_minor` is never negative because of the CHECK constraint.
* `InvoiceConsistent`: `PaidWithinTotal`, `StatusMatchesPaid`.  Inductive with `RequestsRely`: a request about to record
  money read a value that leaves room for its amount, so what it writes lies within the total however stale it is.
* `MoneyFollowsIssue`: from the same invariant; an issued invoice never becomes a draft again.
* `DepositsPayOnce`: the claim of a deposit and its payment row are one commit.
* `CardRefundsMade`: `CardRefundsWereMade`, for any overlap.  In `RefundInv`, what the processor returned of a payment covers the
  refund rows *and* the amounts of the requests that have the money and have not yet recorded it, so two refunds that
  overlap are both paid for.  A refund that dies after the processor's answer only widens the margin.
* `BooksBalance`, `RefundsWithinPayment`, `SessionsPayOnce` (one request): `SoleInv` adds to the three properties that what the request
  has read is still so when it writes (`StillSo`): `paid_minor`, the remainder of the payment, the absence of the session.  A crash
  forgets what was read, and no step between a read and its write changes rows.
* `LedgerIsAnAccount` (one request): from `SoleInv`, every step is a step of `InvoiceAccount` or a stutter.

`PartOrderProofs`:

* `OrderTypeCorrect`, `ReceivedOrdersStay`.
* `GoodsAreNeverLost`: `GoodsAreAccountedFor`.  Inductive with `ReceiptKnows`: whatever a receipt in
  flight has read as received is in stock by then, and stock only grows; so a stale overwrite may understate what
  arrived, and a stale verdict of completeness is still right about the shelf.
* `OrderKeepsLifecycle` (assuming a single request): with `Undisturbed`, which says that the load is still true at the
  commit, every step is a step of `PartLifecycle` or a stutter.

`StockProofs`:

* `CountStaysNatural`: a request that was checked against the count it read writes no negative count, however stale.
* `IssuedStaysConsumed`: every other writer of a hold either tests that it is ACTIVE or leaves CONSUMED alone.
* `IssuesNeedOverlap`: `IssuesOverlap`, for any overlap.  In `IssuesInv`, the issues of a hold and the requests that are about to issue
  it are together no more than the requests there are: an issue turns one of the latter into one of the former, and no request
  joins them once the hold was issued, as it is consumed from then on and only ACTIVE holds are read.
* `AloneCountIsExplained`, `AloneCancelledHoldsNothing`, `AloneHoldsAreFinal` (one request): `AloneInv` says that the count that the
  request has read is the count, that the holds it has read are still ACTIVE, and that its job is still open (`Fresh`).  An invoice takes
  no more of a hold than it saw (`TakeBounds`).

`EstimateProofs`:

* `EstimateTypeCorrect`, with `RevisionKnown`: a request that works on a revision works on one that is in use.
* `WorkIsAuthorized`.  The gate of `transitionStatus` looks at the decisions when it reads, and writes later; it stays right because
  approved lines cannot be removed.  `GateInv` adds what the link route relies on, which does not look at all: the change
  orders of a work order come after its authorization (`ChangeOrdersLate`), so a link that meets AWAITING_AUTHORIZATION
  has approved a line of a baseline (`LinkKnows`).
* `OnlyApprovedIsBilled`: what an invoice in flight has read as approved stays approved and stays a line.
* `AgreementIsKept` (one request, decided at the counter): every step is a step of `Agreement` or a stutter.  `Settled` says that
  decided lines are of documents that are still presented, and that with an option approved the others are decided; `UpToDate` that
  the status, the lines and the open decisions the request has read are still so.

`AccessProofs`:

* `OwnerStays` (assuming `~Promotions`).  `OwnerTask` says of each transaction in flight either that the owner its check relied on is
  still there or that its rows are barred: the argument is the one for which the code uses SERIALIZABLE.
* `FoundingIsLimited`, `MembersAreInvited`: from `FoundInv`, which says what each key, founder and member comes from, and what a request
  that is still running may assume of it.
* `AdministratorRemains`: the same argument for operators.

`FrontDeskProofs`:

* `PaymentsCountedOnce`: the windows of house drawers do not meet (`OpenedInTurn`), as one is opened only when the last is closed; what a
  close has added up, or a count holds, belongs to the drawer (`CountsBelong`).
* `RoundsToNearest`: `RatioRounded` is within half a unit of the ratio, and a half goes away from zero.
* `LineCredited`: a line and its negation without discount add up to nothing, taxes included and in both tax modes, because rounding
  is odd.
* `ReversalLeavesFees`: `CreditUndoes`, for any catalog of fees and documents of any length.  `PricesInv` says where amounts come from: a
  line carries those of its terms, a sealed document fees on the labor among its lines, and an invoice the sums of sealed documents,
  which do not change any more.  Credits in any order add up to the negated sum (`AddCredits`, by `SumRenamed` and `SumNegates`), of all
  lines and of the labor, so an uncapped share of the labor is negated as well (`FeeCredited`).  What is left are the other fees
  (`OnlyFeesRemain`, by `AddSplits`).
* `PricesAreTyped`: from the same invariant; totals are integers and no discount is negative.
* `InvoicesAreGapless`: for any order of numbers as strings.  In `SeriesInv`, each series that is not empty has a
  latest number (`Sorted`), and a proposal in flight follows a number that is there, so it may be taken or late and never
  leaves a gap.
* `ErrandsStayTraceable`: a request in flight goes to a stage that a recorded stage allows, and what is recorded stays.
* `RemindersAreSpaced`: in `SweepsInv`, faults and overlaps that no early text has used up are as many as the sweeps that may
  still text a schedule too early (`Afforded`).  A sweep that lists a schedule another sweep is about to text adds an overlap; one that ends
  without a stamp adds a fault; a stamp makes the schedule rest for the cooldown, counted from a time not before its
  text unless an overlap or a fault explains it.
* `DeskIsTyped`: each part keeps its own invariant, and with it its type, while another one moves.

**Only model-checked**: `EventuallySettled`, which is liveness under fairness.  Every other property of a passing run is stated by a
theorem.  The refinements are proved for safety, as their abstract specifications have no fairness.

## 6. Not modelled

* Rendering, routes and input parsing (`src/app`), translations, the permission matrix of `tenancy/policy.ts` (a pure check at
  the start of each operation) and the sessions of an external library: they have no state that two requests share.
* The member and invitation routes of the auth library's organization plugin: section 2.6.
* Connectors to mail, SMS, storage, payments and e-invoicing beyond the outcome of a call.
* Reports, receivables, statements: read-only projections of rows that others write.
* Records edited one at a time: customers, assets, follow-ups, catalogues of parts, tax rates and suppliers.
* Audit and activity rows are written in the transaction they describe and are left out.
* **Time entries**: `startTimer` rests on a unique index, and nothing else depends on the order of events; of two stops
  the second overwrites the end of the first.
* **Loaners**: one request at a time leaves nothing that a test would not reach, and what two requests should keep (no car promised
  twice) they do not, see section 4.3.
* **Quality checks, tasks, inspections, sublet work, warranties**: two or three states each, set by unconditional updates, so that
  what could be stated of them is either a guard or is broken by two requests as section 4.3 says.
* **Entitlements**: no code enforces them.
* Of the inventory: categories, units of measure, reorder suggestions.  Of the booking of appointments: opening hours and
  capacity.  Of provisioning: the templates an organization starts with.

## 7. Plan

Done: the outbox, the ledger, part orders, stock, estimates, access and operators, drawers, pricing, number series, errands,
reminders.  The components that are left keep no state that more than one request changes, or keep rules that overlapping
requests break.

Theorems worth proving next: sharper statements of what overlap leaves true where the theorems above assume one request, such as
how far `paid_minor` may be from the rows (by no more than the amounts of the writers that overlapped).
