-------------------------------- MODULE Stock --------------------------------
(***************************************************************************)
(* One inventory item: its count, the append-only movements that explain   *)
(* it, and the holds that jobs have on it.                                 *)
(* Source: src/modules/inventory/inventory-service.ts, and the estimate    *)
(* and work-order services where they release holds.                       *)
(*                                                                         *)
(* A transaction runs at READ COMMITTED and locks nothing when it reads;   *)
(* it is split at every point where another request may commit.  The last  *)
(* step writes values computed from what the earlier ones read, except     *)
(* that updateMany ... where tests its condition when it writes.  What is  *)
(* one statement, or is guarded by a conditional update, is one step of a  *)
(* request that has nothing else in flight.                                *)
(***************************************************************************)
EXTENDS Integers, FiniteSets, Functions

CONSTANTS
  Requests,  \* requests that may be in flight at once
  Jobs,      \* work orders
  LineQty,   \* units of the item on the invoice of each job (one line each)
  Holds,     \* bound: ids, in order of created_at, for reservations
  Opening,   \* quantity_on_hand the item was created with
  MaxQty,    \* bound: units in one request
  MaxCounts  \* bound: stock adjustments and receipts

ASSUME StockAssumption ==
  /\ IsFiniteSet(Requests)
  /\ Jobs # {}
  /\ LineQty \in [Jobs -> Nat \ {0}]
  /\ Holds \subseteq Nat
  /\ IsFiniteSet(Holds)
  /\ Opening \in Nat
  /\ MaxQty \in Nat
  /\ MaxCounts \in Nat

VARIABLES
  (* Rows. *)
  onHand,     \* inventory_items.quantity_on_hand
  booked,     \* sum of the deltas of its movements
  shortfall,  \* units that discrepancy events say the count was short of
  status,     \* status of each reservation, "NONE" before it exists
  quantity,   \* its quantity
  holder,     \* its work order
  issues,     \* "Issued from reservation" movements of each
  jobStatus,  \* OPEN, CLOSED or CANCELLED, of each work order
  invoiced,   \* jobs whose invoice was created
  counts,     \* adjustments and receipts so far
  (* Requests. *)
  pc,         \* the step each request takes next
  job,        \* the work order it is about
  want,       \* the quantity, or the difference, it asks for
  readCount,  \* quantity_on_hand as it read it
  seen        \* the quantities of the ACTIVE holds it read, 0 for the others

countVars == <<onHand, booked, shortfall, counts>>
holdVars == <<status, quantity, holder, issues>>
jobVars == <<jobStatus, invoiced>>
requestVars == <<pc, job, want, readCount, seen>>
vars == <<countVars, holdVars, jobVars, requestVars>>

Steps ==
  {"idle", "count", "sum", "insert", "issue", "issuing", "invoice", "consume"}

HoldStatuses == {"NONE", "ACTIVE", "RELEASED", "CONSUMED"}

Unseen == [h \in Holds |-> 0]

Init ==
  /\ onHand = Opening
  /\ booked = 0
  /\ shortfall = 0
  /\ status = [h \in Holds |-> "NONE"]
  /\ quantity = [h \in Holds |-> 0]
  /\ holder \in [Holds -> {CHOOSE j \in Jobs : TRUE}]
  /\ issues = [h \in Holds |-> 0]
  /\ jobStatus = [j \in Jobs |-> "OPEN"]
  /\ invoiced = {}
  /\ counts = 0
  /\ pc = [r \in Requests |-> "idle"]
  /\ job \in [Requests -> {CHOOSE j \in Jobs : TRUE}]
  /\ want = [r \in Requests |-> 0]
  /\ readCount = [r \in Requests |-> 0]
  /\ seen = [r \in Requests |-> Unseen]

-----------------------------------------------------------------------------
(* Helpers. *)

Smaller(m, n) == IF m < n THEN m ELSE n

Active == {h \in Holds : status[h] = "ACTIVE"}
ActiveOf(j) == {h \in Active : holder[h] = j}

\* sumActiveReservations.
Reserved == SumFunctionOnSet(quantity, Active)

\* What request r finds available: the count it read less the holds there are.
Available(r) == readCount[r] - Reserved

\* Mutant: holds that are over are read as well.
HoldsEver(j) ==
  [h \in Holds |-> IF status[h] # "NONE" /\ holder[h] = j THEN quantity[h] ELSE 0]

\* The quantities of the ACTIVE holds of job j, as a query returns them.
HoldsOf(j) == [h \in Holds |-> IF h \in ActiveOf(j) THEN quantity[h] ELSE 0]

SeenBy(r) == SumFunctionOnSet(seen[r], Holds)

\* Mutant: the check before an issue is dropped.
CoversAlways(r) == TRUE

\* Does the count request r read cover the holds it read?
Covers(r) == SeenBy(r) \in 0..readCount[r]

\* holdsTotal + quantityOnHand >= invoiceQty.
Enough(r) == SeenBy(r) + readCount[r] >= want[r]

\* How much of hold h goes to the invoice of request r: oldest first.
Take(r, h) ==
  LET older == SumFunctionOnSet(seen[r], {g \in Holds : g < h})
  IN  IF older >= want[r] THEN 0 ELSE Smaller(seen[r][h], want[r] - older)

\* What the invoice of request r takes from the count.
ShelfTake(r) == Smaller(want[r], readCount[r])

\* Mutant: held units are taken to have left the shelf already.
CountAfterUnheld(r) ==
  IF want[r] > SeenBy(r) THEN readCount[r] - Smaller(want[r] - SeenBy(r), readCount[r])
  ELSE onHand

\* The count request r writes for the invoice, if it writes it at all.
CountAfter(r) == IF ShelfTake(r) > 0 THEN readCount[r] - ShelfTake(r) ELSE onHand

\* Mutant: whatever became of the hold, it is released.
ReleasableAlways == {h \in Holds : status[h] # "NONE"}

\* updateMany where status = ACTIVE.
Releasable == Active

\* Mutant: a cancelled job keeps its holds.
FreedByNothing(j) == {}

\* The holds that go when job j is cancelled.
FreedBy(j) == ActiveOf(j)

-----------------------------------------------------------------------------
(* Beginnings and ends of requests. *)

Start(r, step) ==
  /\ pc[r] = "idle"
  /\ pc' = [pc EXCEPT ![r] = step]

Continue(r, from, to) ==
  /\ pc[r] = from
  /\ pc' = [pc EXCEPT ![r] = to]

\* Over, committed or rolled back.  The request forgets what it read.
Finish(r) ==
  /\ pc' = [pc EXCEPT ![r] = "idle"]
  /\ job' = [job EXCEPT ![r] = CHOOSE j \in Jobs : TRUE]
  /\ want' = [want EXCEPT ![r] = 0]
  /\ readCount' = [readCount EXCEPT ![r] = 0]
  /\ seen' = [seen EXCEPT ![r] = Unseen]

ReadCount(r) == readCount' = [readCount EXCEPT ![r] = onHand]
ReadHolds(r, j) == seen' = [seen EXCEPT ![r] = HoldsOf(j)]
Ask(r, n) == want' = [want EXCEPT ![r] = n]
About(r, j) == job' = [job EXCEPT ![r] = j]

\* A transaction is rolled back: a deadlock, a lost connection, a shop that
\* shows too little stock.
RollBack(r) ==
  /\ pc[r] # "idle"
  /\ Finish(r)
  /\ UNCHANGED <<countVars, holdVars, jobVars>>

-----------------------------------------------------------------------------
(* The count. *)

\* adjustStock, receiveIntoStock and issueStock: read the item.
ReadItem(r) ==
  /\ Start(r, "count")
  /\ counts < MaxCounts
  /\ counts' = counts + 1
  /\ \E delta \in (-MaxQty..MaxQty) \ {0} : onHand + delta >= 0 /\ Ask(r, delta)
  /\ ReadCount(r)
  /\ UNCHANGED <<onHand, booked, shortfall, holdVars, jobVars, job, seen>>

\* Their commit: the count is overwritten, the movement appended.
ChangeStock(r) ==
  /\ pc[r] = "count"
  /\ onHand' = readCount[r] + want[r]
  /\ booked' = booked + want[r]
  /\ Finish(r)
  /\ UNCHANGED <<shortfall, counts, holdVars, jobVars>>

\* receiveItems of a part order: an increment, so nothing is read.
ReceiveGoods(r) ==
  /\ pc[r] = "idle"
  /\ counts < MaxCounts
  /\ counts' = counts + 1
  /\ \E n \in 1..MaxQty : onHand' = onHand + n /\ booked' = booked + n
  /\ UNCHANGED <<shortfall, holdVars, jobVars, requestVars>>

-----------------------------------------------------------------------------
(* Holds. *)

\* reserveStock: read the item and the work order.
ReadForReserve(r) ==
  /\ Start(r, "sum")
  /\ \E j \in Jobs : jobStatus[j] = "OPEN" /\ About(r, j)
  /\ \E n \in 1..MaxQty : Ask(r, n)
  /\ ReadCount(r)
  /\ UNCHANGED <<countVars, holdVars, jobVars, seen>>

\* reserveStock: sum the active holds and check.
CheckAvailable(r) ==
  /\ Continue(r, "sum", "insert")
  /\ Available(r) - want[r] >= 0
  /\ UNCHANGED <<countVars, holdVars, jobVars, job, want, readCount, seen>>

\* reserveStock: the insert commits.
Reserve(r) ==
  /\ pc[r] = "insert"
  /\ \E h \in Holds :
       /\ status[h] = "NONE"
       /\ status' = [status EXCEPT ![h] = "ACTIVE"]
       /\ quantity' = [quantity EXCEPT ![h] = want[r]]
       /\ holder' = [holder EXCEPT ![h] = job[r]]
  /\ Finish(r)
  /\ UNCHANGED <<countVars, issues, jobVars>>

\* releaseActiveReservations: by hand, for declined lines, for the lines of a
\* superseded revision.
Release(r) ==
  /\ pc[r] = "idle"
  /\ \E H \in SUBSET Releasable :
       /\ H # {}
       /\ status' = [h \in Holds |-> IF h \in H THEN "RELEASED" ELSE status[h]]
  /\ UNCHANGED <<countVars, quantity, holder, issues, jobVars, requestVars>>

\* transitionStatus to CANCELLED gives the holds of the job back.
CancelJob(r, j) ==
  /\ pc[r] = "idle"
  /\ jobStatus[j] = "OPEN"
  /\ jobStatus' = [jobStatus EXCEPT ![j] = "CANCELLED"]
  /\ status' = [h \in Holds |-> IF h \in FreedBy(j) THEN "RELEASED" ELSE status[h]]
  /\ UNCHANGED <<countVars, quantity, holder, issues, invoiced, requestVars>>

\* transitionStatus to CLOSED, once the job is invoiced.
CloseJob(r, j) ==
  /\ pc[r] = "idle"
  /\ jobStatus[j] = "OPEN" /\ j \in invoiced
  /\ jobStatus' = [jobStatus EXCEPT ![j] = "CLOSED"]
  /\ UNCHANGED <<countVars, holdVars, invoiced, requestVars>>

\* issueReservationsForWorkOrder: read the active holds of the job.
ReadForIssue(r) ==
  /\ Start(r, "issue")
  /\ \E j \in Jobs : ActiveOf(j) # {} /\ About(r, j) /\ ReadHolds(r, j)
  /\ UNCHANGED <<countVars, holdVars, jobVars, want, readCount>>

\* The item is read for the first hold; once it is written it is locked, and
\* the later holds read what this transaction wrote.
ReadItemForIssue(r) ==
  /\ Continue(r, "issue", "issuing")
  /\ ReadCount(r)
  /\ UNCHANGED <<countVars, holdVars, jobVars, job, want, seen>>

\* The commit: a movement for each hold, which is consumed, released or not.
IssueHolds(r) ==
  /\ pc[r] = "issuing"
  /\ Covers(r)
  /\ onHand' = readCount[r] - SeenBy(r)
  /\ booked' = booked - SeenBy(r)
  /\ issues' = [h \in Holds |-> IF seen[r][h] > 0 THEN issues[h] + 1 ELSE issues[h]]
  /\ status' = [h \in Holds |-> IF seen[r][h] > 0 THEN "CONSUMED" ELSE status[h]]
  /\ Finish(r)
  /\ UNCHANGED <<shortfall, counts, quantity, holder, jobVars>>

-----------------------------------------------------------------------------
(* The invoice of a job. *)

\* createInvoiceFromWorkOrder has committed the invoice of a job that is not
\* cancelled; autoConsumeStockForInvoice, called once, reads the item.
ReadForInvoice(r) ==
  /\ Start(r, "invoice")
  /\ \E j \in Jobs \ invoiced :
       /\ jobStatus[j] = "OPEN"
       /\ invoiced' = invoiced \cup {j}
       /\ About(r, j)
       /\ Ask(r, LineQty[j])
  /\ ReadCount(r)
  /\ UNCHANGED <<countVars, holdVars, jobStatus, seen>>

\* The organization issues by hand (auto_issue_stock_on_invoice is off), or
\* the process dies here: the invoice is created, no more.
InvoiceOnly(r, j) ==
  /\ pc[r] = "idle"
  /\ j \notin invoiced /\ jobStatus[j] = "OPEN"
  /\ invoiced' = invoiced \cup {j}
  /\ UNCHANGED <<countVars, holdVars, jobStatus, requestVars>>

ReadHoldsForInvoice(r) ==
  /\ Continue(r, "invoice", "consume")
  /\ ReadHolds(r, job[r])
  /\ UNCHANGED <<countVars, holdVars, jobVars, job, want, readCount>>

\* Too little on hand and held together: a discrepancy event, nothing else.
SkipLine(r) ==
  /\ pc[r] = "consume"
  /\ ~Enough(r)
  /\ Finish(r)
  /\ UNCHANGED <<countVars, holdVars, jobVars>>

\* The commit: holds are used up or shrunk, the count drops to no less than
\* zero, the movement says the whole quantity, an event says what was short.
ConsumeLine(r) ==
  /\ pc[r] = "consume"
  /\ Enough(r)
  /\ status' = [h \in Holds |->
       IF Take(r, h) > 0 /\ Take(r, h) = seen[r][h] THEN "CONSUMED" ELSE status[h]]
  /\ quantity' = [h \in Holds |->
       IF Take(r, h) \in 1..(seen[r][h] - 1) THEN seen[r][h] - Take(r, h) ELSE quantity[h]]
  /\ onHand' = CountAfter(r)
  /\ booked' = booked - want[r]
  /\ shortfall' = shortfall + (want[r] - ShelfTake(r))
  /\ Finish(r)
  /\ UNCHANGED <<counts, holder, issues, jobVars>>

-----------------------------------------------------------------------------

Next ==
  \/ \E r \in Requests :
       \/ ReadItem(r) \/ ChangeStock(r)
       \/ ReadForReserve(r) \/ CheckAvailable(r) \/ Reserve(r)
       \/ ReadForIssue(r) \/ ReadItemForIssue(r) \/ IssueHolds(r)
       \/ ReadForInvoice(r) \/ ReadHoldsForInvoice(r)
       \/ SkipLine(r) \/ ConsumeLine(r)
       \/ ReceiveGoods(r) \/ Release(r)
       \/ \E j \in Jobs : CancelJob(r, j) \/ CloseJob(r, j) \/ InvoiceOnly(r, j)
       \/ RollBack(r)

Spec == Init /\ [][Next]_vars

-----------------------------------------------------------------------------
(* Properties, of any number of overlapping requests. *)

\* Types; the count on hand, the counts that requests remember and the quantity of
\* a hold are natural numbers, as the schema's CHECK constraints demand of the
\* columns: however stale the count a request read, what it writes is not
\* negative, and no constraint ever has to refuse it.
TypeOK ==
  /\ onHand \in Nat /\ booked \in Int /\ shortfall \in Nat /\ counts \in Nat
  /\ status \in [Holds -> HoldStatuses]
  /\ quantity \in [Holds -> Nat]
  /\ holder \in [Holds -> Jobs]
  /\ issues \in [Holds -> Nat]
  /\ jobStatus \in [Jobs -> {"OPEN", "CLOSED", "CANCELLED"}]
  /\ invoiced \subseteq Jobs
  /\ pc \in [Requests -> Steps]
  /\ job \in [Requests -> Jobs]
  /\ want \in [Requests -> Int]
  /\ readCount \in [Requests -> Nat]
  /\ seen \in [Requests -> [Holds -> Nat]]

\* A hold whose parts were issued to the job is consumed and stays so: no
\* release, cancellation or invoice that overlaps gives it back.
IssuedIsConsumed == \A h \in Holds : issues[h] > 0 => status[h] = "CONSUMED"

\* The parts of a hold are issued again only by requests that overlap: at most once
\* for each that may be in flight, however long the system runs and however often
\* the issue of the job's parts is asked for again.  So they are issued once where
\* requests do not overlap; two that read the hold before either commits do issue
\* it twice, since the commit does not look at its status.
IssuesOverlap == \A h \in Holds : issues[h] <= Cardinality(Requests)

-----------------------------------------------------------------------------
(* Properties of requests that do not overlap. *)

\* The movements explain the count, up to what discrepancy events report.
CountIsExplained == onHand = Opening + booked + shortfall

\* A released or consumed hold is history: it does not change any more.
HoldsAreFinal ==
  [][\A h \in Holds : status[h] \in {"RELEASED", "CONSUMED"}
       => /\ status'[h] = status[h]
          /\ quantity'[h] = quantity[h]
          /\ issues'[h] = issues[h]]_vars

\* "A cancelled work order gives its stock holds back": all, for good.
CancelledHoldsNothing ==
  \A j \in Jobs : jobStatus[j] = "CANCELLED" => ActiveOf(j) = {}

=============================================================================
