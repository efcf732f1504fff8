------------------------------ MODULE PartOrder ------------------------------
(***************************************************************************)
(* One part order: it is requested, placed with the supplier, received     *)
(* line by line into stock, or cancelled.                                  *)
(* Source: src/modules/parts/part-order-service.ts.                        *)
(*                                                                         *)
(* Each operation is one transaction at READ COMMITTED: it reads the order *)
(* and its lines without locking them, checks what it read, and commits    *)
(* values computed from it.  Other requests may commit in between, so the  *)
(* load and the commit are two steps.  (The order and its lines are two    *)
(* SELECTs; lines read later than the order change no outcome, because     *)
(* they matter only to a receipt, which reads a placed order.)             *)
(***************************************************************************)
EXTENDS Integers

CONSTANTS
  Requests,    \* requests that may be in flight at once
  Lines,       \* the lines of the order
  Linked,      \* those with an inventory_item_id
  MaxQuantity, \* bound: the largest quantity of a line
  Quantity     \* part_order_lines.quantity

ASSUME PartOrderAssumption ==
  /\ Lines # {}
  /\ Linked \subseteq Lines
  /\ MaxQuantity \in Nat
  /\ Quantity \in [Lines -> 1..MaxQuantity]

VARIABLES
  status,    \* part_orders.status, or "NONE" before it is created
  placed,    \* ordered_at is set
  received,  \* part_order_lines.received_quantity
  shelved,   \* sum of the RECEIVED movements of each line, and so of the
             \* increments of its item's quantity_on_hand
  pc,        \* what each request has read the order for
  loaded,    \* received_quantity of the lines as it read them
  arriving   \* the quantities it was told to receive

requestVars == <<pc, loaded, arriving>>
vars == <<status, placed, received, shelved, requestVars>>

NoGoods == [l \in Lines |-> 0]

Init ==
  /\ status = "NONE"
  /\ placed = FALSE
  /\ received = NoGoods
  /\ shelved = NoGoods
  /\ pc = [r \in Requests |-> "idle"]
  /\ loaded = [r \in Requests |-> NoGoods]
  /\ arriving = [r \in Requests |-> NoGoods]

-----------------------------------------------------------------------------
(* Helpers. *)

\* Mutant: goods are received before the order is placed.
AcceptsRequested(s) == s \in {"REQUESTED", "ORDERED"}

\* May goods be received, given the status read?
Accepts(s) == s = "ORDERED"

\* Mutant: the table has no such constraint.
ReceiptCheckNone == TRUE

\* part_orders_receipt_check: received_at is set exactly while the status is
\* RECEIVED.  Neither markOrdered nor cancelPartOrder clears received_at, so
\* the database refuses their update of a received order.
ReceiptCheck == status # "RECEIVED"

\* Mutant: the quantity is compared without what came before.
FitsAlone(before, goods) == \A l \in Lines : goods[l] <= Quantity[l]

\* No line receives more than is outstanding.
Fits(before, goods) == \A l \in Lines : before[l] + goods[l] <= Quantity[l]

\* Mutant: only the lines of this receipt are looked at.
CompleteReceipt(before, goods) ==
  \A l \in Lines : goods[l] > 0 => before[l] + goods[l] >= Quantity[l]

\* allReceived: is every line of the order fully received by this receipt?
CompletedBy(before, goods) ==
  \A l \in Lines : before[l] + goods[l] >= Quantity[l]

\* Mutants: the movement has the sign of an issue; stock moves when a line is
\* complete, and then only by this receipt.
ShelvedNegative(before, goods) ==
  [l \in Lines |-> IF l \in Linked THEN shelved[l] - goods[l] ELSE shelved[l]]

ShelvedWhenFull(before, goods) ==
  [l \in Lines |-> IF l \in Linked /\ before[l] + goods[l] = Quantity[l]
                   THEN shelved[l] + goods[l] ELSE shelved[l]]

\* { increment: receipt.quantity } and its movement, for each linked line.
ShelvedBy(before, goods) ==
  [l \in Lines |-> IF l \in Linked THEN shelved[l] + goods[l] ELSE shelved[l]]

-----------------------------------------------------------------------------

\* createPartOrder.
CreatePartOrder ==
  /\ status = "NONE"
  /\ status' = "REQUESTED"
  /\ UNCHANGED <<placed, received, shelved, requestVars>>

\* A request that is over, committed or rolled back.
Finish(r) ==
  /\ pc' = [pc EXCEPT ![r] = "idle"]
  /\ loaded' = [loaded EXCEPT ![r] = NoGoods]
  /\ arriving' = [arriving EXCEPT ![r] = NoGoods]

\* markOrdered reads the order and finds it REQUESTED.
LoadToPlace(r) ==
  /\ pc[r] = "idle"
  /\ status = "REQUESTED"
  /\ pc' = [pc EXCEPT ![r] = "place"]
  /\ UNCHANGED <<status, placed, received, shelved, loaded, arriving>>

\* markOrdered commits, whatever the status has become, if the table lets it.
MarkOrdered(r) ==
  /\ pc[r] = "place"
  /\ ReceiptCheck
  /\ status' = "ORDERED"
  /\ placed' = TRUE
  /\ Finish(r)
  /\ UNCHANGED <<received, shelved>>

\* cancelPartOrder reads the order and finds it REQUESTED or ORDERED.
LoadToCancel(r) ==
  /\ pc[r] = "idle"
  /\ status \in {"REQUESTED", "ORDERED"}
  /\ pc' = [pc EXCEPT ![r] = "cancel"]
  /\ UNCHANGED <<status, placed, received, shelved, loaded, arriving>>

\* cancelPartOrder commits.
CancelPartOrder(r) ==
  /\ pc[r] = "cancel"
  /\ ReceiptCheck
  /\ status' = "CANCELLED"
  /\ Finish(r)
  /\ UNCHANGED <<placed, received, shelved>>

\* receiveItems reads the order and its lines and finds that the receipt
\* fits.  A line named twice in one request counts with its sum, as lineMap
\* does.  The "receive-all" route only computes the quantities from an
\* earlier read of its own.
LoadToReceive(r) ==
  /\ pc[r] = "idle"
  /\ Accepts(status)
  /\ \E goods \in [Lines -> 0..MaxQuantity] :
       /\ goods # NoGoods
       /\ Fits(received, goods)
       /\ arriving' = [arriving EXCEPT ![r] = goods]
  /\ loaded' = [loaded EXCEPT ![r] = received]
  /\ pc' = [pc EXCEPT ![r] = "receive"]
  /\ UNCHANGED <<status, placed, received, shelved>>

\* receiveItems commits: the lines it received are overwritten, the stock is
\* incremented, and the order is completed if its own lines say so.
ReceiveItems(r) ==
  /\ pc[r] = "receive"
  /\ received' = [l \in Lines |-> IF arriving[r][l] > 0
                                  THEN loaded[r][l] + arriving[r][l]
                                  ELSE received[l]]
  /\ shelved' = ShelvedBy(loaded[r], arriving[r])
  /\ status' = IF CompletedBy(loaded[r], arriving[r]) THEN "RECEIVED" ELSE status
  /\ Finish(r)
  /\ UNCHANGED placed

\* The transaction is rolled back: a constraint, a deadlock of two receipts
\* that update the same lines in a different order, a lost connection.
RollBack(r) ==
  /\ pc[r] # "idle"
  /\ Finish(r)
  /\ UNCHANGED <<status, placed, received, shelved>>

Next ==
  \/ CreatePartOrder
  \/ \E r \in Requests :
       \/ LoadToPlace(r) \/ MarkOrdered(r)
       \/ LoadToCancel(r) \/ CancelPartOrder(r)
       \/ LoadToReceive(r) \/ ReceiveItems(r)
       \/ RollBack(r)

Spec == Init /\ [][Next]_vars

-----------------------------------------------------------------------------
(* Properties, of any number of overlapping requests. *)

\* Types: the columns of the order and its lines, and what each request remembers.
TypeOK ==
  /\ status \in {"NONE", "REQUESTED", "ORDERED", "RECEIVED", "CANCELLED"}
  /\ placed \in BOOLEAN
  /\ received \in [Lines -> Nat]
  /\ shelved \in [Lines -> Nat]
  /\ pc \in [Requests -> {"idle", "place", "cancel", "receive"}]
  /\ loaded \in [Requests -> [Lines -> Nat]]
  /\ arriving \in [Requests -> [Lines -> Nat]]

\* received_quantity is overwritten and stock is incremented, so overlapping
\* receipts disagree; but they never write off goods: whatever a linked line
\* says was received has been added to its item.
GoodsReachTheShelf == \A l \in Linked : received[l] <= shelved[l]

\* An order that some receipt declared complete, on the strength of what it
\* had read, has brought at least all of its linked goods into stock.
ReceivedMeansArrived ==
  status = "RECEIVED" => \A l \in Linked : Quantity[l] <= shelved[l]

\* Goods are received only against an order that was placed, whoever cancels
\* or places it again in the meantime.
GoodsWereOrdered == (\E l \in Lines : received[l] > 0) => placed

\* Goods are never lost between the order and the shelf, neither those of a line
\* nor those of an order that some receipt closed, nor do they arrive against an
\* order that was never placed, however receipts and cancellations overlap.
GoodsAreAccountedFor ==
  GoodsReachTheShelf /\ ReceivedMeansArrived /\ GoodsWereOrdered

\* A received order is never reopened or cancelled, not even by a request
\* that read it before the last receipt.
ReceivedIsFinal == [][status = "RECEIVED" => status' = "RECEIVED"]_vars

-----------------------------------------------------------------------------
(* Properties of requests that do not overlap. *)

Lifecycle == INSTANCE PartLifecycle WITH
  arrived <- [l \in Lines |-> IF l \in Linked THEN shelved[l] ELSE received[l]]

\* The order implements its lifecycle, with the stock movements of a linked
\* line for the goods that arrived: it is RECEIVED as soon as and only when
\* all is in stock, nothing arrives twice, and the end states are final.
ImplementsLifecycle == Lifecycle!Spec

-----------------------------------------------------------------------------
(* What the repository says and overlapping requests break. *)

\* "The order completes when every line is fully received."
CompletesWhenReceived ==
  (\A r \in Requests : pc[r] = "idle") /\ received = Quantity
    => status \in {"RECEIVED", "CANCELLED"}
=============================================================================
