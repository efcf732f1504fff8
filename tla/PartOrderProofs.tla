--------------------------- MODULE PartOrderProofs ---------------------------
(***************************************************************************)
(* Proofs about PartOrder, for any lines, quantities and requests.         *)
(***************************************************************************)
EXTENDS PartOrder, TLAPS

\* What a request that is about to commit a receipt still knows: its goods
\* fitted what it read, all it read is in stock, and the order was placed.
ReceiptKnows ==
  \A r \in Requests : pc[r] = "receive" =>
    /\ placed
    /\ Fits(loaded[r], arriving[r])
    /\ \A l \in Linked : loaded[r][l] <= shelved[l]

\* A placed order has been placed: the status implies ordered_at.
PlacedIfOrdered == status \in {"ORDERED", "RECEIVED"} => placed

OrderInv ==
  /\ TypeOK
  /\ ReceiptKnows
  /\ PlacedIfOrdered
  /\ GoodsReachTheShelf
  /\ ReceivedMeansArrived
  /\ GoodsWereOrdered

\* The invariant holds of a new order.
LEMMA InitOrder == Init => OrderInv
<1> SUFFICES ASSUME Init PROVE OrderInv
  OBVIOUS
<1>1. NoGoods \in [Lines -> Nat] /\ \A l \in Lines : NoGoods[l] = 0
  BY DEF NoGoods
<1>2. TypeOK
  BY <1>1 DEF Init, TypeOK
<1>3. ReceiptKnows /\ PlacedIfOrdered /\ ReceivedMeansArrived
  BY DEF Init, ReceiptKnows, PlacedIfOrdered, ReceivedMeansArrived
<1>4. GoodsReachTheShelf /\ GoodsWereOrdered
  BY <1>1, PartOrderAssumption DEF Init, GoodsReachTheShelf, GoodsWereOrdered
<1> QED BY <1>2, <1>3, <1>4 DEF OrderInv

\* The steps that leave the lines and the stock alone preserve the
\* invariant: the request they end or begin is not about to receive.
LEMMA QuietStep ==
  ASSUME OrderInv, NEW r \in Requests,
         UNCHANGED <<received, shelved>>,
         pc' \in [Requests -> {"idle", "place", "cancel", "receive"}],
         loaded' \in [Requests -> [Lines -> Nat]],
         arriving' \in [Requests -> [Lines -> Nat]],
         \A q \in Requests : pc'[q] = "receive" =>
           pc[q] = "receive" /\ loaded'[q] = loaded[q] /\ arriving'[q] = arriving[q],
         status' \in {"NONE", "REQUESTED", "ORDERED", "RECEIVED", "CANCELLED"},
         status' = "RECEIVED" => status = "RECEIVED",
         status' = "ORDERED" => placed',
         placed' \in BOOLEAN,
         placed => placed'
  PROVE  OrderInv'
<1>1. TypeOK'
  BY DEF OrderInv, TypeOK
<1>2. ReceiptKnows'
  BY DEF OrderInv, ReceiptKnows, Fits
<1>3. PlacedIfOrdered'
  BY DEF OrderInv, PlacedIfOrdered
<1>4. GoodsReachTheShelf' /\ ReceivedMeansArrived' /\ GoodsWereOrdered'
  BY DEF OrderInv, GoodsReachTheShelf, ReceivedMeansArrived, GoodsWereOrdered
<1> QED BY <1>1, <1>2, <1>3, <1>4 DEF OrderInv

\* What ending a request does to the local state of all.
LEMMA Finished ==
  ASSUME TypeOK, NEW r \in Requests, Finish(r)
  PROVE  /\ pc' \in [Requests -> {"idle", "place", "cancel", "receive"}]
         /\ loaded' \in [Requests -> [Lines -> Nat]]
         /\ arriving' \in [Requests -> [Lines -> Nat]]
         /\ \A q \in Requests : pc'[q] = "receive" =>
              /\ q # r
              /\ pc[q] = "receive"
              /\ loaded'[q] = loaded[q]
              /\ arriving'[q] = arriving[q]
<1>1. NoGoods \in [Lines -> Nat]
  BY DEF NoGoods
<1> QED BY <1>1 DEF TypeOK, Finish

\* A receipt adds to the stock of the linked lines, and never takes from it.
LEMMA ShelfGrows ==
  ASSUME TypeOK, NEW before, NEW goods \in [Lines -> Nat],
         shelved' = ShelvedBy(before, goods)
  PROVE  /\ shelved' \in [Lines -> Nat]
         /\ \A l \in Lines : shelved[l] <= shelved'[l]
         /\ \A l \in Linked : shelved'[l] = shelved[l] + goods[l]
BY PartOrderAssumption DEF TypeOK, ShelvedBy

\* A receipt keeps the invariant, whatever was received since it read the lines.
LEMMA ReceiptStep ==
  ASSUME OrderInv, NEW r \in Requests, ReceiveItems(r)
  PROVE  OrderInv'
<1> USE DEF OrderInv
<1> DEFINE goods == arriving[r]
           before == loaded[r]
<1>1. /\ goods \in [Lines -> Nat]
      /\ before \in [Lines -> Nat]
      /\ placed
      /\ \A l \in Linked : l \in Lines /\ before[l] <= shelved[l]
      /\ \A l \in Lines : Quantity[l] \in Nat
  BY PartOrderAssumption DEF TypeOK, ReceiptKnows, ReceiveItems
<1>2. /\ shelved' \in [Lines -> Nat]
      /\ \A l \in Lines : shelved[l] <= shelved'[l]
      /\ \A l \in Linked : shelved'[l] = shelved[l] + goods[l]
  BY <1>1, ShelfGrows DEF ReceiveItems
<1>3. /\ pc' \in [Requests -> {"idle", "place", "cancel", "receive"}]
      /\ loaded' \in [Requests -> [Lines -> Nat]]
      /\ arriving' \in [Requests -> [Lines -> Nat]]
      /\ \A q \in Requests : pc'[q] = "receive" =>
           /\ q # r
           /\ pc[q] = "receive"
           /\ loaded'[q] = loaded[q]
           /\ arriving'[q] = arriving[q]
  BY Finished DEF ReceiveItems
<1>4. /\ received' \in [Lines -> Nat]
      /\ \A l \in Lines : received'[l] = IF goods[l] > 0 THEN before[l] + goods[l]
                                         ELSE received[l]
  BY <1>1 DEF ReceiveItems, TypeOK
<1>5. TypeOK'
  BY <1>2, <1>3, <1>4 DEF TypeOK, ReceiveItems
<1>6. ReceiptKnows'
  <2> SUFFICES ASSUME NEW q \in Requests, pc'[q] = "receive"
               PROVE  /\ placed'
                      /\ Fits(loaded[q], arriving[q])
                      /\ \A l \in Linked : loaded[q][l] <= shelved'[l]
    BY <1>3 DEF ReceiptKnows, Fits
  <2>1. Fits(loaded[q], arriving[q]) /\ \A l \in Linked : loaded[q][l] <= shelved[l]
    BY <1>3 DEF ReceiptKnows
  <2>2. loaded[q] \in [Lines -> Nat] /\ shelved \in [Lines -> Nat]
    BY DEF TypeOK
  <2>3. ASSUME NEW l \in Linked PROVE loaded[q][l] <= shelved'[l]
    BY <1>1, <1>2, <2>1, <2>2
  <2> QED BY <1>1, <2>1, <2>3 DEF ReceiveItems
<1>7. PlacedIfOrdered' /\ GoodsWereOrdered'
  BY <1>1 DEF PlacedIfOrdered, GoodsWereOrdered, ReceiveItems
<1>8. GoodsReachTheShelf'
  <2> SUFFICES ASSUME NEW l \in Linked PROVE received'[l] <= shelved'[l]
    BY DEF GoodsReachTheShelf
  <2>1. /\ received[l] <= shelved[l]
        /\ received[l] \in Nat /\ shelved[l] \in Nat /\ shelved'[l] \in Nat
        /\ before[l] \in Nat /\ goods[l] \in Nat
    BY <1>1, <1>2 DEF TypeOK, GoodsReachTheShelf
  <2> QED BY <1>1, <1>2, <1>4, <2>1
<1>9. ReceivedMeansArrived'
  <2> SUFFICES ASSUME status' = "RECEIVED", NEW l \in Linked
               PROVE  Quantity[l] <= shelved'[l]
    BY DEF ReceivedMeansArrived
  <2>1. /\ l \in Lines /\ Quantity[l] \in Nat
        /\ shelved[l] \in Nat /\ shelved'[l] \in Nat
        /\ before[l] \in Nat /\ goods[l] \in Nat
    BY <1>1, <1>2 DEF TypeOK
  <2>2. CASE CompletedBy(before, goods)
    BY <1>1, <1>2, <2>1, <2>2 DEF CompletedBy
  <2>3. CASE ~CompletedBy(before, goods)
    <3>1. status = "RECEIVED"
      BY <2>3 DEF ReceiveItems
    <3> QED BY <1>2, <2>1, <3>1 DEF ReceivedMeansArrived
  <2> QED BY <2>2, <2>3
<1> QED BY <1>5, <1>6, <1>7, <1>8, <1>9

\* Every other step keeps it too.
LEMMA OrderStep ==
  ASSUME OrderInv, [Next]_vars
  PROVE  OrderInv'
<1> USE DEF OrderInv
<1>1. CASE UNCHANGED vars
  BY <1>1 DEF vars, requestVars, TypeOK, ReceiptKnows, PlacedIfOrdered,
    GoodsReachTheShelf, ReceivedMeansArrived, GoodsWereOrdered, Fits
<1>2. CASE CreatePartOrder
  BY <1>2 DEF CreatePartOrder, requestVars, TypeOK, ReceiptKnows,
    PlacedIfOrdered, GoodsReachTheShelf, ReceivedMeansArrived,
    GoodsWereOrdered, Fits
<1>3. ASSUME NEW r \in Requests, LoadToPlace(r) PROVE OrderInv'
  BY <1>3, QuietStep DEF LoadToPlace, TypeOK, PlacedIfOrdered
<1>4. ASSUME NEW r \in Requests, LoadToCancel(r) PROVE OrderInv'
  BY <1>4, QuietStep DEF LoadToCancel, TypeOK, PlacedIfOrdered
<1>5. ASSUME NEW r \in Requests, MarkOrdered(r) PROVE OrderInv'
  BY <1>5, QuietStep, Finished DEF MarkOrdered
<1>6. ASSUME NEW r \in Requests, CancelPartOrder(r) PROVE OrderInv'
  BY <1>6, QuietStep, Finished DEF CancelPartOrder, TypeOK
<1>7. ASSUME NEW r \in Requests, RollBack(r) PROVE OrderInv'
  BY <1>7, QuietStep, Finished DEF RollBack, TypeOK, PlacedIfOrdered
<1>8. ASSUME NEW r \in Requests, LoadToReceive(r) PROVE OrderInv'
  <2>1. PICK goods \in [Lines -> 0..MaxQuantity] :
          Fits(received, goods) /\ arriving' = [arriving EXCEPT ![r] = goods]
    BY <1>8 DEF LoadToReceive
  <2>2. goods \in [Lines -> Nat]
    BY PartOrderAssumption
  <2>3. TypeOK'
    BY <1>8, <2>1, <2>2 DEF LoadToReceive, TypeOK
  <2>4. ReceiptKnows'
    <3> SUFFICES ASSUME NEW q \in Requests, pc'[q] = "receive"
                 PROVE  /\ placed
                        /\ Fits(loaded'[q], arriving'[q])
                        /\ \A l \in Linked : loaded'[q][l] <= shelved[l]
      BY <1>8 DEF LoadToReceive, ReceiptKnows, Fits
    <3>1. CASE q = r
      BY <1>8, <2>1, <3>1 DEF LoadToReceive, Accepts, TypeOK, PlacedIfOrdered,
        GoodsReachTheShelf
    <3>2. CASE q # r
      BY <1>8, <2>1, <3>2 DEF LoadToReceive, TypeOK, ReceiptKnows
    <3> QED BY <3>1, <3>2
  <2>5. PlacedIfOrdered' /\ GoodsReachTheShelf' /\ ReceivedMeansArrived' /\ GoodsWereOrdered'
    BY <1>8 DEF LoadToReceive, PlacedIfOrdered, GoodsReachTheShelf,
      ReceivedMeansArrived, GoodsWereOrdered
  <2> QED BY <2>3, <2>4, <2>5
<1> QED
  BY <1>1, <1>2, <1>3, <1>4, <1>5, <1>6, <1>7, <1>8, ReceiptStep DEF Next

\* The invariant holds in every state.
LEMMA OrderInvariant == Spec => []OrderInv
BY InitOrder, OrderStep, PTL DEF Spec

-----------------------------------------------------------------------------

\* Types, with them received_quantity and the stock never negative.
THEOREM OrderTypeCorrect == Spec => []TypeOK
<1>1. OrderInv => TypeOK
  BY DEF OrderInv
<1> QED BY <1>1, OrderInvariant, PTL

\* Overlapping receipts may count goods twice, but never lose them: not for a
\* line, and not for an order that was declared complete; and nothing is received
\* against an order that was never placed.
THEOREM GoodsAreNeverLost == Spec => []GoodsAreAccountedFor
<1>1. OrderInv => GoodsAreAccountedFor
  BY DEF OrderInv, GoodsAreAccountedFor
<1> QED BY <1>1, OrderInvariant, PTL

\* A received order stays received, whatever was in flight.
THEOREM ReceivedOrdersStay == Spec => ReceivedIsFinal
<1>1. ASSUME [Next]_vars
      PROVE  [status = "RECEIVED" => status' = "RECEIVED"]_vars
  BY <1>1 DEF Next, vars, requestVars, CreatePartOrder, LoadToPlace,
    MarkOrdered, LoadToCancel, CancelPartOrder, LoadToReceive, ReceiveItems,
    RollBack, ReceiptCheck
<1> QED BY <1>1, PTL DEF Spec, ReceivedIsFinal

-----------------------------------------------------------------------------
(* Requests that do not overlap: only r is ever in flight. *)

\* The order has not changed since the request that is in flight read it; its
\* lines and its stock agree, and it is complete exactly when it says so.
Undisturbed(r) ==
  /\ pc[r] = "place" => status = "REQUESTED"
  /\ pc[r] = "cancel" => status \in {"REQUESTED", "ORDERED"}
  /\ pc[r] = "receive" =>
       /\ status = "ORDERED"
       /\ loaded[r] = received
       /\ arriving[r] # NoGoods
       /\ Fits(received, arriving[r])
  /\ \A l \in Linked : shelved[l] = received[l]

\* With one request, what it read is what the order says.
LEMMA UndisturbedStep ==
  ASSUME NEW r, Requests = {r}, TypeOK, Undisturbed(r), [Next]_vars
  PROVE  Undisturbed(r)'
<1>1. CASE UNCHANGED vars
  BY <1>1 DEF vars, requestVars, Undisturbed, Fits
<1>2. CASE CreatePartOrder
  BY <1>2 DEF CreatePartOrder, requestVars, TypeOK, Undisturbed, Fits
<1>3. CASE LoadToPlace(r)
  BY <1>3 DEF LoadToPlace, TypeOK, Undisturbed
<1>4. CASE LoadToCancel(r)
  BY <1>4 DEF LoadToCancel, TypeOK, Undisturbed
<1>5. CASE LoadToReceive(r)
  BY <1>5 DEF LoadToReceive, Accepts, TypeOK, Undisturbed, Fits
<1>6. CASE MarkOrdered(r) \/ CancelPartOrder(r) \/ RollBack(r)
  BY <1>6 DEF MarkOrdered, CancelPartOrder, RollBack, Finish, TypeOK, Undisturbed
<1>7. CASE ReceiveItems(r)
  <2>1. pc'[r] = "idle"
    BY <1>7 DEF ReceiveItems, Finish, TypeOK
  <2>2. ASSUME NEW l \in Linked PROVE shelved'[l] = received'[l]
    <3>1. /\ l \in Lines
          /\ arriving[r][l] \in Nat
          /\ received[l] \in Nat
          /\ shelved[l] = received[l]
          /\ loaded[r][l] = received[l]
      BY <1>7, PartOrderAssumption DEF ReceiveItems, TypeOK, Undisturbed
    <3> QED BY <1>7, <3>1 DEF ReceiveItems, ShelvedBy
  <2> QED BY <2>1, <2>2 DEF Undisturbed
<1> QED BY <1>1, <1>2, <1>3, <1>4, <1>5, <1>6, <1>7 DEF Next

\* The goods of a receipt, added to what had arrived.
LEMMA Arrival ==
  ASSUME NEW r, Requests = {r}, TypeOK, Undisturbed(r), ReceiveItems(r)
  PROVE  Lifecycle!Arrive
<1> DEFINE arrived == [l \in Lines |-> IF l \in Linked THEN shelved[l] ELSE received[l]]
<1> DEFINE arrivedNext == [l \in Lines |-> IF l \in Linked THEN shelved'[l] ELSE received'[l]]
<1>1. /\ status = "ORDERED"
      /\ loaded[r] = received
      /\ arriving[r] \in [Lines -> Nat]
      /\ arriving[r] # NoGoods
      /\ Fits(received, arriving[r])
      /\ received \in [Lines -> Nat]
      /\ shelved \in [Lines -> Nat]
      /\ \A l \in Linked : shelved[l] = received[l]
      /\ Linked \subseteq Lines
      /\ \A l \in Lines : Quantity[l] \in Nat
  BY PartOrderAssumption DEF ReceiveItems, TypeOK, Undisturbed
<1>2. ASSUME NEW l \in Lines
      PROVE  /\ arrived[l] = received[l]
             /\ arrivedNext[l] = received[l] + arriving[r][l]
             /\ arriving[r][l] \in Nat /\ received[l] \in Nat /\ Quantity[l] \in Nat
             /\ received[l] + arriving[r][l] <= Quantity[l]
  <2>1. /\ arriving[r][l] \in Nat /\ received[l] \in Nat /\ Quantity[l] \in Nat
        /\ received[l] + arriving[r][l] <= Quantity[l]
        /\ arrived[l] = received[l]
    BY <1>1 DEF Fits
  <2>2. received'[l] = received[l] + arriving[r][l]
    BY <1>1, <2>1 DEF ReceiveItems
  <2>3. l \in Linked => shelved'[l] = received[l] + arriving[r][l]
    BY <1>1, <2>1 DEF ReceiveItems, ShelvedBy
  <2> QED BY <2>1, <2>2, <2>3
<1>3. arrivedNext \in [Lines -> Int]
  BY <1>2
<1>4. \A l \in Lines : arrived[l] <= arrivedNext[l] /\ arrivedNext[l] <= Quantity[l]
  BY <1>2
<1>5. arrivedNext # arrived
  <2>1. PICK l \in Lines : arriving[r][l] # 0
    BY <1>1 DEF NoGoods
  <2>2. arrivedNext[l] # arrived[l]
    BY <1>2, <2>1
  <2> QED BY <2>2
<1>6. status' = IF \A l \in Lines : arrivedNext[l] = Quantity[l]
                THEN "RECEIVED" ELSE "ORDERED"
  <2>1. CompletedBy(loaded[r], arriving[r]) <=> \A l \in Lines : arrivedNext[l] = Quantity[l]
    <3>1. ASSUME NEW l \in Lines
          PROVE  loaded[r][l] + arriving[r][l] >= Quantity[l]
                   <=> arrivedNext[l] = Quantity[l]
      <4>1. /\ arrivedNext[l] = received[l] + arriving[r][l]
            /\ arriving[r][l] \in Nat /\ received[l] \in Nat /\ Quantity[l] \in Nat
            /\ received[l] + arriving[r][l] <= Quantity[l]
        BY <1>2
      <4>2. loaded[r][l] = received[l]
        BY <1>1
      <4> HIDE DEF arrivedNext
      <4> QED BY <4>1, <4>2
    <3> HIDE DEF arrivedNext
    <3> QED BY <3>1 DEF CompletedBy
  <2> QED BY <1>1, <2>1 DEF ReceiveItems
<1> QED BY <1>1, <1>3, <1>4, <1>5, <1>6 DEF Lifecycle!Arrive, Lifecycle!Complete

\* With one request, every step is a step of the lifecycle or none of it.
LEMMA LifecycleStep ==
  ASSUME NEW r, Requests = {r}, TypeOK, Undisturbed(r), [Next]_vars
  PROVE  [Lifecycle!Next]_(Lifecycle!vars)
<1>1. CASE \/ UNCHANGED vars \/ RollBack(r) \/ LoadToPlace(r)
           \/ LoadToCancel(r) \/ LoadToReceive(r)
  BY <1>1 DEF vars, requestVars, RollBack, LoadToPlace, LoadToCancel,
    LoadToReceive, Lifecycle!vars
<1>2. CASE CreatePartOrder
  BY <1>2 DEF CreatePartOrder, requestVars, Lifecycle!Next, Lifecycle!Request
<1>3. CASE MarkOrdered(r)
  BY <1>3 DEF MarkOrdered, Undisturbed, Lifecycle!Next, Lifecycle!Place
<1>4. CASE CancelPartOrder(r)
  BY <1>4 DEF CancelPartOrder, Undisturbed, Lifecycle!Next, Lifecycle!Cancel
<1>5. CASE ReceiveItems(r)
  BY <1>5, Arrival DEF Lifecycle!Next
<1> QED BY <1>1, <1>2, <1>3, <1>4, <1>5 DEF Next

\* Without overlapping requests a part order keeps its lifecycle, with the
\* stock movements for the goods that arrived.
THEOREM OrderKeepsLifecycle ==
  ASSUME NEW r, Requests = {r}
  PROVE  Spec => ImplementsLifecycle
<1>1. Init => Lifecycle!Init /\ Undisturbed(r)
  BY PartOrderAssumption DEF Init, NoGoods, Undisturbed, Lifecycle!Init
<1>2. TypeOK /\ Undisturbed(r) /\ [Next]_vars => Undisturbed(r)'
  BY UndisturbedStep
<1>3. TypeOK /\ Undisturbed(r) /\ [Next]_vars => [Lifecycle!Next]_(Lifecycle!vars)
  BY LifecycleStep
<1> QED BY <1>1, <1>2, <1>3, OrderTypeCorrect, PTL
        DEF Spec, ImplementsLifecycle, Lifecycle!Spec
=============================================================================
