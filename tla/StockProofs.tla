----------------------------- MODULE StockProofs -----------------------------
(***************************************************************************)
(* Proofs about Stock, for any jobs, holds and quantities: what holds of   *)
(* any number of overlapping requests, then what holds of requests that do *)
(* not overlap, which is one request at a time.                            *)
(***************************************************************************)
EXTENDS Stock, Sums

\* The types, and what the requests in flight know of the shelf: the change that
\* was checked against a count does not make it negative.
ShelfInv ==
  /\ TypeOK
  /\ \A r \in Requests :
       /\ pc[r] = "count" => readCount[r] + want[r] >= 0
       /\ pc[r] \in {"insert", "sum", "invoice", "consume"} => want[r] >= 0

\* What a request remembers is forgotten when it ends.
LEMMA FinishKeeps ==
  ASSUME ShelfInv, NEW r \in Requests, Finish(r),
         onHand' \in Nat, booked' \in Int, shortfall' \in Nat, counts' \in Nat,
         status' \in [Holds -> HoldStatuses], quantity' \in [Holds -> Nat],
         holder' \in [Holds -> Jobs], issues' \in [Holds -> Nat],
         UNCHANGED jobVars
  PROVE  ShelfInv'
<1>1. (CHOOSE j \in Jobs : TRUE) \in Jobs
  BY StockAssumption
<1>2. TypeOK'
  BY <1>1 DEF ShelfInv, TypeOK, Finish, Steps, Unseen, jobVars
<1> QED BY <1>2 DEF ShelfInv, Finish, TypeOK, Steps

\* The quantities that a query for the holds of a job returns.
LEMMA HoldsOfType ==
  ASSUME quantity \in [Holds -> Nat], NEW j
  PROVE  HoldsOf(j) \in [Holds -> Nat]
BY DEF HoldsOf

\* Every step leaves the count, and what requests read of it, a natural number.
LEMMA ShelfStep ==
  ASSUME ShelfInv, [Next]_vars
  PROVE  ShelfInv'
<1> USE StockAssumption DEF ShelfInv, TypeOK, Steps
<1>1. CASE UNCHANGED vars
  BY <1>1 DEF vars, countVars, holdVars, jobVars, requestVars
<1>2. ASSUME NEW r \in Requests, ReadItem(r) PROVE ShelfInv'
  BY <1>2 DEF ReadItem, Start, Ask, ReadCount, holdVars, jobVars
<1>3. ASSUME NEW r \in Requests, ChangeStock(r) PROVE ShelfInv'
  BY <1>3, FinishKeeps DEF ChangeStock, holdVars
<1>4. ASSUME NEW r \in Requests, ReadForReserve(r) PROVE ShelfInv'
  BY <1>4 DEF ReadForReserve, Start, Ask, About, ReadCount, countVars, holdVars, jobVars
<1>5. ASSUME NEW r \in Requests, CheckAvailable(r) PROVE ShelfInv'
  BY <1>5 DEF CheckAvailable, Continue, countVars, holdVars, jobVars
<1>6. ASSUME NEW r \in Requests, Reserve(r) PROVE ShelfInv'
  <2>1. /\ status' \in [Holds -> HoldStatuses]
        /\ quantity' \in [Holds -> Nat]
        /\ holder' \in [Holds -> Jobs]
    BY <1>6 DEF Reserve, HoldStatuses
  <2> QED BY <1>6, <2>1, FinishKeeps DEF Reserve, countVars
<1>7. ASSUME NEW r \in Requests, SkipLine(r) \/ RollBack(r) PROVE ShelfInv'
  BY <1>7, FinishKeeps DEF SkipLine, RollBack, countVars, holdVars
<1>8. ASSUME NEW r \in Requests, ReadForIssue(r) PROVE ShelfInv'
  BY <1>8, HoldsOfType
    DEF ReadForIssue, Start, About, ReadHolds, countVars, holdVars, jobVars
<1>9. ASSUME NEW r \in Requests, ReadItemForIssue(r) PROVE ShelfInv'
  BY <1>9 DEF ReadItemForIssue, Continue, ReadCount, countVars, holdVars, jobVars
<1>10. ASSUME NEW r \in Requests, IssueHolds(r) PROVE ShelfInv'
  <2>1. onHand' \in Nat /\ booked' \in Int
    BY <1>10 DEF IssueHolds, Covers
  <2>2. issues' \in [Holds -> Nat] /\ status' \in [Holds -> HoldStatuses]
    BY <1>10 DEF IssueHolds, HoldStatuses
  <2> QED BY <1>10, <2>1, <2>2, FinishKeeps DEF IssueHolds
<1>11. ASSUME NEW r \in Requests, ReadForInvoice(r) PROVE ShelfInv'
  BY <1>11 DEF ReadForInvoice, Start, Ask, About, ReadCount, countVars, holdVars
<1>12. ASSUME NEW r \in Requests, ReadHoldsForInvoice(r) PROVE ShelfInv'
  BY <1>12, HoldsOfType
    DEF ReadHoldsForInvoice, Continue, ReadHolds, countVars, holdVars, jobVars
<1>13. ASSUME NEW r \in Requests, ConsumeLine(r) PROVE ShelfInv'
  <2>1. onHand' \in Nat /\ booked' \in Int /\ shortfall' \in Nat
    BY <1>13 DEF ConsumeLine, CountAfter, ShelfTake, Smaller
  <2>2. status' \in [Holds -> HoldStatuses]
    BY <1>13 DEF ConsumeLine, HoldStatuses
  <2>3. quantity' \in [Holds -> Nat]
    <3>1. ASSUME NEW h \in Holds, NEW t \in 1..(seen[r][h] - 1)
          PROVE  seen[r][h] - t \in Nat
      OBVIOUS
    <3> QED BY <1>13, <3>1 DEF ConsumeLine
  <2> QED BY <1>13, <2>1, <2>2, <2>3, FinishKeeps DEF ConsumeLine
<1>14. ASSUME NEW r \in Requests, ReceiveGoods(r) PROVE ShelfInv'
  BY <1>14 DEF ReceiveGoods, requestVars, holdVars, jobVars
<1>15. ASSUME NEW r \in Requests, Release(r) PROVE ShelfInv'
  BY <1>15 DEF Release, HoldStatuses, countVars, jobVars, requestVars
<1>16. ASSUME NEW r \in Requests, NEW j \in Jobs, CancelJob(r, j) PROVE ShelfInv'
  BY <1>16 DEF CancelJob, HoldStatuses, countVars, requestVars
<1>17. ASSUME NEW r \in Requests, NEW j \in Jobs, CloseJob(r, j) \/ InvoiceOnly(r, j)
       PROVE  ShelfInv'
  BY <1>17 DEF CloseJob, InvoiceOnly, countVars, holdVars, requestVars
<1> QED
  BY <1>1, <1>2, <1>3, <1>4, <1>5, <1>6, <1>7, <1>8, <1>9, <1>10, <1>11,
     <1>12, <1>13, <1>14, <1>15, <1>16, <1>17 DEF Next

\* Stale reads never drive the count of an item below zero, and every variable
\* keeps its type.
THEOREM CountStaysNatural == Spec => []TypeOK
<1>1. Init => ShelfInv
  BY StockAssumption DEF Init, ShelfInv, TypeOK, Steps, HoldStatuses, Unseen
<1>2. ShelfInv /\ [Next]_vars => ShelfInv'
  BY ShelfStep
<1>3. ShelfInv => TypeOK
  BY DEF ShelfInv
<1> QED BY <1>1, <1>2, <1>3, PTL DEF Spec

-----------------------------------------------------------------------------

\* The status of every hold, and how often it was issued.
HoldInv ==
  /\ issues \in [Holds -> Nat]
  /\ status \in [Holds -> HoldStatuses]
  /\ IssuedIsConsumed

\* A step that issues nothing and leaves consumed holds consumed.
LEMMA HoldsSettled ==
  ASSUME HoldInv, UNCHANGED issues, status' \in [Holds -> HoldStatuses],
         \A h \in Holds : status[h] = "CONSUMED" => status'[h] = "CONSUMED"
  PROVE  HoldInv'
BY DEF HoldInv, IssuedIsConsumed

\* Every step leaves a hold that was issued consumed.
LEMMA HoldStep ==
  ASSUME HoldInv, [Next]_vars
  PROVE  HoldInv'
<1> USE DEF HoldInv, HoldStatuses
<1>1. CASE UNCHANGED <<status, issues>>
  BY <1>1, HoldsSettled
<1>2. ASSUME NEW r \in Requests, Reserve(r) PROVE HoldInv'
  <2>1. PICK h \in Holds : status[h] = "NONE" /\ status' = [status EXCEPT ![h] = "ACTIVE"]
    BY <1>2 DEF Reserve
  <2> QED BY <1>2, <2>1, HoldsSettled DEF Reserve
<1>3. ASSUME NEW r \in Requests, IssueHolds(r) PROVE HoldInv'
  <2>1. /\ issues' \in [Holds -> Nat]
        /\ status' \in [Holds -> HoldStatuses]
    BY <1>3 DEF IssueHolds
  <2>2. ASSUME NEW h \in Holds, issues'[h] > 0 PROVE status'[h] = "CONSUMED"
    BY <1>3, <2>2 DEF IssueHolds, IssuedIsConsumed
  <2> QED BY <2>1, <2>2 DEF IssuedIsConsumed
<1>4. ASSUME NEW r \in Requests, ConsumeLine(r) PROVE HoldInv'
  BY <1>4, HoldsSettled DEF ConsumeLine
<1>5. ASSUME NEW r \in Requests, Release(r) PROVE HoldInv'
  BY <1>5, HoldsSettled DEF Release, Releasable, Active
<1>6. ASSUME NEW r \in Requests, NEW j \in Jobs, CancelJob(r, j) PROVE HoldInv'
  BY <1>6, HoldsSettled DEF CancelJob, FreedBy, ActiveOf, Active
<1>7. ASSUME NEW r \in Requests,
             \/ ReadItem(r) \/ ChangeStock(r) \/ ReadForReserve(r)
             \/ CheckAvailable(r) \/ ReadForIssue(r) \/ ReadItemForIssue(r)
             \/ ReadForInvoice(r) \/ ReadHoldsForInvoice(r) \/ SkipLine(r)
             \/ RollBack(r) \/ ReceiveGoods(r)
      PROVE  UNCHANGED <<status, issues>>
  BY <1>7 DEF ReadItem, ChangeStock, ReadForReserve, CheckAvailable,
    ReadForIssue, ReadItemForIssue, ReadForInvoice, ReadHoldsForInvoice,
    SkipLine, RollBack, ReceiveGoods, holdVars
<1>8. ASSUME NEW r \in Requests, NEW j \in Jobs, CloseJob(r, j) \/ InvoiceOnly(r, j)
      PROVE  UNCHANGED <<status, issues>>
  BY <1>8 DEF CloseJob, InvoiceOnly, holdVars
<1>9. CASE UNCHANGED vars
  BY <1>1, <1>9 DEF vars, holdVars
<1> QED BY <1>1, <1>2, <1>3, <1>4, <1>5, <1>6, <1>7, <1>8, <1>9 DEF Next

\* Once a hold's parts are issued it is consumed for ever, whoever releases
\* holds, cancels the job or invoices it at the same time.
THEOREM IssuedStaysConsumed == Spec => []IssuedIsConsumed
<1>1. Init => HoldInv
  BY DEF Init, HoldInv, IssuedIsConsumed, HoldStatuses
<1>2. HoldInv /\ [Next]_vars => HoldInv'
  BY HoldStep
<1>3. HoldInv => IssuedIsConsumed
  BY DEF HoldInv
<1> QED BY <1>1, <1>2, <1>3, PTL DEF Spec

-----------------------------------------------------------------------------

\* Requests that are about to issue hold h.
Issuing(h) == {r \in Requests : pc[r] \in {"issue", "issuing"} /\ seen[r][h] > 0}

\* Every request has issued the hold at most once or is about to do so.
IssuesInv ==
  /\ ShelfInv
  /\ HoldInv
  /\ \A h \in Holds : issues[h] + Cardinality(Issuing(h)) <= Cardinality(Requests)

\* Requests can be counted.
LEMMA IssuingCount ==
  ASSUME NEW S \in SUBSET Requests, NEW T \in SUBSET S
  PROVE  /\ IsFiniteSet(S) /\ Cardinality(S) \in Nat /\ Cardinality(Requests) \in Nat
         /\ Cardinality(S) <= Cardinality(Requests)
         /\ Cardinality(T) \in Nat /\ Cardinality(T) <= Cardinality(S)
<1>1. IsFiniteSet(Requests)
  BY StockAssumption
<1>2. IsFiniteSet(S) /\ Cardinality(S) <= Cardinality(Requests)
  BY <1>1, FS_Subset
<1>3. IsFiniteSet(T) /\ Cardinality(T) <= Cardinality(S)
  BY <1>2, FS_Subset
<1> QED BY <1>1, <1>2, <1>3, FS_CardinalityType

\* A step after which no more requests are about to issue the hold, and which does not
\* issue it.
LEMMA IssuesKept ==
  ASSUME IssuesInv, NEW h \in Holds, issues'[h] = issues[h], Issuing(h)' \subseteq Issuing(h)
  PROVE  issues'[h] + Cardinality(Issuing(h)') <= Cardinality(Requests)
<1>1. Issuing(h) \in SUBSET Requests /\ Issuing(h)' \in SUBSET Issuing(h)
  BY DEF Issuing
<1>2. /\ Cardinality(Issuing(h)) \in Nat /\ Cardinality(Issuing(h)') \in Nat
      /\ Cardinality(Requests) \in Nat /\ Cardinality(Issuing(h)') <= Cardinality(Issuing(h))
  BY <1>1, IssuingCount
<1>3. issues[h] \in Nat /\ issues[h] + Cardinality(Issuing(h)) <= Cardinality(Requests)
  BY DEF IssuesInv, HoldInv
<1> QED BY <1>2, <1>3

\* Every step issues a hold for at most one of the requests that were about to, and
\* only a hold that was never issued is read for an issue.
LEMMA IssuesStep ==
  ASSUME IssuesInv, [Next]_vars
  PROVE  IssuesInv'
<1>1. ShelfInv' /\ HoldInv'
  BY ShelfStep, HoldStep DEF IssuesInv
<1> SUFFICES ASSUME NEW h \in Holds
             PROVE  issues'[h] + Cardinality(Issuing(h)') <= Cardinality(Requests)
  BY <1>1 DEF IssuesInv
<1>2. TypeOK /\ IssuedIsConsumed
  BY DEF IssuesInv, ShelfInv, HoldInv
<1>3. ASSUME NEW r \in Requests, IssueHolds(r), seen[r][h] > 0
      PROVE  issues'[h] + Cardinality(Issuing(h)') <= Cardinality(Requests)
  <2>1. r \in Issuing(h) /\ Issuing(h)' \subseteq Issuing(h) \ {r}
    BY <1>2, <1>3 DEF IssueHolds, Finish, Issuing, TypeOK
  <2>2. Issuing(h) \in SUBSET Requests /\ IsFiniteSet(Issuing(h))
    BY IssuingCount DEF Issuing
  <2>3. /\ Issuing(h) \ {r} \in SUBSET Requests /\ Issuing(h)' \in SUBSET (Issuing(h) \ {r})
    BY <2>1, <2>2
  <2>4. /\ Cardinality(Issuing(h)') <= Cardinality(Issuing(h) \ {r})
        /\ Cardinality(Issuing(h)') \in Nat
        /\ Cardinality(Issuing(h)) \in Nat /\ Cardinality(Requests) \in Nat
    BY <2>2, <2>3, IssuingCount
  <2>5. Cardinality(Issuing(h) \ {r}) = Cardinality(Issuing(h)) - 1
    BY <2>1, <2>2, FS_RemoveElement
  <2>6. issues'[h] = issues[h] + 1 /\ issues[h] \in Nat
    BY <1>2, <1>3 DEF IssueHolds, TypeOK
  <2>7. issues[h] + Cardinality(Issuing(h)) <= Cardinality(Requests)
    BY DEF IssuesInv
  <2> QED BY <2>4, <2>5, <2>6, <2>7
<1>4. ASSUME NEW r \in Requests, ReadForIssue(r), HoldsOf(job'[r])[h] > 0
      PROVE  issues'[h] + Cardinality(Issuing(h)') <= Cardinality(Requests)
  <2>1. status[h] = "ACTIVE"
    BY <1>4 DEF HoldsOf, ActiveOf, Active
  <2>2. issues'[h] = 0
    BY <1>2, <1>4, <2>1 DEF IssuedIsConsumed, TypeOK, ReadForIssue, holdVars
  <2>3. Issuing(h)' \in SUBSET Requests
    BY DEF Issuing
  <2> QED BY <2>2, <2>3, IssuingCount
<1>5. ASSUME NEW r \in Requests,
             \/ IssueHolds(r) /\ ~(seen[r][h] > 0)
             \/ ReadForIssue(r) /\ ~(HoldsOf(job'[r])[h] > 0)
      PROVE  issues'[h] = issues[h] /\ Issuing(h)' \subseteq Issuing(h)
  BY <1>2, <1>5 DEF IssueHolds, Finish, ReadForIssue, Start, About, ReadHolds, Issuing, TypeOK,
    holdVars
<1>6. ASSUME NEW r \in Requests,
             \/ ReadItem(r) \/ ChangeStock(r) \/ ReadForReserve(r) \/ CheckAvailable(r)
             \/ Reserve(r) \/ ReadForInvoice(r) \/ ReadHoldsForInvoice(r) \/ SkipLine(r)
             \/ ConsumeLine(r) \/ RollBack(r) \/ ReadItemForIssue(r)
      PROVE  issues' = issues /\ Issuing(h)' \subseteq Issuing(h)
  BY <1>2, <1>6 DEF ReadItem, ChangeStock, ReadForReserve, CheckAvailable, Reserve,
    ReadForInvoice, ReadHoldsForInvoice, SkipLine, ConsumeLine, RollBack, ReadItemForIssue,
    Start, Continue, Finish, ReadHolds, Issuing, TypeOK, holdVars
<1>7. ASSUME NEW r \in Requests, ReceiveGoods(r) \/ Release(r)
      PROVE  issues' = issues /\ Issuing(h)' = Issuing(h)
  BY <1>7 DEF ReceiveGoods, Release, Issuing, holdVars, requestVars
<1>8. ASSUME NEW r \in Requests, NEW j \in Jobs, CancelJob(r, j) \/ CloseJob(r, j) \/ InvoiceOnly(r, j)
      PROVE  issues' = issues /\ Issuing(h)' = Issuing(h)
  BY <1>8 DEF CancelJob, CloseJob, InvoiceOnly, Issuing, holdVars, requestVars
<1>9. CASE UNCHANGED vars
  BY <1>9, IssuesKept DEF vars, holdVars, requestVars, Issuing
<1> QED BY <1>3, <1>4, <1>5, <1>6, <1>7, <1>8, <1>9, IssuesKept DEF Next

\* The parts of a hold leave the shelf at most once for each request that may be in
\* flight, so once where requests do not overlap.
THEOREM IssuesNeedOverlap == Spec => []IssuesOverlap
<1>1. Init => IssuesInv
  <2>1. Init => ShelfInv /\ HoldInv
    BY StockAssumption DEF Init, ShelfInv, TypeOK, Steps, HoldStatuses, Unseen, HoldInv,
      IssuedIsConsumed
  <2>2. ASSUME Init, NEW h \in Holds
        PROVE  issues[h] + Cardinality(Issuing(h)) <= Cardinality(Requests)
    <3>1. issues[h] = 0 /\ Issuing(h) \in SUBSET Requests
      BY <2>2 DEF Init, Issuing
    <3> QED BY <3>1, IssuingCount
  <2> QED BY <2>1, <2>2 DEF IssuesInv
<1>2. IssuesInv /\ [Next]_vars => IssuesInv'
  BY IssuesStep
<1>3. IssuesInv => IssuesOverlap
  <2> SUFFICES ASSUME IssuesInv, NEW h \in Holds PROVE issues[h] <= Cardinality(Requests)
    BY DEF IssuesOverlap
  <2>1. Issuing(h) \in SUBSET Requests
    BY DEF Issuing
  <2>2. Cardinality(Issuing(h)) \in Nat /\ Cardinality(Requests) \in Nat
    BY <2>1, IssuingCount
  <2> QED BY <2>2 DEF IssuesInv, HoldInv
<1> QED BY <1>1, <1>2, <1>3, PTL DEF Spec

-----------------------------------------------------------------------------
(* One request at a time. *)

\* What request r, alone, remembers is still so: the count it read, that the
\* holds it read are ACTIVE, and that its job is open.
Fresh(r) ==
  /\ pc[r] \in {"count", "sum", "insert", "issuing", "invoice", "consume"}
       => readCount[r] = onHand
  /\ pc[r] \in {"issue", "issuing", "consume"}
       => \A h \in Holds : seen[r][h] > 0 => status[h] = "ACTIVE"
  /\ pc[r] \in {"sum", "insert"} => jobStatus[job[r]] = "OPEN"

\* The invariant of requests that do not overlap.
AloneInv ==
  /\ ShelfInv
  /\ \A r \in Requests : Fresh(r)
  /\ CountIsExplained
  /\ CancelledHoldsNothing

\* The sum of the quantities of holds is an integer.
LEMMA QuantitiesAdd ==
  ASSUME ShelfInv, NEW r \in Requests, NEW S \in SUBSET Holds
  PROVE  /\ SumFunctionOnSet(quantity, S) \in Int
         /\ SumFunctionOnSet(seen[r], S) \in Nat
<1>1. IsFiniteSet(S)
  BY StockAssumption, FS_Subset
<1>2. \A x \in S : quantity[x] \in Int /\ seen[r][x] \in Nat
  BY DEF ShelfInv, TypeOK
<1>3. SumFunctionOnSet(quantity, S) \in Int
  BY <1>1, <1>2, SumInt
<1>4. SumFunctionOnSet(seen[r], S) \in Nat
  BY <1>1, <1>2, SumNat
<1> QED BY <1>3, <1>4

\* An invoice takes nothing of a hold it did not see, and no more of one than it saw.
LEMMA TakeBounds ==
  ASSUME ShelfInv, NEW r \in Requests, want[r] >= 0, NEW h \in Holds
  PROVE  /\ Take(r, h) \in Nat
         /\ Take(r, h) <= seen[r][h]
<1> DEFINE older == SumFunctionOnSet(seen[r], {g \in Holds : g < h})
<1>1. older \in Nat
  <2>1. {g \in Holds : g < h} \in SUBSET Holds
    OBVIOUS
  <2> QED BY <2>1, QuantitiesAdd
<1>2. seen[r][h] \in Nat /\ want[r] \in Int
  BY DEF ShelfInv, TypeOK
<1>3. Take(r, h) = IF older >= want[r] THEN 0 ELSE Smaller(seen[r][h], want[r] - older)
  BY DEF Take
<1> HIDE DEF older
<1> QED BY <1>1, <1>2, <1>3 DEF Smaller

\* A step that leaves every request idle, the movements explaining the count, and no
\* new ACTIVE hold or cancelled job.
LEMMA IdleAgain ==
  ASSUME AloneInv, ShelfInv', \A r \in Requests : pc'[r] = "idle",
         CountIsExplained', UNCHANGED holder, UNCHANGED jobStatus,
         \A h \in Holds : status'[h] = "ACTIVE" => status[h] = "ACTIVE"
  PROVE  AloneInv'
BY DEF AloneInv, Fresh, CancelledHoldsNothing, ActiveOf, Active

\* Every step of a request that is alone keeps what it remembers true.
LEMMA AloneStep ==
  ASSUME NEW s, Requests = {s}, AloneInv, [Next]_vars
  PROVE  AloneInv'
<1>0. ShelfInv' /\ s \in Requests
  BY ShelfStep DEF AloneInv
<1> USE StockAssumption DEF AloneInv
<1>1. CASE UNCHANGED vars
  BY <1>0, <1>1 DEF vars, countVars, holdVars, jobVars, requestVars, Fresh,
    CountIsExplained, CancelledHoldsNothing, ActiveOf, Active
<1>2. ASSUME ReadItem(s) PROVE AloneInv'
  BY <1>0, <1>2 DEF ReadItem, Start, Ask, ReadCount, holdVars, jobVars, Fresh,
    CountIsExplained, CancelledHoldsNothing, ActiveOf, Active, ShelfInv, TypeOK
<1>3. ASSUME ChangeStock(s) PROVE AloneInv'
  <2>1. CountIsExplained'
    BY <1>0, <1>3 DEF ChangeStock, CountIsExplained, Fresh, ShelfInv, TypeOK
  <2> QED BY <1>0, <1>3, <2>1, IdleAgain DEF ChangeStock, Finish, holdVars, jobVars, ShelfInv, TypeOK
<1>4. ASSUME ReadForReserve(s) PROVE AloneInv'
  BY <1>0, <1>4 DEF ReadForReserve, Start, Ask, About, ReadCount, countVars, holdVars, jobVars,
    Fresh, CountIsExplained, CancelledHoldsNothing, ActiveOf, Active, ShelfInv, TypeOK
<1>5. ASSUME CheckAvailable(s) PROVE AloneInv'
  BY <1>0, <1>5 DEF CheckAvailable, Continue, countVars, holdVars, jobVars, Fresh,
    CountIsExplained, CancelledHoldsNothing, ActiveOf, Active, ShelfInv, TypeOK
<1>6. ASSUME Reserve(s) PROVE AloneInv'
  <2>1. CountIsExplained' /\ \A r \in Requests : pc'[r] = "idle"
    BY <1>0, <1>6 DEF Reserve, Finish, countVars, CountIsExplained, ShelfInv, TypeOK
  <2>2. CancelledHoldsNothing'
    BY <1>0, <1>6 DEF Reserve, jobVars, CancelledHoldsNothing, ActiveOf, Active,
      Fresh, ShelfInv, TypeOK
  <2> QED BY <1>0, <2>1, <2>2 DEF Fresh
<1>7. ASSUME SkipLine(s) \/ RollBack(s) PROVE AloneInv'
  BY <1>0, <1>7, IdleAgain DEF SkipLine, RollBack, Finish, countVars, holdVars, jobVars,
    CountIsExplained, ShelfInv, TypeOK
<1>8. ASSUME ReadForIssue(s) PROVE AloneInv'
  BY <1>0, <1>8 DEF ReadForIssue, Start, About, ReadHolds, HoldsOf, countVars, holdVars, jobVars,
    Fresh, CountIsExplained, CancelledHoldsNothing, ActiveOf, Active, ShelfInv, TypeOK
<1>9. ASSUME ReadItemForIssue(s) PROVE AloneInv'
  BY <1>0, <1>9 DEF ReadItemForIssue, Continue, ReadCount, countVars, holdVars, jobVars,
    Fresh, CountIsExplained, CancelledHoldsNothing, ActiveOf, Active, ShelfInv, TypeOK
<1>10. ASSUME IssueHolds(s) PROVE AloneInv'
  <2>1. SeenBy(s) \in Int
    BY <1>0, QuantitiesAdd DEF SeenBy
  <2>2. CountIsExplained'
    BY <1>0, <1>10, <2>1 DEF IssueHolds, CountIsExplained, Fresh, ShelfInv, TypeOK
  <2> QED BY <1>0, <1>10, <2>2, IdleAgain DEF IssueHolds, Finish, jobVars, ShelfInv, TypeOK
<1>11. ASSUME ReadForInvoice(s) PROVE AloneInv'
  BY <1>0, <1>11 DEF ReadForInvoice, Start, Ask, About, ReadCount, countVars, holdVars,
    Fresh, CountIsExplained, CancelledHoldsNothing, ActiveOf, Active, ShelfInv, TypeOK
<1>12. ASSUME ReadHoldsForInvoice(s) PROVE AloneInv'
  BY <1>0, <1>12 DEF ReadHoldsForInvoice, Continue, ReadHolds, HoldsOf, countVars, holdVars,
    jobVars, Fresh, CountIsExplained, CancelledHoldsNothing, ActiveOf, Active, ShelfInv, TypeOK
<1>13. ASSUME ConsumeLine(s) PROVE AloneInv'
  <2>1. CountIsExplained'
    BY <1>0, <1>13 DEF ConsumeLine, CountAfter, ShelfTake, Smaller, CountIsExplained, Fresh,
      ShelfInv, TypeOK
  <2> QED BY <1>0, <1>13, <2>1, IdleAgain DEF ConsumeLine, Finish, jobVars, ShelfInv, TypeOK
<1>14. ASSUME ReceiveGoods(s) PROVE AloneInv'
  <2>1. CountIsExplained' /\ \A r \in Requests : pc'[r] = "idle"
    BY <1>0, <1>14 DEF ReceiveGoods, requestVars, CountIsExplained, ShelfInv, TypeOK
  <2> QED BY <1>0, <1>14, <2>1, IdleAgain DEF ReceiveGoods, holdVars, jobVars
<1>15. ASSUME Release(s) PROVE AloneInv'
  BY <1>0, <1>15, IdleAgain DEF Release, countVars, jobVars, requestVars, CountIsExplained
<1>16. ASSUME NEW j \in Jobs, CancelJob(s, j) PROVE AloneInv'
  <2>1. CountIsExplained' /\ \A r \in Requests : pc'[r] = "idle"
    BY <1>0, <1>16 DEF CancelJob, countVars, requestVars, CountIsExplained
  <2>2. CancelledHoldsNothing'
    BY <1>0, <1>16 DEF CancelJob, CancelledHoldsNothing, FreedBy, ActiveOf, Active,
      ShelfInv, TypeOK
  <2> QED BY <1>0, <2>1, <2>2 DEF Fresh
<1>17. ASSUME NEW j \in Jobs, CloseJob(s, j) PROVE AloneInv'
  <2>1. CountIsExplained' /\ \A r \in Requests : pc'[r] = "idle"
    BY <1>0, <1>17 DEF CloseJob, countVars, requestVars, CountIsExplained
  <2>2. CancelledHoldsNothing'
    BY <1>0, <1>17 DEF CloseJob, holdVars, CancelledHoldsNothing, ActiveOf, Active,
      ShelfInv, TypeOK
  <2> QED BY <1>0, <2>1, <2>2 DEF Fresh
<1>18. ASSUME NEW j \in Jobs, InvoiceOnly(s, j) PROVE AloneInv'
  BY <1>0, <1>18, IdleAgain DEF InvoiceOnly, countVars, holdVars, requestVars, CountIsExplained
<1> QED
  BY <1>1, <1>2, <1>3, <1>4, <1>5, <1>6, <1>7, <1>8, <1>9, <1>10, <1>11, <1>12,
     <1>13, <1>14, <1>15, <1>16, <1>17, <1>18 DEF Next

\* Before the first request the movements explain the count and nothing is held.
LEMMA AloneInit == Init => AloneInv
<1>1. Init => ShelfInv
  BY StockAssumption DEF Init, ShelfInv, TypeOK, Steps, HoldStatuses, Unseen
<1> QED BY <1>1, StockAssumption DEF Init, AloneInv, Fresh, CountIsExplained,
  CancelledHoldsNothing, ActiveOf, Active

\* One request at a time: the movements, with what discrepancy events report as short,
\* add up to the count of the item.
THEOREM AloneCountIsExplained ==
  ASSUME NEW s, Requests = {s}
  PROVE  Spec => []CountIsExplained
<1>1. AloneInv /\ [Next]_vars => AloneInv'
  BY AloneStep
<1>2. AloneInv => CountIsExplained
  BY DEF AloneInv
<1> QED BY AloneInit, <1>1, <1>2, PTL DEF Spec

\* One request at a time: no job holds stock once it is cancelled, for good.
THEOREM AloneCancelledHoldsNothing ==
  ASSUME NEW s, Requests = {s}
  PROVE  Spec => []CancelledHoldsNothing
<1>1. AloneInv /\ [Next]_vars => AloneInv'
  BY AloneStep
<1>2. AloneInv => CancelledHoldsNothing
  BY DEF AloneInv
<1> QED BY AloneInit, <1>1, <1>2, PTL DEF Spec

-----------------------------------------------------------------------------
(* What a step of a request that is alone may not do. *)

\* One request at a time: a hold that was released or consumed keeps its status, its
\* quantity and the movements that issued it.
THEOREM AloneHoldsAreFinal ==
  ASSUME NEW s, Requests = {s}
  PROVE  Spec => HoldsAreFinal
<1> DEFINE Kept(h) == /\ status'[h] = status[h]
                      /\ quantity'[h] = quantity[h]
                      /\ issues'[h] = issues[h]
<1>1. AloneInv /\ [Next]_vars => AloneInv'
  BY AloneStep
<1>2. ASSUME AloneInv, [Next]_vars, NEW h \in Holds, status[h] \in {"RELEASED", "CONSUMED"}
      PROVE  Kept(h)
  <2>0. s \in Requests
    OBVIOUS
  <2>1. CASE UNCHANGED holdVars
    BY <2>1 DEF holdVars
  <2>2. CASE Reserve(s)
    BY <1>2, <2>2 DEF Reserve, AloneInv, ShelfInv, TypeOK
  <2>3. CASE IssueHolds(s)
    BY <1>2, <2>0, <2>3 DEF IssueHolds, AloneInv, Fresh
  <2>4. CASE ConsumeLine(s)
    <3>1. seen[s][h] \in Nat /\ ~(seen[s][h] > 0)
      BY <1>2, <2>0, <2>4 DEF ConsumeLine, AloneInv, Fresh, ShelfInv, TypeOK
    <3>2. want[s] >= 0 /\ ShelfInv
      BY <1>2, <2>0, <2>4 DEF ConsumeLine, AloneInv, ShelfInv
    <3>3. Take(s, h) = 0
      <4>1. Take(s, h) \in Nat /\ Take(s, h) <= seen[s][h]
        BY <2>0, <3>2, TakeBounds
      <4> QED BY <3>1, <4>1
    <3> QED BY <2>4, <3>1, <3>3 DEF ConsumeLine
  <2>5. CASE Release(s)
    BY <1>2, <2>5 DEF Release, Releasable, Active
  <2>6. ASSUME NEW j \in Jobs, CancelJob(s, j) PROVE Kept(h)
    BY <1>2, <2>6 DEF CancelJob, FreedBy, ActiveOf, Active
  <2> QED BY <1>2, <2>1, <2>2, <2>3, <2>4, <2>5, <2>6
    DEF Next, ReadItem, ChangeStock, ReadForReserve, CheckAvailable, ReadForIssue,
      ReadItemForIssue, ReadForInvoice, ReadHoldsForInvoice, SkipLine, ReceiveGoods,
      CloseJob, InvoiceOnly, RollBack, vars
<1>3. AloneInv /\ [Next]_vars
        => [\A h \in Holds : status[h] \in {"RELEASED", "CONSUMED"}
              => /\ status'[h] = status[h]
                 /\ quantity'[h] = quantity[h]
                 /\ issues'[h] = issues[h]]_vars
  BY <1>2
<1> QED BY AloneInit, <1>1, <1>3, PTL DEF Spec, HoldsAreFinal
=============================================================================
