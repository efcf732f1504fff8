------------------------- MODULE InvoiceLedgerProofs -------------------------
(***************************************************************************)
(* Proofs about InvoiceLedger for any total, any number of overlapping     *)
(* requests, payments, deposits and checkouts, with and without crashes.   *)
(*                                                                         *)
(* The invariant adds to the properties what each request in flight knows: *)
(* a request about to record money read a paid_minor that leaves room for  *)
(* it, so the value it writes, stale or not, lies within the total; and a  *)
(* deposit is claimed in the commit that inserts its payment.              *)
(*                                                                         *)
(* What was refunded on a card, together with what refunds in flight are   *)
(* about to record, was returned by the processor (RefundInv).  The books  *)
(* balance while requests do not overlap (SoleInv): what the one request   *)
(* has read is still so when it writes.                                    *)
(***************************************************************************)
EXTENDS InvoiceLedger, Sums

Subjects == {Nothing, Counter} \cup Payments \cup Deposits \cup Checkouts

\* What a request at step k with subject s and amount a that read paid_minor as
\* n may rely on.
Relies(k, s, a, n) ==
  /\ k \in {"pay", "deposit", "webhook"} => Payable /\ a >= 1 /\ n + a <= Total
  /\ k = "deposit" => s \in taken
  /\ k = "dedup" => Payable /\ s \in Checkouts /\ n <= Total
  /\ k = "webhook" => s \in Checkouts
  /\ k \in {"processor", "refund", "refundWrite"} => s \in Recorded /\ a >= 1
  /\ k = "refundWrite" => n <= Total

RequestsRely == \A r \in Requests : Relies(pc[r], subject[r], amount[r], readPaid[r])

LedgerInv ==
  /\ TypeOK
  /\ PaidWithinTotal
  /\ StatusMatchesPaid
  /\ DepositPaysOnce
  /\ NoMoneyOnDraft
  /\ RequestsRely

rowVars == <<inv, paid, payVars, refunded, depositVars>>

-----------------------------------------------------------------------------

\* The invariant holds before the invoice exists.
LEMMA LedgerInit == Init => LedgerInv
<1> SUFFICES ASSUME Init PROVE LedgerInv
  OBVIOUS
<1>1. TypeOK
  BY LedgerAssumption DEF Init, TypeOK, WorkOrderStatuses, Steps, Sources
<1>2. Recorded = {}
  BY DEF Init, Recorded
<1>3. PaidWithinTotal /\ StatusMatchesPaid /\ DepositPaysOnce /\ NoMoneyOnDraft
  BY <1>2, LedgerAssumption
  DEF Init, PaidWithinTotal, StatusMatchesPaid, DepositPaysOnce, NoMoneyOnDraft
<1>4. RequestsRely
  BY DEF Init, RequestsRely, Relies
<1> QED BY <1>1, <1>3, <1>4 DEF LedgerInv

\* A step that writes no row of the books and moves one request on to a step
\* whose facts it has established.
LEMMA ReadStep ==
  ASSUME LedgerInv, UNCHANGED rowVars, NEW r \in Requests,
         NEW k \in Steps, NEW s \in Subjects, NEW a \in Nat, NEW n \in Nat,
         Proceed(r, k, s, a, n), Relies(k, s, a, n),
         woStatus' \in WorkOrderStatuses,
         checkout' \in [Checkouts -> Nat],
         charged' \subseteq Checkouts,
         returned' \in [Payments -> Nat]
  PROVE  LedgerInv'
<1>1. TypeOK'
  BY DEF LedgerInv, TypeOK, Proceed, rowVars, payVars, depositVars, Subjects
<1>2. PaidWithinTotal' /\ StatusMatchesPaid' /\ DepositPaysOnce' /\ NoMoneyOnDraft'
  BY DEF LedgerInv, PaidWithinTotal, StatusMatchesPaid, DepositPaysOnce, NoMoneyOnDraft,
         Recorded, Payable, rowVars, payVars, depositVars
<1>3. ASSUME NEW q \in Requests
      PROVE  Relies(pc[q], subject[q], amount[q], readPaid[q])'
  <2>1. CASE q = r
    <3>1. pc'[r] = k /\ subject'[r] = s /\ amount'[r] = a /\ readPaid'[r] = n
      BY DEF LedgerInv, TypeOK, Proceed
    <3> QED BY <2>1, <3>1
            DEF Relies, Recorded, Payable, rowVars, payVars, depositVars
  <2>2. CASE q # r
    <3>1. /\ pc'[q] = pc[q] /\ subject'[q] = subject[q]
          /\ amount'[q] = amount[q] /\ readPaid'[q] = readPaid[q]
      BY <2>2 DEF LedgerInv, TypeOK, Proceed
    <3> QED BY <3>1 DEF LedgerInv, RequestsRely, Relies, Recorded, Payable,
                        rowVars, payVars, depositVars
  <2> QED BY <2>1, <2>2
<1> QED BY <1>1, <1>2, <1>3 DEF LedgerInv, RequestsRely

\* A request that ends, or goes on to move the work order, relies on nothing.
LEMMA FinishStep ==
  ASSUME LedgerInv, UNCHANGED rowVars, NEW r \in Requests,
         NEW k \in {"idle", "create", "invoiced", "closed"}, Finish(r, k),
         woStatus' \in WorkOrderStatuses,
         checkout' \in [Checkouts -> Nat],
         charged' \subseteq Checkouts,
         returned' \in [Payments -> Nat]
  PROVE  LedgerInv'
<1>1. Proceed(r, k, Nothing, 0, 0)
  BY DEF Finish, Proceed
<1>2. k \in Steps /\ Nothing \in Subjects /\ 0 \in Nat
  BY DEF Steps, Subjects
<1>3. Relies(k, Nothing, 0, 0)
  BY DEF Relies
<1> QED BY <1>1, <1>2, <1>3, ReadStep

-----------------------------------------------------------------------------
(* The commits. *)

\* New payment rows come on top of the recorded ones, which stay as they are.
LEMMA InsertKeeps ==
  ASSUME LedgerInv, NEW ids \in SUBSET Unused, ids # {},
         NEW split \in [ids -> Nat \ {0}], NEW src \in Sources,
         InsertPayments(ids, split, src)
  PROVE  /\ amountOf' \in [Payments -> Nat] /\ source' \in [Payments -> Sources]
         /\ Recorded' = Recorded \cup ids /\ Recorded \cap ids = {}
         /\ \A p \in Recorded : source'[p] = source[p]
         /\ \A p \in ids : source'[p] = src
<1>1. TypeOK
  BY DEF LedgerInv
<1>2. ids \subseteq Payments /\ Recorded \cap ids = {}
  BY DEF Unused
<1>3. amountOf' = [p \in Payments |-> IF p \in ids THEN split[p] ELSE amountOf[p]]
  BY DEF InsertPayments
<1>4. source' = [p \in Payments |-> IF p \in ids THEN src ELSE source[p]]
  BY DEF InsertPayments
<1>5. amountOf' \in [Payments -> Nat]
  BY <1>1, <1>3 DEF TypeOK
<1>6. source' \in [Payments -> Sources]
  BY <1>1, <1>4 DEF TypeOK
<1>7. \A p \in Payments : p \in Recorded' <=> p \in Recorded \cup ids
  BY <1>1, <1>3 DEF TypeOK, Recorded
<1>8. Recorded' = Recorded \cup ids
  BY <1>2, <1>7 DEF Recorded
<1>9. \A p \in Recorded : source'[p] = source[p]
  BY <1>2, <1>4 DEF Recorded
<1>10. \A p \in ids : source'[p] = src
  BY <1>2, <1>4
<1> QED BY <1>2, <1>5, <1>6, <1>8, <1>9, <1>10

\* A request that found room for its money below the total leaves paid_minor
\* below the total and the status in step with it, whatever was committed since.
LEMMA PaidStep ==
  ASSUME LedgerInv, NEW r \in Requests, pc[r] \in {"pay", "deposit", "webhook"},
         paid' = readPaid[r] + amount[r], inv' = PaidStatus(paid')
  PROVE  /\ paid' \in Nat /\ inv' \in {"PARTIALLY_PAID", "PAID"}
         /\ PaidWithinTotal' /\ StatusMatchesPaid' /\ Payable'
<1>1. readPaid[r] \in Nat /\ amount[r] \in Nat /\ Total \in Nat
  BY LedgerAssumption DEF LedgerInv, TypeOK
<1>2. amount[r] >= 1 /\ readPaid[r] + amount[r] <= Total
  BY DEF LedgerInv, RequestsRely, Relies
<1>3. paid' \in Nat /\ 0 < paid' /\ paid' <= Total
  BY <1>1, <1>2
<1>4. inv' = IF paid' >= Total THEN "PAID" ELSE "PARTIALLY_PAID"
  BY DEF PaidStatus
<1> QED BY <1>1, <1>3, <1>4 DEF PaidWithinTotal, StatusMatchesPaid, Payable

\* Requests in flight keep what they rely on while the books only grow.
LEMMA GrowKeeps ==
  ASSUME LedgerInv, NEW r \in Requests, NEW k \in {"idle", "invoiced", "closed"},
         Finish(r, k), Payable => Payable', Recorded \subseteq Recorded',
         taken \subseteq taken'
  PROVE  RequestsRely'
<1> SUFFICES ASSUME NEW q \in Requests
             PROVE  Relies(pc[q], subject[q], amount[q], readPaid[q])'
  BY DEF RequestsRely
<1>1. CASE q = r
  <2>1. pc'[r] = k
    BY DEF LedgerInv, TypeOK, Finish
  <2> QED BY <1>1, <2>1 DEF Relies
<1>2. CASE q # r
  <2>1. /\ pc'[q] = pc[q] /\ subject'[q] = subject[q]
        /\ amount'[q] = amount[q] /\ readPaid'[q] = readPaid[q]
    BY <1>2 DEF LedgerInv, TypeOK, Finish
  <2> QED BY <2>1 DEF LedgerInv, RequestsRely, Relies
<1> QED BY <1>1, <1>2

\* The types of a request that ended.
LEMMA FinishType ==
  ASSUME LedgerInv, NEW r \in Requests, NEW k \in Steps, Finish(r, k)
  PROVE  /\ pc' \in [Requests -> Steps] /\ subject' \in [Requests -> Subjects]
         /\ amount' \in [Requests -> Nat] /\ readPaid' \in [Requests -> Nat]
BY DEF LedgerInv, TypeOK, Finish, Subjects

\* A payment that is not from a deposit: counter tenders or a checkout.
LEMMA MoneyCommit ==
  ASSUME LedgerInv, NEW r \in Requests, PaymentCommit(r) \/ WebhookCommit(r)
  PROVE  LedgerInv'
<1>a. PICK ids \in SUBSET Unused :
        /\ ids # {}
        /\ \E split \in [ids -> Nat \ {0}], src \in Sources \ Deposits :
             InsertPayments(ids, split, src)
  <2>1. CASE PaymentCommit(r)
    <3>1. PICK ids \in SUBSET Unused :
            /\ Cardinality(ids) \in 1..MaxTenders
            /\ \E split \in [ids -> 1..amount[r]] : InsertPayments(ids, split, Counter)
      BY <2>1 DEF PaymentCommit
    <3>2. PICK split \in [ids -> 1..amount[r]] : InsertPayments(ids, split, Counter)
      BY <3>1
    <3>3. ids # {}
      BY <3>1, FS_EmptySet
    <3>4. split \in [ids -> Nat \ {0}]
      BY DEF LedgerInv, TypeOK
    <3>5. Counter \in Sources \ Deposits
      BY LedgerAssumption DEF Sources
    <3> QED BY <3>2, <3>3, <3>4, <3>5
  <2>2. CASE WebhookCommit(r)
    <3>1. PICK p \in Unused : InsertPayments({p}, [q \in {p} |-> amount[r]], subject[r])
      BY <2>2 DEF WebhookCommit
    <3>2. amount[r] \in Nat \ {0} /\ subject[r] \in Checkouts
      BY <2>2 DEF LedgerInv, TypeOK, RequestsRely, Relies, WebhookCommit
    <3>3. subject[r] \in Sources \ Deposits
      BY <3>2, LedgerAssumption DEF Sources
    <3>4. [q \in {p} |-> amount[r]] \in [{p} -> Nat \ {0}]
      BY <3>2
    <3>5. {p} \in SUBSET Unused /\ {p} # {}
      OBVIOUS
    <3> QED BY <3>1, <3>3, <3>4, <3>5
  <2> QED BY <2>1, <2>2
<1>1. PICK split \in [ids -> Nat \ {0}], src \in Sources \ Deposits :
        InsertPayments(ids, split, src)
  BY <1>a
<1>2. /\ pc[r] \in {"pay", "deposit", "webhook"}
      /\ paid' = readPaid[r] + amount[r] /\ inv' = PaidStatus(paid')
      /\ UNCHANGED <<woStatus, refunded, depositVars, processorVars>>
  BY DEF PaymentCommit, WebhookCommit
<1>3. PICK k \in {"idle", "closed"} : Finish(r, k)
  BY DEF PaymentCommit, WebhookCommit
<1>4. /\ amountOf' \in [Payments -> Nat] /\ source' \in [Payments -> Sources]
      /\ Recorded' = Recorded \cup ids
      /\ \A p \in Recorded : source'[p] = source[p]
      /\ \A p \in ids : source'[p] = src
  BY <1>a, <1>1, InsertKeeps
<1>5. /\ paid' \in Nat /\ inv' \in {"PARTIALLY_PAID", "PAID"}
      /\ PaidWithinTotal' /\ StatusMatchesPaid' /\ Payable'
  BY <1>2, PaidStep
<1>6. TypeOK'
  BY <1>2, <1>3, <1>4, <1>5, FinishType
  DEF LedgerInv, TypeOK, depositVars, processorVars, Steps, Subjects
<1>7. DepositPaysOnce'
  BY <1>1, <1>2, <1>4 DEF LedgerInv, DepositPaysOnce, depositVars
<1>8. RequestsRely'
  BY <1>2, <1>3, <1>4, <1>5, GrowKeeps DEF depositVars
<1> QED BY <1>5, <1>6, <1>7, <1>8 DEF LedgerInv, NoMoneyOnDraft

\* A deposit: the claim makes its payment the only one.
LEMMA DepositCommitStep ==
  ASSUME LedgerInv, NEW r \in Requests, DepositCommit(r)
  PROVE  LedgerInv'
<1>1. PICK p \in Unused : InsertPayments({p}, [q \in {p} |-> amount[r]], subject[r])
  BY DEF DepositCommit
<1>2. /\ pc[r] = "deposit" /\ subject[r] \notin applied
      /\ paid' = readPaid[r] + amount[r] /\ inv' = PaidStatus(paid')
      /\ applied' = applied \cup {subject[r]} /\ Finish(r, "idle")
      /\ UNCHANGED <<woStatus, refunded, taken, processorVars>>
  BY DEF DepositCommit, Claimable
<1>3. amount[r] \in Nat \ {0} /\ subject[r] \in taken /\ subject[r] \in Deposits
      /\ subject[r] \in Sources
  BY <1>2 DEF LedgerInv, TypeOK, RequestsRely, Relies, Sources
<1>4. /\ amountOf' \in [Payments -> Nat] /\ source' \in [Payments -> Sources]
      /\ Recorded' = Recorded \cup {p} /\ p \notin Recorded
      /\ \A q \in Recorded : source'[q] = source[q]
      /\ source'[p] = subject[r]
  <2> DEFINE ids == {p}
             split == [q \in {p} |-> amount[r]]
  <2>1. split \in [ids -> Nat \ {0}]
    BY <1>3
  <2>2. ids \in SUBSET Unused /\ ids # {} /\ InsertPayments(ids, split, subject[r])
    BY <1>1
  <2>3. /\ amountOf' \in [Payments -> Nat] /\ source' \in [Payments -> Sources]
        /\ Recorded' = Recorded \cup ids /\ Recorded \cap ids = {}
        /\ \A q \in Recorded : source'[q] = source[q]
        /\ \A q \in ids : source'[q] = subject[r]
    <3> HIDE DEF ids, split
    <3> QED BY <1>3, <2>1, <2>2, InsertKeeps
  <2> QED BY <2>3
<1>5. /\ paid' \in Nat /\ inv' \in {"PARTIALLY_PAID", "PAID"}
      /\ PaidWithinTotal' /\ StatusMatchesPaid' /\ Payable'
  BY <1>2, PaidStep
<1>6. TypeOK'
  BY <1>2, <1>3, <1>4, <1>5, FinishType
  DEF LedgerInv, TypeOK, processorVars, Steps, Subjects
<1>7. DepositPaysOnce'
  BY <1>2, <1>3, <1>4 DEF LedgerInv, DepositPaysOnce
<1>8. RequestsRely'
  BY <1>2, <1>4, <1>5, GrowKeeps
<1> QED BY <1>5, <1>6, <1>7, <1>8 DEF LedgerInv, NoMoneyOnDraft

\* A refund takes a positive amount off a value within the total.
LEMMA RefundCommitStep ==
  ASSUME LedgerInv, NEW r \in Requests, RefundCommit(r)
  PROVE  LedgerInv'
<1>1. /\ readPaid[r] \in Nat /\ amount[r] \in Nat /\ amount[r] >= 1
      /\ readPaid[r] <= Total /\ Total \in Nat /\ subject[r] \in Recorded
  BY LedgerAssumption DEF LedgerInv, TypeOK, RequestsRely, Relies, RefundCommit
<1>2. /\ paid' = readPaid[r] - amount[r] /\ paid' >= 0 /\ inv' = NetStatus(paid')
      /\ refunded' = [refunded EXCEPT ![subject[r]] = @ + amount[r]]
      /\ Finish(r, "idle")
      /\ UNCHANGED <<woStatus, payVars, depositVars, processorVars>>
  BY DEF RefundCommit, PaidLess, CheckAmounts
<1>3. paid' \in Nat /\ paid' < Total
  BY <1>1, <1>2
<1>4. inv' = IF paid' > 0 THEN "PARTIALLY_PAID" ELSE "ISSUED"
  BY <1>1, <1>2, <1>3 DEF NetStatus
<1>5. PaidWithinTotal' /\ StatusMatchesPaid' /\ Payable'
  BY <1>1, <1>3, <1>4 DEF PaidWithinTotal, StatusMatchesPaid, Payable
<1>6. refunded' \in [Payments -> Nat]
  <2>1. refunded \in [Payments -> Nat] /\ subject[r] \in Payments
    BY <1>1 DEF LedgerInv, TypeOK, Recorded
  <2>2. refunded[subject[r]] + amount[r] \in Nat
    BY <1>1, <2>1
  <2> QED BY <1>2, <2>1, <2>2
<1>7. TypeOK'
  BY <1>2, <1>3, <1>4, <1>6, FinishType
  DEF LedgerInv, TypeOK, payVars, depositVars, processorVars, Steps, Subjects
<1>8. Recorded' = Recorded
  BY <1>2 DEF Recorded, payVars
<1>9. DepositPaysOnce'
  BY <1>2, <1>8 DEF LedgerInv, DepositPaysOnce, payVars, depositVars
<1>10. RequestsRely'
  BY <1>2, <1>5, <1>8, GrowKeeps DEF depositVars
<1> QED BY <1>5, <1>7, <1>9, <1>10 DEF LedgerInv, NoMoneyOnDraft

-----------------------------------------------------------------------------
(* All steps. *)

\* The reads and the ends of a request, one case per handler step.
LEMMA QuietStep ==
  ASSUME LedgerInv, NEW r \in Requests,
         \/ CreateRead(r) \/ FollowUpInvoiced(r) \/ FollowUpClosed(r)
         \/ DepositRefused(r) \/ LinkCreate(r) \/ ProcessorFails(r)
         \/ RefundAborts(r) \/ Crash(r)
  PROVE  LedgerInv'
<1>1. PICK k \in {"idle", "create", "invoiced", "closed"} : Finish(r, k)
  BY DEF CreateRead, FollowUpInvoiced, FollowUpClosed, FollowUp, DepositRefused,
         LinkCreate, ProcessorFails, RefundAborts, Crash, Proceed, Finish
<1>2. UNCHANGED rowVars
  BY DEF rowVars, CreateRead, FollowUpInvoiced, FollowUpClosed, FollowUp, DepositRefused,
         LinkCreate, ProcessorFails, RefundAborts, Crash, invVars
<1>3. TypeOK
  BY DEF LedgerInv
<1>4. woStatus' \in WorkOrderStatuses
  BY <1>3 DEF TypeOK, WorkOrderStatuses, CreateRead, FollowUpInvoiced, FollowUpClosed,
              FollowUp, DepositRefused, LinkCreate, ProcessorFails, RefundAborts, Crash, invVars
<1>5. charged' \subseteq Checkouts /\ returned' \in [Payments -> Nat]
  BY <1>3 DEF TypeOK, CreateRead, FollowUpInvoiced, FollowUpClosed,
              FollowUp, DepositRefused, LinkCreate, ProcessorFails, RefundAborts, Crash,
              processorVars
<1>6. checkout' \in [Checkouts -> Nat]
  <2>1. CASE LinkCreate(r)
    BY <1>3, <2>1 DEF TypeOK, LinkCreate
  <2>2. CASE ~LinkCreate(r)
    BY <1>3, <2>2 DEF TypeOK, CreateRead, FollowUpInvoiced, FollowUpClosed, FollowUp,
              DepositRefused, ProcessorFails, RefundAborts, Crash, processorVars
  <2> QED BY <2>1, <2>2
<1> QED BY <1>1, <1>2, <1>4, <1>5, <1>6, FinishStep

\* The reads that decide an amount establish what the commit relies on.
LEMMA DecideStep ==
  ASSUME LedgerInv, NEW r \in Requests,
         \/ PaymentRead(r) \/ DepositRead(r) \/ LinkRead(r) \/ WebhookRead(r)
         \/ WebhookDedup(r) \/ RefundRead(r) \/ ProcessorRefunds(r)
         \/ RefundReadInvoice(r)
  PROVE  LedgerInv'
<1>a. /\ TypeOK /\ PaidWithinTotal /\ Total \in Nat /\ paid \in Nat
      /\ DepositAmount \in [Deposits -> Nat \ {0}]
  BY LedgerAssumption DEF LedgerInv, TypeOK
<1>b. paid <= Total /\ Balance \in Nat /\ paid + Balance = Total
  BY <1>a DEF PaidWithinTotal, Balance
<1>c. Relies(pc[r], subject[r], amount[r], readPaid[r])
  BY DEF LedgerInv, RequestsRely
<1>d. /\ UNCHANGED <<invVars, payVars, refunded, depositVars, checkout, charged>>
      /\ UNCHANGED rowVars
  BY DEF PaymentRead, DepositRead, LinkRead, WebhookRead, WebhookDedup, RefundRead,
         ProcessorRefunds, RefundReadInvoice, processorVars, invVars, rowVars
<1>e. /\ woStatus' \in WorkOrderStatuses
      /\ checkout' \in [Checkouts -> Nat] /\ charged' \subseteq Checkouts
  BY <1>a, <1>d DEF TypeOK, invVars
<1>f. returned' \in [Payments -> Nat]
  <2>1. CASE ProcessorRefunds(r)
    <3>1. /\ returned' = [returned EXCEPT ![subject[r]] = @ + amount[r]]
          /\ amount[r] \in Nat /\ subject[r] \in Payments
      BY <1>a, <1>c, <2>1 DEF ProcessorRefunds, Relies, Recorded, TypeOK
    <3>2. returned \in [Payments -> Nat]
      BY <1>a DEF TypeOK
    <3>3. returned[subject[r]] + amount[r] \in Nat
      BY <3>1, <3>2
    <3> QED BY <3>1, <3>2, <3>3
  <2>2. CASE ~ProcessorRefunds(r)
    BY <1>a, <2>2 DEF TypeOK, PaymentRead, DepositRead, LinkRead, WebhookRead,
                      WebhookDedup, RefundRead, RefundReadInvoice, processorVars
  <2> QED BY <2>1, <2>2
<1>1. CASE PaymentRead(r)
  <2>1. PICK a \in 1..Balance : Proceed(r, "pay", Counter, a, paid)
    BY <1>1 DEF PaymentRead
  <2>2. a \in Nat /\ a >= 1 /\ paid + a <= Total /\ "pay" \in Steps /\ Counter \in Subjects
    BY <1>a, <1>b DEF Steps, Subjects
  <2>3. Relies("pay", Counter, a, paid)
    BY <1>1, <2>2 DEF Relies, PaymentRead
  <2> QED BY <1>a, <1>d, <1>e, <1>f, <2>1, <2>2, <2>3, ReadStep
<1>2. CASE DepositRead(r)
  <2>1. PICK d \in taken \ applied :
          /\ DepositAmount[d] <= Balance
          /\ Proceed(r, "deposit", d, DepositAmount[d], paid)
    BY <1>2 DEF DepositRead
  <2>2. d \in Deposits /\ d \in taken /\ d \in Subjects /\ "deposit" \in Steps
    BY <1>a DEF TypeOK, Subjects, Steps
  <2>3. DepositAmount[d] \in Nat /\ DepositAmount[d] >= 1
    BY <1>a, <2>2
  <2>4. paid + DepositAmount[d] <= Total
    BY <1>a, <1>b, <2>1, <2>3
  <2>5. Relies("deposit", d, DepositAmount[d], paid)
    BY <1>2, <2>2, <2>3, <2>4 DEF Relies, DepositRead
  <2> QED BY <1>a, <1>d, <1>e, <1>f, <2>1, <2>2, <2>3, <2>5, ReadStep
<1>3. CASE LinkRead(r)
  <2>1. Proceed(r, "link", Nothing, Balance, paid)
    BY <1>3 DEF LinkRead
  <2>2. Relies("link", Nothing, Balance, paid) /\ "link" \in Steps /\ Nothing \in Subjects
    BY DEF Relies, Steps, Subjects
  <2> QED BY <1>a, <1>b, <1>d, <1>e, <1>f, <2>1, <2>2, ReadStep
<1>4. CASE WebhookRead(r)
  <2>1. PICK c \in charged : Proceed(r, "dedup", c, 0, paid)
    BY <1>4 DEF WebhookRead
  <2>2. c \in Checkouts /\ c \in Subjects /\ "dedup" \in Steps /\ 0 \in Nat
    BY <1>a DEF TypeOK, Subjects, Steps
  <2>3. Relies("dedup", c, 0, paid)
    BY <1>4, <1>b, <2>2 DEF Relies, WebhookRead
  <2> QED BY <1>a, <1>d, <1>e, <1>f, <2>1, <2>2, <2>3, ReadStep
<1>5. CASE WebhookDedup(r)
  <2> DEFINE a == Clamped(subject[r], Total - readPaid[r])
  <2>1. /\ Payable /\ subject[r] \in Checkouts /\ readPaid[r] <= Total
        /\ readPaid[r] \in Nat /\ checkout[subject[r]] \in Nat
    BY <1>5, <1>a, <1>c DEF Relies, WebhookDedup, TypeOK
  <2>2. a \in Nat /\ readPaid[r] + a <= Total
    BY <1>a, <2>1 DEF Clamped
  <2>3. \/ Finish(r, "idle")
        \/ ~(a <= 0) /\ Proceed(r, "webhook", subject[r], a, readPaid[r])
    BY <1>5 DEF WebhookDedup
  <2> HIDE DEF a
  <2>4. CASE Finish(r, "idle")
    BY <1>d, <1>e, <1>f, <2>4, FinishStep
  <2>5. CASE ~(a <= 0) /\ Proceed(r, "webhook", subject[r], a, readPaid[r])
    <3>1. Relies("webhook", subject[r], a, readPaid[r])
      BY <2>1, <2>2, <2>5 DEF Relies
    <3>2. subject[r] \in Subjects /\ "webhook" \in Steps
      BY <2>1 DEF Subjects, Steps
    <3> QED BY <1>d, <1>e, <1>f, <2>1, <2>2, <2>5, <3>1, <3>2, ReadStep
  <2> QED BY <2>3, <2>4, <2>5
<1>6. CASE RefundRead(r)
  <2>1. PICK p \in Recorded : \E a \in 1..Refundable(p) :
          Proceed(r, IF ViaProcessor(p) THEN "processor" ELSE "refund", p, a, 0)
    BY <1>6 DEF RefundRead
  <2>2. PICK a \in 1..Refundable(p) :
          Proceed(r, IF ViaProcessor(p) THEN "processor" ELSE "refund", p, a, 0)
    BY <2>1
  <2>3. Refundable(p) \in Int
    BY <1>a DEF Refundable, TypeOK, Recorded
  <2>4. a \in Nat /\ a >= 1 /\ 0 \in Nat
    BY <2>3
  <2>5. PICK k \in {"processor", "refund"} : Proceed(r, k, p, a, 0)
    BY <2>2
  <2>6. Relies(k, p, a, 0) /\ k \in Steps /\ p \in Subjects
    BY <2>4 DEF Relies, Steps, Subjects, Recorded
  <2> QED BY <1>d, <1>e, <1>f, <2>4, <2>5, <2>6, ReadStep
<1>7. CASE ProcessorRefunds(r)
  <2>1. /\ Proceed(r, "refund", subject[r], amount[r], 0) /\ subject[r] \in Recorded
        /\ amount[r] \in Nat /\ amount[r] >= 1
    BY <1>7, <1>a, <1>c DEF ProcessorRefunds, Relies, TypeOK
  <2>2. /\ Relies("refund", subject[r], amount[r], 0) /\ "refund" \in Steps
        /\ subject[r] \in Subjects /\ 0 \in Nat
    BY <2>1 DEF Relies, Steps, Subjects, Recorded
  <2> QED BY <1>d, <1>e, <1>f, <2>1, <2>2, ReadStep
<1>8. CASE RefundReadInvoice(r)
  <2>1. /\ Proceed(r, "refundWrite", subject[r], amount[r], paid)
        /\ subject[r] \in Recorded /\ amount[r] \in Nat /\ amount[r] >= 1
    BY <1>8, <1>a, <1>c DEF RefundReadInvoice, Relies, TypeOK
  <2>2. /\ Relies("refundWrite", subject[r], amount[r], paid) /\ "refundWrite" \in Steps
        /\ subject[r] \in Subjects
    BY <1>b, <2>1 DEF Relies, Steps, Subjects, Recorded
  <2> QED BY <1>a, <1>d, <1>e, <1>f, <2>1, <2>2, ReadStep
<1> QED BY <1>1, <1>2, <1>3, <1>4, <1>5, <1>6, <1>7, <1>8

\* Creating and issuing the invoice moves no money.
LEMMA InvoiceStep ==
  ASSUME LedgerInv, NEW r \in Requests, CreateCommit(r) \/ IssueCommit(r)
  PROVE  LedgerInv'
<1>1. PICK k \in {"idle", "invoiced"} : Finish(r, k)
  BY DEF CreateCommit, IssueCommit
<1>2. /\ UNCHANGED <<woStatus, paid, payVars, refunded, depositVars, processorVars>>
      /\ \/ inv \notin {"NONE", "DRAFT"} /\ inv' = inv
         \/ inv \in {"NONE", "DRAFT"} /\ inv' \in {"DRAFT", "ISSUED"}
  BY DEF CreateCommit, IssueCommit
<1>3. TypeOK'
  BY <1>1, <1>2, FinishType
  DEF LedgerInv, TypeOK, payVars, depositVars, processorVars, Steps, Subjects
<1>4. Recorded' = Recorded /\ (Payable => Payable')
  BY <1>2 DEF Recorded, Payable, payVars
<1>5. PaidWithinTotal' /\ StatusMatchesPaid' /\ DepositPaysOnce' /\ NoMoneyOnDraft'
  BY <1>2, <1>4 DEF LedgerInv, PaidWithinTotal, StatusMatchesPaid, DepositPaysOnce,
                    NoMoneyOnDraft, payVars, depositVars
<1>6. RequestsRely'
  BY <1>1, <1>2, <1>4, GrowKeeps DEF depositVars
<1> QED BY <1>3, <1>5, <1>6 DEF LedgerInv

\* Every step keeps the invariant.
LEMMA LedgerStep == LedgerInv /\ [Next]_vars => LedgerInv'
<1> SUFFICES ASSUME LedgerInv, [Next]_vars
             PROVE  LedgerInv'
  OBVIOUS
<1>1. ASSUME NEW to \in WorkOrderStatuses, MoveWorkOrder(to)
      PROVE  LedgerInv'
  BY <1>1 DEF LedgerInv, TypeOK, PaidWithinTotal, StatusMatchesPaid, DepositPaysOnce,
              NoMoneyOnDraft, RequestsRely, Relies, Recorded, Payable, MoveWorkOrder,
              payVars, depositVars, processorVars, requestVars
<1>2. ASSUME NEW d \in Deposits, TakeDeposit(d)
      PROVE  LedgerInv'
  BY <1>2 DEF LedgerInv, TypeOK, PaidWithinTotal, StatusMatchesPaid, DepositPaysOnce,
              NoMoneyOnDraft, RequestsRely, Relies, Recorded, Payable, TakeDeposit,
              invVars, payVars, processorVars, requestVars
<1>3. ASSUME NEW c \in Checkouts, CustomerPays(c)
      PROVE  LedgerInv'
  BY <1>3 DEF LedgerInv, TypeOK, PaidWithinTotal, StatusMatchesPaid, DepositPaysOnce,
              NoMoneyOnDraft, RequestsRely, Relies, Recorded, Payable, CustomerPays,
              invVars, payVars, depositVars, requestVars
<1>4. ASSUME NEW r \in Requests, Step(r)
      PROVE  LedgerInv'
  BY <1>4, QuietStep, DecideStep, InvoiceStep, MoneyCommit, DepositCommitStep,
     RefundCommitStep DEF Step
<1>5. CASE UNCHANGED vars
  BY <1>5 DEF LedgerInv, TypeOK, PaidWithinTotal, StatusMatchesPaid, DepositPaysOnce,
              NoMoneyOnDraft, RequestsRely, Relies, Recorded, Payable, vars,
              invVars, payVars, depositVars, processorVars, requestVars
<1> QED BY <1>1, <1>2, <1>3, <1>4, <1>5 DEF Next

\* The types of all rows and requests.
THEOREM LedgerTypeCorrect == Spec => []TypeOK
<1>1. LedgerInv => TypeOK
  BY DEF LedgerInv
<1> QED BY <1>1, LedgerInit, LedgerStep, PTL DEF Spec

\* However requests overlap: paid_minor stays within the total and the status
\* agrees with it, and money is recorded on issued invoices only.
THEOREM InvoiceConsistent ==
  Spec => [](PaidWithinTotal /\ StatusMatchesPaid /\ NoMoneyOnDraft)
<1>1. LedgerInv => PaidWithinTotal /\ StatusMatchesPaid /\ NoMoneyOnDraft
  BY DEF LedgerInv
<1> QED BY <1>1, LedgerInit, LedgerStep, PTL DEF Spec

\* A step that writes payments or refunds is a commit, and finds the invoice
\* issued because the request relies on it.
LEMMA MoneyStep ==
  ASSUME LedgerInv, [Next]_vars, <<amountOf, refunded>>' # <<amountOf, refunded>>
  PROVE  {inv, inv'} \cap {"NONE", "DRAFT"} = {}
<1>1. PICK r \in Requests : PaymentCommit(r) \/ DepositCommit(r) \/ WebhookCommit(r) \/ RefundCommit(r)
  BY DEF Next, Step, vars, invVars, payVars, depositVars, processorVars, requestVars,
         MoveWorkOrder, TakeDeposit, CustomerPays, CreateRead, CreateCommit, IssueCommit,
         FollowUpInvoiced, FollowUpClosed, FollowUp, PaymentRead, DepositRead,
         DepositRefused, LinkRead, LinkCreate, WebhookRead, WebhookDedup, RefundRead,
         ProcessorRefunds, ProcessorFails, RefundReadInvoice, RefundAborts, Crash
<1>2. Relies(pc[r], subject[r], amount[r], readPaid[r]) /\ NoMoneyOnDraft
  BY DEF LedgerInv, RequestsRely
<1>3. inv \notin {"NONE", "DRAFT"}
  BY <1>1, <1>2 DEF Relies, Payable, NoMoneyOnDraft,
                    PaymentCommit, DepositCommit, WebhookCommit, RefundCommit
<1>4. inv' \notin {"NONE", "DRAFT"}
  BY <1>1 DEF PaymentCommit, DepositCommit, WebhookCommit, RefundCommit, PaidStatus, NetStatus
<1> QED BY <1>3, <1>4

\* However requests overlap: payments and refunds are written to issued
\* invoices only.
THEOREM MoneyFollowsIssue == Spec => MoneyOnlyOnIssued
<1>1. LedgerInv /\ [Next]_vars
      => [<<amountOf, refunded>>' # <<amountOf, refunded>>
            => {inv, inv'} \cap {"NONE", "DRAFT"} = {}]_vars
  BY MoneyStep
<1> QED BY <1>1, LedgerInit, LedgerStep, PTL DEF Spec, MoneyOnlyOnIssued

\* However requests overlap and servers crash: a deposit pays exactly once.
THEOREM DepositsPayOnce == Spec => []DepositPaysOnce
<1>1. LedgerInv => DepositPaysOnce
  BY DEF LedgerInv
<1> QED BY <1>1, LedgerInit, LedgerStep, PTL DEF Spec

-----------------------------------------------------------------------------
(* Refunds of card payments. *)

\* Requests that have the customer's money from the processor, or need none, and
\* have not yet recorded the refund.
Refunding(p) == {r \in Requests : pc[r] \in {"refund", "refundWrite"} /\ subject[r] = p}

InFlight(p) == SumFunctionOnSet(amount, Refunding(p))

CardRecorded == {p \in Recorded : ViaProcessor(p)}

\* What the processor gave back covers the refund rows and those to come.
RefundsBacked ==
  /\ \A p \in Payments \ Recorded : refunded[p] = 0
  /\ \A p \in CardRecorded :
       IsFiniteSet(Refunding(p)) /\ refunded[p] + InFlight(p) <= returned[p]

RefundInv == LedgerInv /\ RefundsBacked

\* Nothing is refunded at first.
LEMMA RefundInit == Init => RefundInv
<1> SUFFICES ASSUME Init PROVE RefundsBacked
  BY LedgerInit DEF RefundInv
<1>1. Recorded = {}
  BY DEF Init, Recorded
<1> QED BY <1>1 DEF Init, RefundsBacked, CardRecorded


\* A sum of which one request's part changes.
LEMMA PartChanges ==
  ASSUME NEW f \in [Requests -> Nat], NEW g \in [Requests -> Nat],
         NEW S \in SUBSET Requests, NEW T \in SUBSET Requests, NEW r,
         IsFiniteSet(S), S \ {r} = T \ {r}, \A q \in S \ {r} : f[q] = g[q]
  PROVE  /\ IsFiniteSet(T)
         /\ SumFunctionOnSet(f, S) \in Nat /\ SumFunctionOnSet(g, T) \in Nat
         /\ SumFunctionOnSet(g, T) - (IF r \in T THEN g[r] ELSE 0)
              = SumFunctionOnSet(f, S) - (IF r \in S THEN f[r] ELSE 0)
<1>1. IsFiniteSet(S \ {r})
  BY FS_RemoveElement
<1>2. IsFiniteSet(T)
  <2>1. CASE r \in T
    <3>1. T = (S \ {r}) \cup {r}
      BY <2>1
    <3> QED BY <1>1, <3>1, FS_AddElement
  <2>2. CASE r \notin T
    <3>1. T = S \ {r}
      BY <2>2
    <3> QED BY <1>1, <3>1
  <2> QED BY <2>1, <2>2
<1>3. /\ \A q \in S : f[q] \in Int /\ f[q] \in Nat
      /\ \A q \in T : g[q] \in Int /\ g[q] \in Nat
      /\ \A q \in S \ {r} : f[q] \in Nat
  OBVIOUS
<1>4. SumFunctionOnSet(f, S) \in Nat /\ SumFunctionOnSet(g, T) \in Nat
      /\ SumFunctionOnSet(f, S \ {r}) \in Nat
  BY <1>1, <1>2, <1>3, SumNat
<1>5. SumFunctionOnSet(f, S) - (IF r \in S THEN f[r] ELSE 0) = SumFunctionOnSet(f, S \ {r})
  <2>1. CASE r \in S
    <3>1. SumFunctionOnSet(f, S) = f[r] + SumFunctionOnSet(f, S \ {r})
      BY <1>3, <2>1, SumTakesOut
    <3> QED BY <1>3, <1>4, <2>1, <3>1
  <2>2. CASE r \notin S
    <3>1. SumFunctionOnSet(f, S \ {r}) = SumFunctionOnSet(f, S)
      <4>1. S \ {r} = S
        BY <2>2
      <4> QED BY <4>1
    <3> QED BY <1>4, <2>2, <3>1
  <2> QED BY <2>1, <2>2
<1>6. SumFunctionOnSet(g, T) - (IF r \in T THEN g[r] ELSE 0) = SumFunctionOnSet(g, T \ {r})
  <2>1. CASE r \in T
    <3>1. SumFunctionOnSet(g, T) = g[r] + SumFunctionOnSet(g, T \ {r})
      BY <1>2, <1>3, <2>1, SumTakesOut
    <3>2. SumFunctionOnSet(g, T \ {r}) \in Int
      BY <1>1, <1>3, SumInt
    <3> QED BY <1>3, <1>4, <2>1, <3>1, <3>2
  <2>2. CASE r \notin T
    <3>1. T \ {r} = T
      BY <2>2
    <3> QED BY <1>4, <2>2, <3>1
  <2> QED BY <2>1, <2>2
<1>7. SumFunctionOnSet(g, T \ {r}) = SumFunctionOnSet(f, S \ {r})
  BY <1>1, SumAgrees
<1> QED BY <1>2, <1>4, <1>5, <1>6, <1>7

\* A request goes on, and what is covered grows by as much as its part.
LEMMA PartCovered ==
  ASSUME RefundInv, LedgerInv', NEW r \in Requests,
         NEW k \in Steps, NEW s, NEW a \in Nat, NEW n, Proceed(r, k, s, a, n),
         NEW p \in CardRecorded,
         returned'[p] - refunded'[p]
             - (IF k \in {"refund", "refundWrite"} /\ s = p THEN a ELSE 0)
           >= returned[p] - refunded[p] - (IF r \in Refunding(p) THEN amount[r] ELSE 0)
  PROVE  IsFiniteSet(Refunding(p)') /\ refunded'[p] + InFlight(p)' <= returned'[p]
<1>0. /\ amount \in [Requests -> Nat] /\ amount' \in [Requests -> Nat]
      /\ pc \in [Requests -> Steps] /\ subject \in [Requests -> Subjects]
      /\ p \in Payments
      /\ refunded[p] \in Nat /\ refunded'[p] \in Nat
      /\ returned[p] \in Nat /\ returned'[p] \in Nat
  BY DEF RefundInv, LedgerInv, TypeOK, Subjects, CardRecorded, Recorded
<1>1. /\ pc' = [pc EXCEPT ![r] = k] /\ subject' = [subject EXCEPT ![r] = s]
      /\ amount' = [amount EXCEPT ![r] = a]
  BY DEF Proceed
<1>2. \A q \in Requests \ {r} :
        pc'[q] = pc[q] /\ subject'[q] = subject[q] /\ amount'[q] = amount[q]
  BY <1>0, <1>1
<1>3. pc'[r] = k /\ subject'[r] = s /\ amount'[r] = a
  BY <1>0, <1>1
<1> DEFINE S == Refunding(p)
           T == Refunding(p)'
<1>4. /\ S \in SUBSET Requests /\ T \in SUBSET Requests /\ S \ {r} = T \ {r}
      /\ r \in T <=> k \in {"refund", "refundWrite"} /\ s = p
      /\ \A q \in S \ {r} : amount[q] = amount'[q]
  BY <1>2, <1>3 DEF Refunding
<1>5. IsFiniteSet(S) /\ refunded[p] + SumFunctionOnSet(amount, S) <= returned[p]
  BY DEF RefundInv, RefundsBacked, InFlight
<1>7. r \in S => amount[r] \in Nat
  BY <1>0
<1>8. InFlight(p)' = SumFunctionOnSet(amount', T)
  BY DEF InFlight
<1> HIDE DEF S, T
<1>6. /\ IsFiniteSet(T)
      /\ SumFunctionOnSet(amount, S) \in Nat /\ SumFunctionOnSet(amount', T) \in Nat
      /\ SumFunctionOnSet(amount', T) - (IF r \in T THEN amount'[r] ELSE 0)
           = SumFunctionOnSet(amount, S) - (IF r \in S THEN amount[r] ELSE 0)
  BY <1>0, <1>4, <1>5, PartChanges
<1>9. refunded'[p] + SumFunctionOnSet(amount', T) <= returned'[p]
  <2> DEFINE b == IF r \in S THEN amount[r] ELSE 0
             c == IF r \in T THEN a ELSE 0
             x == SumFunctionOnSet(amount, S)
             y == SumFunctionOnSet(amount', T)
  <2>1. b \in Nat /\ c \in Nat /\ x \in Nat /\ y \in Nat
    BY <1>6, <1>7
  <2>2. y - c = x - b /\ refunded[p] + x <= returned[p]
    BY <1>3, <1>5, <1>6
  <2>3. returned'[p] - refunded'[p] - c >= returned[p] - refunded[p] - b
    BY <1>4 DEF S
  <2> HIDE DEF b, c, x, y
  <2>4. refunded'[p] + y <= returned'[p]
    BY <1>0, <2>1, <2>2, <2>3
  <2> QED BY <2>4 DEF y
<1> QED BY <1>6, <1>8, <1>9 DEF T

\* A step that gives back no money and records no refund; requests that it
\* brings to record one are about payments that are not by card.
LEMMA BackedKeeps ==
  ASSUME RefundInv, LedgerInv', UNCHANGED <<refunded, returned>>, NEW r \in Requests,
         NEW k \in Steps, NEW s, NEW a \in Nat, NEW n, Proceed(r, k, s, a, n),
         Recorded \subseteq Recorded',
         \A p \in Recorded : source'[p] = source[p],
         Recorded' # Recorded => k \in {"idle", "closed"},
         k \in {"refund", "refundWrite"} =>
           \/ s \notin CardRecorded
           \/ r \in Refunding(s) /\ a = amount[r]
  PROVE  RefundInv'
<1>1. ASSUME NEW p \in Payments \ Recorded' PROVE refunded'[p] = 0
  BY <1>1 DEF RefundInv, RefundsBacked
<1>2. ASSUME NEW p \in CardRecorded'
      PROVE  IsFiniteSet(Refunding(p)') /\ refunded'[p] + InFlight(p)' <= returned'[p]
  <2>0. p \in Payments
    BY DEF CardRecorded, Recorded
  <2>1. CASE p \in Recorded
    <3>1. p \in CardRecorded
      BY <2>1 DEF CardRecorded, ViaProcessor
    <3>2. /\ refunded[p] \in Nat /\ returned[p] \in Nat
          /\ r \in Refunding(p) => amount[r] \in Nat
      BY <2>0 DEF RefundInv, LedgerInv, TypeOK
    <3> DEFINE b == IF r \in Refunding(p) THEN amount[r] ELSE 0
               c == IF k \in {"refund", "refundWrite"} /\ s = p THEN a ELSE 0
    <3>3. b \in Nat /\ c \in Nat /\ c <= b
      BY <3>1, <3>2
    <3>4. returned'[p] = returned[p] /\ refunded'[p] = refunded[p]
      OBVIOUS
    <3> HIDE DEF b, c
    <3>5. returned'[p] - refunded'[p] - c >= returned[p] - refunded[p] - b
      BY <3>2, <3>3, <3>4
    <3> QED BY <3>1, <3>5, PartCovered DEF b, c
  <2>2. CASE p \notin Recorded
    <3>1. k \in {"idle", "closed"}
      BY <2>2 DEF CardRecorded
    <3>2. Refunding(p)' = {}
      <4> SUFFICES ASSUME NEW q \in Requests, pc'[q] \in {"refund", "refundWrite"},
                          subject'[q] = p
                   PROVE  FALSE
        BY DEF Refunding
      <4>1. pc'[r] = k
        BY DEF RefundInv, LedgerInv, TypeOK, Proceed
      <4>2. pc[q] = pc'[q] /\ subject[q] = subject'[q]
        BY <3>1, <4>1 DEF RefundInv, LedgerInv, TypeOK, Proceed
      <4> QED BY <2>2, <4>2 DEF RefundInv, LedgerInv, RequestsRely, Relies
    <3>3. InFlight(p)' = 0
      BY <3>2, SumOfNone DEF InFlight
    <3>4. refunded'[p] = 0 /\ returned'[p] \in Nat
      BY <2>0, <2>2 DEF RefundInv, RefundsBacked, LedgerInv, TypeOK
    <3> QED BY <3>2, <3>3, <3>4, FS_EmptySet
  <2> QED BY <2>1, <2>2
<1> QED BY <1>1, <1>2 DEF RefundInv, RefundsBacked

\* What the processor has given back covers the refunds, however they overlap.
LEMMA RefundStep == RefundInv /\ [Next]_vars => RefundInv'
<1> SUFFICES ASSUME RefundInv, [Next]_vars PROVE RefundInv'
  OBVIOUS
<1>0. LedgerInv /\ LedgerInv' /\ TypeOK
  BY LedgerStep DEF RefundInv, LedgerInv
<1>1. ASSUME UNCHANGED <<payVars, refunded, returned, requestVars>> PROVE RefundInv'
  <2>1. /\ Recorded' = Recorded /\ CardRecorded' = CardRecorded
        /\ \A p : Refunding(p)' = Refunding(p) /\ InFlight(p)' = InFlight(p)
    BY <1>1 DEF payVars, requestVars, Recorded, CardRecorded, ViaProcessor, Refunding, InFlight
  <2> QED BY <1>0, <1>1, <2>1 DEF RefundInv, RefundsBacked
<1>2. ASSUME NEW r \in Requests, Step(r) PROVE RefundInv'
  <2>0. Relies(pc[r], subject[r], amount[r], readPaid[r])
    BY <1>0 DEF LedgerInv, RequestsRely
  <2>f. ASSUME NEW k, Finish(r, k) PROVE Proceed(r, k, Nothing, 0, 0)
    BY <2>f DEF Finish, Proceed
  <2>1. CASE PaymentCommit(r) \/ DepositCommit(r) \/ WebhookCommit(r)
    <3>1. PICK k \in {"idle", "closed"} : Finish(r, k)
      BY <2>1 DEF PaymentCommit, DepositCommit, WebhookCommit
    <3>2. PICK ids, split, src : ids \subseteq Unused /\ InsertPayments(ids, split, src)
      BY <2>1 DEF PaymentCommit, DepositCommit, WebhookCommit
    <3>3. \A p \in Recorded : amountOf'[p] = amountOf[p] /\ source'[p] = source[p]
      BY <3>2 DEF InsertPayments, Recorded, Unused
    <3>4. Recorded \subseteq Recorded'
      BY <3>3 DEF Recorded
    <3>5. UNCHANGED <<refunded, returned>>
      BY <2>1 DEF PaymentCommit, DepositCommit, WebhookCommit, processorVars
    <3> QED BY <1>0, <2>f, <3>1, <3>3, <3>4, <3>5, BackedKeeps DEF Steps
  <2>2. CASE RefundCommit(r)
    <3>1. /\ pc[r] = "refundWrite" /\ Finish(r, "idle")
          /\ refunded' = [refunded EXCEPT ![subject[r]] = @ + amount[r]]
          /\ UNCHANGED <<payVars, returned>>
      BY <2>2 DEF RefundCommit, processorVars
    <3>2. Recorded' = Recorded /\ CardRecorded' = CardRecorded
      BY <3>1 DEF payVars, Recorded, CardRecorded, ViaProcessor
    <3>3. subject[r] \in Recorded /\ subject[r] \in Payments /\ amount[r] \in Nat
      BY <1>0, <2>0, <3>1 DEF Relies, Recorded, TypeOK
    <3>4. ASSUME NEW p \in Payments \ Recorded PROVE refunded'[p] = 0
      BY <1>0, <3>1, <3>3, <3>4 DEF RefundInv, RefundsBacked, TypeOK
    <3>5. ASSUME NEW p \in CardRecorded
          PROVE  IsFiniteSet(Refunding(p)') /\ refunded'[p] + InFlight(p)' <= returned'[p]
      <4>1. r \in Refunding(p) <=> subject[r] = p
        BY <3>1 DEF Refunding
      <4>2. /\ p \in Payments /\ refunded[p] \in Nat /\ returned[p] \in Nat
            /\ returned'[p] = returned[p]
            /\ refunded'[p] = IF subject[r] = p THEN refunded[p] + amount[r] ELSE refunded[p]
        BY <1>0, <3>1, <3>3 DEF TypeOK, CardRecorded, Recorded
      <4> DEFINE b == IF r \in Refunding(p) THEN amount[r] ELSE 0
                 c == IF "idle" \in {"refund", "refundWrite"} /\ Nothing = p THEN 0 ELSE 0
      <4>3. returned'[p] - refunded'[p] - c >= returned[p] - refunded[p] - b
        BY <3>3, <4>1, <4>2
      <4> QED BY <1>0, <2>f, <3>1, <4>3, PartCovered DEF Steps
    <3> QED BY <1>0, <3>2, <3>4, <3>5 DEF RefundInv, RefundsBacked
  <2>3. CASE ProcessorRefunds(r)
    <3>1. /\ pc[r] = "processor" /\ Proceed(r, "refund", subject[r], amount[r], 0)
          /\ returned' = [returned EXCEPT ![subject[r]] = @ + amount[r]]
          /\ UNCHANGED <<payVars, refunded>>
      BY <2>3 DEF ProcessorRefunds
    <3>2. Recorded' = Recorded /\ CardRecorded' = CardRecorded
      BY <3>1 DEF payVars, Recorded, CardRecorded, ViaProcessor
    <3>3. subject[r] \in Recorded /\ subject[r] \in Payments /\ amount[r] \in Nat
      BY <1>0, <2>0, <3>1 DEF Relies, Recorded, TypeOK
    <3>4. ASSUME NEW p \in Payments \ Recorded PROVE refunded'[p] = 0
      BY <3>1, <3>4 DEF RefundInv, RefundsBacked
    <3>5. ASSUME NEW p \in CardRecorded
          PROVE  IsFiniteSet(Refunding(p)') /\ refunded'[p] + InFlight(p)' <= returned'[p]
      <4>1. r \notin Refunding(p)
        BY <3>1 DEF Refunding
      <4>2. /\ p \in Payments /\ refunded[p] \in Nat /\ returned[p] \in Nat
            /\ refunded'[p] = refunded[p]
            /\ returned'[p] = IF subject[r] = p THEN returned[p] + amount[r] ELSE returned[p]
        BY <1>0, <3>1, <3>3 DEF TypeOK, CardRecorded, Recorded
      <4>3. returned'[p] - refunded'[p]
                - (IF "refund" \in {"refund", "refundWrite"} /\ subject[r] = p
                   THEN amount[r] ELSE 0)
              >= returned[p] - refunded[p] - (IF r \in Refunding(p) THEN amount[r] ELSE 0)
        BY <3>3, <4>1, <4>2
      <4> QED BY <1>0, <3>1, <3>3, <4>3, PartCovered DEF Steps
    <3> QED BY <1>0, <3>2, <3>4, <3>5 DEF RefundInv, RefundsBacked
  <2>4. CASE ~(PaymentCommit(r) \/ DepositCommit(r) \/ WebhookCommit(r) \/ RefundCommit(r)
               \/ ProcessorRefunds(r))
    <3>1. UNCHANGED <<payVars, refunded, returned>>
      BY <1>2, <2>4
         DEF Step, CreateRead, CreateCommit, IssueCommit, FollowUpInvoiced, FollowUpClosed,
             FollowUp, PaymentRead, DepositRead, DepositRefused, LinkRead, LinkCreate,
             WebhookRead, WebhookDedup, RefundRead, ProcessorFails, RefundReadInvoice,
             RefundAborts, Crash, processorVars
    <3>2. Recorded' = Recorded /\ source' = source
      BY <3>1 DEF payVars, Recorded
    <3>3. CASE RefundRead(r)
      <4>1. PICK p \in Recorded : \E a \in 1..Refundable(p) :
              Proceed(r, IF ViaProcessor(p) THEN "processor" ELSE "refund", p, a, 0)
        BY <3>3 DEF RefundRead
      <4>2. PICK a \in 1..Refundable(p) :
              Proceed(r, IF ViaProcessor(p) THEN "processor" ELSE "refund", p, a, 0)
        BY <4>1
      <4>3. Refundable(p) \in Int
        BY <1>0 DEF Refundable, TypeOK, Recorded
      <4>4. a \in Nat
        BY <4>3
      <4>5. CASE ViaProcessor(p)
        BY <1>0, <3>1, <3>2, <4>2, <4>4, <4>5, BackedKeeps DEF Steps
      <4>6. CASE ~ViaProcessor(p)
        <5>1. p \notin CardRecorded
          BY <4>6 DEF CardRecorded
        <5> QED BY <1>0, <3>1, <3>2, <4>2, <4>4, <4>6, <5>1, BackedKeeps DEF Steps
      <4> QED BY <4>5, <4>6
    <3>4. CASE RefundReadInvoice(r)
      <4>1. pc[r] = "refund" /\ Proceed(r, "refundWrite", subject[r], amount[r], paid)
        BY <3>4 DEF RefundReadInvoice
      <4>2. r \in Refunding(subject[r]) /\ amount[r] \in Nat
        BY <1>0, <4>1 DEF Refunding, TypeOK
      <4> QED BY <1>0, <3>1, <3>2, <4>1, <4>2, BackedKeeps DEF Steps
    <3>5. CASE ~RefundRead(r) /\ ~RefundReadInvoice(r)
      <4>1. ASSUME NEW k \in {"idle", "create", "invoiced", "closed", "pay", "deposit",
                              "link", "dedup", "webhook"},
                   NEW s, NEW a \in Nat, NEW n, Proceed(r, k, s, a, n)
            PROVE  RefundInv'
        BY <1>0, <3>1, <3>2, <4>1, BackedKeeps DEF Steps
      <4>2. ASSUME NEW k \in {"idle", "create", "invoiced", "closed"}, Finish(r, k)
            PROVE  RefundInv'
        BY <2>f, <4>1, <4>2
      <4>3. CASE WebhookDedup(r)
        <5> DEFINE x == Clamped(subject[r], Total - readPaid[r])
        <5>1. x \in Int
          BY <1>0, <2>0, <4>3, LedgerAssumption DEF WebhookDedup, Relies, TypeOK, Clamped
        <5>2. Finish(r, "idle") \/ (~(x <= 0) /\ Proceed(r, "webhook", subject[r], x, readPaid[r]))
          BY <4>3 DEF WebhookDedup
        <5> HIDE DEF x
        <5>3. CASE Finish(r, "idle")
          BY <4>2, <5>3
        <5>4. CASE ~(x <= 0) /\ Proceed(r, "webhook", subject[r], x, readPaid[r])
          <6>1. x \in Nat
            BY <5>1, <5>4
          <6> QED BY <4>1, <5>4, <6>1
        <5> QED BY <5>2, <5>3, <5>4
      <4>4. Balance \in Int /\ DepositAmount \in [Deposits -> Nat \ {0}] /\ taken \subseteq Deposits
        BY <1>0, LedgerAssumption DEF Balance, TypeOK
      <4>5. CASE PaymentRead(r)
        <5>1. PICK a \in 1..Balance : Proceed(r, "pay", Counter, a, paid)
          BY <4>5 DEF PaymentRead
        <5>2. a \in Nat
          BY <4>4
        <5> QED BY <4>1, <5>1, <5>2
      <4>6. CASE LinkRead(r)
        <5>1. Balance > 0 /\ Proceed(r, "link", Nothing, Balance, paid)
          BY <4>6 DEF LinkRead
        <5>2. Balance \in Nat
          BY <4>4, <5>1
        <5> QED BY <4>1, <5>1, <5>2
      <4>7. CASE DepositRead(r)
        <5>1. PICK d \in taken \ applied : Proceed(r, "deposit", d, DepositAmount[d], paid)
          BY <4>7 DEF DepositRead
        <5>2. DepositAmount[d] \in Nat
          BY <4>4
        <5> QED BY <4>1, <5>1, <5>2
      <4>8. CASE WebhookRead(r)
        <5>1. PICK c \in charged : Proceed(r, "dedup", c, 0, paid)
          BY <4>8 DEF WebhookRead
        <5> QED BY <4>1, <5>1
      <4>9. CASE CreateRead(r)
        BY <4>1, <4>9 DEF CreateRead
      <4>10. CASE \E k \in {"idle", "invoiced"} : Finish(r, k)
        BY <4>2, <4>10
      <4> QED
        BY <1>2, <2>4, <3>5, <4>3, <4>5, <4>6, <4>7, <4>8, <4>9, <4>10
           DEF Step, CreateCommit, IssueCommit, FollowUpInvoiced, FollowUpClosed,
               FollowUp, DepositRefused, LinkCreate, ProcessorFails, RefundAborts, Crash
    <3> QED BY <3>3, <3>4, <3>5
  <2> QED BY <2>1, <2>2, <2>3, <2>4
<1>3. CASE \E to \in WorkOrderStatuses : MoveWorkOrder(to)
  BY <1>1, <1>3 DEF MoveWorkOrder, processorVars
<1>4. CASE \E d \in Deposits : TakeDeposit(d)
  BY <1>1, <1>4 DEF TakeDeposit, processorVars
<1>5. CASE \E c \in Checkouts : CustomerPays(c)
  BY <1>1, <1>5 DEF CustomerPays
<1>6. CASE UNCHANGED vars
  BY <1>1, <1>6 DEF vars, processorVars
<1> QED BY <1>2, <1>3, <1>4, <1>5, <1>6 DEF Next

\* However requests overlap and servers crash, what the books show as refunded
\* on a card payment went back to the customer (refundPayment calls the processor
\* before it records anything).
THEOREM CardRefundsMade == Spec => []CardRefundsWereMade
<1>1. ASSUME RefundInv PROVE CardRefundsWereMade
  <2> SUFFICES ASSUME NEW p \in Recorded, source[p] \in Checkouts
               PROVE  refunded[p] <= returned[p]
    BY DEF CardRefundsWereMade
  <2>1. p \in CardRecorded /\ p \in Payments
    BY DEF CardRecorded, ViaProcessor, Recorded
  <2>2. IsFiniteSet(Refunding(p)) /\ refunded[p] + InFlight(p) <= returned[p]
    BY <1>1, <2>1 DEF RefundInv, RefundsBacked
  <2>3. InFlight(p) \in Nat
    <3>1. \A r \in Refunding(p) : amount[r] \in Nat
      BY <1>1 DEF RefundInv, LedgerInv, TypeOK, Refunding
    <3> QED BY <2>2, <3>1, SumNat DEF InFlight
  <2>4. refunded[p] \in Nat /\ returned[p] \in Nat
    BY <1>1, <2>1 DEF RefundInv, LedgerInv, TypeOK
  <2> QED BY <2>2, <2>3, <2>4
<1> QED BY <1>1, RefundInit, RefundStep, PTL DEF Spec

-----------------------------------------------------------------------------
(* One request at a time. *)

\* A request that nothing overlaps: what it has read is still so when it commits.
StillSo(r) ==
  /\ pc[r] \in {"pay", "deposit", "dedup", "webhook", "refundWrite"} => readPaid[r] = paid
  /\ pc[r] \in {"processor", "refund", "refundWrite"} => amount[r] <= Refundable(subject[r])
  /\ pc[r] = "webhook" => ~Seen(subject[r])

SoleInv ==
  /\ LedgerInv
  /\ LedgerBalanced
  /\ RefundWithinPayment
  /\ CheckoutPaysOnce
  /\ \A r \in Requests : StillSo(r)

\* Nothing is recorded at first.
LEMMA SoleInit == Init => SoleInv
<1> SUFFICES ASSUME Init PROVE SoleInv
  OBVIOUS
<1>1. LedgerInv
  BY LedgerInit
<1>2. Recorded = {}
  BY DEF Init, Recorded
<1>3. RecordedNet = 0
  <2>1. /\ DOMAIN amountOf = Payments /\ DOMAIN refunded = Payments
        /\ \A p \in Payments : amountOf[p] = 0 /\ refunded[p] = 0
    BY DEF Init
  <2>2. SumFunction(amountOf) = 0 /\ SumFunction(refunded) = 0
    BY <2>1, SumOfZeros, LedgerAssumption DEF SumFunction
  <2> QED BY <2>2 DEF RecordedNet
<1>4. RefundWithinPayment /\ CheckoutPaysOnce
  BY <1>2 DEF Init, RefundWithinPayment, CheckoutPaysOnce
<1>5. \A r \in Requests : StillSo(r)
  BY DEF Init, StillSo
<1> QED BY <1>1, <1>3, <1>4, <1>5 DEF Init, SoleInv, LedgerBalanced

\* New rows add what they are split into.
LEMMA InsertAddsUp ==
  ASSUME NEW f \in [Payments -> Nat], NEW ids \in SUBSET Payments, \A p \in ids : f[p] = 0,
         NEW split \in [ids -> Nat],
         NEW g, g = [p \in Payments |-> IF p \in ids THEN split[p] ELSE f[p]]
  PROVE  /\ SumFunction(g) = SumFunction(f) + SumFunction(split)
         /\ SumFunction(f) \in Nat /\ SumFunction(split) \in Nat
<1> DEFINE rest == Payments \ ids
<1>1. IsFiniteSet(Payments) /\ IsFiniteSet(ids) /\ IsFiniteSet(rest)
  BY LedgerAssumption, FS_Subset
<1>2. DOMAIN f = Payments /\ DOMAIN g = Payments /\ DOMAIN split = ids
  OBVIOUS
<1>3. /\ \A p \in Payments : f[p] \in Nat /\ f[p] \in Int /\ g[p] \in Int
      /\ \A p \in ids : g[p] = split[p] /\ split[p] \in Nat /\ f[p] = 0
      /\ \A p \in rest : g[p] = f[p] /\ f[p] \in Nat
  OBVIOUS
<1>4. SumFunctionOnSet(f, Payments) = SumFunctionOnSet(f, ids) + SumFunctionOnSet(f, rest)
  BY <1>1, <1>3, SumSplits
<1>5. SumFunctionOnSet(g, Payments) = SumFunctionOnSet(g, ids) + SumFunctionOnSet(g, rest)
  BY <1>1, <1>3, SumSplits
<1> HIDE DEF rest
<1>6. SumFunctionOnSet(f, ids) = 0
  BY <1>1, <1>3, SumOfZeros
<1>7. SumFunctionOnSet(g, ids) = SumFunctionOnSet(split, ids)
  BY <1>1, <1>3, SumAgrees
<1>8. SumFunctionOnSet(g, rest) = SumFunctionOnSet(f, rest)
  BY <1>1, <1>3, SumAgrees
<1>9. /\ SumFunctionOnSet(f, rest) \in Nat /\ SumFunctionOnSet(split, ids) \in Nat
      /\ SumFunctionOnSet(f, Payments) \in Nat
  BY <1>1, <1>3, SumNat
<1> QED
  BY <1>2, <1>4, <1>5, <1>6, <1>7, <1>8, <1>9 DEF SumFunction

\* A single tender is its own sum.
LEMMA OneTender ==
  ASSUME NEW p, NEW a \in Nat
  PROVE  SumFunction([q \in {p} |-> a]) = a
<1> DEFINE f == [q \in {p} |-> a]
<1>1. DOMAIN f = {p} /\ f[p] = a /\ IsFiniteSet({p}) /\ {p} \ {p} = {}
  BY FS_Singleton
<1>2. \A q \in {p} : f[q] \in Int
  OBVIOUS
<1> HIDE DEF f
<1>3. SumFunctionOnSet(f, {p}) = f[p] + SumFunctionOnSet(f, {p} \ {p})
  BY <1>1, <1>2, SumTakesOut
<1>4. SumFunctionOnSet(f, {p}) = a
  BY <1>1, <1>3, SumOfNone
<1>5. SumFunction(f) = a
  BY <1>1, <1>4 DEF SumFunction
<1> QED BY <1>5 DEF f

\* A step that moves no money and keeps what the request knows.
LEMMA QuietSole ==
  ASSUME SoleInv, LedgerInv', UNCHANGED <<paid, payVars, refunded>>,
         NEW r, Requests = {r}, StillSo(r)'
  PROVE  SoleInv'
<1>1. Recorded' = Recorded /\ RecordedNet' = RecordedNet
  BY DEF payVars, Recorded, RecordedNet
<1>2. LedgerBalanced' /\ RefundWithinPayment' /\ CheckoutPaysOnce'
  BY <1>1 DEF SoleInv, LedgerBalanced, RefundWithinPayment, CheckoutPaysOnce, payVars
<1> QED BY <1>2 DEF SoleInv

\* A request that ends knows nothing.
LEMMA EndsSo ==
  ASSUME LedgerInv, NEW r \in Requests, NEW k \in {"idle", "create", "invoiced", "closed"},
         Finish(r, k)
  PROVE  StillSo(r)'
<1>1. pc'[r] = k
  BY DEF LedgerInv, TypeOK, Finish
<1> QED BY <1>1 DEF StillSo

\* What a request has decided on.
LEMMA ProceedsWith ==
  ASSUME LedgerInv, NEW r \in Requests, NEW k, NEW s, NEW a, NEW n, Proceed(r, k, s, a, n)
  PROVE  pc'[r] = k /\ subject'[r] = s /\ amount'[r] = a /\ readPaid'[r] = n
BY DEF LedgerInv, TypeOK, Proceed

\* A payment adds the same to the rows and to paid_minor.
LEMMA PaySole ==
  ASSUME SoleInv, LedgerInv', NEW r, Requests = {r},
         PaymentCommit(r) \/ DepositCommit(r) \/ WebhookCommit(r)
  PROVE  SoleInv'
<1>0. LedgerInv /\ TypeOK /\ r \in Requests /\ StillSo(r)
  BY DEF SoleInv, LedgerInv
<1>1. /\ readPaid[r] = paid /\ paid' = paid + amount[r]
      /\ paid \in Nat /\ amount[r] \in Nat /\ amount[r] >= 1 /\ refunded' = refunded
      /\ refunded \in [Payments -> Nat] /\ amountOf \in [Payments -> Nat]
      /\ amountOf' \in [Payments -> Nat]
  BY <1>0 DEF StillSo, PaymentCommit, DepositCommit, WebhookCommit, TypeOK, LedgerInv,
              RequestsRely, Relies
<1>2. PICK ids \in SUBSET Unused :
        \E split \in [ids -> Nat \ {0}], src \in Sources :
          /\ ids # {}
          /\ InsertPayments(ids, split, src) /\ SumFunction(split) = amount[r]
          /\ src \in Checkouts => ~Seen(src) /\ \E p \in Payments : ids = {p}
  <2>1. CASE PaymentCommit(r)
    <3>1. PICK ids \in SUBSET Unused :
            /\ Cardinality(ids) \in 1..MaxTenders
            /\ \E split \in [ids -> 1..amount[r]] :
                 SumFunction(split) = amount[r] /\ InsertPayments(ids, split, Counter)
      BY <2>1 DEF PaymentCommit
    <3>2. PICK split \in [ids -> 1..amount[r]] :
                 SumFunction(split) = amount[r] /\ InsertPayments(ids, split, Counter)
      BY <3>1
    <3>3. ids # {}
      BY <3>1, FS_EmptySet
    <3>4. split \in [ids -> Nat \ {0}]
      BY <1>1
    <3>5. Counter \in Sources /\ Counter \notin Checkouts
      BY LedgerAssumption DEF Sources
    <3> QED BY <3>2, <3>3, <3>4, <3>5
  <2>2. CASE DepositCommit(r) \/ WebhookCommit(r)
    <3>1. PICK p \in Unused : InsertPayments({p}, [q \in {p} |-> amount[r]], subject[r])
      BY <2>2 DEF DepositCommit, WebhookCommit
    <3>2. [q \in {p} |-> amount[r]] \in [{p} -> Nat \ {0}]
      BY <1>1
    <3>3. SumFunction([q \in {p} |-> amount[r]]) = amount[r]
      BY <1>1, OneTender
    <3>4. /\ subject[r] \in Sources
          /\ subject[r] \in Checkouts => ~Seen(subject[r])
      BY <1>0, <2>2, LedgerAssumption
         DEF DepositCommit, WebhookCommit, Sources, LedgerInv, TypeOK, RequestsRely, Relies,
             StillSo
    <3>5. {p} \in SUBSET Unused /\ {p} # {} /\ p \in Payments
      BY DEF Unused
    <3> DEFINE split == [q \in {p} |-> amount[r]]
    <3>6. split \in [{p} -> Nat \ {0}] /\ InsertPayments({p}, split, subject[r])
          /\ SumFunction(split) = amount[r]
      BY <3>1, <3>2, <3>3
    <3> HIDE DEF split
    <3> QED BY <3>4, <3>5, <3>6
  <2> QED BY <2>1, <2>2
<1>3. PICK split \in [ids -> Nat \ {0}], src \in Sources :
          /\ ids # {}
          /\ InsertPayments(ids, split, src) /\ SumFunction(split) = amount[r]
          /\ src \in Checkouts => ~Seen(src) /\ \E p \in Payments : ids = {p}
  BY <1>2
<1>4. /\ Recorded' = Recorded \cup ids /\ Recorded \cap ids = {}
      /\ \A p \in Recorded : source'[p] = source[p]
      /\ \A p \in ids : source'[p] = src
  BY <1>0, <1>3, InsertKeeps
<1>5. /\ amountOf' = [p \in Payments |-> IF p \in ids THEN split[p] ELSE amountOf[p]]
      /\ ids \in SUBSET Payments /\ split \in [ids -> Nat]
      /\ \A p \in ids : amountOf[p] = 0
  <2>1. \A p \in ids : p \in Payments /\ ~(amountOf[p] > 0) /\ amountOf[p] \in Nat
    BY <1>1 DEF Unused, Recorded
  <2> QED BY <1>3, <2>1 DEF InsertPayments
<1>6. /\ SumFunction(amountOf') = SumFunction(amountOf) + amount[r]
      /\ SumFunction(amountOf) \in Nat
  BY <1>1, <1>3, <1>5, InsertAddsUp
<1>7. LedgerBalanced'
  <2>1. SumFunction(refunded) \in Int
    <3>1. DOMAIN refunded = Payments /\ \A p \in Payments : refunded[p] \in Int
      BY <1>1
    <3> QED BY <3>1, SumInt, LedgerAssumption DEF SumFunction
  <2>2. paid = SumFunction(amountOf) - SumFunction(refunded)
    BY DEF SoleInv, LedgerBalanced, RecordedNet
  <2>3. paid' = SumFunction(amountOf') - SumFunction(refunded)
    BY <1>1, <1>6, <2>1, <2>2
  <2> QED BY <1>1, <2>3 DEF LedgerBalanced, RecordedNet
<1>8. RefundWithinPayment'
  <2> SUFFICES ASSUME NEW p \in Payments PROVE refunded[p] <= amountOf'[p]
    BY <1>1 DEF RefundWithinPayment
  <2>1. refunded[p] <= amountOf[p]
    BY DEF SoleInv, RefundWithinPayment
  <2>2. amountOf[p] <= amountOf'[p]
    BY <1>1, <1>5
  <2> QED BY <1>1, <2>1, <2>2
<1>9. CheckoutPaysOnce'
  <2> SUFFICES ASSUME NEW p \in Recorded', NEW q \in Recorded',
                      source'[p] \in Checkouts, source'[p] = source'[q]
               PROVE  p = q
    BY DEF CheckoutPaysOnce
  <2>1. CASE p \in Recorded /\ q \in Recorded
    BY <1>4, <2>1 DEF SoleInv, CheckoutPaysOnce
  <2>2. CASE p \in ids /\ q \in ids
    BY <1>3, <1>4, <2>2
  <2>3. CASE p \in ids /\ q \in Recorded
    BY <1>3, <1>4, <2>3 DEF Seen
  <2>4. CASE p \in Recorded /\ q \in ids
    BY <1>3, <1>4, <2>4 DEF Seen
  <2> QED BY <1>4, <2>1, <2>2, <2>3, <2>4
<1>10. StillSo(r)'
  <2>1. \E k \in {"idle", "closed"} : Finish(r, k)
    BY DEF PaymentCommit, DepositCommit, WebhookCommit
  <2> QED BY <1>0, <2>1, EndsSo
<1> QED BY <1>7, <1>8, <1>9, <1>10 DEF SoleInv

\* A refund takes the same off the rows and off paid_minor.
LEMMA RefundSole ==
  ASSUME SoleInv, LedgerInv', NEW r, Requests = {r}, RefundCommit(r)
  PROVE  SoleInv'
<1>0. LedgerInv /\ TypeOK /\ r \in Requests /\ StillSo(r)
  BY DEF SoleInv, LedgerInv
<1>1. /\ paid' = paid - amount[r] /\ paid \in Nat /\ amount[r] \in Nat
      /\ subject[r] \in Payments /\ amount[r] <= amountOf[subject[r]] - refunded[subject[r]]
      /\ refunded' = [refunded EXCEPT ![subject[r]] = @ + amount[r]]
      /\ refunded \in [Payments -> Nat] /\ refunded' \in [Payments -> Nat]
      /\ amountOf \in [Payments -> Nat]
      /\ UNCHANGED payVars
  BY <1>0 DEF RefundCommit, PaidLess, StillSo, Refundable, LedgerInv, TypeOK, RequestsRely,
              Relies, Recorded
<1>2. SumFunction(refunded') = SumFunction(refunded) + amount[r]
      /\ SumFunction(refunded) \in Int /\ SumFunction(amountOf) \in Int
  <2> DEFINE s == subject[r]
  <2>1. /\ DOMAIN refunded = Payments /\ DOMAIN refunded' = Payments /\ DOMAIN amountOf = Payments
        /\ refunded'[s] = refunded[s] + amount[r]
        /\ \A p \in Payments \ {s} : refunded[p] = refunded'[p]
        /\ \A p \in Payments : refunded[p] \in Int /\ refunded'[p] \in Int
        /\ \A p \in Payments : refunded[p] \in Int
        /\ \A p \in Payments : amountOf[p] \in Int
        /\ s \in Payments
    BY <1>1
  <2> HIDE DEF s
  <2>2. SumFunctionOnSet(refunded', Payments)
          = SumFunctionOnSet(refunded, Payments) + (refunded'[s] - refunded[s])
    BY <2>1, SumChangesAt, LedgerAssumption
  <2>3. /\ SumFunctionOnSet(refunded, Payments) \in Int
        /\ SumFunctionOnSet(amountOf, Payments) \in Int
    BY <2>1, SumInt, LedgerAssumption
  <2>4. refunded'[s] - refunded[s] = amount[r]
    BY <1>1, <2>1
  <2> QED BY <2>1, <2>2, <2>3, <2>4 DEF SumFunction
<1>3. LedgerBalanced'
  <2>1. paid = SumFunction(amountOf) - SumFunction(refunded) /\ amountOf' = amountOf
    BY <1>1 DEF SoleInv, LedgerBalanced, RecordedNet, payVars
  <2>2. paid' = SumFunction(amountOf) - SumFunction(refunded')
    BY <1>1, <1>2, <2>1
  <2> QED BY <2>1, <2>2 DEF LedgerBalanced, RecordedNet
<1>4. RefundWithinPayment'
  <2> SUFFICES ASSUME NEW p \in Payments PROVE refunded'[p] <= amountOf[p]
    BY <1>1 DEF RefundWithinPayment, payVars
  <2>1. refunded[p] <= amountOf[p]
    BY DEF SoleInv, RefundWithinPayment
  <2>2. refunded'[p] = IF p = subject[r] THEN refunded[p] + amount[r] ELSE refunded[p]
    BY <1>1
  <2>3. refunded[p] \in Nat /\ amountOf[p] \in Nat
    BY <1>1
  <2> QED BY <1>1, <2>1, <2>2, <2>3
<1>5. CheckoutPaysOnce'
  BY <1>1 DEF SoleInv, CheckoutPaysOnce, Recorded, payVars
<1>6. StillSo(r)'
  BY <1>0, EndsSo DEF RefundCommit
<1> QED BY <1>3, <1>4, <1>5, <1>6 DEF SoleInv

\* With one request at a time, every step keeps rows and paid_minor in balance.
LEMMA SoleStep ==
  ASSUME NEW r, Requests = {r}, SoleInv, [Next]_vars
  PROVE  SoleInv'
<1>0. /\ LedgerInv /\ TypeOK /\ r \in Requests /\ StillSo(r) /\ LedgerInv'
      /\ Relies(pc[r], subject[r], amount[r], readPaid[r])
  BY LedgerStep DEF SoleInv, LedgerInv, RequestsRely
<1>1. ASSUME UNCHANGED <<paid, payVars, refunded, requestVars>> PROVE SoleInv'
  <2>1. StillSo(r)'
    BY <1>0, <1>1 DEF StillSo, payVars, requestVars, Seen, Recorded, Refundable
  <2> QED BY <1>0, <1>1, <2>1, QuietSole
<1>2. CASE Step(r)
  <2>1. CASE PaymentCommit(r) \/ DepositCommit(r) \/ WebhookCommit(r)
    BY <1>0, <2>1, PaySole
  <2>2. CASE RefundCommit(r)
    BY <1>0, <2>2, RefundSole
  <2>3. ASSUME ~(PaymentCommit(r) \/ DepositCommit(r) \/ WebhookCommit(r) \/ RefundCommit(r))
        PROVE  SoleInv'
    <3>1. UNCHANGED <<paid, payVars, refunded>>
      BY <1>2, <2>3
         DEF Step, CreateRead, CreateCommit, IssueCommit, FollowUpInvoiced, FollowUpClosed,
             FollowUp, PaymentRead, DepositRead, DepositRefused, LinkRead, LinkCreate,
             WebhookRead, WebhookDedup, RefundRead, ProcessorRefunds, ProcessorFails,
             RefundReadInvoice, RefundAborts, Crash, processorVars, invVars
    <3>2. Recorded' = Recorded /\ source' = source /\ amountOf' = amountOf
          /\ refunded' = refunded /\ paid' = paid
      BY <3>1 DEF payVars, Recorded
    <3> SUFFICES StillSo(r)'
      BY <1>0, <3>1, QuietSole
    <3>3. CASE PaymentRead(r) \/ DepositRead(r) \/ LinkRead(r) \/ WebhookRead(r)
      <4>1. PICK k, s, a : Proceed(r, k, s, a, paid) /\ k \in {"pay", "deposit", "link", "dedup"}
        BY <3>3 DEF PaymentRead, DepositRead, LinkRead, WebhookRead
      <4>2. pc'[r] = k /\ readPaid'[r] = paid
        BY <1>0, <4>1, ProceedsWith
      <4>3. k \in {"pay", "deposit", "link", "dedup"}
        BY <4>1
      <4> QED BY <3>2, <4>2, <4>3 DEF StillSo
    <3>4. CASE WebhookDedup(r)
      <4> DEFINE x == Clamped(subject[r], Total - readPaid[r])
      <4>1. \/ Finish(r, "idle")
            \/ ~Seen(subject[r]) /\ Proceed(r, "webhook", subject[r], x, readPaid[r])
        BY <3>4 DEF WebhookDedup
      <4>2. readPaid[r] = paid
        BY <1>0, <3>4 DEF StillSo, WebhookDedup
      <4> HIDE DEF x
      <4>3. CASE Finish(r, "idle")
        BY <1>0, <4>3, EndsSo
      <4>4. CASE ~Seen(subject[r]) /\ Proceed(r, "webhook", subject[r], x, readPaid[r])
        <5>1. pc'[r] = "webhook" /\ subject'[r] = subject[r] /\ readPaid'[r] = paid
          BY <1>0, <4>2, <4>4, ProceedsWith
        <5> QED BY <3>2, <4>4, <5>1 DEF StillSo, Seen
      <4> QED BY <4>1, <4>3, <4>4
    <3>5. CASE RefundRead(r)
      <4>1. PICK p \in Recorded : \E a \in 1..Refundable(p) :
              Proceed(r, IF ViaProcessor(p) THEN "processor" ELSE "refund", p, a, 0)
        BY <3>5 DEF RefundRead
      <4>2. PICK a \in 1..Refundable(p) :
              Proceed(r, IF ViaProcessor(p) THEN "processor" ELSE "refund", p, a, 0)
        BY <4>1
      <4>3. pc'[r] \in {"processor", "refund"} /\ subject'[r] = p /\ amount'[r] = a
        BY <1>0, <4>2, ProceedsWith
      <4> QED BY <3>2, <4>3 DEF StillSo, Refundable
    <3>6. CASE ProcessorRefunds(r)
      <4>1. pc[r] = "processor" /\ Proceed(r, "refund", subject[r], amount[r], 0)
        BY <3>6 DEF ProcessorRefunds
      <4>2. pc'[r] = "refund" /\ subject'[r] = subject[r] /\ amount'[r] = amount[r]
        BY <1>0, <4>1, ProceedsWith
      <4> QED BY <1>0, <3>2, <4>1, <4>2 DEF StillSo, Refundable
    <3>7. CASE RefundReadInvoice(r)
      <4>1. pc[r] = "refund" /\ Proceed(r, "refundWrite", subject[r], amount[r], paid)
        BY <3>7 DEF RefundReadInvoice
      <4>2. /\ pc'[r] = "refundWrite" /\ subject'[r] = subject[r] /\ amount'[r] = amount[r]
            /\ readPaid'[r] = paid
        BY <1>0, <4>1, ProceedsWith
      <4> QED BY <1>0, <3>2, <4>1, <4>2 DEF StillSo, Refundable
    <3>8. CASE CreateRead(r)
      <4>1. pc'[r] = "create"
        BY <1>0, <3>8, ProceedsWith DEF CreateRead
      <4> QED BY <4>1 DEF StillSo
    <3>9. CASE \E k \in {"idle", "invoiced"} : Finish(r, k)
      BY <1>0, <3>9, EndsSo
    <3> QED
      BY <1>2, <2>3, <3>3, <3>4, <3>5, <3>6, <3>7, <3>8, <3>9
         DEF Step, CreateCommit, IssueCommit, FollowUpInvoiced, FollowUpClosed, FollowUp,
             DepositRefused, LinkCreate, ProcessorFails, RefundAborts, Crash
  <2> QED BY <2>1, <2>2, <2>3
<1>3. CASE \E to \in WorkOrderStatuses : MoveWorkOrder(to)
  BY <1>1, <1>3 DEF MoveWorkOrder
<1>4. CASE \E d \in Deposits : TakeDeposit(d)
  BY <1>1, <1>4 DEF TakeDeposit, invVars
<1>5. CASE \E c \in Checkouts : CustomerPays(c)
  BY <1>1, <1>5 DEF CustomerPays, invVars
<1>6. CASE UNCHANGED vars
  BY <1>1, <1>6 DEF vars, invVars
<1> QED BY <1>2, <1>3, <1>4, <1>5, <1>6 DEF Next

\* One request at a time keeps the balance, its limits and what it has read.
LEMMA SoleInvariant ==
  ASSUME NEW r, Requests = {r}
  PROVE  Spec => []SoleInv
<1>1. SoleInv /\ [Next]_vars => SoleInv'
  BY SoleStep
<1> QED BY <1>1, SoleInit, PTL DEF Spec

\* While requests do not overlap, and however servers crash between their steps,
\* paid_minor is what the payment and refund rows add up to (invoice-service.ts,
\* refund-service.ts).
THEOREM BooksBalance ==
  ASSUME NEW r, Requests = {r}
  PROVE  Spec => []LedgerBalanced
<1>1. SoleInv => LedgerBalanced
  BY DEF SoleInv
<1> QED BY <1>1, SoleInvariant, PTL

\* While requests do not overlap, no payment is refunded beyond its amount
\* (refundPayment, which adds up the refunds it finds).
THEOREM RefundsWithinPayment ==
  ASSUME NEW r, Requests = {r}
  PROVE  Spec => []RefundWithinPayment
<1>1. SoleInv => RefundWithinPayment
  BY DEF SoleInv
<1> QED BY <1>1, SoleInvariant, PTL

\* While deliveries do not overlap, a checkout session is recorded once, however
\* often its webhook is delivered (recordStripeCheckoutCompleted).
THEOREM SessionsPayOnce ==
  ASSUME NEW r, Requests = {r}
  PROVE  Spec => []CheckoutPaysOnce
<1>1. SoleInv => CheckoutPaysOnce
  BY DEF SoleInv
<1> QED BY <1>1, SoleInvariant, PTL

\* Each step of one request at a time is a step of the account or none at all.
LEMMA AccountStep ==
  ASSUME NEW r, Requests = {r}, SoleInv, SoleInv', [Next]_vars
  PROVE  [Account!Next]_(Account!vars)
<1>0. /\ LedgerInv /\ TypeOK /\ StillSo(r) /\ r \in Requests
      /\ paid = RecordedNet /\ paid' = RecordedNet'
      /\ PaidWithinTotal' /\ paid' \in Nat /\ StatusMatchesPaid /\ Total \in Nat
      /\ Relies(pc[r], subject[r], amount[r], readPaid[r])
      /\ paid \in Nat /\ amount[r] \in Nat
  BY LedgerAssumption DEF SoleInv, LedgerInv, LedgerBalanced, TypeOK, RequestsRely
<1>1. CASE inv' = inv /\ paid' = paid
  BY <1>0, <1>1 DEF Account!vars
<1>2. CASE ~(inv' = inv /\ paid' = paid)
  <2>1. \/ CreateCommit(r) \/ IssueCommit(r)
        \/ PaymentCommit(r) \/ DepositCommit(r) \/ WebhookCommit(r) \/ RefundCommit(r)
    BY <1>2
       DEF Next, vars, MoveWorkOrder, TakeDeposit, CustomerPays, Step, CreateRead,
           FollowUpInvoiced, FollowUpClosed, FollowUp, PaymentRead, DepositRead,
           DepositRefused, LinkRead, LinkCreate, WebhookRead, WebhookDedup, RefundRead,
           ProcessorRefunds, ProcessorFails, RefundReadInvoice, RefundAborts, Crash,
           processorVars, invVars
  <2>2. CASE CreateCommit(r)
    <3>1. inv = "NONE" /\ inv' = "DRAFT" /\ paid' = paid
      BY <1>2, <2>2 DEF CreateCommit
    <3> QED BY <1>0, <3>1 DEF Account!Next, Account!Create
  <2>3. CASE IssueCommit(r)
    <3>1. inv = "DRAFT" /\ inv' = "ISSUED" /\ paid' = paid
      BY <2>3 DEF IssueCommit
    <3> QED BY <1>0, <3>1 DEF Account!Next, Account!Issue
  <2>4. CASE PaymentCommit(r) \/ DepositCommit(r) \/ WebhookCommit(r)
    <3>1. /\ paid' = paid + amount[r] /\ amount[r] >= 1 /\ Payable
          /\ inv' = PaidStatus(paid')
      BY <1>0, <2>4 DEF PaymentCommit, DepositCommit, WebhookCommit, StillSo, Relies
    <3>2. paid' > 0 /\ paid' # paid /\ paid' \in 0..Total
      BY <1>0, <3>1 DEF PaidWithinTotal
    <3>3. inv' = Account!Standing(paid')
      BY <3>1, <3>2 DEF PaidStatus, Account!Standing
    <3> QED BY <1>0, <3>1, <3>2, <3>3 DEF Payable, Account!Next, Account!Move
  <2>5. CASE RefundCommit(r)
    <3>1. /\ paid' = paid - amount[r] /\ amount[r] >= 1 /\ subject[r] \in Recorded
          /\ inv' = NetStatus(paid')
      BY <1>0, <2>5 DEF RefundCommit, PaidLess, StillSo, Relies
    <3>2. Payable
      BY <1>0, <3>1 DEF LedgerInv, NoMoneyOnDraft
    <3>3. paid' # paid /\ paid' \in 0..Total
      BY <1>0, <3>1 DEF PaidWithinTotal
    <3>4. inv' = Account!Standing(paid')
      BY <3>1 DEF NetStatus, Account!Standing
    <3> QED BY <1>0, <3>2, <3>3, <3>4 DEF Payable, Account!Next, Account!Move
  <2> QED BY <2>1, <2>2, <2>3, <2>4, <2>5
<1> QED BY <1>1, <1>2

\* While requests do not overlap, the books of an invoice are those of an account
\* that payments and refunds move and that a settled balance closes
\* (InvoiceAccount), for any total, payments, deposits and checkouts.
THEOREM LedgerIsAnAccount ==
  ASSUME NEW r, Requests = {r}
  PROVE  Spec => ImplementsAccount
<1>1. Init => Account!Init
  <2> SUFFICES ASSUME Init PROVE Account!Init
    OBVIOUS
  <2>1. SoleInv
    BY SoleInit
  <2> QED BY <2>1 DEF SoleInv, LedgerBalanced, Init, Account!Init
<1>2. SoleInv /\ [Next]_vars => SoleInv'
  BY SoleStep
<1>3. SoleInv /\ SoleInv' /\ [Next]_vars => [Account!Next]_(Account!vars)
  BY AccountStep
<1> QED BY <1>1, <1>2, <1>3, SoleInit, PTL DEF Spec, ImplementsAccount, Account!Spec
=============================================================================
