------------------------------ MODULE Estimate ------------------------------
(***************************************************************************)
(* The estimate of one work order: its revisions and change orders, what   *)
(* the customer decides about their lines, the status of the work order as *)
(* far as that depends on it, and the lines that reach the invoice.        *)
(* Source: src/modules/estimates/, work-orders/work-order-service.ts,      *)
(* invoices/invoice-service.ts, the public route of authorization links.   *)
(*                                                                         *)
(* An operation reads in a transaction at READ COMMITTED, decides, and     *)
(* writes: the load and the commit are two steps, and other requests may   *)
(* commit in between.  The public route runs without a transaction: each   *)
(* of its statements is a step.                                            *)
(***************************************************************************)
EXTENDS Integers, FiniteSets, WorkOrderStatus

CONSTANTS
  Requests,      \* requests that may be in flight at once
  MaxRevisions,  \* bound: documents of the work order
  Lines,         \* line ids
  Fees,          \* those of lines that presentation adds for shop fees
  GroupOf,       \* option group of a line, NoGroup for most
  NoGroup,
  Links,         \* bound: authorization links that are live or in use at once
  ByLink,        \* do customers decide by link, or staff on their behalf only?
  AutoApply,     \* changeOrderCreditPolicy = AUTO_APPLY
  ApprovedOnly   \* invoiceLinePolicy = APPROVED_ONLY

Revisions == 1..MaxRevisions

ASSUME EstimateAssumption ==
  /\ MaxRevisions \in Nat
  /\ Fees \subseteq Lines
  /\ \A l \in Fees : GroupOf[l] = NoGroup
  /\ {ByLink, AutoApply, ApprovedOnly} \subseteq BOOLEAN

VARIABLES
  wo,        \* work_orders.status
  status,    \* estimate_revisions.status, "NONE" for a number not yet used
  kind,      \* estimate_revisions.document_kind
  home,      \* the revision a line belongs to, 0 for an id not in use
  approved,  \* lines with an APPROVED decision
  declined,  \* lines with a DECLINED decision
  linkOf,    \* the revision of a live link; 0 if revoked, used or expired
  invoice,   \* has the work order an invoice?
  billed,    \* the lines it was made of
  pc,        \* what each request is about to do
  rev,       \* the revision it works on
  via,       \* the link it came by
  goal,      \* the status it moves the work order to
  from,      \* the status it read
  yes,       \* lines it is about to approve, to bill, to add or to remove
  no         \* lines it is about to decline

docVars == <<status, kind, home>>
decisionVars == <<approved, declined>>
invoiceVars == <<invoice, billed>>
memory == <<rev, via, goal, from, yes, no>>
vars == <<wo, docVars, decisionVars, linkOf, invoiceVars, pc, memory>>

NoLink == "no link"

Init ==
  /\ wo = "DRAFT"
  /\ status = [r \in Revisions |-> "NONE"]
  /\ kind = [r \in Revisions |-> "BASELINE"]
  /\ home = [l \in Lines |-> 0]
  /\ approved = {}
  /\ declined = {}
  /\ linkOf = [k \in Links |-> 0]
  /\ invoice = FALSE
  /\ billed = {}
  /\ pc = [q \in Requests |-> "idle"]
  /\ rev = [q \in Requests |-> 0]
  /\ via = [q \in Requests |-> NoLink]
  /\ goal = [q \in Requests |-> "DRAFT"]
  /\ from = [q \in Requests |-> "DRAFT"]
  /\ yes = [q \in Requests |-> {}]
  /\ no = [q \in Requests |-> {}]

-----------------------------------------------------------------------------
(* What the queries find. *)

LinesOf(r) == {l \in Lines : home[l] = r}
Decided == approved \cup declined
Presented(k) == {r \in Revisions : status[r] = "PRESENTED" /\ kind[r] = k}

\* nextNumber: one more than the latest revision's.
NextNumber == Cardinality({r \in Revisions : status[r] # "NONE"}) + 1

\* A presented change order with a line that nobody has decided on.
ChangeOrderPending ==
  \E r \in Presented("CHANGE_ORDER") : LinesOf(r) \ Decided # {}

\* Two lines are alternatives if they share an option group of one revision.
Alternatives(l, m) == l # m /\ GroupOf[l] = GroupOf[m] /\ GroupOf[l] # NoGroup

\* conflicting_options: two approvals in one option group.
Conflicting(picked) == \E l, m \in picked : Alternatives(l, m)

\* autoDeclined: what choosing an option implies for the undecided others.
\* Mutant: alternatives are left open.
AutoDeclinedNone(r, picked, submitted) == {}

AutoDeclined(r, picked, submitted) ==
  {l \in LinesOf(r) \ (submitted \cup Decided) : \E m \in picked : Alternatives(l, m)}

\* already_decided; mutant: not looked at.
UndecidedNot(submitted) == TRUE

Undecided(submitted) == submitted \cap Decided = {}

\* The lines of an invoice: of the latest presented baseline and all presented
\* change orders, approved if the one decision that was looked up says so.
Source ==
  LET baselines == Presented("BASELINE")
      latest == {r \in baselines : \A s \in baselines : s <= r}
  IN UNION {LinesOf(r) : r \in latest \cup Presented("CHANGE_ORDER")}

\* A line for which authorization_required is false would be billed as well; no
\* code writes anything but its default, true.

\* Mutant: a line that was declined as well as one that was approved.
BillableAll(lines) == lines \subseteq Source

Billable(lines) ==
  IF ApprovedOnly
  THEN /\ lines \subseteq Source \cap approved
       /\ (Source \cap approved) \ declined \subseteq lines
  ELSE lines = Source

\* assertTransitionPrerequisites.  Mutant: the decisions of a change order
\* authorize the work order too, and so does a decline.
PrerequisitesLax(target) ==
  target = "AWAITING_AUTHORIZATION" => \E r \in Revisions : status[r] = "PRESENTED"

Prerequisites(target) ==
  /\ target = "AWAITING_AUTHORIZATION" => \E r \in Revisions : status[r] = "PRESENTED"
  /\ target = "AUTHORIZED" => \E l \in approved : kind[home[l]] = "BASELINE"
  /\ target = "COMPLETED" => ~ChangeOrderPending

-----------------------------------------------------------------------------
(* Requests. *)

\* A request begins its work on a revision and keeps what it has read.
Begin(q, step, r, y, n) ==
  /\ pc[q] = "idle"
  /\ pc' = [pc EXCEPT ![q] = step]
  /\ rev' = [rev EXCEPT ![q] = r]
  /\ yes' = [yes EXCEPT ![q] = y]
  /\ no' = [no EXCEPT ![q] = n]

Forget(q) ==
  /\ rev' = [rev EXCEPT ![q] = 0]
  /\ via' = [via EXCEPT ![q] = NoLink]
  /\ goal' = [goal EXCEPT ![q] = "DRAFT"]
  /\ from' = [from EXCEPT ![q] = "DRAFT"]
  /\ yes' = [yes EXCEPT ![q] = {}]
  /\ no' = [no EXCEPT ![q] = {}]

Finish(q) == pc' = [pc EXCEPT ![q] = "idle"] /\ Forget(q)

\* A request that fails: its transaction rolls back, or the process dies
\* between two statements of the public route or before a follow-up.
Fail(q) ==
  /\ pc[q] # "idle"
  /\ Finish(q)
  /\ UNCHANGED <<wo, docVars, decisionVars, linkOf, invoiceVars>>

NewRevision(r, k) ==
  /\ r \in Revisions
  /\ status[r] = "NONE"
  /\ kind' = [kind EXCEPT ![r] = k]

\* createDraftRevision; of two that read the same latest number the second
\* fails on estimate_revision_number_unique, so it is one step.
CreateDraftRevision ==
  /\ NewRevision(NextNumber, "BASELINE")
  /\ status' = [status EXCEPT ![NextNumber] = "DRAFT"]
  /\ UNCHANGED <<wo, home, decisionVars, linkOf, invoiceVars, pc, memory>>

\* createChangeOrder: the work order is in the shop, no change order is
\* pending and there is a presented baseline.
LoadForChangeOrder(q) ==
  /\ wo \in {"AUTHORIZED", "IN_PROGRESS"}
  /\ ~ChangeOrderPending
  /\ Presented("BASELINE") # {}
  /\ NextNumber \in Revisions
  /\ Begin(q, "changeOrder", NextNumber, {}, {})
  /\ UNCHANGED <<wo, docVars, decisionVars, linkOf, invoiceVars, via, goal, from>>

CreateChangeOrder(q) ==
  /\ pc[q] = "changeOrder"
  /\ NewRevision(rev[q], "CHANGE_ORDER")
  /\ status' = [status EXCEPT ![rev[q]] = "DRAFT"]
  /\ Finish(q)
  /\ UNCHANGED <<wo, home, decisionVars, linkOf, invoiceVars>>

\* An id for a new line: ids are random, so no request knows it yet.
FreeLine(l) == home[l] = 0 /\ \A q \in Requests : l \notin yes[q] \cup no[q]

\* addLine, removeLine: both check that the revision they read is a draft.
LoadToEdit(q) ==
  /\ \E r \in Revisions, l \in Lines \ Fees :
       /\ status[r] = "DRAFT"
       /\ \/ FreeLine(l) /\ Begin(q, "add", r, {l}, {})
          \/ home[l] = r /\ Begin(q, "remove", r, {l}, {})
  /\ UNCHANGED <<wo, docVars, decisionVars, linkOf, invoiceVars, via, goal, from>>

AddLine(q) ==
  /\ pc[q] = "add"
  /\ home' = [l \in Lines |-> IF l \in yes[q] THEN rev[q] ELSE home[l]]
  /\ Finish(q)
  /\ UNCHANGED <<wo, status, kind, decisionVars, linkOf, invoiceVars>>

\* Foreign keys without ON DELETE keep a line that a decision or an invoice line
\* refers to.  Mutant: they cascade.
ReferencedNone == {}

Referenced == Decided \cup billed

\* The line must still be the revision's (deleted.count).
RemoveLine(q) ==
  /\ pc[q] = "remove"
  /\ \A l \in yes[q] : home[l] = rev[q] /\ l \notin Referenced
  /\ home' = [l \in Lines |-> IF l \in yes[q] THEN 0 ELSE home[l]]
  /\ Finish(q)
  /\ UNCHANGED <<wo, status, kind, decisionVars, linkOf, invoiceVars>>

\* Presentation adds the shop fees that apply and are not there yet.
WithFees(r, fees) == [l \in Lines |-> IF l \in fees THEN r ELSE home[l]]

\* The links of a newly presented revision: those of other revisions are
\* revoked and a fresh one is issued.
IssueLink(r, k) ==
  linkOf' = [j \in Links |-> IF j = k THEN r ELSE IF linkOf[j] = r THEN r ELSE 0]

\* An id for a new link: not live, and no request that came by it is at work.
FreeLink(k) == linkOf[k] = 0 /\ \A q \in Requests : via[q] # k

\* presentRevision, presentChangeOrder: the draft is read, with its lines.
LoadToPresent(q) ==
  /\ \E r \in Revisions :
       /\ status[r] = "DRAFT"
       /\ \/ kind[r] = "BASELINE" /\ Begin(q, "present", r, {}, {})
          \/ /\ kind[r] = "CHANGE_ORDER"
             /\ LinesOf(r) # {}
             /\ Begin(q, "presentChangeOrder", r, LinesOf(r), {})
  /\ UNCHANGED <<wo, docVars, decisionVars, linkOf, invoiceVars, via, goal, from>>

\* updateMany where status is DRAFT.
Seal(r) == status[r] = "DRAFT" /\ status' = [status EXCEPT ![r] = "PRESENTED"]

PresentRevision(q) ==
  /\ pc[q] = "present"
  /\ Seal(rev[q])
  /\ \E fees \in SUBSET {l \in Fees : FreeLine(l)} : home' = WithFees(rev[q], fees)
  /\ \E k \in Links : FreeLink(k) /\ IssueLink(rev[q], k)
  /\ pc' = [pc EXCEPT ![q] = "presented"]
  /\ UNCHANGED <<wo, kind, decisionVars, invoiceVars, memory>>

\* The customer is asked: a link is issued.
PresentChangeOrder(q) ==
  /\ pc[q] = "presentChangeOrder"
  /\ Seal(rev[q])
  /\ \E fees \in SUBSET {l \in Fees : FreeLine(l)} : home' = WithFees(rev[q], fees)
  /\ \E k \in Links : FreeLink(k) /\ IssueLink(rev[q], k)
  /\ Finish(q)
  /\ UNCHANGED <<wo, kind, decisionVars, invoiceVars>>

\* A net reduction is approved by the system: the lines read before the fees
\* were added.
ApplyChangeOrder(q) ==
  /\ AutoApply
  /\ pc[q] = "presentChangeOrder"
  /\ Seal(rev[q])
  /\ \E fees \in SUBSET {l \in Fees : FreeLine(l)} : home' = WithFees(rev[q], fees)
  /\ \A l \in yes[q] : home[l] = rev[q]
  /\ approved' = approved \cup yes[q]
  /\ Finish(q)
  /\ UNCHANGED <<wo, kind, declined, linkOf, invoiceVars>>

\* After presentRevision has committed, the work order is read.
FollowPresented(q) ==
  /\ pc[q] = "presented"
  /\ \/ wo = "DRAFT" /\ pc' = [pc EXCEPT ![q] = "toEstimating"] /\ UNCHANGED memory
     \/ wo = "AWAITING_AUTHORIZATION" /\ Finish(q)
     \/ /\ wo \notin {"DRAFT", "AWAITING_AUTHORIZATION"}
        /\ pc' = [pc EXCEPT ![q] = "toAwaiting"]
        /\ UNCHANGED memory
  /\ UNCHANGED <<wo, docVars, decisionVars, linkOf, invoiceVars>>

\* supersedeRevision: presented, and no line decided.  Its new number and the
\* number of a change order are unique, which rules out all but the latest
\* revision and every change order.
LoadToSupersede(q) ==
  /\ \E r \in Presented("BASELINE") :
       /\ Undecided(LinesOf(r))
       /\ Begin(q, "supersede", r, {}, {})
  /\ UNCHANGED <<wo, docVars, decisionVars, linkOf, invoiceVars, via, goal, from>>

SupersedeRevision(q) ==
  /\ pc[q] = "supersede"
  /\ NewRevision(rev[q] + 1, kind[rev[q]])
  /\ status' = [status EXCEPT ![rev[q]] = "SUPERSEDED", ![rev[q] + 1] = "DRAFT"]
  /\ Finish(q)
  /\ UNCHANGED <<wo, home, decisionVars, linkOf, invoiceVars>>

\* voidChangeOrder.
LoadToVoid(q) ==
  /\ \E r \in Presented("CHANGE_ORDER") :
       /\ Undecided(LinesOf(r))
       /\ Begin(q, "void", r, {}, {})
  /\ UNCHANGED <<wo, docVars, decisionVars, linkOf, invoiceVars, via, goal, from>>

VoidChangeOrder(q) ==
  /\ pc[q] = "void"
  /\ status[rev[q]] = "PRESENTED"
  /\ status' = [status EXCEPT ![rev[q]] = "VOIDED"]
  /\ linkOf' = [k \in Links |-> IF linkOf[k] = rev[q] THEN 0 ELSE linkOf[k]]
  /\ Finish(q)
  /\ UNCHANGED <<wo, kind, home, decisionVars, invoiceVars>>

-----------------------------------------------------------------------------
(* Links. *)

\* createAuthorizationLink and resendAuthorizationLink, which revokes the
\* revision's own links first; of both only the read is done before.
LoadForLink(q) ==
  /\ \E r \in Revisions, step \in {"link", "resend"} :
       status[r] = "PRESENTED" /\ Begin(q, step, r, {}, {})
  /\ UNCHANGED <<wo, docVars, decisionVars, linkOf, invoiceVars, via, goal, from>>

CreateAuthorizationLink(q) ==
  /\ pc[q] = "link"
  /\ \E k \in Links : FreeLink(k) /\ linkOf' = [linkOf EXCEPT ![k] = rev[q]]
  /\ Finish(q)
  /\ UNCHANGED <<wo, docVars, decisionVars, invoiceVars>>

ResendAuthorizationLink(q) ==
  /\ pc[q] = "resend"
  /\ \E k \in Links :
       /\ FreeLink(k)
       /\ linkOf' = [j \in Links |-> IF j = k THEN rev[q]
                                     ELSE IF linkOf[j] = rev[q] THEN 0 ELSE linkOf[j]]
  /\ Finish(q)
  /\ UNCHANGED <<wo, docVars, decisionVars, invoiceVars>>

\* revokeAuthorizationLink, or expires_at passes.
LinkEnds(k) ==
  /\ linkOf[k] # 0
  /\ linkOf' = [linkOf EXCEPT ![k] = 0]
  /\ UNCHANGED <<wo, docVars, decisionVars, invoiceVars, pc, memory>>

-----------------------------------------------------------------------------
(* Decisions. *)

\* recordAuthorization, by staff on the customer's behalf: of a presented
\* revision, no line twice, no two options of a group.
LoadDecisions(q) ==
  /\ \E r \in Revisions : \E picked, refused \in SUBSET LinesOf(r) :
       /\ status[r] = "PRESENTED"
       /\ picked \cup refused # {}
       /\ picked \cap refused = {}
       /\ ~Conflicting(picked)
       /\ Undecided(picked \cup refused)
       /\ Begin(q, "decide", r, picked,
                refused \cup AutoDeclined(r, picked, picked \cup refused))
  /\ UNCHANGED <<wo, docVars, decisionVars, linkOf, invoiceVars, via, goal, from>>

RecordAuthorization(q) ==
  /\ pc[q] = "decide"
  /\ \A l \in yes[q] \cup no[q] : home[l] = rev[q]
  /\ approved' = approved \cup yes[q]
  /\ declined' = declined \cup no[q]
  /\ IF yes[q] # {} THEN pc' = [pc EXCEPT ![q] = "decided"] /\ UNCHANGED memory
                    ELSE Finish(q)
  /\ UNCHANGED <<wo, docVars, linkOf, invoiceVars>>

\* After the commit: the revision is read again, and must still be presented.
FollowDecided(q) ==
  /\ pc[q] = "decided"
  /\ IF status[rev[q]] = "PRESENTED"
     THEN pc' = [pc EXCEPT ![q] = "toAuthorized"] /\ UNCHANGED memory
     ELSE Finish(q)
  /\ UNCHANGED <<wo, docVars, decisionVars, linkOf, invoiceVars>>

\* The public route: a live link, and lines of its revision.
OpenLink(q) ==
  /\ ByLink
  /\ \E k \in Links :
       /\ linkOf[k] # 0
       /\ \E picked, refused \in SUBSET LinesOf(linkOf[k]) :
            /\ picked \cup refused # {}
            /\ picked \cap refused = {}
            /\ Begin(q, IF picked # {} THEN "linkApproves" ELSE "linkDeclines",
                     linkOf[k], picked, refused)
       /\ via' = [via EXCEPT ![q] = k]
  /\ UNCHANGED <<wo, docVars, decisionVars, linkOf, invoiceVars, goal, from>>

LinkSteps == {"linkApproves", "linkDeclines"}

\* One authorizationDecision.create of its loop.
RecordByLink(q) ==
  /\ pc[q] \in LinkSteps
  /\ \/ \E l \in yes[q] :
          /\ home[l] # 0
          /\ approved' = approved \cup {l}
          /\ yes' = [yes EXCEPT ![q] = @ \ {l}]
          /\ UNCHANGED <<declined, no>>
     \/ \E l \in no[q] :
          /\ home[l] # 0
          /\ declined' = declined \cup {l}
          /\ no' = [no EXCEPT ![q] = @ \ {l}]
          /\ UNCHANGED <<approved, yes>>
  /\ UNCHANGED <<wo, docVars, linkOf, invoiceVars, pc, rev, via, goal, from>>

\* markLinkUsed, and on to the work order if a line was approved.
MarkLinkUsed(q) ==
  /\ pc[q] \in LinkSteps
  /\ yes[q] = {} /\ no[q] = {}
  /\ linkOf' = [linkOf EXCEPT ![via[q]] = 0]
  /\ IF pc[q] = "linkApproves"
     THEN pc' = [pc EXCEPT ![q] = "linkUsed"] /\ UNCHANGED memory
     ELSE Finish(q)
  /\ UNCHANGED <<wo, docVars, decisionVars, invoiceVars>>

\* workOrder.updateMany where status is AWAITING_AUTHORIZATION, by itself.
AuthorizeByLink(q) ==
  /\ pc[q] = "linkUsed"
  /\ wo' = IF wo = "AWAITING_AUTHORIZATION" THEN "AUTHORIZED" ELSE wo
  /\ Finish(q)
  /\ UNCHANGED <<docVars, decisionVars, linkOf, invoiceVars>>

-----------------------------------------------------------------------------
(* The work order and its invoice. *)

Targets == [toEstimating |-> "ESTIMATING", toAwaiting |-> "AWAITING_AUTHORIZATION",
            toAuthorized |-> "AUTHORIZED"]

\* transitionStatus reads the work order, by itself or as a follow-up, and
\* finds the transition valid and its prerequisites met.
LoadMove(q) ==
  /\ \E target \in WorkOrderStatuses :
       /\ \/ pc[q] = "idle"
          \/ pc[q] \in DOMAIN Targets /\ target = Targets[pc[q]]
       /\ CanTransition(wo, target)
       /\ Prerequisites(target)
       /\ goal' = [goal EXCEPT ![q] = target]
  /\ from' = [from EXCEPT ![q] = wo]
  /\ pc' = [pc EXCEPT ![q] = IF pc[q] = "toEstimating" THEN "moveOn" ELSE "move"]
  /\ UNCHANGED <<wo, docVars, decisionVars, linkOf, invoiceVars, rev, via, yes, no>>

\* What follows a follow-up, whatever became of it: presentRevision tries
\* ESTIMATING first, and AWAITING_AUTHORIZATION then.
After(q) ==
  IF pc[q] \in {"toEstimating", "moveOn"}
  THEN pc' = [pc EXCEPT ![q] = "toAwaiting"] /\ UNCHANGED memory
  ELSE Finish(q)

\* The follow-up finds the transition invalid, or fails for another reason.
FollowUpFails(q) ==
  /\ pc[q] \in DOMAIN Targets
  /\ After(q)
  /\ UNCHANGED <<wo, docVars, decisionVars, linkOf, invoiceVars>>

\* updateMany where the status is the one that was read: concurrent_change.
TransitionStatus(q) ==
  /\ pc[q] \in {"move", "moveOn"}
  /\ wo' = IF wo = from[q] THEN goal[q] ELSE wo
  /\ After(q)
  /\ UNCHANGED <<docVars, decisionVars, linkOf, invoiceVars>>

\* createInvoiceFromWorkOrder: the work order was authorized, no change order
\* is pending, the lines are collected.
LoadForInvoice(q) ==
  /\ ~invoice
  /\ wo \in {"COMPLETED", "AUTHORIZED", "IN_PROGRESS"}
  /\ ~ChangeOrderPending
  /\ \E lines \in SUBSET Lines : Billable(lines) /\ Begin(q, "invoice", 0, lines, {})
  /\ UNCHANGED <<wo, docVars, decisionVars, linkOf, invoiceVars, via, goal, from>>

\* invoices_org_location_work_order_unique.
CreateInvoice(q) ==
  /\ pc[q] = "invoice"
  /\ ~invoice
  /\ invoice' = TRUE
  /\ billed' = yes[q]
  /\ Finish(q)
  /\ UNCHANGED <<wo, docVars, decisionVars, linkOf>>

-----------------------------------------------------------------------------

Next ==
  \/ CreateDraftRevision
  \/ \E k \in Links : LinkEnds(k)
  \/ \E q \in Requests :
       \/ LoadForChangeOrder(q) \/ CreateChangeOrder(q)
       \/ LoadToEdit(q) \/ AddLine(q) \/ RemoveLine(q)
       \/ LoadToPresent(q) \/ PresentRevision(q) \/ FollowPresented(q)
       \/ PresentChangeOrder(q) \/ ApplyChangeOrder(q)
       \/ LoadToSupersede(q) \/ SupersedeRevision(q)
       \/ LoadToVoid(q) \/ VoidChangeOrder(q)
       \/ LoadForLink(q) \/ CreateAuthorizationLink(q) \/ ResendAuthorizationLink(q)
       \/ LoadDecisions(q) \/ RecordAuthorization(q) \/ FollowDecided(q)
       \/ OpenLink(q) \/ RecordByLink(q) \/ MarkLinkUsed(q) \/ AuthorizeByLink(q)
       \/ LoadMove(q) \/ FollowUpFails(q) \/ TransitionStatus(q)
       \/ LoadForInvoice(q) \/ CreateInvoice(q)
       \/ Fail(q)

Spec == Init /\ [][Next]_vars

-----------------------------------------------------------------------------
(* Properties. *)

Statuses == {"NONE", "DRAFT", "PRESENTED", "SUPERSEDED", "VOIDED"}
Kinds == {"BASELINE", "CHANGE_ORDER"}
Steps == {"idle", "changeOrder", "add", "remove", "present", "presentChangeOrder",
          "presented", "supersede", "void", "link", "resend", "decide", "decided",
          "move", "moveOn", "invoice", "linkUsed"} \cup LinkSteps \cup DOMAIN Targets

\* Every variable keeps its type; a decision is about a line that exists, and
\* the line of a revision belongs to one that was created.
TypeOK ==
  /\ wo \in WorkOrderStatuses
  /\ status \in [Revisions -> Statuses]
  /\ kind \in [Revisions -> Kinds]
  /\ home \in [Lines -> Revisions \cup {0}]
  /\ approved \subseteq Lines /\ declined \subseteq Lines
  /\ linkOf \in [Links -> Revisions \cup {0}]
  /\ invoice \in BOOLEAN /\ billed \subseteq Lines
  /\ pc \in [Requests -> Steps]
  /\ rev \in [Requests -> Revisions \cup {0}]
  /\ via \in [Requests -> Links \cup {NoLink}]
  /\ goal \in [Requests -> WorkOrderStatuses]
  /\ from \in [Requests -> WorkOrderStatuses]
  /\ yes \in [Requests -> SUBSET Lines]
  /\ no \in [Requests -> SUBSET Lines]
  /\ \A l \in Decided : home[l] # 0
  /\ \A l \in Lines : home[l] # 0 => status[home[l]] # "NONE"

Committed == {"AUTHORIZED", "IN_PROGRESS", "BLOCKED", "COMPLETED", "INVOICED", "CLOSED"}

\* However requests overlap and whichever way customers decide, a work order is
\* worked on only once a line of its estimate, not of a change order, was
\* approved (prerequisites of transitionStatus, AuthorizeByLink).
AuthorizedMeansApproved ==
  wo \in Committed => \E l \in approved : home[l] # 0 /\ kind[home[l]] = "BASELINE"

\* Under APPROVED_ONLY no line is billed that was not approved, however long ago
\* the request that makes the invoice has read the decisions.
InvoicedWasApproved == ApprovedOnly => billed \subseteq approved

Stage(l) ==
  IF home[l] = 0 THEN "none"
  ELSE IF l \in approved THEN "approved"
  ELSE IF l \in declined THEN "declined"
  ELSE IF status[home[l]] = "DRAFT" THEN "draft"
  ELSE IF status[home[l]] = "PRESENTED" THEN "offered" ELSE "withdrawn"

Promise == INSTANCE Agreement WITH
  Documents <- Revisions, place <- home, stage <- [l \in Lines |-> Stage(l)]

\* While requests do not overlap and staff record the decisions, the service
\* keeps the agreement: lines are drafted, offered with their document, decided
\* once and for good or withdrawn with it.
ImplementsAgreement == Promise!Spec
=============================================================================
