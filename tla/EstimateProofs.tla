--------------------------- MODULE EstimateProofs ---------------------------
(***************************************************************************)
(* Proofs about Estimate, for any requests, lines, revisions and links,    *)
(* whichever way customers decide; and for requests at the counter that do *)
(* not overlap, that the agreement with the customer is kept.              *)
(***************************************************************************)
EXTENDS Estimate, TLAPS

\* The steps that write to the revision the request has loaded.
OnRevision == {"add", "remove", "present", "presentChangeOrder", "supersede", "void",
               "link", "resend", "decide", "linkApproves", "linkDeclines", "linkUsed"}

\* The revision a request has loaded exists, and is the one it was.
RevisionKnown ==
  \A q \in Requests :
    /\ pc[q] \in OnRevision => rev[q] \in Revisions /\ status[rev[q]] # "NONE"
    /\ pc[q] = "supersede" => kind[rev[q]] = "BASELINE"
    /\ pc[q] = "changeOrder" => rev[q] \in Revisions

TypeInv == TypeOK /\ RevisionKnown

\* Zero, the revision of a line that does not exist, is no revision.
LEMMA RevisionsPositive == \A r \in Revisions : r # 0
BY EstimateAssumption DEF Revisions

-----------------------------------------------------------------------------
(* What a step may do to the state of the requests. *)

\* A request that begins remembers values of the right types.
LEMMA Begins ==
  ASSUME TypeOK, NEW q \in Requests, NEW step \in Steps, NEW r \in Revisions \cup {0},
         NEW y \in SUBSET Lines, NEW n \in SUBSET Lines, Begin(q, step, r, y, n)
  PROVE  /\ pc' \in [Requests -> Steps]
         /\ rev' \in [Requests -> Revisions \cup {0}]
         /\ yes' \in [Requests -> SUBSET Lines]
         /\ no' \in [Requests -> SUBSET Lines]
         /\ pc'[q] = step /\ rev'[q] = r /\ yes'[q] = y /\ no'[q] = n
         /\ \A p \in Requests \ {q} :
              pc'[p] = pc[p] /\ rev'[p] = rev[p] /\ yes'[p] = yes[p] /\ no'[p] = no[p]
BY DEF TypeOK, Begin

\* A request that ends forgets what it remembered.
LEMMA Finishes ==
  ASSUME TypeOK, NEW q \in Requests, Finish(q)
  PROVE  /\ pc' \in [Requests -> Steps]
         /\ rev' \in [Requests -> Revisions \cup {0}]
         /\ via' \in [Requests -> Links \cup {NoLink}]
         /\ goal' \in [Requests -> WorkOrderStatuses]
         /\ from' \in [Requests -> WorkOrderStatuses]
         /\ yes' \in [Requests -> SUBSET Lines]
         /\ no' \in [Requests -> SUBSET Lines]
         /\ pc'[q] = "idle" /\ yes'[q] = {} /\ no'[q] = {}
         /\ \A p \in Requests \ {q} :
              /\ pc'[p] = pc[p] /\ rev'[p] = rev[p] /\ via'[p] = via[p]
              /\ goal'[p] = goal[p] /\ from'[p] = from[p]
              /\ yes'[p] = yes[p] /\ no'[p] = no[p]
<1>1. "idle" \in Steps /\ "DRAFT" \in WorkOrderStatuses
  BY DEF Steps, WorkOrderStatuses
<1> QED BY <1>1 DEF TypeOK, Finish, Forget

\* Revisions are never forgotten, and keep their kind.
Later ==
  \A r \in Revisions : status[r] # "NONE" => status'[r] # "NONE" /\ kind'[r] = kind[r]

\* A loaded revision stays known while its request and it are left alone.
LEMMA Remembered ==
  ASSUME RevisionKnown, Later, NEW q \in Requests,
         \A p \in Requests \ {q} : pc'[p] = pc[p] /\ rev'[p] = rev[p],
         pc'[q] \in OnRevision => rev'[q] \in Revisions /\ status'[rev'[q]] # "NONE",
         pc'[q] = "supersede" => kind'[rev'[q]] = "BASELINE",
         pc'[q] = "changeOrder" => rev'[q] \in Revisions
  PROVE  RevisionKnown'
<1>1. ASSUME NEW p \in Requests \ {q}
      PROVE  /\ pc'[p] \in OnRevision => rev'[p] \in Revisions /\ status'[rev'[p]] # "NONE"
             /\ pc'[p] = "supersede" => kind'[rev'[p]] = "BASELINE"
             /\ pc'[p] = "changeOrder" => rev'[p] \in Revisions
  <2>1. "supersede" \in OnRevision
    BY DEF OnRevision
  <2> QED BY <2>1 DEF RevisionKnown, Later
<1> QED BY <1>1 DEF RevisionKnown

\* A request begins: it leaves the documents alone.
LEMMA LoadStep ==
  ASSUME TypeInv, NEW q \in Requests, NEW step \in Steps, NEW r \in Revisions \cup {0},
         NEW y \in SUBSET Lines, NEW n \in SUBSET Lines, Begin(q, step, r, y, n),
         step \in OnRevision => r \in Revisions /\ status[r] # "NONE",
         step = "supersede" => kind[r] = "BASELINE",
         step = "changeOrder" => r \in Revisions,
         via' \in [Requests -> Links \cup {NoLink}],
         UNCHANGED <<wo, docVars, decisionVars, linkOf, invoiceVars, goal, from>>
  PROVE  TypeInv' /\ Later
<1> USE DEF TypeInv, docVars, decisionVars, invoiceVars
<1>1. /\ pc' \in [Requests -> Steps]
      /\ rev' \in [Requests -> Revisions \cup {0}]
      /\ yes' \in [Requests -> SUBSET Lines]
      /\ no' \in [Requests -> SUBSET Lines]
      /\ pc'[q] = step /\ rev'[q] = r /\ yes'[q] = y /\ no'[q] = n
      /\ \A p \in Requests \ {q} :
           pc'[p] = pc[p] /\ rev'[p] = rev[p] /\ yes'[p] = yes[p] /\ no'[p] = no[p]
  BY Begins
<1>2. TypeOK'
  BY <1>1 DEF TypeOK, Decided
<1>3. Later
  BY DEF Later
<1>4. RevisionKnown'
  BY <1>1, <1>3, Remembered
<1> QED BY <1>2, <1>3, <1>4

\* A request ends; what it has written is of the right type.
LEMMA EndStep ==
  ASSUME TypeInv, Later, NEW q \in Requests, Finish(q),
         wo' \in WorkOrderStatuses,
         status' \in [Revisions -> Statuses],
         kind' \in [Revisions -> Kinds],
         home' \in [Lines -> Revisions \cup {0}],
         approved' \in SUBSET Lines, declined' \in SUBSET Lines,
         linkOf' \in [Links -> Revisions \cup {0}],
         invoice' \in BOOLEAN, billed' \in SUBSET Lines,
         \A l \in approved' \cup declined' : home'[l] # 0,
         \A l \in Lines : home'[l] # 0 => status'[home'[l]] # "NONE"
  PROVE  TypeInv'
<1> USE DEF TypeInv
<1>1. /\ pc' \in [Requests -> Steps]
      /\ rev' \in [Requests -> Revisions \cup {0}]
      /\ via' \in [Requests -> Links \cup {NoLink}]
      /\ goal' \in [Requests -> WorkOrderStatuses]
      /\ from' \in [Requests -> WorkOrderStatuses]
      /\ yes' \in [Requests -> SUBSET Lines]
      /\ no' \in [Requests -> SUBSET Lines]
      /\ pc'[q] = "idle"
      /\ \A p \in Requests \ {q} : pc'[p] = pc[p] /\ rev'[p] = rev[p]
  BY Finishes
<1>2. TypeOK'
  BY <1>1 DEF TypeOK, Decided
<1>3. pc'[q] \notin OnRevision \cup {"supersede", "changeOrder"}
  BY <1>1 DEF OnRevision
<1>4. RevisionKnown'
  BY <1>1, <1>3, Remembered
<1> QED BY <1>2, <1>4

\* A request goes on to a step that does not use its revision's state.
LEMMA GoOnStep ==
  ASSUME TypeInv, Later, NEW q \in Requests, NEW step \in Steps,
         step \notin OnRevision \cup {"supersede", "changeOrder"} \/ step = pc[q],
         pc' = [pc EXCEPT ![q] = step],
         rev' = rev,
         via' \in [Requests -> Links \cup {NoLink}],
         goal' \in [Requests -> WorkOrderStatuses],
         from' \in [Requests -> WorkOrderStatuses],
         yes' \in [Requests -> SUBSET Lines],
         no' \in [Requests -> SUBSET Lines],
         wo' \in WorkOrderStatuses,
         status' \in [Revisions -> Statuses],
         kind' = kind,
         home' \in [Lines -> Revisions \cup {0}],
         approved' \in SUBSET Lines, declined' \in SUBSET Lines,
         linkOf' \in [Links -> Revisions \cup {0}],
         UNCHANGED invoiceVars,
         \A l \in approved' \cup declined' : home'[l] # 0,
         \A l \in Lines : home'[l] # 0 => status'[home'[l]] # "NONE"
  PROVE  TypeInv'
<1> USE DEF TypeInv
<1>1. /\ pc' \in [Requests -> Steps]
      /\ pc'[q] = step
      /\ \A p \in Requests \ {q} : pc'[p] = pc[p]
  BY DEF TypeOK
<1>2. TypeOK'
  BY <1>1 DEF TypeOK, Decided, invoiceVars
<1>3. RevisionKnown'
  BY <1>1 DEF RevisionKnown, Later
<1> QED BY <1>2, <1>3

\* The numbers of new revisions were free.
LEMMA NewRevisionLater ==
  ASSUME TypeOK, NEW r, NEW k \in Kinds, NewRevision(r, k),
         NEW others \in [Revisions -> Statuses],
         \A s \in Revisions : status[s] # "NONE" => others[s] # "NONE",
         status' = [others EXCEPT ![r] = "DRAFT"]
  PROVE  Later /\ status' \in [Revisions -> Statuses] /\ kind' \in [Revisions -> Kinds]
BY DEF TypeOK, NewRevision, Later, Statuses

\* Sealing a draft and adding fees to it.
LEMMA SealTyped ==
  ASSUME TypeOK, NEW r \in Revisions, Seal(r), kind' = kind,
         NEW fees \in SUBSET {l \in Fees : FreeLine(l)}, home' = WithFees(r, fees)
  PROVE  /\ Later
         /\ status' \in [Revisions -> Statuses]
         /\ home' \in [Lines -> Revisions \cup {0}]
         /\ \A l \in Lines : home[l] # 0 => home'[l] = home[l]
         /\ \A l \in Lines : home'[l] # 0 => status'[home'[l]] # "NONE"
<1>1. Later /\ status' \in [Revisions -> Statuses]
  BY DEF TypeOK, Seal, Later, Statuses
<1>2. /\ home' \in [Lines -> Revisions \cup {0}]
      /\ \A l \in Lines : home'[l] = IF l \in fees THEN r ELSE home[l]
  BY DEF TypeOK, WithFees
<1>3. \A l \in fees : home[l] = 0
  BY DEF FreeLine
<1>4. status'[r] # "NONE"
  BY DEF TypeOK, Seal
<1> QED BY <1>1, <1>2, <1>3, <1>4 DEF TypeOK, Later

\* Issuing a link leaves every link with a revision or none.
LEMMA LinksTyped ==
  ASSUME TypeOK, NEW r \in Revisions, NEW k
  PROVE  IssueLink(r, k) => linkOf' \in [Links -> Revisions \cup {0}]
BY DEF TypeOK, IssueLink

\* The initial state has its types.
LEMMA InitTypes == Init => TypeInv
<1> SUFFICES ASSUME Init PROVE TypeInv
  OBVIOUS
<1>1. "DRAFT" \in WorkOrderStatuses /\ "idle" \in Steps
  BY DEF WorkOrderStatuses, Steps
<1>2. TypeOK
  BY <1>1 DEF Init, TypeOK, Decided, Statuses, Kinds
<1>3. RevisionKnown
  BY DEF Init, RevisionKnown, OnRevision
<1> QED BY <1>2, <1>3 DEF TypeInv

\* The requests that begin.
LEMMA LoadsTyped ==
  ASSUME TypeInv, NEW q \in Requests,
         \/ LoadForChangeOrder(q) \/ LoadToEdit(q) \/ LoadToPresent(q)
         \/ LoadToSupersede(q) \/ LoadToVoid(q) \/ LoadForLink(q)
         \/ LoadDecisions(q) \/ OpenLink(q) \/ LoadForInvoice(q)
  PROVE  TypeInv' /\ Later
<1> USE DEF Steps, OnRevision
<1>0. TypeOK
  BY DEF TypeInv
<1>1. CASE LoadForChangeOrder(q)
  <2>1. NextNumber \in Revisions /\ Begin(q, "changeOrder", NextNumber, {}, {})
    BY <1>1 DEF LoadForChangeOrder
  <2>2. via' \in [Requests -> Links \cup {NoLink}]
    BY <1>0, <1>1 DEF LoadForChangeOrder, TypeOK
  <2>3. UNCHANGED <<wo, docVars, decisionVars, linkOf, invoiceVars, goal, from>>
    BY <1>1 DEF LoadForChangeOrder
  <2> QED BY <2>1, <2>2, <2>3, LoadStep
<1>2. CASE LoadToEdit(q)
  <2>1. PICK r \in Revisions, l \in Lines \ Fees :
          /\ status[r] = "DRAFT"
          /\ Begin(q, "add", r, {l}, {}) \/ Begin(q, "remove", r, {l}, {})
    BY <1>2 DEF LoadToEdit
  <2>2. via' \in [Requests -> Links \cup {NoLink}]
    BY <1>0, <1>2 DEF LoadToEdit, TypeOK
  <2>3. UNCHANGED <<wo, docVars, decisionVars, linkOf, invoiceVars, goal, from>>
    BY <1>2 DEF LoadToEdit
  <2> QED BY <2>1, <2>2, <2>3, LoadStep
<1>3. CASE LoadToPresent(q)
  <2>1. PICK r \in Revisions :
          /\ status[r] = "DRAFT"
          /\ Begin(q, "present", r, {}, {})
             \/ Begin(q, "presentChangeOrder", r, LinesOf(r), {})
    BY <1>3 DEF LoadToPresent
  <2>2. via' \in [Requests -> Links \cup {NoLink}]
    BY <1>0, <1>3 DEF LoadToPresent, TypeOK
  <2>3. UNCHANGED <<wo, docVars, decisionVars, linkOf, invoiceVars, goal, from>>
    BY <1>3 DEF LoadToPresent
  <2>4. LinesOf(r) \in SUBSET Lines
    BY DEF LinesOf
  <2> QED BY <2>1, <2>2, <2>3, <2>4, LoadStep
<1>4. CASE LoadToSupersede(q)
  <2>1. PICK r \in Presented("BASELINE") : Begin(q, "supersede", r, {}, {})
    BY <1>4 DEF LoadToSupersede
  <2>2. via' \in [Requests -> Links \cup {NoLink}]
    BY <1>0, <1>4 DEF LoadToSupersede, TypeOK
  <2>3. UNCHANGED <<wo, docVars, decisionVars, linkOf, invoiceVars, goal, from>>
    BY <1>4 DEF LoadToSupersede
  <2>4. r \in Revisions /\ status[r] # "NONE" /\ kind[r] = "BASELINE"
    BY DEF Presented
  <2> QED BY <2>1, <2>2, <2>3, <2>4, LoadStep
<1>5. CASE LoadToVoid(q)
  <2>1. PICK r \in Presented("CHANGE_ORDER") : Begin(q, "void", r, {}, {})
    BY <1>5 DEF LoadToVoid
  <2>2. via' \in [Requests -> Links \cup {NoLink}]
    BY <1>0, <1>5 DEF LoadToVoid, TypeOK
  <2>3. UNCHANGED <<wo, docVars, decisionVars, linkOf, invoiceVars, goal, from>>
    BY <1>5 DEF LoadToVoid
  <2>4. r \in Revisions /\ status[r] # "NONE"
    BY DEF Presented
  <2> QED BY <2>1, <2>2, <2>3, <2>4, LoadStep
<1>6. CASE LoadForLink(q)
  <2>1. PICK r \in Revisions, step \in {"link", "resend"} :
          status[r] = "PRESENTED" /\ Begin(q, step, r, {}, {})
    BY <1>6 DEF LoadForLink
  <2>2. via' \in [Requests -> Links \cup {NoLink}]
    BY <1>0, <1>6 DEF LoadForLink, TypeOK
  <2>3. UNCHANGED <<wo, docVars, decisionVars, linkOf, invoiceVars, goal, from>>
    BY <1>6 DEF LoadForLink
  <2> QED BY <2>1, <2>2, <2>3, LoadStep
<1>7. CASE LoadDecisions(q)
  <2>0. PICK r \in Revisions : \E picked, refused \in SUBSET LinesOf(r) :
          /\ status[r] = "PRESENTED"
          /\ Begin(q, "decide", r, picked,
                   refused \cup AutoDeclined(r, picked, picked \cup refused))
    BY <1>7 DEF LoadDecisions
  <2>1. PICK picked, refused \in SUBSET LinesOf(r) :
          /\ status[r] = "PRESENTED"
          /\ Begin(q, "decide", r, picked,
                   refused \cup AutoDeclined(r, picked, picked \cup refused))
    BY <2>0
  <2>2. via' \in [Requests -> Links \cup {NoLink}]
    BY <1>0, <1>7 DEF LoadDecisions, TypeOK
  <2>3. UNCHANGED <<wo, docVars, decisionVars, linkOf, invoiceVars, goal, from>>
    BY <1>7 DEF LoadDecisions
  <2>4. /\ picked \in SUBSET Lines
        /\ refused \cup AutoDeclined(r, picked, picked \cup refused) \in SUBSET Lines
    BY DEF LinesOf, AutoDeclined
  <2>5. PICK n \in SUBSET Lines : Begin(q, "decide", r, picked, n)
    BY <2>1, <2>4
  <2>6. "decide" \in Steps /\ r \in Revisions \cup {0} /\ status[r] # "NONE"
    BY <2>1
  <2> QED BY <2>2, <2>3, <2>4, <2>5, <2>6, LoadStep
<1>8. CASE OpenLink(q)
  <2>0. PICK k \in Links :
          /\ linkOf[k] # 0
          /\ via' = [via EXCEPT ![q] = k]
          /\ \E picked, refused \in SUBSET LinesOf(linkOf[k]) :
               /\ picked \cup refused # {}
               /\ Begin(q, IF picked # {} THEN "linkApproves" ELSE "linkDeclines",
                        linkOf[k], picked, refused)
    BY <1>8 DEF OpenLink
  <2>1. PICK picked, refused \in SUBSET LinesOf(linkOf[k]) :
          /\ picked \cup refused # {}
          /\ Begin(q, IF picked # {} THEN "linkApproves" ELSE "linkDeclines",
                   linkOf[k], picked, refused)
    BY <2>0
  <2>2. via' \in [Requests -> Links \cup {NoLink}]
    BY <1>0, <2>0 DEF TypeOK
  <2>3. UNCHANGED <<wo, docVars, decisionVars, linkOf, invoiceVars, goal, from>>
    BY <1>8 DEF OpenLink
  <2>4. picked \in SUBSET Lines /\ refused \in SUBSET Lines
    BY DEF LinesOf
  <2>5. linkOf[k] \in Revisions
    BY <1>0, <2>0 DEF TypeOK
  <2>6. status[linkOf[k]] # "NONE"
    <3>1. PICK l \in picked \cup refused : TRUE
      BY <2>1
    <3>2. l \in Lines /\ home[l] = linkOf[k]
      BY <3>1 DEF LinesOf
    <3> QED BY <1>0, <2>0, <3>2 DEF TypeOK
  <2>7. (IF picked # {} THEN "linkApproves" ELSE "linkDeclines") \in
          {"linkApproves", "linkDeclines"}
    OBVIOUS
  <2>8. \A step \in {"linkApproves", "linkDeclines"} :
          /\ step \in Steps
          /\ step \notin {"supersede", "changeOrder"}
    BY DEF LinkSteps
  <2> QED BY <2>1, <2>2, <2>3, <2>4, <2>5, <2>6, <2>7, <2>8, LoadStep
<1>9. CASE LoadForInvoice(q)
  <2>1. PICK lines \in SUBSET Lines : Begin(q, "invoice", 0, lines, {})
    BY <1>9 DEF LoadForInvoice
  <2>2. via' \in [Requests -> Links \cup {NoLink}]
    BY <1>0, <1>9 DEF LoadForInvoice, TypeOK
  <2>3. UNCHANGED <<wo, docVars, decisionVars, linkOf, invoiceVars, goal, from>>
    BY <1>9 DEF LoadForInvoice
  <2> QED BY <2>1, <2>2, <2>3, LoadStep
<1> QED BY <1>1, <1>2, <1>3, <1>4, <1>5, <1>6, <1>7, <1>8, <1>9

\* The requests that end.
LEMMA EndsTyped ==
  ASSUME TypeInv, NEW q \in Requests,
         \/ CreateChangeOrder(q) \/ AddLine(q) \/ RemoveLine(q)
         \/ PresentChangeOrder(q) \/ ApplyChangeOrder(q)
         \/ SupersedeRevision(q) \/ VoidChangeOrder(q)
         \/ CreateAuthorizationLink(q) \/ ResendAuthorizationLink(q)
         \/ AuthorizeByLink(q) \/ CreateInvoice(q) \/ Fail(q)
  PROVE  TypeInv' /\ Later
<1> USE DEF docVars, decisionVars, invoiceVars, Decided
<1>0. TypeOK /\ RevisionKnown
  BY DEF TypeInv
<1>1. CASE CreateChangeOrder(q)
  <2>1. "CHANGE_ORDER" \in Kinds /\ NewRevision(rev[q], "CHANGE_ORDER")
    BY <1>1 DEF CreateChangeOrder, Kinds
  <2>2. Later /\ status' \in [Revisions -> Statuses] /\ kind' \in [Revisions -> Kinds]
    BY <1>0, <1>1, <2>1, NewRevisionLater DEF CreateChangeOrder, TypeOK
  <2> QED BY <1>0, <1>1, <2>2, EndStep DEF CreateChangeOrder, TypeOK, Later
<1>2. CASE AddLine(q)
  <2>1. Later
    BY <1>2 DEF AddLine, Later
  <2>2. rev[q] \in Revisions /\ status[rev[q]] # "NONE"
    BY <1>0, <1>2 DEF AddLine, RevisionKnown, OnRevision
  <2>3. /\ home' \in [Lines -> Revisions \cup {0}]
        /\ \A l \in Lines : home'[l] \in {home[l], rev[q]} /\ (home[l] # 0 => home'[l] # 0)
    BY <1>0, <1>2, <2>2, RevisionsPositive DEF AddLine, TypeOK
  <2> QED BY <1>0, <1>2, <2>1, <2>2, <2>3, EndStep DEF AddLine, TypeOK
<1>3. CASE RemoveLine(q)
  <2>1. Later
    BY <1>3 DEF RemoveLine, Later
  <2>2. /\ home' \in [Lines -> Revisions \cup {0}]
        /\ \A l \in Lines : home'[l] \in {home[l], 0}
        /\ \A l \in Decided : home'[l] = home[l]
    BY <1>0, <1>3 DEF RemoveLine, Referenced, TypeOK
  <2> QED BY <1>0, <1>3, <2>1, <2>2, EndStep DEF RemoveLine, TypeOK
<1>4. CASE PresentChangeOrder(q)
  <2>1. rev[q] \in Revisions
    BY <1>0, <1>4 DEF PresentChangeOrder, RevisionKnown, OnRevision
  <2>2. PICK fees \in SUBSET {l \in Fees : FreeLine(l)} : home' = WithFees(rev[q], fees)
    BY <1>4 DEF PresentChangeOrder
  <2>3. /\ Later
        /\ status' \in [Revisions -> Statuses]
        /\ home' \in [Lines -> Revisions \cup {0}]
        /\ \A l \in Lines : home[l] # 0 => home'[l] = home[l]
        /\ \A l \in Lines : home'[l] # 0 => status'[home'[l]] # "NONE"
    BY <1>0, <1>4, <2>1, <2>2, SealTyped DEF PresentChangeOrder
  <2>4. linkOf' \in [Links -> Revisions \cup {0}]
    BY <1>0, <1>4, <2>1, LinksTyped DEF PresentChangeOrder
  <2> QED BY <1>0, <1>4, <2>3, <2>4, EndStep DEF PresentChangeOrder, TypeOK
<1>5. CASE ApplyChangeOrder(q)
  <2>1. rev[q] \in Revisions
    BY <1>0, <1>5 DEF ApplyChangeOrder, RevisionKnown, OnRevision
  <2>2. PICK fees \in SUBSET {l \in Fees : FreeLine(l)} : home' = WithFees(rev[q], fees)
    BY <1>5 DEF ApplyChangeOrder
  <2>3. /\ Later
        /\ status' \in [Revisions -> Statuses]
        /\ home' \in [Lines -> Revisions \cup {0}]
        /\ \A l \in Lines : home[l] # 0 => home'[l] = home[l]
        /\ \A l \in Lines : home'[l] # 0 => status'[home'[l]] # "NONE"
    BY <1>0, <1>5, <2>1, <2>2, SealTyped DEF ApplyChangeOrder
  <2>4. \A l \in yes[q] : home[l] # 0
    BY <1>5, <2>1, RevisionsPositive DEF ApplyChangeOrder
  <2>5. yes[q] \in SUBSET Lines
    BY <1>0 DEF TypeOK
  <2> QED BY <1>0, <1>5, <2>3, <2>4, <2>5, EndStep DEF ApplyChangeOrder, TypeOK
<1>6. CASE SupersedeRevision(q)
  <2>1. rev[q] \in Revisions /\ kind[rev[q]] \in Kinds
    BY <1>0, <1>6 DEF SupersedeRevision, RevisionKnown, OnRevision, TypeOK
  <2> DEFINE others == [status EXCEPT ![rev[q]] = "SUPERSEDED"]
  <2>2. /\ others \in [Revisions -> Statuses]
        /\ \A s \in Revisions : status[s] # "NONE" => others[s] # "NONE"
        /\ status' = [others EXCEPT ![rev[q] + 1] = "DRAFT"]
        /\ NewRevision(rev[q] + 1, kind[rev[q]])
    BY <1>0, <1>6, <2>1 DEF SupersedeRevision, TypeOK, Statuses
  <2>3. Later /\ status' \in [Revisions -> Statuses] /\ kind' \in [Revisions -> Kinds]
    BY <1>0, <2>1, <2>2, NewRevisionLater
  <2> QED BY <1>0, <1>6, <2>3, EndStep DEF SupersedeRevision, TypeOK, Later
<1>7. CASE VoidChangeOrder(q)
  <2>1. Later /\ status' \in [Revisions -> Statuses]
    BY <1>0, <1>7 DEF VoidChangeOrder, TypeOK, Later, Statuses
  <2>2. linkOf' \in [Links -> Revisions \cup {0}]
    BY <1>0, <1>7 DEF VoidChangeOrder, TypeOK
  <2> QED BY <1>0, <1>7, <2>1, <2>2, EndStep DEF VoidChangeOrder, TypeOK, Later
<1>8. CASE CreateAuthorizationLink(q) \/ ResendAuthorizationLink(q)
  <2>1. rev[q] \in Revisions
    BY <1>0, <1>8 DEF CreateAuthorizationLink, ResendAuthorizationLink, RevisionKnown, OnRevision
  <2>2. linkOf' \in [Links -> Revisions \cup {0}]
    BY <1>0, <1>8, <2>1 DEF CreateAuthorizationLink, ResendAuthorizationLink, TypeOK
  <2>3. Later
    BY <1>8 DEF CreateAuthorizationLink, ResendAuthorizationLink, Later
  <2> QED BY <1>0, <1>8, <2>2, <2>3, EndStep
          DEF CreateAuthorizationLink, ResendAuthorizationLink, TypeOK
<1>9. CASE AuthorizeByLink(q)
  <2>1. wo' \in WorkOrderStatuses
    BY <1>0, <1>9 DEF AuthorizeByLink, TypeOK, WorkOrderStatuses
  <2>2. Later
    BY <1>9 DEF AuthorizeByLink, Later
  <2> QED BY <1>0, <1>9, <2>1, <2>2, EndStep DEF AuthorizeByLink, TypeOK
<1>10. CASE CreateInvoice(q)
  <2>1. Later
    BY <1>10 DEF CreateInvoice, Later
  <2>2. invoice' \in BOOLEAN /\ billed' \in SUBSET Lines
    BY <1>0, <1>10 DEF CreateInvoice, TypeOK
  <2> QED BY <1>0, <1>10, <2>1, <2>2, EndStep DEF CreateInvoice, TypeOK
<1>11. CASE Fail(q)
  <2>1. Later
    BY <1>11 DEF Fail, Later
  <2> QED BY <1>0, <1>11, <2>1, EndStep DEF Fail, TypeOK
<1> QED BY <1>1, <1>2, <1>3, <1>4, <1>5, <1>6, <1>7, <1>8, <1>9, <1>10, <1>11

\* The requests that go on.
LEMMA GoesOnTyped ==
  ASSUME TypeInv, NEW q \in Requests,
         \/ PresentRevision(q) \/ FollowPresented(q) \/ RecordAuthorization(q)
         \/ FollowDecided(q) \/ RecordByLink(q) \/ MarkLinkUsed(q)
         \/ LoadMove(q) \/ FollowUpFails(q) \/ TransitionStatus(q)
  PROVE  TypeInv' /\ Later
<1> USE DEF docVars, decisionVars, invoiceVars, Decided, memory
<1>0. TypeOK /\ RevisionKnown
  BY DEF TypeInv
<1>a. DOMAIN Targets = {"toEstimating", "toAwaiting", "toAuthorized"}
  BY DEF Targets
<1>b. /\ {"presented", "toEstimating", "toAwaiting", "toAuthorized", "decided",
           "linkUsed", "move", "moveOn"} \subseteq Steps
      /\ {"presented", "toEstimating", "toAwaiting", "toAuthorized", "decided", "move",
           "moveOn"} \cap (OnRevision \cup {"supersede", "changeOrder"}) = {}
  BY <1>a DEF Steps, OnRevision
<1>1. CASE PresentRevision(q)
  <2>1. rev[q] \in Revisions
    BY <1>0, <1>1 DEF PresentRevision, RevisionKnown, OnRevision
  <2>2. PICK fees \in SUBSET {l \in Fees : FreeLine(l)} : home' = WithFees(rev[q], fees)
    BY <1>1 DEF PresentRevision
  <2>3. /\ Later
        /\ status' \in [Revisions -> Statuses]
        /\ home' \in [Lines -> Revisions \cup {0}]
        /\ \A l \in Lines : home[l] # 0 => home'[l] = home[l]
        /\ \A l \in Lines : home'[l] # 0 => status'[home'[l]] # "NONE"
    BY <1>0, <1>1, <2>1, <2>2, SealTyped DEF PresentRevision
  <2>4. linkOf' \in [Links -> Revisions \cup {0}]
    BY <1>0, <1>1, <2>1, LinksTyped DEF PresentRevision
  <2> QED BY <1>0, <1>1, <1>b, <2>3, <2>4, GoOnStep DEF PresentRevision, TypeOK
<1>2. CASE FollowPresented(q)
  <2>1. Later
    BY <1>2 DEF FollowPresented, Later
  <2>2. CASE Finish(q)
    BY <1>0, <1>2, <2>1, <2>2, EndStep DEF FollowPresented, TypeOK
  <2>3. CASE ~Finish(q)
    <3>1. PICK step \in {"toEstimating", "toAwaiting"} :
            pc' = [pc EXCEPT ![q] = step] /\ UNCHANGED memory
      BY <1>2, <2>3 DEF FollowPresented
    <3> QED BY <1>0, <1>2, <1>b, <2>1, <3>1, GoOnStep DEF FollowPresented, TypeOK
  <2> QED BY <2>2, <2>3
<1>3. CASE RecordAuthorization(q)
  <2>1. Later
    BY <1>3 DEF RecordAuthorization, Later
  <2>2. rev[q] # 0
    BY <1>0, <1>3, RevisionsPositive DEF RecordAuthorization, RevisionKnown, OnRevision
  <2>3. /\ approved' \in SUBSET Lines /\ declined' \in SUBSET Lines
        /\ \A l \in approved' \cup declined' : home'[l] # 0
    BY <1>0, <1>3, <2>2 DEF RecordAuthorization, TypeOK
  <2>4. CASE Finish(q)
    BY <1>0, <1>3, <2>1, <2>3, <2>4, EndStep DEF RecordAuthorization, TypeOK
  <2>5. CASE pc' = [pc EXCEPT ![q] = "decided"] /\ UNCHANGED memory
    BY <1>0, <1>3, <1>b, <2>1, <2>3, <2>5, GoOnStep DEF RecordAuthorization, TypeOK
  <2> QED BY <1>3, <2>4, <2>5 DEF RecordAuthorization
<1>4. CASE FollowDecided(q)
  <2>1. Later
    BY <1>4 DEF FollowDecided, Later
  <2>2. CASE Finish(q)
    BY <1>0, <1>4, <2>1, <2>2, EndStep DEF FollowDecided, TypeOK
  <2>3. CASE pc' = [pc EXCEPT ![q] = "toAuthorized"] /\ UNCHANGED memory
    BY <1>0, <1>4, <1>b, <2>1, <2>3, GoOnStep DEF FollowDecided, TypeOK
  <2> QED BY <1>4, <2>2, <2>3 DEF FollowDecided
<1>5. CASE RecordByLink(q)
  <2>1. Later
    BY <1>5 DEF RecordByLink, Later
  <2>2. /\ approved' \in SUBSET Lines /\ declined' \in SUBSET Lines
        /\ \A l \in approved' \cup declined' : home'[l] # 0
        /\ yes' \in [Requests -> SUBSET Lines]
        /\ no' \in [Requests -> SUBSET Lines]
    BY <1>0, <1>5 DEF RecordByLink, TypeOK
  <2>3. pc' = [pc EXCEPT ![q] = pc[q]] /\ pc[q] \in Steps
    BY <1>0, <1>5 DEF RecordByLink, TypeOK
  <2> QED BY <1>0, <1>5, <2>1, <2>2, <2>3, GoOnStep DEF RecordByLink, TypeOK
<1>6. CASE MarkLinkUsed(q)
  <2>1. Later
    BY <1>6 DEF MarkLinkUsed, Later
  <2>2. linkOf' \in [Links -> Revisions \cup {0}]
    BY <1>0, <1>6 DEF MarkLinkUsed, TypeOK
  <2>3. CASE Finish(q)
    BY <1>0, <1>6, <2>1, <2>2, <2>3, EndStep DEF MarkLinkUsed, TypeOK
  <2>4. CASE pc[q] = "linkApproves" /\ pc' = [pc EXCEPT ![q] = "linkUsed"] /\ UNCHANGED memory
    <3>1. TypeOK'
      BY <1>0, <1>6, <1>b, <2>2, <2>4 DEF MarkLinkUsed, TypeOK
    <3>2. RevisionKnown'
      BY <1>0, <1>6, <2>4 DEF MarkLinkUsed, RevisionKnown, OnRevision, TypeOK
    <3> QED BY <2>1, <3>1, <3>2 DEF TypeInv
  <2> QED BY <1>6, <2>3, <2>4 DEF MarkLinkUsed
<1>7. CASE LoadMove(q)
  <2>1. Later
    BY <1>7 DEF LoadMove, Later
  <2>2. PICK step \in {"move", "moveOn"} : pc' = [pc EXCEPT ![q] = step]
    BY <1>7 DEF LoadMove
  <2>3. /\ goal' \in [Requests -> WorkOrderStatuses]
        /\ from' \in [Requests -> WorkOrderStatuses]
    BY <1>0, <1>7 DEF LoadMove, TypeOK
  <2> QED BY <1>0, <1>7, <1>b, <2>1, <2>2, <2>3, GoOnStep DEF LoadMove, TypeOK
<1>8. CASE FollowUpFails(q)
  <2>1. Later
    BY <1>8 DEF FollowUpFails, Later
  <2>2. CASE Finish(q)
    BY <1>0, <1>8, <2>1, <2>2, EndStep DEF FollowUpFails, TypeOK
  <2>3. CASE pc' = [pc EXCEPT ![q] = "toAwaiting"] /\ UNCHANGED memory
    BY <1>0, <1>8, <1>b, <2>1, <2>3, GoOnStep DEF FollowUpFails, TypeOK
  <2> QED BY <1>8, <2>2, <2>3 DEF FollowUpFails, After
<1>9. CASE TransitionStatus(q)
  <2>1. Later
    BY <1>9 DEF TransitionStatus, Later
  <2>2. wo' \in WorkOrderStatuses
    BY <1>0, <1>9 DEF TransitionStatus, TypeOK
  <2>3. CASE Finish(q)
    BY <1>0, <1>9, <2>1, <2>2, <2>3, EndStep DEF TransitionStatus, TypeOK
  <2>4. CASE pc' = [pc EXCEPT ![q] = "toAwaiting"] /\ UNCHANGED memory
    BY <1>0, <1>9, <1>b, <2>1, <2>2, <2>4, GoOnStep DEF TransitionStatus, TypeOK
  <2> QED BY <1>9, <2>3, <2>4 DEF TransitionStatus, After
<1> QED BY <1>1, <1>2, <1>3, <1>4, <1>5, <1>6, <1>7, <1>8, <1>9

\* Every step keeps the types, and lets statuses and decisions only move on.
LEMMA TypeStep == TypeInv /\ [Next]_vars => TypeInv' /\ Later
<1> SUFFICES ASSUME TypeInv, [Next]_vars PROVE TypeInv' /\ Later
  OBVIOUS
<1> USE DEF docVars, decisionVars, invoiceVars, memory
<1>0. TypeOK /\ RevisionKnown
  BY DEF TypeInv
<1>1. CASE CreateDraftRevision
  <2>1. NewRevision(NextNumber, "BASELINE") /\ "BASELINE" \in Kinds
    BY <1>1 DEF CreateDraftRevision, Kinds
  <2>2. Later /\ status' \in [Revisions -> Statuses] /\ kind' \in [Revisions -> Kinds]
    BY <1>0, <1>1, <2>1, NewRevisionLater DEF CreateDraftRevision, TypeOK
  <2>3. TypeOK'
    BY <1>0, <1>1, <2>2 DEF CreateDraftRevision, TypeOK, Decided, Later
  <2>4. RevisionKnown'
    BY <1>0, <1>1, <2>2 DEF CreateDraftRevision, RevisionKnown, Later, OnRevision
  <2> QED BY <2>2, <2>3, <2>4 DEF TypeInv
<1>2. ASSUME NEW k \in Links, LinkEnds(k) PROVE TypeInv' /\ Later
  <2>1. TypeOK'
    BY <1>0, <1>2 DEF LinkEnds, TypeOK, Decided
  <2>2. RevisionKnown' /\ Later
    BY <1>0, <1>2 DEF LinkEnds, RevisionKnown, Later
  <2> QED BY <2>1, <2>2 DEF TypeInv
<1>3. CASE UNCHANGED vars
  <2>1. TypeOK'
    BY <1>0, <1>3 DEF vars, TypeOK, Decided
  <2>2. RevisionKnown' /\ Later
    BY <1>0, <1>3 DEF vars, RevisionKnown, Later
  <2> QED BY <2>1, <2>2 DEF TypeInv
<1> QED BY <1>1, <1>2, <1>3, LoadsTyped, EndsTyped, GoesOnTyped DEF Next

\* Every variable of an estimate keeps its type: decisions are about lines that
\* exist, lines belong to revisions that were created (estimate-service.ts,
\* authorization-service.ts, the public route).
THEOREM EstimateTypeCorrect == Spec => []TypeOK
<1>1. TypeInv => TypeOK
  BY DEF TypeInv
<1> QED BY <1>1, InitTypes, TypeStep, PTL DEF Spec

-----------------------------------------------------------------------------
(* A work order that is worked on was authorized. *)

BaselineApproved == \E l \in approved : home[l] # 0 /\ kind[home[l]] = "BASELINE"

\* Change orders, and requests for one, come after the authorization.
ChangeOrdersLate ==
  \/ wo \in Committed \cup {"CANCELLED"}
  \/ /\ \A r \in Revisions : status[r] # "NONE" => kind[r] = "BASELINE"
     /\ \A q \in Requests : pc[q] # "changeOrder"

\* A transition under way is a valid one, and its prerequisites still hold.
MovesValid ==
  \A q \in Requests : pc[q] \in {"move", "moveOn"} =>
    /\ CanTransition(from[q], goal[q])
    /\ goal[q] = "AUTHORIZED" => BaselineApproved

\* Nobody else knows a line that is about to be added.
AddsFresh ==
  \A q \in Requests : pc[q] = "add" =>
    \A l \in yes[q] :
      /\ home[l] = 0
      /\ \A p \in Requests \ {q} : l \notin yes[p] \cup no[p]

\* What a customer decides on through a link is of the link's revision, and what
\* has been approved through it is approved.
LinkKnows ==
  \A q \in Requests :
    /\ pc[q] \in LinkSteps => \A l \in yes[q] : home[l] \in {0, rev[q]}
    /\ \/ pc[q] = "linkApproves" /\ yes[q] = {}
       \/ pc[q] = "linkUsed"
       => \E l \in approved : home[l] = rev[q]

GateInv == ChangeOrdersLate /\ MovesValid /\ AddsFresh /\ LinkKnows /\ AuthorizedMeansApproved

\* An invoice under way bills what was approved when it was started, and still is.
BillsApproved ==
  \A q \in Requests : pc[q] = "invoice" /\ ApprovedOnly => yes[q] \subseteq approved

BillInv == BillsApproved /\ InvoicedWasApproved

Loads(q) ==
  \/ LoadForChangeOrder(q) \/ LoadToEdit(q) \/ LoadToPresent(q)
  \/ LoadToSupersede(q) \/ LoadToVoid(q) \/ LoadForLink(q)
  \/ LoadDecisions(q) \/ OpenLink(q) \/ LoadForInvoice(q)

Ends(q) ==
  \/ CreateChangeOrder(q) \/ AddLine(q) \/ RemoveLine(q)
  \/ PresentChangeOrder(q) \/ ApplyChangeOrder(q)
  \/ SupersedeRevision(q) \/ VoidChangeOrder(q)
  \/ CreateAuthorizationLink(q) \/ ResendAuthorizationLink(q)
  \/ AuthorizeByLink(q) \/ CreateInvoice(q) \/ Fail(q)

GoesOn(q) ==
  \/ PresentRevision(q) \/ FollowPresented(q) \/ RecordAuthorization(q)
  \/ FollowDecided(q) \/ RecordByLink(q) \/ MarkLinkUsed(q)
  \/ LoadMove(q) \/ FollowUpFails(q) \/ TransitionStatus(q)

\* The steps of the specification, sorted by what they do to their request.
LEMMA Cases ==
  [Next]_vars <=> \/ CreateDraftRevision
                  \/ \E k \in Links : LinkEnds(k)
                  \/ \E q \in Requests : Loads(q) \/ Ends(q) \/ GoesOn(q)
                  \/ UNCHANGED vars
BY DEF Next, Loads, Ends, GoesOn

\* A request leaves what the others know alone.
SameFor(p) ==
  /\ pc'[p] = pc[p] /\ rev'[p] = rev[p] /\ goal'[p] = goal[p] /\ from'[p] = from[p]
  /\ yes'[p] = yes[p] /\ no'[p] = no[p]

\* A step of one request leaves what the others remember alone.
LEMMA OthersKept ==
  ASSUME TypeOK, NEW q \in Requests, Loads(q) \/ Ends(q) \/ GoesOn(q),
         NEW p \in Requests \ {q}
  PROVE  SameFor(p)
<1>1. CASE Loads(q)
  BY <1>1 DEF Loads, LoadForChangeOrder, LoadToEdit, LoadToPresent, LoadToSupersede, LoadToVoid,
       LoadForLink, LoadDecisions, OpenLink, LoadForInvoice, Begin, SameFor, TypeOK
<1>2. CASE Ends(q)
  BY <1>2 DEF Ends, CreateChangeOrder, AddLine, RemoveLine, PresentChangeOrder, ApplyChangeOrder,
       SupersedeRevision, VoidChangeOrder, CreateAuthorizationLink, ResendAuthorizationLink,
       AuthorizeByLink, CreateInvoice, Fail, Finish, Forget, SameFor, TypeOK
<1>3. CASE GoesOn(q)
  BY <1>3 DEF GoesOn, PresentRevision, FollowPresented, RecordAuthorization, FollowDecided,
       RecordByLink, MarkLinkUsed, LoadMove, FollowUpFails, TransitionStatus, After,
       Finish, Forget, memory, SameFor, TypeOK
<1> QED BY <1>1, <1>2, <1>3

\* How a request comes to the steps the invariant is about, and that it learns
\* of lines when it begins only.
LEMMA OwnStep ==
  ASSUME TypeOK, NEW q \in Requests, Loads(q) \/ Ends(q) \/ GoesOn(q)
  PROVE  /\ pc'[q] \in {"move", "moveOn"} => LoadMove(q)
         /\ pc'[q] = "add" => LoadToEdit(q)
         /\ pc'[q] \in LinkSteps => OpenLink(q) \/ RecordByLink(q)
         /\ pc'[q] = "linkUsed" => MarkLinkUsed(q)
         /\ pc'[q] = "changeOrder" => LoadForChangeOrder(q)
         /\ pc'[q] = "invoice" => LoadForInvoice(q)
         /\ Loads(q) \/ yes'[q] \cup no'[q] \subseteq yes[q] \cup no[q]
<1> USE DEF LinkSteps
<1>1. CASE Loads(q)
  <2>1. CASE OpenLink(q)
    BY <2>1, <1>1 DEF OpenLink, Begin, TypeOK
  <2>2. CASE LoadForChangeOrder(q) \/ LoadToEdit(q) \/ LoadForInvoice(q)
    BY <2>2, <1>1 DEF LoadForChangeOrder, LoadToEdit, LoadForInvoice, Begin, TypeOK
  <2>3. CASE LoadToPresent(q) \/ LoadToSupersede(q) \/ LoadToVoid(q) \/ LoadForLink(q)
    BY <2>3, <1>1 DEF LoadToPresent, LoadToSupersede, LoadToVoid, LoadForLink, Begin, TypeOK
  <2>4. CASE LoadDecisions(q)
    <3>1. pc' = [pc EXCEPT ![q] = "decide"]
      BY <2>4 DEF LoadDecisions, Begin
    <3> QED BY <1>1, <3>1 DEF TypeOK
  <2> QED BY <1>1, <2>1, <2>2, <2>3, <2>4 DEF Loads
<1>2. CASE Ends(q)
  <2>1. Finish(q)
    BY <1>2 DEF Ends, CreateChangeOrder, AddLine, RemoveLine, PresentChangeOrder,
         ApplyChangeOrder, SupersedeRevision, VoidChangeOrder, CreateAuthorizationLink,
         ResendAuthorizationLink, AuthorizeByLink, CreateInvoice, Fail
  <2> QED BY <2>1, Finishes
<1>3. CASE GoesOn(q)
  <2>a. DOMAIN Targets = {"toEstimating", "toAwaiting", "toAuthorized"}
    BY DEF Targets
  <2>1. CASE Finish(q)
    BY <2>1, Finishes
  <2>2. CASE RecordByLink(q) \/ MarkLinkUsed(q) \/ LoadMove(q)
    BY <2>2 DEF RecordByLink, MarkLinkUsed, LoadMove, Finish, Forget, memory, TypeOK
  <2>3. CASE /\ ~Finish(q)
             /\ \/ PresentRevision(q) \/ FollowPresented(q) \/ RecordAuthorization(q)
                \/ FollowDecided(q) \/ FollowUpFails(q) \/ TransitionStatus(q)
    BY <2>3 DEF PresentRevision, FollowPresented, RecordAuthorization, FollowDecided,
         FollowUpFails, TransitionStatus, After, memory, TypeOK
  <2> QED BY <1>3, <2>1, <2>2, <2>3 DEF GoesOn
<1> QED BY <1>1, <1>2, <1>3

\* Approvals stay, and with them the lines they are about; a line gets a revision
\* only if nobody, or nobody but the one who adds it, knows it.
LEMMA LinesKept ==
  ASSUME TypeInv, AddsFresh, [Next]_vars
  PROVE  /\ approved \subseteq approved'
         /\ \A l \in Decided : home'[l] = home[l]
         /\ \A l \in Lines :
              \/ home'[l] \in {0, home[l]}
              \/ home[l] = 0 /\ FreeLine(l)
              \/ home[l] = 0 /\ \E q \in Requests : AddLine(q) /\ l \in yes[q]
<1> USE DEF docVars, decisionVars, Decided
<1>0. TypeOK
  BY DEF TypeInv
<1>1. CASE CreateDraftRevision \/ UNCHANGED vars \/ \E k \in Links : LinkEnds(k)
  BY <1>1 DEF CreateDraftRevision, LinkEnds, vars
<1>2. ASSUME NEW q \in Requests, Loads(q)
      PROVE  UNCHANGED <<home, approved, declined>>
  BY <1>2 DEF Loads, LoadForChangeOrder, LoadToEdit, LoadToPresent, LoadToSupersede, LoadToVoid,
       LoadForLink, LoadDecisions, OpenLink, LoadForInvoice
<1>3. ASSUME NEW q \in Requests,
             PresentRevision(q) \/ PresentChangeOrder(q) \/ ApplyChangeOrder(q)
      PROVE  /\ approved \subseteq approved'
             /\ \A l \in Lines : home'[l] = home[l] \/ (home[l] = 0 /\ FreeLine(l))
  <2>1. PICK fees \in SUBSET {l \in Fees : FreeLine(l)} : home' = WithFees(rev[q], fees)
    BY <1>3 DEF PresentRevision, PresentChangeOrder, ApplyChangeOrder
  <2>2. \A l \in fees : FreeLine(l) /\ home[l] = 0
    BY DEF FreeLine
  <2>3. \A l \in Lines : home'[l] = home[l] \/ (home[l] = 0 /\ FreeLine(l))
    BY <1>0, <2>1, <2>2 DEF WithFees, TypeOK
  <2> QED BY <1>3, <2>3 DEF PresentRevision, PresentChangeOrder, ApplyChangeOrder
<1>4. ASSUME NEW q \in Requests, AddLine(q)
      PROVE  /\ UNCHANGED <<approved, declined>>
             /\ \A l \in Lines : home'[l] = home[l] \/ (home[l] = 0 /\ l \in yes[q])
  <2>1. \A l \in yes[q] : home[l] = 0
    BY <1>4 DEF AddLine, AddsFresh
  <2>2. /\ UNCHANGED <<approved, declined>>
        /\ home' = [l \in Lines |-> IF l \in yes[q] THEN rev[q] ELSE home[l]]
    BY <1>4 DEF AddLine
  <2> QED BY <1>0, <2>1, <2>2 DEF TypeOK
<1>5. ASSUME NEW q \in Requests, RemoveLine(q)
      PROVE  /\ UNCHANGED <<approved, declined>>
             /\ \A l \in Lines : home'[l] \in {0, home[l]}
             /\ \A l \in Decided : home'[l] = home[l]
  BY <1>0, <1>5 DEF RemoveLine, Referenced, TypeOK
<1>6. ASSUME NEW q \in Requests, Ends(q) \/ GoesOn(q),
             ~(PresentRevision(q) \/ PresentChangeOrder(q) \/ ApplyChangeOrder(q)),
             ~AddLine(q), ~RemoveLine(q)
      PROVE  home' = home /\ approved \subseteq approved'
  BY <1>6 DEF Ends, GoesOn, CreateChangeOrder, SupersedeRevision, VoidChangeOrder,
       CreateAuthorizationLink, ResendAuthorizationLink, AuthorizeByLink, CreateInvoice, Fail,
       FollowPresented, RecordAuthorization, FollowDecided, RecordByLink, MarkLinkUsed,
       LoadMove, FollowUpFails, TransitionStatus
<1>7. \A l \in Decided : l \in Lines /\ home[l] # 0
  BY <1>0 DEF TypeOK
<1> QED BY <1>1, <1>2, <1>3, <1>4, <1>5, <1>6, <1>7, Cases

\* An approved line of a baseline stays one: lines never change revision and
\* decisions are never taken back.
LEMMA BaselineStaysApproved ==
  ASSUME TypeInv, AddsFresh, [Next]_vars, BaselineApproved
  PROVE  BaselineApproved'
<1>1. PICK l \in approved : home[l] # 0 /\ kind[home[l]] = "BASELINE"
  BY DEF BaselineApproved
<1>2. l \in approved' /\ home'[l] = home[l]
  BY LinesKept DEF Decided
<1>3. home[l] \in Revisions /\ status[home[l]] # "NONE"
  BY <1>1 DEF TypeInv, TypeOK
<1> QED BY <1>1, <1>2, <1>3, TypeStep DEF BaselineApproved, Later

\* The lines that requests know exist, unless they are about to be added.
LEMMA KnownLines ==
  ASSUME TypeInv, AddsFresh, NEW q \in Requests, Loads(q), ~LoadToEdit(q),
         NEW l \in yes'[q] \cup no'[q]
  PROVE  home[l] # 0
<1>0. TypeOK
  BY DEF TypeInv
<1>1. \A r \in Revisions : \A m \in LinesOf(r) : home[m] # 0
  BY RevisionsPositive DEF LinesOf
<1>2. CASE LoadToPresent(q)
  BY <1>0, <1>1, <1>2 DEF LoadToPresent, Begin, TypeOK
<1>3. CASE LoadDecisions(q)
  <2>1. PICK r \in Revisions : \E picked, refused \in SUBSET LinesOf(r) :
          Begin(q, "decide", r, picked,
                refused \cup AutoDeclined(r, picked, picked \cup refused))
    BY <1>3 DEF LoadDecisions
  <2>2. yes'[q] \cup no'[q] \subseteq LinesOf(r)
    BY <1>0, <2>1 DEF Begin, AutoDeclined, TypeOK
  <2> QED BY <1>1, <2>2
<1>4. CASE OpenLink(q)
  <2>1. PICK k \in Links : /\ linkOf[k] # 0
                          /\ yes'[q] \cup no'[q] \subseteq LinesOf(linkOf[k])
    BY <1>0, <1>4 DEF OpenLink, Begin, TypeOK
  <2>2. linkOf[k] \in Revisions
    BY <1>0, <2>1 DEF TypeOK
  <2> QED BY <1>1, <2>1, <2>2
<1>5. CASE LoadForInvoice(q)
  <2>1. PICK lines \in SUBSET Lines : Billable(lines) /\ Begin(q, "invoice", 0, lines, {})
    BY <1>5 DEF LoadForInvoice
  <2>2. yes'[q] \cup no'[q] = lines
    BY <1>0, <2>1 DEF Begin, TypeOK
  <2>3. lines \subseteq Source
    BY <2>1 DEF Billable
  <2>4. \A m \in Source : \E r \in Revisions : m \in LinesOf(r)
    BY DEF Source, Presented
  <2> QED BY <1>1, <2>2, <2>3, <2>4
<1>6. CASE \/ LoadForChangeOrder(q) \/ LoadToSupersede(q) \/ LoadToVoid(q)
           \/ LoadForLink(q)
  BY <1>0, <1>6 DEF LoadForChangeOrder, LoadToSupersede, LoadToVoid, LoadForLink, Begin, TypeOK
<1> QED BY <1>2, <1>3, <1>4, <1>5, <1>6 DEF Loads

\* A line that a request is about to add is in no revision until it is added.
LEMMA AddsFreshStep ==
  ASSUME TypeInv, AddsFresh, [Next]_vars
  PROVE  AddsFresh'
<1>0. TypeOK
  BY DEF TypeInv
<1>1. CASE CreateDraftRevision \/ UNCHANGED vars \/ \E k \in Links : LinkEnds(k)
  <2>1. UNCHANGED <<pc, home, yes, no>>
    BY <1>1 DEF CreateDraftRevision, LinkEnds, vars, memory, docVars
  <2> QED BY <2>1 DEF AddsFresh
<1>2. ASSUME NEW a \in Requests, Loads(a) \/ Ends(a) \/ GoesOn(a)
      PROVE  AddsFresh'
  <2> SUFFICES ASSUME NEW q \in Requests, pc'[q] = "add", NEW l \in yes'[q]
               PROVE  /\ home'[l] = 0
                      /\ \A p \in Requests \ {q} : l \notin yes'[p] \cup no'[p]
    BY DEF AddsFresh
  <2>1. CASE a = q
    <3>1. LoadToEdit(q)
      BY <1>0, <1>2, <2>1, OwnStep
    <3>2. PICK m \in Lines : FreeLine(m) /\ yes'[q] = {m}
      BY <1>0, <3>1 DEF LoadToEdit, Begin, TypeOK
    <3>3. home' = home
      BY <3>1 DEF LoadToEdit, docVars
    <3>4. \A p \in Requests \ {q} : yes'[p] = yes[p] /\ no'[p] = no[p]
      BY <1>0, <1>2, <2>1, OthersKept DEF SameFor
    <3> QED BY <3>2, <3>3, <3>4 DEF FreeLine
  <2>2. CASE a # q
    <3>1. pc[q] = "add" /\ l \in yes[q] /\ yes'[q] = yes[q]
      BY <1>0, <1>2, <2>2, OthersKept DEF SameFor
    <3>2. /\ home[l] = 0 /\ ~FreeLine(l) /\ l \in Lines
          /\ \A p \in Requests \ {q} : l \notin yes[p] \cup no[p]
      BY <1>0, <3>1 DEF AddsFresh, FreeLine, TypeOK
    <3>3. ~AddLine(q)
      BY <1>0, Finishes DEF AddLine
    <3>4. home'[l] = 0
      BY <3>2, <3>3, LinesKept
    <3>5. l \notin yes'[a] \cup no'[a]
      <4>1. CASE LoadToEdit(a)
        <5>1. PICK m \in Lines, r \in Revisions :
                /\ FreeLine(m) \/ home[m] = r
                /\ yes'[a] = {m} /\ no'[a] = {}
          BY <1>0, <4>1 DEF LoadToEdit, Begin, TypeOK
        <5> QED BY <3>2, <5>1, RevisionsPositive
      <4>2. CASE Loads(a) /\ ~LoadToEdit(a)
        BY <3>2, <4>2, KnownLines
      <4>3. CASE ~Loads(a)
        BY <1>0, <1>2, <2>2, <3>2, <4>3, OwnStep
      <4> QED BY <4>1, <4>2, <4>3
    <3>6. \A p \in Requests \ {q, a} : l \notin yes'[p] \cup no'[p]
      BY <1>0, <1>2, <3>2, OthersKept DEF SameFor
    <3> QED BY <3>4, <3>5, <3>6
  <2> QED BY <2>1, <2>2
<1> QED BY <1>1, <1>2, Cases

\* A public request that is about to authorize has seen an approved line.
LEMMA LinkKnowsStep ==
  ASSUME TypeInv, AddsFresh, LinkKnows, [Next]_vars
  PROVE  LinkKnows'
<1> USE DEF LinkSteps
<1>0. TypeOK
  BY DEF TypeInv
<1>k. \A l \in approved : l \in approved' /\ home'[l] = home[l]
  BY LinesKept DEF Decided
<1>1. CASE CreateDraftRevision \/ UNCHANGED vars \/ \E k \in Links : LinkEnds(k)
  <2>1. UNCHANGED <<pc, rev, home, yes, approved>>
    BY <1>1 DEF CreateDraftRevision, LinkEnds, vars, memory, docVars, decisionVars
  <2> QED BY <2>1 DEF LinkKnows
<1>2. ASSUME NEW a \in Requests, Loads(a) \/ Ends(a) \/ GoesOn(a), NEW q \in Requests
      PROVE  /\ pc'[q] \in LinkSteps => \A l \in yes'[q] : home'[l] \in {0, rev'[q]}
             /\ \/ pc'[q] = "linkApproves" /\ yes'[q] = {}
                \/ pc'[q] = "linkUsed"
                => \E l \in approved' : home'[l] = rev'[q]
  <2>1. CASE a # q
    <3>1. pc'[q] = pc[q] /\ rev'[q] = rev[q] /\ yes'[q] = yes[q]
      BY <1>0, <1>2, <2>1, OthersKept DEF SameFor
    <3>2. ASSUME pc[q] \in LinkSteps, NEW l \in yes[q]
          PROVE  home'[l] \in {0, rev[q]}
      <4>1. home[l] \in {0, rev[q]} /\ ~FreeLine(l) /\ l \in Lines
        BY <1>0, <3>2 DEF LinkKnows, FreeLine, TypeOK
      <4>2. \A p \in Requests : ~(AddLine(p) /\ l \in yes[p])
        BY <3>2 DEF AddLine, AddsFresh
      <4> QED BY <4>1, <4>2, LinesKept
    <3> QED BY <1>k, <3>1, <3>2 DEF LinkKnows
  <2>2. CASE a = q /\ OpenLink(q)
    <3>0. home' = home
      BY <2>2 DEF OpenLink, docVars
    <3>1. PICK k \in Links : \E picked, refused \in SUBSET LinesOf(linkOf[k]) :
            Begin(q, IF picked # {} THEN "linkApproves" ELSE "linkDeclines",
                  linkOf[k], picked, refused)
      BY <2>2 DEF OpenLink
    <3>2. /\ pc'[q] = IF yes'[q] # {} THEN "linkApproves" ELSE "linkDeclines"
          /\ rev'[q] = linkOf[k]
          /\ yes'[q] \subseteq LinesOf(linkOf[k])
      BY <1>0, <3>1 DEF Begin, TypeOK
    <3> QED BY <3>0, <3>2 DEF LinesOf
  <2>3. CASE a = q /\ RecordByLink(q)
    <3>1. /\ pc[q] \in LinkSteps /\ pc'[q] = pc[q] /\ rev'[q] = rev[q] /\ home' = home
          /\ yes'[q] \subseteq yes[q]
      BY <1>0, <2>3 DEF RecordByLink, docVars, TypeOK
    <3>2. yes'[q] = yes[q] \/ \E l \in yes[q] : home[l] # 0 /\ l \in approved'
      BY <1>0, <2>3 DEF RecordByLink, TypeOK
    <3> QED BY <1>k, <3>1, <3>2 DEF LinkKnows
  <2>4. CASE a = q /\ MarkLinkUsed(q)
    <3>1. pc'[q] \notin LinkSteps
      BY <1>0, <2>4, Finishes DEF MarkLinkUsed, TypeOK
    <3>2. CASE pc'[q] = "linkUsed"
      <4>1. pc[q] = "linkApproves" /\ yes[q] = {} /\ rev'[q] = rev[q]
        BY <1>0, <2>4, <3>2, Finishes DEF MarkLinkUsed, memory, TypeOK
      <4> QED BY <1>k, <3>1, <4>1 DEF LinkKnows
    <3> QED BY <3>1, <3>2
  <2>5. CASE a = q /\ ~OpenLink(q) /\ ~RecordByLink(q) /\ ~MarkLinkUsed(q)
    BY <1>0, <1>2, <2>5, OwnStep
  <2> QED BY <2>1, <2>2, <2>3, <2>4, <2>5
<1> QED BY <1>1, <1>2, Cases DEF LinkKnows

\* The status of a work order changes along the state machine only.
LEMMA WorkOrderStep ==
  ASSUME TypeInv, MovesValid, [Next]_vars
  PROVE  \/ wo' = wo
         \/ \E q \in Requests : pc[q] \in {"move", "moveOn"} /\ wo = from[q] /\ wo' = goal[q]
         \/ \E q \in Requests : pc[q] = "linkUsed" /\ wo = "AWAITING_AUTHORIZATION" /\ wo' = "AUTHORIZED"
<1>1. CASE CreateDraftRevision \/ UNCHANGED vars \/ \E k \in Links : LinkEnds(k)
  BY <1>1 DEF CreateDraftRevision, LinkEnds, vars
<1>2. ASSUME NEW q \in Requests, TransitionStatus(q)
      PROVE  \/ wo' = wo
             \/ pc[q] \in {"move", "moveOn"} /\ wo = from[q] /\ wo' = goal[q]
  BY <1>2 DEF TransitionStatus
<1>3. ASSUME NEW q \in Requests, AuthorizeByLink(q)
      PROVE  \/ wo' = wo
             \/ pc[q] = "linkUsed" /\ wo = "AWAITING_AUTHORIZATION" /\ wo' = "AUTHORIZED"
  BY <1>3 DEF AuthorizeByLink
<1>4. ASSUME NEW q \in Requests, Loads(q) \/ Ends(q) \/ GoesOn(q),
             ~TransitionStatus(q), ~AuthorizeByLink(q)
      PROVE  wo' = wo
  BY <1>4 DEF Loads, Ends, GoesOn, LoadForChangeOrder, LoadToEdit, LoadToPresent,
       LoadToSupersede, LoadToVoid, LoadForLink, LoadDecisions, OpenLink, LoadForInvoice,
       CreateChangeOrder, AddLine, RemoveLine, PresentChangeOrder, ApplyChangeOrder,
       SupersedeRevision, VoidChangeOrder, CreateAuthorizationLink, ResendAuthorizationLink,
       CreateInvoice, Fail, PresentRevision, FollowPresented, RecordAuthorization,
       FollowDecided, RecordByLink, MarkLinkUsed, LoadMove, FollowUpFails
<1> QED BY <1>1, <1>2, <1>3, <1>4, Cases

\* A new document is a baseline, or the change order of a request that was let in.
LEMMA NewDocument ==
  ASSUME TypeInv, [Next]_vars, NEW r \in Revisions, status[r] = "NONE", status'[r] # "NONE"
  PROVE  kind'[r] = "BASELINE" \/ \E q \in Requests : pc[q] = "changeOrder"
<1> USE DEF docVars
<1>0. TypeOK
  BY DEF TypeInv
<1>1. CASE CreateDraftRevision
  BY <1>0, <1>1 DEF CreateDraftRevision, NewRevision, TypeOK
<1>2. CASE UNCHANGED vars \/ \E k \in Links : LinkEnds(k)
  BY <1>2 DEF LinkEnds, vars
<1>3. ASSUME NEW q \in Requests, CreateChangeOrder(q)
      PROVE  pc[q] = "changeOrder"
  BY <1>3 DEF CreateChangeOrder
<1>4. ASSUME NEW q \in Requests, SupersedeRevision(q)
      PROVE  kind'[r] = "BASELINE"
  <2>1. kind[rev[q]] = "BASELINE" /\ rev[q] \in Revisions /\ status[rev[q]] # "NONE"
    BY <1>4 DEF SupersedeRevision, TypeInv, RevisionKnown, OnRevision
  <2> QED BY <1>0, <1>4, <2>1 DEF SupersedeRevision, NewRevision, TypeOK
<1>5. ASSUME NEW q \in Requests, Loads(q)
      PROVE  FALSE
  BY <1>5 DEF Loads, LoadForChangeOrder, LoadToEdit, LoadToPresent, LoadToSupersede, LoadToVoid,
       LoadForLink, LoadDecisions, OpenLink, LoadForInvoice
<1>6. ASSUME NEW q \in Requests, Ends(q) \/ GoesOn(q), ~CreateChangeOrder(q), ~SupersedeRevision(q)
      PROVE  FALSE
  BY <1>0, <1>6 DEF Ends, GoesOn, AddLine, RemoveLine, PresentChangeOrder, ApplyChangeOrder,
       VoidChangeOrder, CreateAuthorizationLink, ResendAuthorizationLink, AuthorizeByLink,
       CreateInvoice, Fail, PresentRevision, FollowPresented, RecordAuthorization,
       FollowDecided, RecordByLink, MarkLinkUsed, LoadMove, FollowUpFails, TransitionStatus,
       Seal, TypeOK
<1> QED BY <1>1, <1>2, <1>3, <1>4, <1>5, <1>6, Cases

\* Every step keeps the gate: no work order is worked on without approval.
LEMMA GateStep == TypeInv /\ GateInv /\ [Next]_vars => GateInv'
<1> SUFFICES ASSUME TypeInv, GateInv, [Next]_vars PROVE GateInv'
  OBVIOUS
<1> USE DEF GateInv
<1>0. TypeOK
  BY DEF TypeInv
<1>1. AddsFresh' /\ LinkKnows'
  BY AddsFreshStep, LinkKnowsStep
<1>2. MovesValid'
  <2>1. ASSUME NEW a \in Requests, Loads(a) \/ Ends(a) \/ GoesOn(a), NEW q \in Requests,
               pc'[q] \in {"move", "moveOn"}
        PROVE  CanTransition(from'[q], goal'[q]) /\ (goal'[q] = "AUTHORIZED" => BaselineApproved)
    <3>1. CASE a = q
      <4>1. LoadMove(q)
        BY <1>0, <2>1, <3>1, OwnStep
      <4>2. PICK target \in WorkOrderStatuses :
              /\ CanTransition(wo, target) /\ Prerequisites(target)
              /\ goal'[q] = target /\ from'[q] = wo
        BY <1>0, <4>1 DEF LoadMove, TypeOK
      <4>3. \A l \in approved : home[l] # 0
        BY <1>0 DEF TypeOK, Decided
      <4> QED BY <4>2, <4>3 DEF Prerequisites, BaselineApproved
    <3>2. CASE a # q
      BY <1>0, <2>1, <3>2, OthersKept DEF SameFor, MovesValid
    <3> QED BY <3>1, <3>2
  <2>2. CASE CreateDraftRevision \/ UNCHANGED vars \/ \E k \in Links : LinkEnds(k)
    <3>1. UNCHANGED <<pc, from, goal>>
      BY <2>2 DEF CreateDraftRevision, LinkEnds, vars, memory
    <3> QED BY <3>1, BaselineStaysApproved DEF MovesValid
  <2> QED BY <2>1, <2>2, BaselineStaysApproved, Cases DEF MovesValid
<1>3. ChangeOrdersLate'
  <2>1. CASE wo \in Committed \cup {"CANCELLED"}
    <3>1. wo' \in Committed \cup {"CANCELLED"}
      BY <2>1, WorkOrderStep DEF MovesValid, CanTransition, ValidTransitions, Committed
    <3> QED BY <3>1 DEF ChangeOrdersLate
  <2>2. CASE /\ wo \notin Committed \cup {"CANCELLED"}
             /\ \A r \in Revisions : status[r] # "NONE" => kind[r] = "BASELINE"
             /\ \A q \in Requests : pc[q] # "changeOrder"
    <3>1. \A r \in Revisions : status'[r] # "NONE" => kind'[r] = "BASELINE"
      BY <2>2, NewDocument, TypeStep DEF Later
    <3>2. ASSUME NEW q \in Requests PROVE pc'[q] # "changeOrder"
      <4>1. ASSUME NEW a \in Requests, Loads(a) \/ Ends(a) \/ GoesOn(a)
            PROVE  pc'[q] # "changeOrder"
        <5>1. ~LoadForChangeOrder(q)
          BY <2>2 DEF LoadForChangeOrder, Committed
        <5> QED BY <1>0, <2>2, <4>1, <5>1, OwnStep, OthersKept DEF SameFor
      <4>2. CASE CreateDraftRevision \/ UNCHANGED vars \/ \E k \in Links : LinkEnds(k)
        BY <2>2, <4>2 DEF CreateDraftRevision, LinkEnds, vars
      <4> QED BY <4>1, <4>2, Cases
    <3> QED BY <3>1, <3>2 DEF ChangeOrdersLate
  <2> QED BY <2>1, <2>2 DEF ChangeOrdersLate
<1>4. AuthorizedMeansApproved'
  <2> SUFFICES ASSUME wo' \in Committed PROVE BaselineApproved
    BY BaselineStaysApproved DEF AuthorizedMeansApproved, BaselineApproved
  <2>1. CASE wo' = wo
    BY <2>1 DEF AuthorizedMeansApproved, BaselineApproved
  <2>2. ASSUME NEW q \in Requests, pc[q] \in {"move", "moveOn"}, wo = from[q], wo' = goal[q]
        PROVE  BaselineApproved
    <3>1. goal[q] = "AUTHORIZED" \/ wo \in Committed
      BY <1>0, <2>2 DEF MovesValid, CanTransition, ValidTransitions, Committed, TypeOK,
           WorkOrderStatuses
    <3> QED BY <2>2, <3>1 DEF MovesValid, AuthorizedMeansApproved, BaselineApproved
  <2>3. ASSUME NEW q \in Requests, pc[q] = "linkUsed", wo = "AWAITING_AUTHORIZATION"
        PROVE  BaselineApproved
    <3>1. PICK l \in approved : home[l] = rev[q]
      BY <2>3 DEF LinkKnows
    <3>2. rev[q] \in Revisions /\ status[rev[q]] # "NONE"
      BY <2>3 DEF TypeInv, RevisionKnown, OnRevision
    <3>3. kind[rev[q]] = "BASELINE"
      BY <2>3, <3>2 DEF ChangeOrdersLate, Committed
    <3> QED BY <3>1, <3>2, <3>3, RevisionsPositive DEF BaselineApproved
  <2> QED BY <2>1, <2>2, <2>3, WorkOrderStep
<1> QED BY <1>1, <1>2, <1>3, <1>4

\* Nothing is worked on at first.
LEMMA InitGate == Init => GateInv
BY DEF Init, GateInv, ChangeOrdersLate, MovesValid, AddsFresh, LinkKnows, LinkSteps,
   AuthorizedMeansApproved, Committed

\* However requests overlap and customers decide, only a work order with an
\* approved line of its estimate is worked on (assertTransitionPrerequisites,
\* recordAuthorization, the public route).
THEOREM WorkIsAuthorized == Spec => []AuthorizedMeansApproved
<1>1. GateInv => AuthorizedMeansApproved
  BY DEF GateInv
<1> QED BY <1>1, InitTypes, TypeStep, InitGate, GateStep, PTL DEF Spec

\* Every step keeps what is billed, or about to be billed, among the approved.
LEMMA BillStep == TypeInv /\ AddsFresh /\ BillInv /\ [Next]_vars => BillInv'
<1> SUFFICES ASSUME TypeInv, AddsFresh, BillInv, [Next]_vars PROVE BillInv'
  OBVIOUS
<1> USE DEF BillInv
<1>0. TypeOK /\ approved \subseteq approved'
  BY LinesKept DEF TypeInv
<1>1. BillsApproved'
  <2>1. ASSUME NEW a \in Requests, Loads(a) \/ Ends(a) \/ GoesOn(a), NEW q \in Requests,
               pc'[q] = "invoice", ApprovedOnly
        PROVE  yes'[q] \subseteq approved
    <3>1. CASE a = q
      <4>1. LoadForInvoice(q)
        BY <1>0, <2>1, <3>1, OwnStep
      <4>2. PICK lines \in SUBSET Lines : Billable(lines) /\ Begin(q, "invoice", 0, lines, {})
        BY <4>1 DEF LoadForInvoice
      <4>3. yes'[q] = lines
        BY <1>0, <4>2 DEF Begin, TypeOK
      <4> QED BY <2>1, <4>2, <4>3 DEF Billable
    <3>2. CASE a # q
      BY <1>0, <2>1, <3>2, OthersKept DEF SameFor, BillsApproved
    <3> QED BY <3>1, <3>2
  <2>2. CASE CreateDraftRevision \/ UNCHANGED vars \/ \E k \in Links : LinkEnds(k)
    <3>1. UNCHANGED <<pc, yes>>
      BY <2>2 DEF CreateDraftRevision, LinkEnds, vars, memory
    <3> QED BY <1>0, <3>1 DEF BillsApproved
  <2> QED BY <1>0, <2>1, <2>2, Cases DEF BillsApproved
<1>2. InvoicedWasApproved'
  <2>1. ASSUME NEW q \in Requests, CreateInvoice(q)
        PROVE  ApprovedOnly => billed' \subseteq approved
    BY <2>1 DEF CreateInvoice, BillsApproved
  <2>2. CASE \A q \in Requests : ~CreateInvoice(q)
    <3>1. billed' = billed
      BY <2>2, Cases DEF Loads, Ends, GoesOn, LoadForChangeOrder, LoadToEdit, LoadToPresent,
           LoadToSupersede, LoadToVoid, LoadForLink, LoadDecisions, OpenLink, LoadForInvoice,
           CreateChangeOrder, AddLine, RemoveLine, PresentChangeOrder, ApplyChangeOrder,
           SupersedeRevision, VoidChangeOrder, CreateAuthorizationLink,
           ResendAuthorizationLink, AuthorizeByLink, Fail, PresentRevision, FollowPresented,
           RecordAuthorization, FollowDecided, RecordByLink, MarkLinkUsed, LoadMove,
           FollowUpFails, TransitionStatus, CreateDraftRevision, LinkEnds, vars, invoiceVars
    <3> QED BY <1>0, <3>1 DEF InvoicedWasApproved
  <2> QED BY <1>0, <2>1, <2>2 DEF InvoicedWasApproved
<1> QED BY <1>1, <1>2

\* Under APPROVED_ONLY an invoice bills approved lines only, also when decisions
\* are recorded while it is being made (createInvoiceFromWorkOrder).
THEOREM OnlyApprovedIsBilled == Spec => []InvoicedWasApproved
<1>1. Init => BillInv
  BY DEF Init, BillInv, BillsApproved, InvoicedWasApproved
<1>2. BillInv => InvoicedWasApproved
  BY DEF BillInv
<1>3. GateInv => AddsFresh
  BY DEF GateInv
<1> QED BY <1>1, <1>2, <1>3, InitTypes, TypeStep, InitGate, GateStep, BillStep, PTL DEF Spec

-----------------------------------------------------------------------------
(* Requests that do not overlap, decided by staff: the agreement is kept. *)

\* Options of one group in one document.
Options(l, m) == home[l] = home[m] /\ Alternatives(l, m)

\* A line is approved or declined, not both, and its document stays as it was
\* presented; where an option is approved the others are decided too.
Settled ==
  /\ approved \cap declined = {}
  /\ \A l \in Decided : status[home[l]] = "PRESENTED"
  /\ \A l \in approved, m \in Lines : Options(l, m) => m \in Decided

\* What request q, alone, has read of its revision and its lines is still so.
UpToDate(q) ==
  /\ pc[q] \notin LinkSteps
  /\ pc[q] \in {"add", "remove", "present", "presentChangeOrder"} => status[rev[q]] = "DRAFT"
  /\ pc[q] = "add" => \E l \in Lines : yes[q] = {l} /\ home[l] = 0
  /\ pc[q] = "remove" => \E l \in Lines : yes[q] = {l} /\ home[l] = rev[q]
  /\ pc[q] = "presentChangeOrder" => yes[q] = LinesOf(rev[q])
  /\ pc[q] \in {"supersede", "void", "decide"} => status[rev[q]] = "PRESENTED"
  /\ pc[q] \in {"supersede", "void"} => Undecided(LinesOf(rev[q]))
  /\ pc[q] = "decide" =>
       /\ yes[q] \cup no[q] \subseteq LinesOf(rev[q]) \ Decided
       /\ yes[q] \cap no[q] = {}
       /\ \A l \in yes[q], m \in Lines : Options(l, m) => m \in no[q] \cup declined

AgreementInv(q) == Settled /\ UpToDate(q)

\* The steps in which a request relies on what it has read.
Relying == {"add", "remove", "present", "presentChangeOrder", "supersede", "void", "decide"}

\* A request that relies on nothing is up to date.
LEMMA NothingToKnow ==
  ASSUME NEW q, pc'[q] \notin Relying \cup LinkSteps
  PROVE  UpToDate(q)'
BY DEF UpToDate, Relying

\* Where lines and decisions stay, and documents but for new ones, so does the agreement.
LEMMA AgreementStays ==
  ASSUME TypeInv, UNCHANGED <<home, approved, declined>>,
         \A r \in Revisions : status[r] # "NONE" => status'[r] = status[r]
  PROVE  /\ Settled => Settled'
         /\ UNCHANGED Promise!vars
<1>1. \A l \in Lines : home[l] # 0 => status'[home[l]] = status[home[l]]
  BY DEF TypeInv, TypeOK
<1>2. \A l \in Decided : l \in Lines /\ home[l] # 0
  BY DEF TypeInv, TypeOK, Decided
<1>3. \A l \in Lines : Stage(l)' = Stage(l)
  BY <1>1 DEF Stage
<1>4. Settled => Settled'
  BY <1>1, <1>2 DEF Settled, Decided, Options, Alternatives
<1> QED BY <1>3, <1>4 DEF Promise!vars

\* The stage of a line that somebody has decided on, and of one that is in a document.
LEMMA StageOf ==
  ASSUME TypeInv, Settled, NEW l \in Lines
  PROVE  /\ home[l] = 0 => Stage(l) = "none"
         /\ l \in approved => Stage(l) = "approved"
         /\ l \in declined => Stage(l) = "declined"
         /\ home[l] # 0 /\ status[home[l]] = "DRAFT" => Stage(l) = "draft"
         /\ home[l] # 0 /\ status[home[l]] = "PRESENTED" /\ l \notin Decided => Stage(l) = "offered"
         /\ home[l] # 0 /\ status[home[l]] \in {"SUPERSEDED", "VOIDED"} => Stage(l) = "withdrawn"
BY DEF TypeInv, TypeOK, Settled, Stage, Decided

\* A request that begins, alone, reads what is so.
LEMMA LoadsUpToDate ==
  ASSUME NEW q, Requests = {q}, ~ByLink, TypeInv, AgreementInv(q), Loads(q)
  PROVE  AgreementInv(q)' /\ UNCHANGED Promise!vars
<1> USE DEF Relying, LinkSteps
<1>0. TypeOK /\ Settled /\ q \in Requests
  BY DEF TypeInv, AgreementInv
<1>1. UNCHANGED <<status, home, approved, declined>>
  BY DEF Loads, LoadForChangeOrder, LoadToEdit, LoadToPresent, LoadToSupersede, LoadToVoid,
    LoadForLink, LoadDecisions, OpenLink, LoadForInvoice, docVars, decisionVars
<1>2. Settled' /\ UNCHANGED Promise!vars
  BY <1>0, <1>1, AgreementStays
<1>3. CASE LoadForChangeOrder(q) \/ LoadForLink(q) \/ LoadForInvoice(q)
  <2>1. pc'[q] \in {"changeOrder", "link", "resend", "invoice"}
    BY <1>0, <1>3 DEF LoadForChangeOrder, LoadForLink, LoadForInvoice, Begin, TypeOK
  <2> QED BY <1>2, <2>1, NothingToKnow DEF AgreementInv
<1>4. CASE LoadToEdit(q)
  <2>1. PICK r \in Revisions, l \in Lines \ Fees :
          /\ status[r] = "DRAFT"
          /\ \/ FreeLine(l) /\ Begin(q, "add", r, {l}, {})
             \/ home[l] = r /\ Begin(q, "remove", r, {l}, {})
    BY <1>4 DEF LoadToEdit
  <2>2. rev'[q] = r /\ yes'[q] = {l}
    BY <1>0, <2>1 DEF Begin, TypeOK
  <2>3. (pc'[q] = "add" /\ home[l] = 0) \/ (pc'[q] = "remove" /\ home[l] = r)
    <3>1. ASSUME FreeLine(l), Begin(q, "add", r, {l}, {}) PROVE pc'[q] = "add" /\ home[l] = 0
      BY <1>0, <3>1 DEF Begin, FreeLine, TypeOK
    <3>2. ASSUME Begin(q, "remove", r, {l}, {}) PROVE pc'[q] = "remove"
      BY <1>0, <3>2 DEF Begin, TypeOK
    <3> QED BY <2>1, <3>1, <3>2
  <2> QED BY <1>1, <1>2, <2>1, <2>2, <2>3 DEF AgreementInv, UpToDate
<1>5. CASE LoadToPresent(q)
  <2>1. PICK r \in Revisions :
          /\ status[r] = "DRAFT"
          /\ \/ Begin(q, "present", r, {}, {})
             \/ Begin(q, "presentChangeOrder", r, LinesOf(r), {})
    BY <1>5 DEF LoadToPresent
  <2>2. /\ rev'[q] = r /\ pc'[q] \in {"present", "presentChangeOrder"}
        /\ pc'[q] = "presentChangeOrder" => yes'[q] = LinesOf(r)
    BY <1>0, <2>1 DEF Begin, TypeOK
  <2>3. LinesOf(r)' = LinesOf(r)
    BY <1>1 DEF LinesOf
  <2> QED BY <1>1, <1>2, <2>1, <2>2, <2>3 DEF AgreementInv, UpToDate, LinesOf
<1>6. CASE LoadToSupersede(q) \/ LoadToVoid(q)
  <2>1. PICK r \in Revisions, step \in {"supersede", "void"} :
          status[r] = "PRESENTED" /\ Undecided(LinesOf(r)) /\ Begin(q, step, r, {}, {})
    BY <1>6 DEF LoadToSupersede, LoadToVoid, Presented
  <2>2. rev'[q] = r /\ pc'[q] = step
    BY <1>0, <2>1 DEF Begin, TypeOK
  <2> QED BY <1>1, <1>2, <2>1, <2>2 DEF AgreementInv, UpToDate, LinesOf, Undecided, Decided
<1>7. CASE LoadDecisions(q)
  <2>0. PICK r \in Revisions : \E picked, refused \in SUBSET LinesOf(r) :
          /\ status[r] = "PRESENTED"
          /\ picked \cap refused = {}
          /\ ~Conflicting(picked)
          /\ Undecided(picked \cup refused)
          /\ Begin(q, "decide", r, picked,
                   refused \cup AutoDeclined(r, picked, picked \cup refused))
    BY <1>7 DEF LoadDecisions
  <2>1. PICK picked \in SUBSET LinesOf(r), refused \in SUBSET LinesOf(r) :
          /\ status[r] = "PRESENTED"
          /\ picked \cap refused = {}
          /\ ~Conflicting(picked)
          /\ Undecided(picked \cup refused)
          /\ Begin(q, "decide", r, picked,
                   refused \cup AutoDeclined(r, picked, picked \cup refused))
    BY <2>0
  <2> DEFINE refusedToo == refused \cup AutoDeclined(r, picked, picked \cup refused)
  <2>2. rev'[q] = r /\ pc'[q] = "decide" /\ yes'[q] = picked /\ no'[q] = refusedToo
    BY <1>0, <2>1 DEF Begin, TypeOK
  <2>3. /\ picked \cup refusedToo \subseteq LinesOf(r) \ Decided
        /\ picked \cap refusedToo = {}
    BY <2>1 DEF Undecided, AutoDeclined
  <2>4. ASSUME NEW l \in picked, NEW m \in Lines, Options(l, m) PROVE m \in refusedToo \cup declined
    <3>1. m \in LinesOf(r) /\ l \in Lines /\ Alternatives(l, m) /\ Alternatives(m, l)
      BY <2>4 DEF Options, LinesOf, Alternatives
    <3>2. m \notin picked
      BY <2>1, <3>1 DEF Conflicting
    <3>3. m \in approved => l \in Decided
      BY <1>0, <2>4, <3>1 DEF Settled, Options
    <3>4. m \notin approved
      BY <2>3, <3>3
    <3> QED BY <3>1, <3>2, <3>4 DEF AutoDeclined, Decided
  <2> HIDE DEF refusedToo
  <2>5. LinesOf(r)' = LinesOf(r) /\ Decided' = Decided
    BY <1>1 DEF LinesOf, Decided
  <2>6. \A l \in picked, m \in Lines : Options(l, m)' => m \in refusedToo \cup declined
    BY <1>1, <2>4 DEF Options, Alternatives
  <2>7. UpToDate(q)'
    BY <1>1, <2>1, <2>2, <2>3, <2>5, <2>6 DEF UpToDate, LinesOf, Options
  <2> QED BY <1>2, <2>7 DEF AgreementInv
<1>8. CASE OpenLink(q)
  BY <1>8 DEF OpenLink
<1> QED BY <1>3, <1>4, <1>5, <1>6, <1>7, <1>8 DEF Loads

\* A line is put into a draft, or taken out of one.
LEMMA EditKeepsAgreement ==
  ASSUME NEW q, Requests = {q}, TypeInv, TypeInv', AgreementInv(q), AddLine(q) \/ RemoveLine(q)
  PROVE  AgreementInv(q)' /\ Promise!Next
<1>0. TypeOK /\ Settled /\ UpToDate(q) /\ q \in Requests
  BY DEF TypeInv, AgreementInv
<1> DEFINE d == rev[q]
<1>1. status[d] = "DRAFT" /\ d \in Revisions /\ d # 0
  BY <1>0, RevisionsPositive DEF UpToDate, AddLine, RemoveLine, TypeInv, RevisionKnown, OnRevision
<1>2. PICK l \in Lines :
        /\ yes[q] = {l}
        /\ \/ AddLine(q) /\ home[l] = 0 /\ home' = [home EXCEPT ![l] = d]
           \/ RemoveLine(q) /\ home[l] = d /\ home' = [home EXCEPT ![l] = 0]
  BY <1>0 DEF UpToDate, AddLine, RemoveLine, TypeOK
<1>3. UNCHANGED <<status, approved, declined>> /\ Finish(q)
  BY DEF AddLine, RemoveLine, decisionVars
<1>4. l \notin Decided /\ \A m \in Decided : home'[m] = home[m] /\ home[m] # d
  <2>1. \A m \in Decided : m \in Lines /\ home[m] # 0 /\ status[home[m]] = "PRESENTED"
    BY <1>0 DEF Settled, TypeOK, Decided
  <2>2. \A m \in Decided : home[m] # d
    BY <1>1, <2>1
  <2>3. l \notin Decided
    BY <1>2, <2>1, <2>2
  <2> QED BY <1>0, <1>2, <2>1, <2>2, <2>3 DEF TypeOK
<1>5. Settled'
  <2>1. \A m \in approved, k \in Lines : Options(m, k)' => Options(m, k)
    BY <1>0, <1>1, <1>2, <1>4, RevisionsPositive DEF Options, Alternatives, TypeOK, Decided
  <2> QED BY <1>0, <1>3, <1>4, <2>1 DEF Settled, Decided
<1>6. UpToDate(q)'
  <2>1. pc'[q] = "idle"
    BY <1>0, <1>3, Finishes
  <2> QED BY <2>1, NothingToKnow DEF Relying, LinkSteps
<1>7. \A m \in Lines \ {l} : Stage(m)' = Stage(m)
  BY <1>0, <1>2, <1>3 DEF Stage, TypeOK
<1>8. CASE AddLine(q)
  <2>1. Stage(l) = "none" /\ Stage(l)' = "draft"
    BY <1>0, <1>1, <1>2, <1>3, <1>4, <1>8, Finishes DEF Stage, Decided, TypeOK, AddLine, RemoveLine
  <2>2. \A m \in Lines : home[m] = d => Stage(m) = "draft"
    BY <1>0, <1>1, StageOf
  <2>3. home' = [home EXCEPT ![l] = d]
    BY <1>1, <1>2, <1>8 DEF AddLine, RemoveLine
  <2>4. Promise!Draft(l, d)
    BY <1>7, <2>1, <2>2, <2>3 DEF Promise!Draft, Promise!Content
  <2> QED BY <1>1, <1>5, <1>6, <2>4 DEF AgreementInv, Promise!Next
<1>9. CASE RemoveLine(q)
  <2>1. Stage(l) = "draft" /\ Stage(l)' = "none" /\ home' = [home EXCEPT ![l] = 0]
    BY <1>0, <1>1, <1>2, <1>4, <1>9 DEF Stage, Decided, TypeOK, AddLine, RemoveLine
  <2>2. Promise!Drop(l)
    BY <1>7, <2>1 DEF Promise!Drop
  <2> QED BY <1>5, <1>6, <2>2 DEF AgreementInv, Promise!Next
<1> QED BY <1>8, <1>9

\* A draft is presented with its fees, and approved at once if it only gives credit.
LEMMA OfferKeepsAgreement ==
  ASSUME NEW q, Requests = {q}, TypeInv, TypeInv', AgreementInv(q),
         PresentRevision(q) \/ PresentChangeOrder(q) \/ ApplyChangeOrder(q)
  PROVE  AgreementInv(q)' /\ Promise!Next
<1>0. TypeOK /\ Settled /\ UpToDate(q) /\ q \in Requests
  BY DEF TypeInv, AgreementInv
<1> DEFINE d == rev[q]
           applied == IF ApplyChangeOrder(q) THEN yes[q] ELSE {}
<1>1. pc[q] \in {"present", "presentChangeOrder"}
  BY DEF PresentRevision, PresentChangeOrder, ApplyChangeOrder
<1>2. d \in Revisions /\ d # 0 /\ status[d] = "DRAFT" /\ status' = [status EXCEPT ![d] = "PRESENTED"]
  BY <1>0, <1>1, RevisionsPositive DEF TypeInv, RevisionKnown, OnRevision, Seal,
    PresentRevision, PresentChangeOrder, ApplyChangeOrder
<1>3. PICK fees \in SUBSET {l \in Fees : FreeLine(l)} : home' = WithFees(d, fees)
  BY DEF PresentRevision, PresentChangeOrder, ApplyChangeOrder
<1>4. /\ fees \in SUBSET Lines /\ \A l \in fees : home[l] = 0 /\ GroupOf[l] = NoGroup
      /\ \A l \in Lines : home'[l] = IF l \in fees THEN d ELSE home[l]
  BY <1>0, <1>3, EstimateAssumption DEF FreeLine, WithFees
<1>5. applied \in {{}, LinesOf(d)} /\ approved' = approved \cup applied /\ declined' = declined
  BY <1>0, <1>1 DEF PresentRevision, PresentChangeOrder, ApplyChangeOrder, UpToDate, decisionVars
<1> HIDE DEF applied
<1>6. \A l \in Decided : l \in Lines /\ home[l] # 0 /\ home[l] # d /\ l \notin fees /\ status[home[l]] = "PRESENTED"
  <2>1. \A l \in Decided : l \in Lines /\ home[l] # 0 /\ status[home[l]] = "PRESENTED"
    BY <1>0 DEF Settled, TypeOK, Decided
  <2> QED BY <1>2, <1>4, <2>1
<1>7. Settled'
  <2>1. applied \cap Decided = {} /\ \A l \in applied : l \in Lines /\ home[l] = d /\ l \notin fees
    BY <1>2, <1>4, <1>5, <1>6 DEF LinesOf
  <2>2. approved' \cap declined' = {}
    BY <1>0, <1>5, <2>1 DEF Settled, Decided
  <2>3. ASSUME NEW l \in Decided' PROVE status'[home'[l]] = "PRESENTED"
    <3>1. l \in applied \/ l \in Decided
      BY <1>5 DEF Decided
    <3>2. l \in applied => home'[l] = d
      BY <1>4, <2>1
    <3>3. l \in Decided => home'[l] = home[l] /\ home[l] \in Revisions
      BY <1>0, <1>4, <1>6 DEF TypeOK
    <3> QED BY <1>0, <1>2, <1>6, <3>1, <3>2, <3>3 DEF TypeOK
  <2>4. ASSUME NEW l \in approved', NEW m \in Lines, Options(l, m)' PROVE m \in Decided'
    <3>1. l \notin fees /\ l \in Lines
      BY <1>5, <1>6, <2>1 DEF Decided
    <3>2. Alternatives(l, m) /\ home'[l] = home'[m] /\ m \notin fees
      BY <1>4, <2>4, <3>1 DEF Options, Alternatives
    <3>3. home[l] = home[m]
      BY <1>4, <3>1, <3>2
    <3>4. CASE l \in applied
      <4>1. applied = LinesOf(d)
        BY <1>5, <3>4
      <4> QED BY <1>5, <2>1, <3>3, <3>4, <4>1 DEF LinesOf, Decided
    <3>5. CASE l \in approved
      BY <1>0, <1>5, <3>2, <3>3, <3>5 DEF Settled, Options, Decided
    <3> QED BY <1>5, <3>4, <3>5
  <2> QED BY <2>2, <2>3, <2>4 DEF Settled
<1>8. UpToDate(q)'
  <2>1. pc'[q] \in {"idle", "presented"}
    BY <1>0, Finishes DEF PresentRevision, PresentChangeOrder, ApplyChangeOrder, TypeOK
  <2> QED BY <2>1, NothingToKnow DEF Relying, LinkSteps
<1>9. /\ \A l \in LinesOf(d) : Stage(l) = "draft"
      /\ \A l \in fees : Stage(l) = "none"
  BY <1>0, <1>2, <1>4, StageOf DEF LinesOf
<1>10. \A l \in Lines : Stage(l)' = IF l \in applied THEN "approved"
                                    ELSE IF l \in LinesOf(d) \cup fees THEN "offered" ELSE Stage(l)
  <2>1. ASSUME NEW l \in LinesOf(d) \cup fees
        PROVE  Stage(l)' = IF l \in applied THEN "approved" ELSE "offered"
    <3>1. home'[l] = d /\ l \in Lines /\ l \notin Decided /\ status'[home'[l]] = "PRESENTED"
      BY <1>0, <1>2, <1>4, <1>6 DEF LinesOf, TypeOK
    <3>2. l \in approved' <=> l \in applied
      BY <1>5, <3>1 DEF Decided
    <3>3. l \notin declined'
      BY <1>5, <3>1 DEF Decided
    <3> QED BY <1>2, <3>1, <3>2, <3>3 DEF Stage
  <2>2. ASSUME NEW l \in Lines \ (LinesOf(d) \cup fees) PROVE Stage(l)' = Stage(l) /\ l \notin applied
    <3>1. home'[l] = home[l] /\ home[l] # d /\ l \notin applied
      BY <1>4, <1>5 DEF LinesOf
    <3>2. home[l] # 0 => status'[home[l]] = status[home[l]]
      BY <1>0, <1>2, <3>1 DEF TypeOK
    <3>3. (l \in approved' <=> l \in approved) /\ (l \in declined' <=> l \in declined)
      BY <1>5, <3>1
    <3> QED BY <3>1, <3>2, <3>3 DEF Stage
  <2> QED BY <2>1, <2>2 DEF LinesOf
<1>11. Promise!Offer(d, fees, applied)
  <2>1. Promise!Content(d) = LinesOf(d)
    BY DEF Promise!Content, LinesOf
  <2>2. home' = [l \in Lines |-> IF l \in fees THEN d ELSE home[l]]
    BY <1>3 DEF WithFees
  <2>3. \A l \in LinesOf(d) : l \in Lines
    BY DEF LinesOf
  <2> QED BY <1>4, <1>5, <1>9, <1>10, <2>1, <2>2, <2>3 DEF Promise!Offer
<1>12. applied \in SUBSET Lines
  BY <1>5 DEF LinesOf
<1> QED BY <1>2, <1>4, <1>7, <1>8, <1>11, <1>12 DEF AgreementInv, Promise!Next

\* A document nobody has decided on is withdrawn.
LEMMA WithdrawKeepsAgreement ==
  ASSUME NEW q, Requests = {q}, TypeInv, TypeInv', AgreementInv(q),
         SupersedeRevision(q) \/ VoidChangeOrder(q)
  PROVE  AgreementInv(q)' /\ Promise!Next
<1>0. TypeOK /\ Settled /\ UpToDate(q) /\ q \in Requests
  BY DEF TypeInv, AgreementInv
<1> DEFINE d == rev[q]
<1>1. pc[q] \in {"supersede", "void"}
  BY DEF SupersedeRevision, VoidChangeOrder
<1>2. d \in Revisions /\ d # 0 /\ status[d] = "PRESENTED" /\ LinesOf(d) \cap Decided = {}
  BY <1>0, <1>1, RevisionsPositive DEF UpToDate, TypeInv, RevisionKnown, OnRevision, Undecided
<1>3. UNCHANGED <<home, approved, declined>> /\ Finish(q)
  BY DEF SupersedeRevision, VoidChangeOrder, decisionVars
<1>4. /\ status'[d] \in {"SUPERSEDED", "VOIDED"}
      /\ \A r \in Revisions \ {d} : status[r] # "NONE" => status'[r] = status[r]
  <2>1. CASE VoidChangeOrder(q)
    BY <1>0, <1>2, <2>1 DEF VoidChangeOrder, TypeOK
  <2>2. CASE SupersedeRevision(q)
    <3>1. d + 1 \in Revisions /\ status[d + 1] = "NONE" /\ d + 1 # d
      BY <1>2, <2>2 DEF SupersedeRevision, NewRevision, Revisions
    <3>2. status' = [status EXCEPT ![d] = "SUPERSEDED", ![d + 1] = "DRAFT"]
      BY <2>2 DEF SupersedeRevision
    <3> QED BY <1>0, <1>2, <3>1, <3>2 DEF TypeOK
  <2> QED BY <2>1, <2>2
<1>5. \A l \in Decided : l \in Lines /\ home[l] \in Revisions \ {d} /\ status'[home[l]] = "PRESENTED"
  <2>1. \A l \in Decided : l \in Lines /\ home[l] \in Revisions /\ status[home[l]] = "PRESENTED"
    BY <1>0 DEF Settled, TypeOK, Decided
  <2>2. \A l \in Decided : home[l] # d
    BY <1>2, <2>1 DEF LinesOf
  <2> QED BY <1>4, <2>1, <2>2
<1>6. Settled'
  BY <1>0, <1>3, <1>5 DEF Settled, Decided, Options, Alternatives
<1>7. UpToDate(q)'
  <2>1. pc'[q] = "idle"
    BY <1>0, <1>3, Finishes
  <2> QED BY <2>1, NothingToKnow DEF Relying, LinkSteps
<1>8. \A l \in LinesOf(d) : Stage(l) = "offered" /\ Stage(l)' = "withdrawn"
  <2>1. ASSUME NEW l \in LinesOf(d) PROVE Stage(l)' = "withdrawn"
    <3>1. home'[l] = d /\ l \notin approved' /\ l \notin declined'
      BY <1>2, <1>3 DEF LinesOf, Decided
    <3> QED BY <1>2, <1>4, <3>1 DEF Stage
  <2>2. \A l \in LinesOf(d) : Stage(l) = "offered"
    BY <1>0, <1>2, StageOf DEF LinesOf
  <2> QED BY <2>1, <2>2
<1>9. \A l \in Lines \ LinesOf(d) : Stage(l)' = Stage(l)
  <2> TAKE l \in Lines \ LinesOf(d)
  <2>1. home[l] # 0 => status'[home[l]] = status[home[l]]
    BY <1>0, <1>4 DEF LinesOf, TypeOK
  <2> QED BY <1>3, <2>1 DEF Stage
<1>10. Promise!Withdraw(d)
  <2>1. \A l \in Lines : l \in LinesOf(d) <=> home[l] = d
    BY DEF LinesOf
  <2>2. Promise!Content(d) = LinesOf(d) /\ \A l \in LinesOf(d) : l \in Lines
    BY DEF Promise!Content, LinesOf
  <2> QED BY <1>3, <1>8, <1>9, <2>1, <2>2 DEF Promise!Withdraw
<1> QED BY <1>2, <1>6, <1>7, <1>10 DEF AgreementInv, Promise!Next

\* Staff record what the customer has decided.
LEMMA DecideKeepsAgreement ==
  ASSUME NEW q, Requests = {q}, TypeInv, TypeInv', AgreementInv(q), RecordAuthorization(q)
  PROVE  AgreementInv(q)' /\ Promise!Next
<1>0. TypeOK /\ Settled /\ UpToDate(q) /\ q \in Requests
  BY DEF TypeInv, AgreementInv
<1> DEFINE d == rev[q]
<1>1. /\ d \in Revisions /\ d # 0 /\ status[d] = "PRESENTED"
      /\ yes[q] \cup no[q] \subseteq LinesOf(d) \ Decided
      /\ yes[q] \cap no[q] = {}
      /\ \A l \in yes[q], m \in Lines : Options(l, m) => m \in no[q] \cup declined
  BY <1>0, RevisionsPositive DEF UpToDate, RecordAuthorization, TypeInv, RevisionKnown, OnRevision
<1>2. /\ approved' = approved \cup yes[q] /\ declined' = declined \cup no[q]
      /\ UNCHANGED <<status, home>>
  BY DEF RecordAuthorization, docVars
<1>3. Settled'
  <2>1. approved' \cap declined' = {}
    BY <1>0, <1>1, <1>2 DEF Settled, Decided
  <2>2. \A l \in Decided' : status'[home'[l]] = "PRESENTED"
    BY <1>0, <1>1, <1>2 DEF Settled, Decided, LinesOf
  <2>3. \A l \in approved', m \in Lines : Options(l, m)' => m \in Decided'
    <3>1. \A l, m \in Lines : Options(l, m)' => Options(l, m)
      BY <1>2 DEF Options, Alternatives
    <3>2. \A l \in approved \cup yes[q] : l \in Lines
      BY <1>0, <1>1 DEF TypeOK, LinesOf
    <3> QED BY <1>0, <1>1, <1>2, <3>1, <3>2 DEF Settled, Decided
  <2> QED BY <2>1, <2>2, <2>3 DEF Settled
<1>4. UpToDate(q)'
  <2>1. pc'[q] \in {"idle", "decided"}
    BY <1>0, Finishes DEF RecordAuthorization, TypeOK
  <2> QED BY <2>1, NothingToKnow DEF Relying, LinkSteps
<1>5. \A l \in Lines : Stage(l)' = IF l \in yes[q] THEN "approved"
                                   ELSE IF l \in no[q] THEN "declined" ELSE Stage(l)
  <2> TAKE l \in Lines
  <2>1. l \in yes[q] \cup no[q] => home[l] = d /\ l \notin approved \cup declined
    BY <1>1 DEF LinesOf, Decided
  <2> QED BY <1>1, <1>2, <2>1 DEF Stage
<1>6. \A l \in yes[q] \cup no[q] : l \in Lines /\ home[l] = d /\ Stage(l) = "offered"
  BY <1>0, <1>1, StageOf DEF LinesOf
<1>7. \A m \in declined : m \in Lines /\ Stage(m) = "declined"
  BY <1>0, StageOf DEF TypeOK
<1>8. Promise!Decide(d, yes[q], no[q])
  <2>1. \A l \in yes[q], m \in Lines : Promise!Alternatives(l, m) => m \in no[q] \/ Stage(m) = "declined"
    BY <1>1, <1>7 DEF Promise!Alternatives, Options, Alternatives
  <2> QED BY <1>1, <1>2, <1>5, <1>6, <2>1 DEF Promise!Decide
<1>9. yes[q] \in SUBSET Lines /\ no[q] \in SUBSET Lines
  BY <1>6
<1> QED BY <1>1, <1>3, <1>4, <1>8, <1>9 DEF AgreementInv, Promise!Next

\* The other steps leave lines, decisions and existing documents alone.
LEMMA QuietKeepsAgreement ==
  ASSUME NEW q, Requests = {q}, TypeInv, TypeInv', AgreementInv(q),
         \/ CreateDraftRevision \/ UNCHANGED vars \/ \E k \in Links : LinkEnds(k)
         \/ CreateChangeOrder(q) \/ CreateAuthorizationLink(q) \/ ResendAuthorizationLink(q)
         \/ AuthorizeByLink(q) \/ CreateInvoice(q) \/ Fail(q)
         \/ FollowPresented(q) \/ FollowDecided(q) \/ MarkLinkUsed(q)
         \/ LoadMove(q) \/ FollowUpFails(q) \/ TransitionStatus(q)
  PROVE  AgreementInv(q)' /\ UNCHANGED Promise!vars
<1>0. TypeOK /\ Settled /\ UpToDate(q) /\ q \in Requests
  BY DEF TypeInv, AgreementInv
<1>1. UNCHANGED <<home, approved, declined>>
  BY DEF CreateDraftRevision, vars, LinkEnds, CreateChangeOrder, CreateAuthorizationLink,
    ResendAuthorizationLink, AuthorizeByLink, CreateInvoice, Fail, FollowPresented,
    FollowDecided, MarkLinkUsed, LoadMove, FollowUpFails, TransitionStatus, docVars, decisionVars
<1>2. \A r \in Revisions : status[r] # "NONE" => status'[r] = status[r]
  <2>1. CASE CreateDraftRevision \/ CreateChangeOrder(q)
    BY <1>0, <2>1 DEF CreateDraftRevision, CreateChangeOrder, NewRevision, TypeOK
  <2>2. CASE ~CreateDraftRevision /\ ~CreateChangeOrder(q)
    BY <2>2 DEF vars, LinkEnds, CreateAuthorizationLink,
      ResendAuthorizationLink, AuthorizeByLink, CreateInvoice, Fail, FollowPresented,
      FollowDecided, MarkLinkUsed, LoadMove, FollowUpFails, TransitionStatus, docVars
  <2> QED BY <2>1, <2>2
<1>3. Settled' /\ UNCHANGED Promise!vars
  BY <1>0, <1>1, <1>2, AgreementStays
<1>4. CASE CreateDraftRevision \/ UNCHANGED vars \/ \E k \in Links : LinkEnds(k)
  <2>1. UNCHANGED <<pc, rev, yes, no>>
    BY <1>4 DEF CreateDraftRevision, vars, LinkEnds, memory
  <2>2. pc[q] \in Relying => status[rev[q]] # "NONE" /\ rev[q] \in Revisions
    BY <1>0 DEF TypeInv, RevisionKnown, OnRevision, Relying
  <2>3. pc[q] \in Relying => status'[rev[q]] = status[rev[q]]
    BY <1>2, <2>2
  <2>4. UpToDate(q)'
    BY <1>0, <1>1, <2>1, <2>3 DEF UpToDate, Relying, LinesOf, Undecided, Decided, Options, Alternatives
  <2> QED BY <1>3, <2>4 DEF AgreementInv
<1>5. CASE ~(CreateDraftRevision \/ UNCHANGED vars \/ \E k \in Links : LinkEnds(k))
  <2>1. \/ pc'[q] = "idle"
        \/ pc'[q] \in {"linkUsed", "toEstimating", "toAwaiting", "toAuthorized", "move", "moveOn"}
    BY <1>0, <1>5, Finishes DEF CreateChangeOrder, CreateAuthorizationLink,
      ResendAuthorizationLink, AuthorizeByLink, CreateInvoice, Fail, FollowPresented,
      FollowDecided, MarkLinkUsed, LoadMove, FollowUpFails, TransitionStatus, After, TypeOK
  <2> QED BY <1>3, <2>1, NothingToKnow DEF AgreementInv, Relying, LinkSteps
<1> QED BY <1>4, <1>5

\* While requests do not overlap and staff record the decisions, every step is a step of
\* the agreement, or none.
LEMMA AgreementStep ==
  ASSUME NEW q, Requests = {q}, ~ByLink, TypeInv, AgreementInv(q), [Next]_vars
  PROVE  AgreementInv(q)' /\ [Promise!Next]_(Promise!vars)
<1>1. TypeInv'
  BY TypeStep
<1>2. ~RecordByLink(q)
  BY DEF AgreementInv, UpToDate, RecordByLink
<1> QED BY <1>1, <1>2, Cases, LoadsUpToDate, EditKeepsAgreement, OfferKeepsAgreement,
       WithdrawKeepsAgreement, DecideKeepsAgreement, QuietKeepsAgreement DEF Ends, GoesOn

\* While requests do not overlap and staff record the decisions, the service keeps the
\* agreement with the customer (ADR 0014): what was offered is not changed, each line is
\* decided once and for good, a choice declines its alternatives, and a document is
\* withdrawn only as a whole and undecided.
THEOREM AgreementIsKept ==
  ASSUME NEW q, Requests = {q}, ~ByLink
  PROVE  Spec => ImplementsAgreement
<1>1. Init => AgreementInv(q) /\ Promise!Init
  BY DEF Init, AgreementInv, Settled, UpToDate, Decided, LinkSteps, Stage, Promise!Init
<1>2. TypeInv /\ AgreementInv(q) /\ [Next]_vars
        => AgreementInv(q)' /\ [Promise!Next]_(Promise!vars)
  BY AgreementStep
<1> QED BY <1>1, <1>2, InitTypes, TypeStep, PTL DEF Spec, ImplementsAgreement, Promise!Spec
=============================================================================
