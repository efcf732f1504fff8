---------------------------- MODULE AccessProofs ----------------------------
(***************************************************************************)
(* Proofs about Operators and Access: who administers the platform, and    *)
(* who owns an organization, for any users, rows and transactions.         *)
(***************************************************************************)
EXTENDS Access, Operators, TLAPS

-----------------------------------------------------------------------------
(* Operators. *)

\* Another ADMIN grant than g stands.
AnotherAdmin(g) == \E h \in isAdmin : h # g /\ standing[h] # "revoked"

\* What a revocation in flight relies on: while it may still write, the grant
\* it counted beside its own is there.
OperatorsInv ==
  /\ OperatorsTypeOK
  /\ AdminRemains
  /\ \A g \in isAdmin : standing[g] # "unused"
  /\ \A r \in Revocations :
       revoking[r] # NoGrant =>
         /\ standing[revoking[r]] # "unused"
         /\ revoking[r] \in isAdmin /\ revoking[r] \notin fenced[r]
              => AnotherAdmin(revoking[r])

\* The bootstrap grant is one that stands.
LEMMA OperatorsInitInv ==
  ASSUME OperatorsInit
  PROVE  OperatorsInv
<1> PICK g \in Grants, u \in Staff :
      /\ holder = [h \in Grants |-> IF h = g THEN u ELSE Outsider]
      /\ isAdmin = {g}
      /\ standing = [h \in Grants |-> IF h = g THEN "open" ELSE "unused"]
      /\ revoking = [r \in Revocations |-> NoGrant]
      /\ fenced = [r \in Revocations |-> {}]
  BY DEF OperatorsInit
<1> QED BY DEF OperatorsInv, OperatorsTypeOK, AdminRemains

\* Every step keeps it.
LEMMA OperatorsStepInv ==
  ASSUME OperatorsInv, [OperatorsNext]_operatorVars
  PROVE  OperatorsInv'
<1> USE OperatorsAssumption DEF OperatorsInv, OperatorsTypeOK, AdminRemains, AnotherAdmin
<1>1. CASE UNCHANGED operatorVars
  BY <1>1 DEF operatorVars
<1>2. CASE GrantOperatorRole
  BY <1>2 DEF GrantOperatorRole
<1>3. CASE ExtendOperatorGrant
  <2> PICK g \in Current, s \in {"open", "timed"} :
        /\ standing' = [standing EXCEPT ![g] = s]
        /\ UNCHANGED <<holder, isAdmin, revoking>>
        /\ Notice({}, {g})
    BY <1>3 DEF ExtendOperatorGrant
  <2>1. fenced' \in [Revocations -> SUBSET Grants]
    BY DEF Notice, Bars, Current
  <2> QED BY <2>1 DEF Notice, Bars, Current
<1>4. CASE GrantExpires
  BY <1>4 DEF GrantExpires
<1>5. ASSUME NEW r \in Revocations, BeginRevokeGrant(r) PROVE OperatorsInv'
  BY <1>5 DEF BeginRevokeGrant, Current, SpareAdmin, LiveAdmins
<1>6. ASSUME NEW r \in Revocations, RevokeOperatorGrant(r) PROVE OperatorsInv'
  <2> DEFINE g == revoking[r]
  <2>1. /\ g \in Grants
        /\ g \in isAdmin => AnotherAdmin(g)
        /\ standing' = [standing EXCEPT ![g] = "revoked"]
        /\ revoking' = [revoking EXCEPT ![r] = NoGrant]
        /\ UNCHANGED <<holder, isAdmin>>
    BY <1>6 DEF RevokeOperatorGrant, MayCommit
  <2>2. fenced' = [q \in Revocations |->
                     IF revoking'[q] = NoGrant THEN {}
                     ELSE fenced[q] \cup
                       Bars(IF revoking[q] \in isAdmin THEN isAdmin ELSE {revoking[q]},
                            IF g \in isAdmin THEN isAdmin ELSE {g}, {g})]
    BY <1>6 DEF RevokeOperatorGrant, Notice
  <2>3. fenced' \in [Revocations -> SUBSET Grants]
    BY <2>1, <2>2 DEF Bars
  <2>4. AdminRemains'
    <3>1. CASE g \in isAdmin
      BY <2>1, <3>1
    <3>2. CASE g \notin isAdmin
      BY <2>1, <3>2
    <3> QED BY <3>1, <3>2
  <2>5. ASSUME NEW q \in Revocations, revoking'[q] # NoGrant,
               revoking'[q] \in isAdmin', revoking'[q] \notin fenced'[q]
        PROVE  AnotherAdmin(revoking[q])'
    <3>1. q # r /\ revoking'[q] = revoking[q] /\ revoking[q] \in isAdmin
      BY <2>1, <2>5
    <3>2. g \notin isAdmin
      BY <2>1, <2>2, <2>5, <3>1 DEF Bars
    <3>3. revoking[q] \notin fenced[q]
      BY <2>2, <2>5, <3>1
    <3> QED BY <2>1, <3>1, <3>2, <3>3
  <2> QED BY <2>1, <2>3, <2>4, <2>5
<1>7. ASSUME NEW r \in Revocations, DropRevocation(r) PROVE OperatorsInv'
  BY <1>7 DEF DropRevocation
<1> QED BY <1>1, <1>2, <1>3, <1>4, <1>5, <1>6, <1>7 DEF OperatorsNext

\* It holds of every behaviour.
LEMMA OperatorsInvariant == OperatorsSpec => []OperatorsInv
<1>1. OperatorsInit => OperatorsInv
  BY OperatorsInitInv
<1>2. OperatorsInv /\ [OperatorsNext]_operatorVars => OperatorsInv'
  BY OperatorsStepInv
<1> QED BY <1>1, <1>2, PTL DEF OperatorsSpec

\* However many administrators revoke each other at once, and whatever is granted,
\* extended or expires meanwhile, an ADMIN grant remains that nobody has revoked
\* (operator-grants.ts, last_admin_protected).
THEOREM AdministratorRemains == OperatorsSpec => []AdminRemains
<1>1. OperatorsInv => AdminRemains
  BY DEF OperatorsInv
<1> QED BY <1>1, OperatorsInvariant, PTL

-----------------------------------------------------------------------------
(* Access: types. *)

\* What a transaction is about.
LEMMA TaskParts ==
  ASSUME NEW t \in Tasks
  PROVE  /\ t.of \in Memberships /\ t.of[1] \in Orgs /\ t.of[2] \in Users
         /\ t.of = <<t.of[1], t.of[2]>>
         /\ t.op \in {"revokeRole", "deactivate", "deactivateOwner", "accept", "provision"}
         /\ t.op = "accept" => t.by \in Invitations
         /\ t.op = "provision" => t.by \in Keys
BY DEF Tasks, Memberships

\* What a transaction reads and writes are rows.
LEMMA TaskRows ==
  ASSUME NEW t \in Tasks
  PROVE  Reads(t) \subseteq Rows /\ Writes(t) \subseteq Rows
<1>1. /\ \A m \in Memberships : MemberRow(m) \in Rows /\ RoleRow(m) \in Rows
      /\ \A i \in Invitations : InvitationRow(i) \in Rows
      /\ \A k \in Keys : RequestRow(k) \in Rows
  BY DEF Rows
<1>2. \A o \in Orgs : Roster(o) \subseteq Rows
  BY <1>1 DEF Roster, Memberships
<1>3. \A o \in Orgs : MemberRow(<<o, t.of[2]>>) \in Rows
  BY <1>1, TaskParts DEF Memberships
<1> QED BY <1>1, <1>2, <1>3, TaskParts DEF Reads, Writes

\* Rows of two kinds, or of two things, are two rows.
LEMMA RowsDiffer ==
  /\ \A m, n : (MemberRow(m) = MemberRow(n) => m = n) /\ (RoleRow(m) = RoleRow(n) => m = n)
  /\ \A m, n : /\ MemberRow(m) # RoleRow(n) /\ MemberRow(m) # InvitationRow(n)
               /\ MemberRow(m) # RequestRow(n) /\ RoleRow(m) # InvitationRow(n)
               /\ RoleRow(m) # RequestRow(n)
BY DEF MemberRow, RoleRow, InvitationRow, RequestRow

\* The tasks in flight and the rows they may not write after another commits.
LEMMA OvertakeType ==
  ASSUME AccessTypeOK, NEW read \in SUBSET Rows, NEW written \in SUBSET Rows,
         task' \in [Sessions -> Tasks \cup {Idle}],
         \A s \in Sessions : task'[s] # Idle => task[s] # Idle,
         Overtake(read, written)
  PROVE  barred' \in [Sessions -> SUBSET Rows]
<1>1. ASSUME NEW s \in Sessions, task'[s] # Idle
      PROVE  barred[s] \cup Bars(Reads(task[s]), read, written) \subseteq Rows
  BY <1>1 DEF AccessTypeOK, Bars
<1> QED BY <1>1 DEF Overtake

-----------------------------------------------------------------------------
(* Access: founding, and how one becomes a member. *)

\* The organization of a key is founded, and by the key's sender.
KeysFounded ==
  \A k \in Keys : request[k] # NoOrg =>
    /\ founder[request[k]] # Nobody
    /\ SenderOf[k] # Nobody => founder[request[k]] = SenderOf[k]

\* Only a founded organization has members, its founder among them, and
\* invitations; only a member owns it; who is inactive was deactivated.
MembersExplained ==
  /\ \A m \in Memberships : founder[m[1]] = Nobody => member[m] = "none"
  /\ \A o \in Orgs, u \in Users : founder[o] = u => member[<<o, u>>] # "none"
  /\ \A i \in Invitations : invitation[i] # "unused" => founder[terms[i][1][1]] # Nobody
  /\ \A m \in Owners : member[m] # "none"
  /\ \A m \in Memberships : member[m] = "inactive" => m \in departed

\* A self-service founder who may still commit has left what they founded.
LeftTheirs(u) ==
  \A k \in Keys : request[k] # NoOrg /\ SenderOf[k] = u => <<request[k], u>> \in departed

\* What a transaction in flight may rely on.
TaskInv(s) ==
  LET t == task[s] IN
  t # Idle =>
    /\ t.op = "provision" =>
         /\ founder[t.of[1]] = Nobody
         /\ \A r \in Sessions : r # s /\ task[r] # Idle => task[r].of[1] # t.of[1]
         /\ SenderOf[t.by] # Nobody =>
              /\ t.of[2] = SenderOf[t.by]
              /\ MemberRow(t.of) \notin barred[s] => LeftTheirs(t.of[2])
    /\ t.op # "provision" => founder[t.of[1]] # Nobody
    /\ t.op = "accept" => t.of = terms[t.by][1]
    /\ t.op \in {"deactivate", "deactivateOwner"} => member[t.of] # "none"

FoundInv ==
  /\ AccessTypeOK
  /\ KeysFounded
  /\ MembersExplained
  /\ \A s \in Sessions : TaskInv(s)
  /\ FoundedOnce
  /\ SelfServiceLimit
  /\ MembersWereInvited

\* Nothing is founded at first.
LEMMA FoundInit ==
  ASSUME AccessInit
  PROVE  FoundInv
<1>1. AccessTypeOK
  BY AccessAssumption DEF AccessInit, AccessTypeOK
<1>2. \A m \in Memberships : member[m] = "none" /\ m[1] \in Orgs
  BY DEF AccessInit, Memberships
<1>3. KeysFounded /\ FoundedOnce /\ SelfServiceLimit
  BY DEF AccessInit, KeysFounded, FoundedOnce, SelfServiceLimit
<1>4. MembersExplained
  BY <1>2, AccessAssumption DEF AccessInit, MembersExplained, Owners
<1>5. \A s \in Sessions : TaskInv(s)
  BY DEF AccessInit, TaskInv
<1>6. MembersWereInvited
  BY <1>2 DEF MembersWereInvited
<1> QED BY <1>1, <1>3, <1>4, <1>5, <1>6 DEF FoundInv

\* A transaction ends, or stays in flight with no fewer rows barred.
StaysOrEnds(r) ==
  \/ task'[r] = Idle
  \/ task'[r] = task[r] /\ barred[r] \subseteq barred'[r]

\* Transactions that stay in flight, or end, while nothing is founded.
LEMMA TasksStay ==
  ASSUME FoundInv, UNCHANGED <<terms, foundVars>>, departed \subseteq departed',
         \A m \in Memberships : member[m] # "none" => member'[m] # "none",
         \A r \in Sessions : StaysOrEnds(r)
  PROVE  \A s \in Sessions : TaskInv(s)'
<1> SUFFICES ASSUME NEW s \in Sessions, task'[s] # Idle PROVE TaskInv(s)'
  BY DEF TaskInv
<1>1. task'[s] = task[s] /\ barred[s] \subseteq barred'[s] /\ TaskInv(s)
  BY DEF FoundInv, StaysOrEnds
<1>2. \A r \in Sessions : task'[r] # Idle => task[r] # Idle /\ task'[r] = task[r]
  BY DEF StaysOrEnds
<1>3. \A u : LeftTheirs(u) => LeftTheirs(u)'
  BY DEF LeftTheirs, foundVars
<1>4. task[s].of \in Memberships
  BY <1>1, <1>2, TaskParts DEF FoundInv, AccessTypeOK
<1> QED BY <1>1, <1>2, <1>3, <1>4 DEF TaskInv, foundVars

\* What the end of a transaction does to the others.
LEMMA CommitFacts ==
  ASSUME FoundInv, NEW s \in Sessions, task[s] # Idle, CommitTask(s)
  PROVE  /\ task[s] \in Tasks
         /\ task' \in [Sessions -> Tasks \cup {Idle}]
         /\ barred' \in [Sessions -> SUBSET Rows]
         /\ barred[s] \cap Writes(task[s]) = {}
         /\ task'[s] = Idle
         /\ \A r \in Sessions : r # s /\ task[r] # Idle =>
              /\ task'[r] = task[r]
              /\ barred'[r] = barred[r] \cup
                              Bars(Reads(task[r]), Reads(task[s]), Writes(task[s]))
         /\ \A r \in Sessions : StaysOrEnds(r)
<1>1. task[s] \in Tasks /\ task' = [task EXCEPT ![s] = Idle]
  BY DEF FoundInv, AccessTypeOK, CommitTask
<1>2. task' \in [Sessions -> Tasks \cup {Idle}]
      /\ \A r \in Sessions : task'[r] # Idle => task[r] # Idle
  BY <1>1 DEF FoundInv, AccessTypeOK
<1>3. barred' \in [Sessions -> SUBSET Rows]
  BY <1>1, <1>2, TaskRows, OvertakeType DEF FoundInv, CommitTask
<1>4. \A r \in Sessions : r # s => task'[r] = task[r]
  BY <1>1 DEF FoundInv, AccessTypeOK
<1>5. \A r \in Sessions :
        barred'[r] = IF task'[r] = Idle THEN {}
                     ELSE barred[r] \cup Bars(Reads(task[r]), Reads(task[s]), Writes(task[s]))
  BY DEF CommitTask, Overtake
<1>6. task'[s] = Idle
  BY <1>1 DEF FoundInv, AccessTypeOK
<1>7. barred[s] \cap Writes(task[s]) = {}
  BY DEF CommitTask, MayCommit
<1>8. ASSUME NEW r \in Sessions
      PROVE  StaysOrEnds(r)
  BY <1>4, <1>5, <1>6 DEF StaysOrEnds
<1> QED BY <1>1, <1>2, <1>3, <1>4, <1>5, <1>6, <1>7, <1>8

\* What a write at READ COMMITTED does to them.
LEMMA AloneFacts ==
  ASSUME FoundInv, NEW row \in Rows, WriteAlone(row)
  PROVE  /\ task' = task
         /\ barred' \in [Sessions -> SUBSET Rows]
         /\ \A r \in Sessions : StaysOrEnds(r)
         /\ \A r \in Sessions : task[r] # Idle => row \in barred'[r]
<1>1. task' = task /\ task' \in [Sessions -> Tasks \cup {Idle}]
  BY DEF FoundInv, AccessTypeOK, WriteAlone
<1>2. barred' \in [Sessions -> SUBSET Rows]
  <2>1. {} \in SUBSET Rows /\ {row} \in SUBSET Rows /\ Overtake({}, {row})
    BY DEF WriteAlone
  <2> QED BY <1>1, <2>1, OvertakeType DEF FoundInv
<1> QED BY <1>1, <1>2 DEF WriteAlone, Overtake, Bars, StaysOrEnds

\* A transaction begins: it knows what it has just read.
LEMMA BeginFound ==
  ASSUME FoundInv, NEW s \in Sessions, NEW t \in Tasks,
         BeginTask(s, t),
         t.op = "provision" =>
           /\ FreshOrg(t.of[1])
           /\ SenderOf[t.by] # Nobody => t.of[2] = SenderOf[t.by] /\ LeftTheirs(t.of[2]),
         t.op # "provision" => founder[t.of[1]] # Nobody,
         t.op = "accept" => t.of = terms[t.by][1],
         t.op \in {"deactivate", "deactivateOwner"} => member[t.of] # "none"
  PROVE  FoundInv'
<1>1. /\ task[s] = Idle /\ task' = [task EXCEPT ![s] = t]
      /\ UNCHANGED <<memberVars, inviteVars, foundVars, barred>>
      /\ \A r \in Sessions : r # s => task'[r] = task[r]
      /\ task'[s] = t
  BY DEF BeginTask, FoundInv, AccessTypeOK
<1>2. AccessTypeOK'
  BY <1>1 DEF FoundInv, AccessTypeOK, memberVars, inviteVars, foundVars
<1>3. UNCHANGED <<member, authOwner, roleOwner, departed, invitation, terms, request, founder>>
  BY <1>1 DEF memberVars, inviteVars, foundVars
<1>4. KeysFounded' /\ MembersExplained' /\ FoundedOnce' /\ SelfServiceLimit'
      /\ MembersWereInvited'
  BY <1>3 DEF FoundInv, KeysFounded, MembersExplained, FoundedOnce, SelfServiceLimit,
              MembersWereInvited, Owners
<1>5. \A u : LeftTheirs(u) => LeftTheirs(u)'
  BY <1>3 DEF LeftTheirs
<1>6. ASSUME NEW r \in Sessions PROVE TaskInv(r)'
  <2>1. CASE r = s
    BY <1>1, <1>3, <1>5, <2>1 DEF TaskInv, FreshOrg, Underway
  <2>2. CASE r # s
    <3>1. task[r] # Idle /\ task[r].op = "provision" => task[r].of[1] # t.of[1]
      BY <2>2 DEF FoundInv, TaskInv, FreshOrg, Underway
    <3>2. TaskInv(r) /\ task'[r] = task[r] /\ barred' = barred
      BY <1>1, <2>2 DEF FoundInv
    <3> QED BY <1>1, <1>3, <1>5, <2>2, <3>1, <3>2 DEF TaskInv
  <2> QED BY <2>1, <2>2
<1> QED BY <1>2, <1>4, <1>6 DEF FoundInv

\* provisionOrganization commits: no other transaction is about the
\* organization, and a second one of the same user is barred.
LEMMA ProvisionFound ==
  ASSUME FoundInv, NEW s \in Sessions, Provision(s)
  PROVE  FoundInv'
<1> DEFINE k == task[s].by
           m == task[s].of
<1>1. /\ task[s] # Idle /\ task[s].op = "provision" /\ task[s] \in Tasks
      /\ CommitTask(s)
      /\ request[k] = NoOrg
      /\ request' = [request EXCEPT ![k] = m[1]]
      /\ founder' = [founder EXCEPT ![m[1]] = m[2]]
      /\ member' = [member EXCEPT ![m] = "active"]
      /\ authOwner' = authOwner \cup {m} /\ roleOwner' = roleOwner \cup {m}
      /\ UNCHANGED <<invitation, terms, departed>>
  BY DEF Provision, RecordKey, inviteVars, FoundInv, AccessTypeOK
<1>2. /\ k \in Keys /\ m \in Memberships /\ m[1] \in Orgs /\ m[2] \in Users
      /\ m = <<m[1], m[2]>>
  BY <1>1, TaskParts
<1>3. /\ founder[m[1]] = Nobody
      /\ \A r \in Sessions : r # s /\ task[r] # Idle => task[r].of[1] # m[1] \/ task[r].op # "provision"
      /\ SenderOf[k] # Nobody => m[2] = SenderOf[k]
                                 /\ (MemberRow(m) \notin barred[s] => LeftTheirs(m[2]))
  BY <1>1 DEF FoundInv, TaskInv
<1>4. MemberRow(m) \in Writes(task[s]) /\ MemberRow(m) \notin barred[s]
  <2>1. MemberRow(m) \in Writes(task[s])
    BY <1>1 DEF Writes
  <2> QED BY <1>1, <2>1, CommitFacts
<1>5. AccessTypeOK'
  BY <1>1, <1>2, CommitFacts DEF FoundInv, AccessTypeOK
<1>6. m[2] # Nobody /\ m[1] # NoOrg
  BY <1>2, AccessAssumption
<1>7. \A j \in Keys : j # k => request'[j] = request[j]
  BY <1>1, <1>2 DEF FoundInv, AccessTypeOK
<1>8. request'[k] = m[1]
  BY <1>1, <1>2 DEF FoundInv, AccessTypeOK
<1>9. founder'[m[1]] = m[2] /\ \A o \in Orgs : o # m[1] => founder'[o] = founder[o]
  BY <1>1, <1>2 DEF FoundInv, AccessTypeOK
<1>10. \A j \in Keys : request[j] # NoOrg => request[j] \in Orgs /\ request[j] # m[1]
  BY <1>3 DEF FoundInv, AccessTypeOK, KeysFounded
<1>11. KeysFounded'
  BY <1>3, <1>6, <1>7, <1>8, <1>9, <1>10 DEF FoundInv, KeysFounded
<1>12. FoundedOnce'
  <2>1. \A o \in Orgs : founder'[o] # Nobody => \E j \in Keys : request'[j] = o
    BY <1>1, <1>2, <1>7, <1>8, <1>9, AccessAssumption DEF FoundInv, FoundedOnce, AccessTypeOK
  <2>2. ASSUME NEW i \in Keys, NEW j \in Keys, request'[i] = request'[j], request'[j] # NoOrg
        PROVE  i = j
    BY <1>7, <1>8, <1>10, <2>2 DEF FoundInv, FoundedOnce
  <2> QED BY <2>1, <2>2 DEF FoundedOnce
<1>13. SelfServiceLimit'
  <2> SUFFICES ASSUME NEW i \in Keys, NEW j \in Keys, i # j,
                      request'[i] # NoOrg, request'[j] # NoOrg,
                      SenderOf[i] = SenderOf[j], SenderOf[i] # Nobody
               PROVE  \E o \in {request'[i], request'[j]} : <<o, SenderOf[i]>> \in departed'
    BY DEF SelfServiceLimit
  <2>1. CASE i # k /\ j # k
    BY <1>1, <1>7, <2>1 DEF FoundInv, SelfServiceLimit
  <2>2. ASSUME NEW h \in {i, j}, h # k, k \in {i, j}
        PROVE  <<request'[h], SenderOf[i]>> \in departed'
    <3>1. SenderOf[k] # Nobody /\ SenderOf[h] = SenderOf[k] /\ SenderOf[h] = SenderOf[i]
      BY <2>2
    <3>2. LeftTheirs(m[2]) /\ m[2] = SenderOf[h]
      BY <1>3, <1>4, <3>1
    <3> QED BY <1>1, <1>7, <2>2, <3>1, <3>2 DEF LeftTheirs
  <2> QED BY <2>1, <2>2
<1>14. \A n \in Memberships : n # m => member'[n] = member[n]
  BY <1>1, <1>2 DEF FoundInv, AccessTypeOK
<1>15. member'[m] = "active"
  BY <1>1, <1>2 DEF FoundInv, AccessTypeOK
<1>16. \A n \in Memberships : n[1] \in Orgs /\ n[2] \in Users /\ n = <<n[1], n[2]>>
  BY DEF Memberships
<1>17. MembersWereInvited'
  <2> SUFFICES ASSUME NEW n \in Memberships, member'[n] # "none"
               PROVE  \/ founder'[n[1]] = n[2]
                      \/ \E i \in Invitations : invitation'[i] = "accepted" /\ terms'[i][1] = n
    BY DEF MembersWereInvited
  <2>1. CASE n = m
    BY <1>9, <2>1
  <2>2. CASE n # m
    <3>1. n[1] # m[1]
      BY <1>3, <1>14, <2>2 DEF FoundInv, MembersExplained
    <3> QED BY <1>1, <1>9, <1>14, <1>16, <2>2, <3>1 DEF FoundInv, MembersWereInvited
  <2> QED BY <2>1, <2>2
<1>18. MembersExplained'
  <2>1. \A n \in Memberships : founder'[n[1]] = Nobody => member'[n] = "none"
    BY <1>2, <1>6, <1>9, <1>14, <1>16 DEF FoundInv, MembersExplained
  <2>2. \A o \in Orgs, u \in Users : founder'[o] = u => member'[<<o, u>>] # "none"
    <3> TAKE o \in Orgs, u \in Users
    <3>1. <<o, u>> \in Memberships
      BY DEF Memberships
    <3> QED BY <1>2, <1>9, <1>14, <1>15, <3>1 DEF FoundInv, MembersExplained
  <2>3. \A i \in Invitations : invitation'[i] # "unused" => founder'[terms'[i][1][1]] # Nobody
    <3>1. \A i \in Invitations : terms[i][1][1] \in Orgs
      BY DEF FoundInv, AccessTypeOK, Offers, Memberships
    <3> QED BY <1>1, <1>6, <1>9, <3>1 DEF FoundInv, MembersExplained
  <2>4. \A n \in Owners' : member'[n] # "none"
    BY <1>1, <1>14, <1>15 DEF FoundInv, MembersExplained, Owners, AccessTypeOK
  <2>5. \A n \in Memberships : member'[n] = "inactive" => n \in departed'
    BY <1>1, <1>14, <1>15 DEF FoundInv, MembersExplained
  <2> QED BY <2>1, <2>2, <2>3, <2>4, <2>5 DEF MembersExplained
<1>19. ASSUME NEW r \in Sessions PROVE TaskInv(r)'
  <2> SUFFICES ASSUME task'[r] # Idle PROVE TaskInv(r)'
    BY DEF TaskInv
  <2> DEFINE t == task[r]
  <2>1. /\ r # s /\ t # Idle /\ task'[r] = t /\ t \in Tasks
        /\ barred'[r] = barred[r] \cup Bars(Reads(t), Reads(task[s]), Writes(task[s]))
    <3>1. r # s
      BY <1>1, CommitFacts
    <3>2. t # Idle
      BY <1>1, CommitFacts DEF StaysOrEnds
    <3>3. t \in Tasks
      BY <3>2 DEF FoundInv, AccessTypeOK
    <3> QED BY <1>1, <3>1, <3>2, <3>3, CommitFacts
  <2>2. /\ t.of \in Memberships /\ t.of[1] \in Orgs /\ t.of[2] \in Users
        /\ t.of = <<t.of[1], t.of[2]>>
    BY <2>1, TaskParts
  <2>3. TaskInv(r)
    BY DEF FoundInv
  <2>4. \A q \in Sessions : task'[q] # Idle => task[q] # Idle /\ task'[q] = task[q]
    BY <1>1, CommitFacts DEF StaysOrEnds
  <2>5. ASSUME t.op = "provision", SenderOf[t.by] # Nobody, MemberRow(t.of) \notin barred'[r]
        PROVE  LeftTheirs(t.of[2])'
    <3>1. LeftTheirs(t.of[2]) /\ t.of[2] = SenderOf[t.by]
      BY <2>1, <2>3, <2>5 DEF TaskInv
    <3>2. SenderOf[k] # t.of[2]
      <4> SUFFICES ASSUME SenderOf[k] = t.of[2] PROVE FALSE
        OBVIOUS
      <4>1. SenderOf[k] # Nobody /\ m[2] = t.of[2]
        BY <1>3, <2>2, AccessAssumption
      <4>2. MemberRow(m) \in Reads(t)
        BY <1>2, <2>5, <4>1 DEF Reads
      <4>3. MemberRow(<<t.of[1], m[2]>>) \in Reads(task[s])
        BY <1>1, <2>2, <4>1 DEF Reads
      <4>4. MemberRow(t.of) \in Reads(task[s])
        BY <2>2, <4>1, <4>3
      <4>5. Reads(t) \cap Writes(task[s]) # {}
        BY <1>4, <4>2
      <4>6. Reads(task[s]) \subseteq barred'[r]
        BY <2>1, <4>5 DEF Bars
      <4> QED BY <2>5, <4>4, <4>6
    <3> QED BY <1>1, <1>7, <2>1, <3>1, <3>2 DEF LeftTheirs
  <2>6. t.op = "provision" => founder'[t.of[1]] = Nobody
    BY <1>3, <1>9, <2>1, <2>2, <2>3 DEF TaskInv
  <2>7. t.op # "provision" => founder'[t.of[1]] # Nobody
    BY <1>6, <1>9, <2>1, <2>2, <2>3 DEF TaskInv
  <2>8. member[t.of] # "none" => member'[t.of] # "none"
    BY <1>14, <1>15, <2>2
  <2> QED BY <1>1, <2>1, <2>3, <2>4, <2>5, <2>6, <2>7, <2>8 DEF TaskInv
<1> QED BY <1>5, <1>11, <1>12, <1>13, <1>17, <1>18, <1>19 DEF FoundInv

\* acceptInvitation commits: the invitation is used up.
LEMMA AcceptFound ==
  ASSUME FoundInv, NEW s \in Sessions, AcceptInvitation(s)
  PROVE  FoundInv'
<1> DEFINE i == task[s].by
           m == task[s].of
<1>1. /\ task[s] # Idle /\ task[s].op = "accept" /\ task[s] \in Tasks
      /\ CommitTask(s)
      /\ invitation' = [invitation EXCEPT ![i] = "accepted"]
      /\ member' = [member EXCEPT ![m] = "active"]
      /\ authOwner' \in {authOwner, authOwner \cup {m}}
      /\ roleOwner' \in {roleOwner, roleOwner \cup {m}}
      /\ UNCHANGED <<terms, request, founder, departed>>
  BY DEF AcceptInvitation, foundVars, FoundInv, AccessTypeOK
<1>2. /\ i \in Invitations /\ m \in Memberships /\ m[1] \in Orgs /\ m[2] \in Users
      /\ m = <<m[1], m[2]>>
  BY <1>1, TaskParts
<1>3. founder[m[1]] # Nobody /\ terms[i][1] = m
  BY <1>1 DEF FoundInv, TaskInv
<1>4. AccessTypeOK'
  BY <1>1, <1>2, CommitFacts DEF FoundInv, AccessTypeOK
<1>5. /\ member'[m] = "active" /\ invitation'[i] = "accepted"
      /\ \A n \in Memberships : n # m => member'[n] = member[n]
      /\ \A j \in Invitations : j # i => invitation'[j] = invitation[j]
  BY <1>1, <1>2 DEF FoundInv, AccessTypeOK
<1>6. KeysFounded' /\ FoundedOnce' /\ SelfServiceLimit'
  BY <1>1 DEF FoundInv, KeysFounded, FoundedOnce, SelfServiceLimit
<1>7. MembersExplained'
  <2>1. \A o \in Orgs, u \in Users : <<o, u>> \in Memberships
    BY DEF Memberships
  <2>2. Owners' \subseteq Owners \cup {m} /\ Owners \subseteq Memberships
    BY <1>1 DEF Owners, FoundInv, AccessTypeOK
  <2> QED BY <1>1, <1>2, <1>3, <1>5, <2>1, <2>2 DEF FoundInv, MembersExplained
<1>8. MembersWereInvited'
  <2> SUFFICES ASSUME NEW n \in Memberships, member'[n] # "none"
               PROVE  \/ founder'[n[1]] = n[2]
                      \/ \E j \in Invitations : invitation'[j] = "accepted" /\ terms'[j][1] = n
    BY DEF MembersWereInvited
  <2>1. CASE n = m
    BY <1>1, <1>2, <1>3, <1>5, <2>1
  <2>2. CASE n # m
    <3>1. \/ founder[n[1]] = n[2]
          \/ \E j \in Invitations : invitation[j] = "accepted" /\ terms[j][1] = n
      BY <1>5, <2>2 DEF FoundInv, MembersWereInvited
    <3> QED BY <1>1, <1>5, <3>1
  <2> QED BY <2>1, <2>2
<1>9. \A r \in Sessions : TaskInv(r)'
  <2>1. \A n \in Memberships : member[n] # "none" => member'[n] # "none"
    BY <1>5
  <2> QED BY <1>1, <2>1, CommitFacts, TasksStay DEF foundVars
<1> QED BY <1>4, <1>6, <1>7, <1>8, <1>9 DEF FoundInv

\* Steps that found nothing and invite no one: roles and the end of memberships.
LEMMA RolesFound ==
  ASSUME FoundInv, AccessTypeOK', UNCHANGED <<inviteVars, foundVars>>,
         \A r \in Sessions : StaysOrEnds(r),
         departed \subseteq departed',
         \A m \in Memberships :
           /\ (member[m] = "none") <=> (member'[m] = "none")
           /\ member'[m] = "inactive" => m \in departed',
         \A m \in Owners' : member'[m] # "none"
  PROVE  FoundInv'
<1>1. UNCHANGED <<invitation, terms, request, founder>>
  BY DEF inviteVars, foundVars
<1>2. KeysFounded' /\ FoundedOnce' /\ SelfServiceLimit'
  BY <1>1 DEF FoundInv, KeysFounded, FoundedOnce, SelfServiceLimit
<1>3. \A o \in Orgs, u \in Users : <<o, u>> \in Memberships
  BY DEF Memberships
<1>4. MembersExplained' /\ MembersWereInvited'
  BY <1>1, <1>3 DEF FoundInv, MembersExplained, MembersWereInvited
<1>5. \A r \in Sessions : TaskInv(r)'
  BY <1>1, TasksStay
<1> QED BY <1>2, <1>4, <1>5 DEF FoundInv

\* Steps that only move invitations, none of them to "accepted" or back from it.
LEMMA InvitesFound ==
  ASSUME FoundInv, AccessTypeOK', UNCHANGED <<memberVars, terms, foundVars>>,
         \A r \in Sessions : StaysOrEnds(r),
         \A i \in Invitations :
           /\ invitation[i] = "accepted" => invitation'[i] = "accepted"
           /\ invitation[i] = "unused" /\ invitation'[i] # "unused"
                => founder[terms[i][1][1]] # Nobody
  PROVE  FoundInv'
<1>1. UNCHANGED <<member, authOwner, roleOwner, departed, request, founder>>
  BY DEF memberVars, foundVars
<1>2. KeysFounded' /\ FoundedOnce' /\ SelfServiceLimit'
  BY <1>1 DEF FoundInv, KeysFounded, FoundedOnce, SelfServiceLimit
<1>3. MembersExplained' /\ MembersWereInvited'
  BY <1>1 DEF FoundInv, MembersExplained, MembersWereInvited, Owners
<1>4. \A r \in Sessions : TaskInv(r)'
  BY <1>1, TasksStay DEF foundVars
<1> QED BY <1>2, <1>3, <1>4 DEF FoundInv

\* The steps that are not commits of a founding or an acceptance.
LEMMA AbandonFound ==
  ASSUME FoundInv, NEW s \in Sessions, Abandon(s)
  PROVE  FoundInv'
<1>1. /\ task' = [task EXCEPT ![s] = Idle] /\ barred' = [barred EXCEPT ![s] = {}]
      /\ UNCHANGED <<memberVars, inviteVars, foundVars>>
  BY DEF Abandon
<1>2. AccessTypeOK' /\ \A r \in Sessions : StaysOrEnds(r)
  BY <1>1 DEF FoundInv, AccessTypeOK, StaysOrEnds, memberVars, inviteVars, foundVars
<1>3. UNCHANGED <<member, authOwner, roleOwner, departed>>
  BY <1>1 DEF memberVars
<1> QED BY <1>1, <1>2, <1>3, RolesFound DEF FoundInv, MembersExplained, Owners

\* A transaction begins.
LEMMA BeginsFound ==
  ASSUME FoundInv, NEW s \in Sessions,
         BeginProvision(s) \/ BeginAccept(s) \/ BeginRevokeRole(s) \/ BeginDeactivate(s)
  PROVE  FoundInv'
<1>1. CASE BeginProvision(s)
  <2>1. PICK k \in Keys, o \in Orgs, u \in Users :
          /\ FreshOrg(o) /\ MayFound(k, u)
          /\ BeginTask(s, [op |-> "provision", of |-> <<o, u>>, by |-> k])
    BY <1>1 DEF BeginProvision
  <2> DEFINE t == [op |-> "provision", of |-> <<o, u>>, by |-> k]
  <2>2. t \in Tasks /\ t.op = "provision" /\ t.of[1] = o /\ t.of[2] = u /\ t.by = k
    BY DEF Tasks, Memberships
  <2>3. ASSUME SenderOf[k] # Nobody PROVE u = SenderOf[k] /\ LeftTheirs(u)
    <3>1. u = SenderOf[k] /\ \A p \in Orgs : member[<<p, u>>] # "active"
      BY <2>1, <2>3 DEF MayFound
    <3>2. ASSUME NEW j \in Keys, request[j] # NoOrg, SenderOf[j] = u
          PROVE  <<request[j], u>> \in departed
      <4>1. request[j] \in Orgs /\ founder[request[j]] = u
        BY <2>3, <3>1, <3>2 DEF FoundInv, AccessTypeOK, KeysFounded
      <4>2. <<request[j], u>> \in Memberships /\ member[<<request[j], u>>] = "inactive"
        BY <3>1, <4>1 DEF FoundInv, AccessTypeOK, MembersExplained, Memberships
      <4> QED BY <4>2 DEF FoundInv, MembersExplained
    <3> QED BY <3>1, <3>2 DEF LeftTheirs
  <2> HIDE DEF t
  <2> QED BY <2>1, <2>2, <2>3, BeginFound DEF t
<1>2. CASE BeginAccept(s)
  <2>1. PICK i \in Invitations :
          /\ invitation[i] = "pending"
          /\ BeginTask(s, [op |-> "accept", of |-> terms[i][1], by |-> i])
    BY <1>2 DEF BeginAccept
  <2> DEFINE t == [op |-> "accept", of |-> terms[i][1], by |-> i]
  <2>2. t \in Tasks /\ t.op = "accept" /\ t.of = terms[t.by][1] /\ founder[t.of[1]] # Nobody
    BY <2>1 DEF Tasks, FoundInv, AccessTypeOK, Offers, MembersExplained
  <2> HIDE DEF t
  <2> QED BY <2>1, <2>2, BeginFound DEF t
<1>3. CASE BeginRevokeRole(s) \/ BeginDeactivate(s)
  <2>1. PICK m \in Memberships, op \in {"revokeRole", "deactivate", "deactivateOwner"} :
          member[m] # "none" /\ BeginTask(s, [op |-> op, of |-> m])
    BY <1>3 DEF BeginRevokeRole, BeginDeactivate, FoundInv, AccessTypeOK, MembersExplained, Owners
  <2> DEFINE t == [op |-> op, of |-> m]
  <2>2. t \in Tasks /\ t.op \notin {"provision", "accept"} /\ founder[t.of[1]] # Nobody
        /\ member[t.of] # "none"
    BY <2>1 DEF Tasks, FoundInv, MembersExplained
  <2> HIDE DEF t
  <2> QED BY <2>1, <2>2, BeginFound DEF t
<1> QED BY <1>1, <1>2, <1>3

\* The owner role is given or taken, or a membership ends or is revived.
LEMMA RoleStepsFound ==
  ASSUME FoundInv
  PROVE  /\ \A m \in Memberships : AssignRole(m) \/ ReactivateMembership(m) => FoundInv'
         /\ \A s \in Sessions : RevokeRole(s) \/ DeactivateMembership(s) => FoundInv'
<1>1. ASSUME NEW m \in Memberships, AssignRole(m) \/ ReactivateMembership(m)
      PROVE  FoundInv'
  <2>1. PICK row \in Rows : WriteAlone(row)
    BY <1>1 DEF AssignRole, ReactivateMembership, Rows
  <2>2. /\ UNCHANGED <<authOwner, departed, inviteVars, foundVars>>
        /\ \/ member' = member /\ roleOwner' = roleOwner \cup {m} /\ member[m] # "none"
           \/ /\ member[m] = "inactive" /\ member' = [member EXCEPT ![m] = "active"]
              /\ roleOwner' = roleOwner
    BY <1>1 DEF AssignRole, ReactivateMembership
  <2>3. AccessTypeOK'
    BY <2>1, <2>2, AloneFacts DEF FoundInv, AccessTypeOK, inviteVars, foundVars
  <2>4. \A n \in Memberships : /\ (member[n] = "none") <=> (member'[n] = "none")
                               /\ member'[n] = "inactive" => n \in departed'
    BY <2>2 DEF FoundInv, AccessTypeOK, MembersExplained
  <2>5. \A n \in Owners' : member'[n] # "none"
    BY <2>2, <2>4 DEF FoundInv, AccessTypeOK, MembersExplained, Owners
  <2>6. \A r \in Sessions : StaysOrEnds(r)
    BY <2>1, AloneFacts
  <2> QED BY <2>2, <2>3, <2>4, <2>5, <2>6, RolesFound
<1>2. ASSUME NEW s \in Sessions, RevokeRole(s) \/ DeactivateMembership(s)
      PROVE  FoundInv'
  <2> DEFINE m == task[s].of
  <2>1. /\ task[s] # Idle /\ CommitTask(s) /\ task[s].op # "provision"
        /\ UNCHANGED <<authOwner, inviteVars, foundVars>>
        /\ \/ member' = member /\ departed' = departed /\ roleOwner' = roleOwner \ {m}
           \/ /\ member' = [member EXCEPT ![m] = "inactive"]
              /\ departed' = departed \cup {m} /\ roleOwner' = roleOwner
              /\ task[s].op \in {"deactivate", "deactivateOwner"}
    BY <1>2 DEF RevokeRole, DeactivateMembership
  <2>2. m \in Memberships /\ task[s] \in Tasks
    BY <2>1, TaskParts DEF FoundInv, AccessTypeOK
  <2>3. AccessTypeOK'
    BY <2>1, <2>2, CommitFacts DEF FoundInv, AccessTypeOK, inviteVars, foundVars
  <2>4. member' = member \/ member[m] # "none"
    BY <2>1 DEF FoundInv, TaskInv
  <2>5. \A n \in Memberships : /\ (member[n] = "none") <=> (member'[n] = "none")
                               /\ member'[n] = "inactive" => n \in departed'
    BY <2>1, <2>2, <2>4 DEF FoundInv, AccessTypeOK, MembersExplained
  <2>6. \A n \in Owners' : member'[n] # "none"
    BY <2>1, <2>5 DEF FoundInv, AccessTypeOK, MembersExplained, Owners
  <2>7. \A r \in Sessions : StaysOrEnds(r)
    BY <2>1, CommitFacts
  <2> QED BY <2>1, <2>3, <2>5, <2>6, <2>7, RolesFound
<1> QED BY <1>1, <1>2

\* No step records a key twice or founds beyond a user's limit: the rows a
\* request judged by are still the committed ones when it commits.
LEMMA FoundStep ==
  ASSUME FoundInv, [AccessNext]_accessVars
  PROVE  FoundInv'
<1>1. ASSUME NEW i \in Invitations,
             InviteMember(i) \/ InvitationLapses(i) \/ CancelInvitation(i)
      PROVE  FoundInv'
  <2>1. /\ UNCHANGED <<memberVars, terms, foundVars>>
        /\ \E v \in {"pending", "lapsed", "canceled"} :
             invitation' = [invitation EXCEPT ![i] = v]
        /\ invitation[i] # "accepted"
        /\ invitation[i] = "unused" => founder[terms[i][1][1]] # Nobody
    BY <1>1 DEF InviteMember, InvitationLapses, CancelInvitation, Cancelable
  <2>2. /\ task' = task /\ barred' \in [Sessions -> SUBSET Rows]
        /\ \A r \in Sessions : StaysOrEnds(r)
    <3>1. CASE InviteMember(i) \/ InvitationLapses(i)
      BY <3>1 DEF InviteMember, InvitationLapses, sessionVars, FoundInv, AccessTypeOK, StaysOrEnds
    <3>2. CASE CancelInvitation(i)
      <4>1. InvitationRow(i) \in Rows
        BY DEF Rows
      <4> QED BY <3>2, <4>1, AloneFacts DEF CancelInvitation
    <3> QED BY <1>1, <3>1, <3>2
  <2>3. AccessTypeOK'
    BY <2>1, <2>2 DEF FoundInv, AccessTypeOK, memberVars, foundVars
  <2> QED BY <2>1, <2>2, <2>3, InvitesFound DEF FoundInv, AccessTypeOK
<1>2. CASE UNCHANGED accessVars
  <2>1. UNCHANGED <<memberVars, inviteVars, foundVars, task, barred>>
    BY <1>2 DEF accessVars, sessionVars
  <2>2. AccessTypeOK' /\ \A r \in Sessions : StaysOrEnds(r)
    BY <2>1 DEF FoundInv, AccessTypeOK, StaysOrEnds, memberVars, inviteVars, foundVars
  <2>3. UNCHANGED <<member, authOwner, roleOwner, departed>>
    BY <2>1 DEF memberVars
  <2> QED BY <2>1, <2>2, <2>3, RolesFound DEF FoundInv, MembersExplained, Owners
<1> QED BY <1>1, <1>2, BeginsFound, ProvisionFound, AcceptFound, RoleStepsFound, AbandonFound
        DEF AccessNext

\* However requests overlap, no key and no user founds more than they may, and
\* nobody becomes a member uninvited, whatever transactions are in flight
\* (provision-organization.ts, membership-service.ts).
LEMMA FoundInvariant == AccessSpec => []FoundInv
<1>1. AccessInit => FoundInv
  BY FoundInit
<1>2. FoundInv /\ [AccessNext]_accessVars => FoundInv'
  BY FoundStep
<1> QED BY <1>1, <1>2, PTL DEF AccessSpec

\* A key founds one organization however often and concurrently it is sent, and
\* self-service founds one for each user who does not leave.
THEOREM FoundingIsLimited == AccessSpec => []FoundedAsAllowed
<1>1. FoundInv => FoundedAsAllowed
  BY DEF FoundInv, FoundedAsAllowed
<1> QED BY <1>1, FoundInvariant, PTL

\* Members are founders or were invited.
THEOREM MembersAreInvited == AccessSpec => []MembersWereInvited
<1>1. FoundInv => MembersWereInvited
  BY DEF FoundInv
<1> QED BY <1>1, FoundInvariant, PTL

-----------------------------------------------------------------------------
(* Access: an organization keeps an active owner. *)

OtherOwner(m) == \E u \in ActiveOwners(m[1]) : u # m[2]

\* What a transaction that removes somebody relies on while it may still write.
OwnerTask(s) ==
  LET t == task[s] IN
  t # Idle =>
    /\ t.op = "revokeRole" /\ RoleRow(t.of) \notin barred[s] => OtherOwner(t.of)
    /\ t.op = "deactivateOwner" /\ MemberRow(t.of) \notin barred[s] => OtherOwner(t.of)
    /\ t.op = "deactivate" /\ MemberRow(t.of) \notin barred[s] => t.of \notin Owners

OwnerInv == OwnerRemains /\ \A s \in Sessions : OwnerTask(s)

\* Nobody who is being removed as no owner becomes one.
NoNewcomer(r) ==
  task'[r] # Idle /\ task[r].op = "deactivate" /\ MemberRow(task[r].of) \notin barred'[r]
    /\ task[r].of \in Owners'
  => task[r].of \in Owners

\* Steps after which every organization has the owners it had.
LEMMA OwnersGrow ==
  ASSUME FoundInv, OwnerInv,
         \A o \in Orgs : /\ ActiveOwners(o) \subseteq ActiveOwners(o)'
                         /\ founder[o] = Nobody /\ founder'[o] # Nobody => ActiveOwners(o)' # {},
         \A r \in Sessions : StaysOrEnds(r) /\ NoNewcomer(r)
  PROVE  OwnerInv'
<1>1. OwnerRemains'
  BY DEF OwnerInv, OwnerRemains
<1>2. \A m \in Memberships : OtherOwner(m) => OtherOwner(m)'
  <2>1. \A m \in Memberships : m[1] \in Orgs
    BY DEF Memberships
  <2> QED BY <2>1 DEF OtherOwner
<1>3. ASSUME NEW r \in Sessions, task'[r] # Idle
      PROVE  OwnerTask(r)'
  <2>1. task'[r] = task[r] /\ barred[r] \subseteq barred'[r] /\ OwnerTask(r) /\ NoNewcomer(r)
    BY <1>3 DEF StaysOrEnds, OwnerInv
  <2>2. task[r].of \in Memberships
    BY <1>3, <2>1, TaskParts DEF FoundInv, AccessTypeOK
  <2> QED BY <1>2, <1>3, <2>1, <2>2 DEF OwnerTask, NoNewcomer
<1> QED BY <1>1, <1>3 DEF OwnerInv, OwnerTask

\* Where nobody's membership or role is taken, owners grow.
LEMMA KeptOwners ==
  ASSUME NEW o \in Orgs, authOwner \subseteq authOwner', roleOwner \subseteq roleOwner',
         \A m \in Memberships : member[m] = "active" => member'[m] = "active"
  PROVE  ActiveOwners(o) \subseteq ActiveOwners(o)'
BY DEF ActiveOwners, Owners, Memberships

\* A transaction begins, with what it has counted.
LEMMA BeginOwner ==
  ASSUME FoundInv, OwnerInv, NEW s \in Sessions,
         BeginProvision(s) \/ BeginAccept(s) \/ BeginRevokeRole(s) \/ BeginDeactivate(s)
  PROVE  OwnerInv'
<1>1. PICK t : /\ BeginTask(s, t)
               /\ t.op \in {"revokeRole", "deactivateOwner"} =>
                    t.of \in Memberships /\ NotLastOwner(t.of[1])
               /\ t.op = "deactivate" => t.of \notin Owners
  <2>1. CASE BeginProvision(s)
    <3>1. PICK k \in Keys, o \in Orgs, u \in Users :
            BeginTask(s, [op |-> "provision", of |-> <<o, u>>, by |-> k])
      BY <2>1 DEF BeginProvision
    <3> QED BY <3>1
  <2>2. CASE BeginAccept(s)
    <3>1. PICK i \in Invitations : BeginTask(s, [op |-> "accept", of |-> terms[i][1], by |-> i])
      BY <2>2 DEF BeginAccept
    <3> QED BY <3>1
  <2>3. CASE BeginRevokeRole(s)
    <3>1. PICK m \in roleOwner : NotLastOwner(m[1]) /\ BeginTask(s, [op |-> "revokeRole", of |-> m])
      BY <2>3 DEF BeginRevokeRole
    <3>2. m \in Memberships
      BY <3>1 DEF FoundInv, AccessTypeOK
    <3> QED BY <3>1, <3>2
  <2>4. CASE BeginDeactivate(s)
    <3>1. PICK m \in Memberships :
            \/ m \notin Owners /\ BeginTask(s, [op |-> "deactivate", of |-> m])
            \/ NotLastOwner(m[1]) /\ BeginTask(s, [op |-> "deactivateOwner", of |-> m])
      BY <2>4 DEF BeginDeactivate
    <3>2. CASE m \notin Owners /\ BeginTask(s, [op |-> "deactivate", of |-> m])
      BY <3>2
    <3>3. CASE NotLastOwner(m[1]) /\ BeginTask(s, [op |-> "deactivateOwner", of |-> m])
      BY <3>3
    <3> QED BY <3>1, <3>2, <3>3
  <2> QED BY <2>1, <2>2, <2>3, <2>4
<1>2. /\ task' = [task EXCEPT ![s] = t]
      /\ UNCHANGED <<member, authOwner, roleOwner, founder, barred>>
  BY <1>1 DEF BeginTask, memberVars, foundVars
<1>3. OwnerRemains'
  BY <1>2 DEF OwnerInv, OwnerRemains, ActiveOwners, Owners
<1>4. \A m : OtherOwner(m)' <=> OtherOwner(m)
  BY <1>2 DEF OtherOwner, ActiveOwners, Owners
<1>5. ASSUME NEW r \in Sessions PROVE OwnerTask(r)'
  <2>1. CASE r = s
    <3>1. task'[r] = t
      BY <1>2, <2>1 DEF FoundInv, AccessTypeOK
    <3>2. t.op \in {"revokeRole", "deactivateOwner"} => OtherOwner(t.of)
      BY <1>1 DEF NotLastOwner, OtherOwner
    <3> QED BY <1>1, <1>2, <1>4, <3>1, <3>2 DEF OwnerTask, Owners
  <2>2. CASE r # s
    <3>1. task'[r] = task[r] /\ OwnerTask(r)
      BY <1>2, <2>2 DEF FoundInv, AccessTypeOK, OwnerInv
    <3> QED BY <1>2, <1>4, <3>1 DEF OwnerTask, Owners
  <2> QED BY <2>1, <2>2
<1> QED BY <1>3, <1>5 DEF OwnerInv

\* A removal commits: another owner is there, and of those who counted this one
\* nobody commits any more.
LEMMA RemovalOwner ==
  ASSUME FoundInv, OwnerInv, NEW s \in Sessions, RevokeRole(s) \/ DeactivateMembership(s)
  PROVE  OwnerInv'
<1> DEFINE m == task[s].of
<1>1. /\ task[s] # Idle /\ CommitTask(s) /\ UNCHANGED <<authOwner, founder>>
      /\ \/ /\ task[s].op = "revokeRole"
            /\ member' = member /\ roleOwner' = roleOwner \ {m}
         \/ /\ task[s].op \in {"deactivate", "deactivateOwner"}
            /\ member' = [member EXCEPT ![m] = "inactive"] /\ roleOwner' = roleOwner
  BY DEF RevokeRole, DeactivateMembership, foundVars
<1>2. /\ m \in Memberships /\ m[1] \in Orgs /\ m[2] \in Users /\ m = <<m[1], m[2]>>
      /\ task[s] \in Tasks
  BY <1>1, TaskParts DEF FoundInv, AccessTypeOK
<1>3. \A o \in Orgs, u \in Users :
        u \in ActiveOwners(o) /\ <<o, u>> # m => u \in ActiveOwners(o)'
  BY <1>1, <1>2 DEF ActiveOwners, Owners, FoundInv, AccessTypeOK, Memberships
<1>5. Owners' \subseteq Owners
  BY <1>1 DEF Owners
<1>6. \A r \in Sessions : StaysOrEnds(r) /\ NoNewcomer(r)
  BY <1>1, <1>5, CommitFacts DEF NoNewcomer
<1>7. OwnerTask(s) /\ barred[s] \cap Writes(task[s]) = {}
  BY <1>1, CommitFacts DEF OwnerInv
<1>8. CASE task[s].op = "deactivate"
  <2>1. m \notin Owners
    BY <1>1, <1>7, <1>8 DEF OwnerTask, Writes
  <2>2. \A o \in Orgs : ActiveOwners(o) \subseteq ActiveOwners(o)'
    BY <1>3, <2>1 DEF ActiveOwners
  <2> QED BY <1>1, <1>6, <2>2, OwnersGrow
<1>9. CASE task[s].op \in {"revokeRole", "deactivateOwner"}
  <2> DEFINE row == IF task[s].op = "revokeRole" THEN RoleRow(m) ELSE MemberRow(m)
  <2>1. Writes(task[s]) = {row} /\ Reads(task[s]) = Roster(m[1]) /\ row \in Roster(m[1])
    <3>1. MemberRow(<<m[1], m[2]>>) \in Roster(m[1]) /\ RoleRow(<<m[1], m[2]>>) \in Roster(m[1])
      BY <1>2 DEF Roster
    <3> QED BY <1>2, <1>9, <3>1 DEF Writes, Reads
  <2>2. OtherOwner(m)
    BY <1>1, <1>7, <1>9, <2>1 DEF OwnerTask
  <2>3. OwnerRemains'
    <3>1. \A o \in Orgs : o = m[1] => ActiveOwners(o)' # {}
      BY <1>2, <1>3, <2>2 DEF OtherOwner, ActiveOwners
    <3>2. \A o \in Orgs : o # m[1] => ActiveOwners(o) \subseteq ActiveOwners(o)'
      BY <1>2, <1>3 DEF ActiveOwners
    <3> QED BY <1>1, <1>2, <3>1, <3>2 DEF OwnerInv, OwnerRemains
  <2>4. ASSUME NEW r \in Sessions PROVE OwnerTask(r)'
    <3> SUFFICES ASSUME task'[r] # Idle PROVE OwnerTask(r)'
      BY DEF OwnerTask
    <3> DEFINE t == task[r]
    <3>1. /\ r # s /\ t # Idle /\ task'[r] = t
          /\ barred'[r] = barred[r] \cup Bars(Reads(t), Reads(task[s]), Writes(task[s]))
      BY <1>1, CommitFacts DEF StaysOrEnds
    <3>2. /\ t \in Tasks /\ t.of \in Memberships /\ t.of[1] \in Orgs /\ t.of[2] \in Users
          /\ t.of = <<t.of[1], t.of[2]>>
      BY <3>1, TaskParts DEF FoundInv, AccessTypeOK
    <3>3. OwnerTask(r)
      BY DEF OwnerInv
    <3>4. CASE t.op \in {"revokeRole", "deactivateOwner"} /\ t.of[1] = m[1]
      <4>1. Reads(t) = Roster(m[1])
        BY <3>4 DEF Reads
      <4>2. Roster(m[1]) \subseteq barred'[r]
        BY <2>1, <3>1, <4>1 DEF Bars
      <4>3. MemberRow(<<t.of[1], t.of[2]>>) \in Roster(m[1])
            /\ RoleRow(<<t.of[1], t.of[2]>>) \in Roster(m[1])
        BY <3>2, <3>4 DEF Roster
      <4>4. MemberRow(t.of) \in barred'[r] /\ RoleRow(t.of) \in barred'[r]
        BY <3>2, <4>2, <4>3
      <4> QED BY <3>1, <3>4, <4>4 DEF OwnerTask
    <3>5. CASE t.op \in {"revokeRole", "deactivateOwner"} /\ t.of[1] # m[1]
      <4>1. OtherOwner(t.of) => OtherOwner(t.of)'
        <5>1. \A o \in Orgs : o = t.of[1] => ActiveOwners(o) \subseteq ActiveOwners(o)'
          BY <1>2, <1>3, <3>2, <3>5 DEF ActiveOwners
        <5> QED BY <3>1, <3>2, <5>1 DEF OtherOwner
      <4> QED BY <3>1, <3>3, <3>5, <4>1 DEF OwnerTask
    <3>6. CASE t.op \notin {"revokeRole", "deactivateOwner"}
      BY <1>5, <3>1, <3>3, <3>6 DEF OwnerTask
    <3> QED BY <3>4, <3>5, <3>6
  <2> QED BY <2>3, <2>4 DEF OwnerInv
<1> QED BY <1>1, <1>8, <1>9

\* Steps that take nobody's membership or role.
LEMMA GivingOwner ==
  ASSUME FoundInv, OwnerInv, AccessNext, ~Promotions,
         \A s \in Sessions : ~RevokeRole(s) /\ ~DeactivateMembership(s),
         \A s \in Sessions : ~BeginProvision(s) /\ ~BeginAccept(s)
                            /\ ~BeginRevokeRole(s) /\ ~BeginDeactivate(s)
  PROVE  OwnerInv'
<1>1. ASSUME NEW i \in Invitations,
             InviteMember(i) \/ InvitationLapses(i) \/ CancelInvitation(i)
      PROVE  OwnerInv'
  <2>1. UNCHANGED <<member, authOwner, roleOwner, founder>>
    BY <1>1 DEF InviteMember, InvitationLapses, CancelInvitation, memberVars, foundVars
  <2>2. \A r \in Sessions : StaysOrEnds(r)
    <3>1. CASE InviteMember(i) \/ InvitationLapses(i)
      BY <3>1 DEF InviteMember, InvitationLapses, sessionVars, StaysOrEnds
    <3>2. CASE CancelInvitation(i)
      <4>1. InvitationRow(i) \in Rows
        BY DEF Rows
      <4> QED BY <3>2, <4>1, AloneFacts DEF CancelInvitation
    <3> QED BY <1>1, <3>1, <3>2
  <2>3. \A r \in Sessions : NoNewcomer(r)
    BY <2>1 DEF NoNewcomer, Owners
  <2> QED BY <2>1, <2>2, <2>3, KeptOwners, OwnersGrow
<1>2. ASSUME NEW s \in Sessions, Abandon(s) PROVE OwnerInv'
  <2>1. UNCHANGED <<member, authOwner, roleOwner, founder>>
    BY <1>2 DEF Abandon, memberVars, foundVars
  <2>2. \A r \in Sessions : StaysOrEnds(r)
    BY <1>2 DEF Abandon, StaysOrEnds, FoundInv, AccessTypeOK
  <2>3. \A r \in Sessions : NoNewcomer(r)
    BY <2>1 DEF NoNewcomer, Owners
  <2> QED BY <2>1, <2>2, <2>3, KeptOwners, OwnersGrow
<1>3. ASSUME NEW m \in Memberships, AssignRole(m) PROVE OwnerInv'
  <2>1. /\ roleOwner' = roleOwner \cup {m} /\ UNCHANGED <<member, authOwner, founder>>
        /\ WriteAlone(RoleRow(m)) /\ RoleRow(m) \in Rows
        /\ \A r \in Underway : task[r].of # m
    BY <1>3 DEF AssignRole, foundVars, Rows
  <2>2. /\ \A r \in Sessions : StaysOrEnds(r)
        /\ task' = task
    BY <2>1, AloneFacts
  <2>3. \A r \in Sessions : NoNewcomer(r)
    BY <2>1, <2>2 DEF NoNewcomer, Owners, Underway
  <2> QED BY <2>1, <2>2, <2>3, KeptOwners, OwnersGrow
<1>4. ASSUME NEW m \in Memberships, ReactivateMembership(m) PROVE OwnerInv'
  <2>1. /\ member' = [member EXCEPT ![m] = "active"]
        /\ UNCHANGED <<authOwner, roleOwner, founder>>
        /\ WriteAlone(MemberRow(m)) /\ MemberRow(m) \in Rows
    BY <1>4 DEF ReactivateMembership, foundVars, Rows
  <2>2. \A r \in Sessions : StaysOrEnds(r)
    BY <2>1, AloneFacts
  <2>3. \A r \in Sessions : NoNewcomer(r)
    BY <2>1 DEF NoNewcomer, Owners
  <2>4. \A n \in Memberships : member[n] = "active" => member'[n] = "active"
    BY <2>1 DEF FoundInv, AccessTypeOK
  <2> QED BY <2>1, <2>2, <2>3, <2>4, KeptOwners, OwnersGrow
<1>5. ASSUME NEW s \in Sessions, Provision(s) \/ AcceptInvitation(s) PROVE OwnerInv'
  <2> DEFINE m == task[s].of
  <2>1. /\ task[s] # Idle /\ CommitTask(s) /\ task[s].op \in {"provision", "accept"}
        /\ member' = [member EXCEPT ![m] = "active"]
        /\ authOwner' \in {authOwner, authOwner \cup {m}}
        /\ roleOwner' \in {roleOwner, roleOwner \cup {m}}
        /\ \/ founder' = founder
           \/ /\ founder' = [founder EXCEPT ![m[1]] = m[2]] /\ m \in authOwner'
    BY <1>5 DEF Provision, AcceptInvitation, foundVars
  <2>2. /\ m \in Memberships /\ m[1] \in Orgs /\ m[2] \in Users /\ m = <<m[1], m[2]>>
    BY <2>1, TaskParts DEF FoundInv, AccessTypeOK
  <2>3. /\ \A n \in Memberships : member[n] = "active" => member'[n] = "active"
        /\ member'[m] = "active"
    BY <2>1, <2>2 DEF FoundInv, AccessTypeOK
  <2>4. \A o \in Orgs : ActiveOwners(o) \subseteq ActiveOwners(o)'
    BY <2>1, <2>3, KeptOwners
  <2>5. \A o \in Orgs : founder[o] = Nobody /\ founder'[o] # Nobody => ActiveOwners(o)' # {}
    <3> SUFFICES ASSUME NEW o \in Orgs, founder[o] # founder'[o] PROVE ActiveOwners(o)' # {}
      OBVIOUS
    <3>1. o = m[1] /\ m \in authOwner' /\ member'[m] = "active"
      BY <2>1, <2>2, <2>3 DEF FoundInv, AccessTypeOK
    <3> QED BY <2>2, <3>1 DEF ActiveOwners, Owners
  <2>6. ASSUME NEW r \in Sessions PROVE StaysOrEnds(r) /\ NoNewcomer(r)
    <3>1. StaysOrEnds(r)
      BY <2>1, CommitFacts
    <3>2. ASSUME task'[r] # Idle, task[r].of = m PROVE MemberRow(m) \in barred'[r]
      <4>1. r # s /\ task[r] # Idle
        BY <2>1, <3>1, <3>2, CommitFacts DEF StaysOrEnds
      <4>2. MemberRow(m) \in Writes(task[s])
        BY <2>1 DEF Writes
      <4> QED BY <2>1, <4>1, <4>2, CommitFacts DEF Bars
    <3>3. Owners' \subseteq Owners \cup {m}
      BY <2>1 DEF Owners
    <3> QED BY <3>1, <3>2, <3>3 DEF NoNewcomer
  <2> QED BY <2>4, <2>5, <2>6, OwnersGrow
<1> QED BY <1>1, <1>2, <1>3, <1>4, <1>5 DEF AccessNext

\* If no role is assigned to a member whom a transaction is about, every founded
\* organization has an active owner, however many removals overlap
\* (membership-service.ts, assertNotLastOwner).
THEOREM OwnerStays ==
  ASSUME ~Promotions
  PROVE  AccessSpec => []OwnerRemains
<1>1. AccessInit => OwnerInv
  BY DEF AccessInit, OwnerInv, OwnerRemains, OwnerTask
<1>2. FoundInv /\ OwnerInv /\ [AccessNext]_accessVars => OwnerInv'
  <2> SUFFICES ASSUME FoundInv, OwnerInv, [AccessNext]_accessVars PROVE OwnerInv'
    OBVIOUS
  <2>1. CASE UNCHANGED accessVars
    BY <2>1 DEF accessVars, memberVars, foundVars, sessionVars, OwnerInv, OwnerRemains,
                OwnerTask, OtherOwner, ActiveOwners, Owners
  <2>2. CASE AccessNext
    BY <2>2, BeginOwner, RemovalOwner, GivingOwner
  <2> QED BY <2>1, <2>2
<1>3. OwnerInv => OwnerRemains
  BY DEF OwnerInv
<1> QED BY <1>1, <1>2, <1>3, FoundInvariant, PTL DEF AccessSpec
=============================================================================
