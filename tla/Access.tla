------------------------------- MODULE Access -------------------------------
(***************************************************************************)
(* Who belongs to an organization: provisioning with its founding owner,   *)
(* invitations, the owner role, deactivation.                              *)
(* Source: src/modules/memberships/membership-service.ts, role-policy.ts,  *)
(* src/modules/organizations/provision-organization.ts.                    *)
(*                                                                         *)
(* The operations that must not be wrong together are serializable         *)
(* transactions: a request begins with the snapshot that all its reads and *)
(* checks use, and writes at its commit.  The others are at READ COMMITTED *)
(* and decide by one conditional write each.  The routes of the auth       *)
(* library, which can write the same rows, are left out.                   *)
(***************************************************************************)
EXTENDS Serializable

CONSTANTS
  Users, Orgs, Invitations,
  Keys,         \* idempotency keys, each with the user who sends it
  SenderOf,     \* that user, of a self-service key; Nobody for an operator's
  Nobody, NoOrg,
  Sessions,     \* serializable transactions that may be in flight at once
  Idle,         \* no transaction
  Promotions    \* may assignRole meet a transaction about the same member?

ASSUME AccessAssumption ==
  /\ SenderOf \in [Keys -> Users \cup {Nobody}]
  /\ Nobody \notin Users
  /\ NoOrg \notin Orgs
  /\ Promotions \in BOOLEAN

Memberships == Orgs \X Users

VARIABLES
  member,      \* organization_memberships: "none", "active" or "inactive"
  authOwner,   \* those with authRole = owner
  roleOwner,   \* those with a membership_roles row for the owner role
  invitation,  \* organization_invitations.status; "lapsed": pending, expired
  terms,       \* what an invitation offers: the membership, and as owner?
  request,     \* organization_provisioning_requests: the organization of a key
  founder,     \* the founding user of an organization, Nobody before that
  departed,    \* history: memberships that have been deactivated
  task,        \* the transaction of a session
  barred       \* rows it may no longer write

memberVars == <<member, authOwner, roleOwner, departed>>
inviteVars == <<invitation, terms>>
foundVars == <<request, founder>>
sessionVars == <<task, barred>>
accessVars == <<memberVars, inviteVars, foundVars, sessionVars>>

Offers == Memberships \X BOOLEAN

AccessInit ==
  /\ member = [m \in Memberships |-> "none"]
  /\ authOwner = {}
  /\ roleOwner = {}
  /\ departed = {}
  /\ invitation = [i \in Invitations |-> "unused"]
  /\ terms \in [Invitations -> Offers]
  /\ request = [k \in Keys |-> NoOrg]
  /\ founder = [o \in Orgs |-> Nobody]
  /\ task = [s \in Sessions |-> Idle]
  /\ barred = [s \in Sessions |-> {}]

-----------------------------------------------------------------------------
(* Owners. *)

\* isOwnerMembership: by authRole or by role.
Owners == authOwner \cup roleOwner

ActiveOwners(o) == {u \in Users : <<o, u>> \in Owners /\ member[<<o, u>>] = "active"}

\* assertNotLastOwner: one less than the active owners is at least one.
\* Mutant: off by one.
SomeOwner(o) == ActiveOwners(o) # {}

NotLastOwner(o) == \E u, v \in ActiveOwners(o) : u # v

-----------------------------------------------------------------------------
(* Transactions: what they are about, read and write. *)

\* What a transaction does, with which membership, by what invitation or key.
Tasks == [op : {"revokeRole", "deactivate", "deactivateOwner"},
          of : Memberships]
         \cup [op : {"accept"}, of : Memberships, by : Invitations]
         \cup [op : {"provision"}, of : Memberships, by : Keys]

MemberRow(m) == <<"member", m>>
RoleRow(m) == <<"role", m>>
InvitationRow(i) == <<"invitation", i>>
RequestRow(k) == <<"request", k>>

\* countActiveOwners reads all memberships of the organization and their roles.
Roster(o) == {MemberRow(<<o, u>>) : u \in Users} \cup {RoleRow(<<o, u>>) : u \in Users}

Reads(t) ==
  CASE t.op \in {"revokeRole", "deactivateOwner"} -> Roster(t.of[1])
    [] t.op = "deactivate" -> {MemberRow(t.of), RoleRow(t.of)}
    [] t.op = "accept" -> {InvitationRow(t.by), MemberRow(t.of)}
    [] t.op = "provision" ->
         {RequestRow(t.by)} \cup
         {MemberRow(<<o, t.of[2]>>) : o \in IF SenderOf[t.by] = Nobody THEN {} ELSE Orgs}

Writes(t) ==
  CASE t.op = "revokeRole" -> {RoleRow(t.of)}
    [] t.op \in {"deactivate", "deactivateOwner"} -> {MemberRow(t.of)}
    [] t.op = "accept" -> {InvitationRow(t.by), MemberRow(t.of), RoleRow(t.of)}
    [] t.op = "provision" -> {RequestRow(t.by), MemberRow(t.of), RoleRow(t.of)}

Underway == {s \in Sessions : task[s] # Idle}

BeginTask(s, t) ==
  /\ task[s] = Idle
  /\ task' = [task EXCEPT ![s] = t]
  /\ UNCHANGED <<memberVars, inviteVars, foundVars, barred>>

\* Others learn that these rows were read and written.
Overtake(read, written) ==
  barred' = [s \in Sessions |->
               IF task'[s] = Idle THEN {}
               ELSE barred[s] \cup Bars(Reads(task[s]), read, written)]

CommitTask(s) ==
  /\ MayCommit(barred[s], Writes(task[s]))
  /\ task' = [task EXCEPT ![s] = Idle]
  /\ Overtake(Reads(task[s]), Writes(task[s]))

\* A check fails, the commit is refused, or the process dies.
Abandon(s) ==
  /\ task[s] # Idle
  /\ task' = [task EXCEPT ![s] = Idle]
  /\ barred' = [barred EXCEPT ![s] = {}]
  /\ UNCHANGED <<memberVars, inviteVars, foundVars>>

\* One conditional write at READ COMMITTED.
WriteAlone(row) == UNCHANGED task /\ Overtake({}, {row})

-----------------------------------------------------------------------------
(* provisionOrganization. *)

\* An id for a new organization: no other transaction has it.
FreshOrg(o) == founder[o] = Nobody /\ \A s \in Underway : task[s].of[1] # o

\* self_service_limit_reached; operators found for anyone.
\* Mutant: not looked at.
MayFoundAlways(k, u) == TRUE

MayFound(k, u) ==
  SenderOf[k] # Nobody => /\ u = SenderOf[k]
                          /\ \A o \in Orgs : member[<<o, u>>] # "active"

\* findReplay, before and in the transaction: a key that was used returns what
\* it made and changes nothing.
BeginProvision(s) ==
  \E k \in Keys, o \in Orgs, u \in Users :
    /\ request[k] = NoOrg
    /\ FreshOrg(o)
    /\ MayFound(k, u)
    /\ BeginTask(s, [op |-> "provision", of |-> <<o, u>>, by |-> k])

\* Mutant: the key is forgotten.
ForgetKey(k, o) == request

\* organization_provisioning_requests: the key, with what it has founded.
RecordKey(k, o) == [request EXCEPT ![k] = o]

Provision(s) ==
  /\ task[s] # Idle /\ task[s].op = "provision"
  /\ LET k == task[s].by  m == task[s].of
     IN /\ request[k] = NoOrg  \* provisioning_requests_actor_key_unique
        /\ request' = RecordKey(k, m[1])
        /\ founder' = [founder EXCEPT ![m[1]] = m[2]]
        /\ member' = [member EXCEPT ![m] = "active"]
        /\ authOwner' = authOwner \cup {m}
        /\ roleOwner' = roleOwner \cup {m}
  /\ CommitTask(s)
  /\ UNCHANGED <<inviteVars, departed>>

-----------------------------------------------------------------------------
(* Invitations. *)

\* inviteMember: nothing is read that a later step relies on, and two for one
\* address may be pending.
InviteMember(i) ==
  /\ invitation[i] = "unused"
  /\ founder[terms[i][1][1]] # Nobody
  /\ invitation' = [invitation EXCEPT ![i] = "pending"]
  /\ UNCHANGED <<memberVars, terms, foundVars, sessionVars>>

InvitationLapses(i) ==
  /\ invitation[i] = "pending"
  /\ invitation' = [invitation EXCEPT ![i] = "lapsed"]
  /\ UNCHANGED <<memberVars, terms, foundVars, sessionVars>>

\* updateMany where the status is pending.  Mutant: without the condition.
CancelableAlways(i) == invitation[i] # "unused"

Cancelable(i) == invitation[i] \in {"pending", "lapsed"}

CancelInvitation(i) ==
  /\ Cancelable(i)
  /\ invitation' = [invitation EXCEPT ![i] = "canceled"]
  /\ WriteAlone(InvitationRow(i))
  /\ UNCHANGED <<memberVars, terms, foundVars>>

BeginAccept(s) ==
  \E i \in Invitations :
    /\ invitation[i] = "pending"
    /\ member[terms[i][1]] = "none"
    /\ BeginTask(s, [op |-> "accept", of |-> terms[i][1], by |-> i])

AcceptInvitation(s) ==
  /\ task[s] # Idle /\ task[s].op = "accept"
  /\ LET i == task[s].by  m == task[s].of
     IN /\ invitation' = [invitation EXCEPT ![i] = "accepted"]
        /\ member' = [member EXCEPT ![m] = "active"]
        /\ authOwner' = IF terms[i][2] THEN authOwner \cup {m} ELSE authOwner
        /\ roleOwner' = IF terms[i][2] THEN roleOwner \cup {m} ELSE roleOwner
  /\ CommitTask(s)
  /\ UNCHANGED <<terms, foundVars, departed>>

-----------------------------------------------------------------------------
(* Roles and deactivation. *)

\* assignRole of the owner role, to any member; its checks and its insert are at
\* READ COMMITTED.
AssignRole(m) ==
  /\ member[m] # "none"
  /\ m \notin roleOwner
  /\ Promotions \/ \A s \in Underway : task[s].of # m
  /\ roleOwner' = roleOwner \cup {m}
  /\ WriteAlone(RoleRow(m))
  /\ UNCHANGED <<member, authOwner, departed, inviteVars, foundVars>>

\* revokeRole of the owner role.
BeginRevokeRole(s) ==
  \E m \in roleOwner :
    /\ NotLastOwner(m[1])
    /\ BeginTask(s, [op |-> "revokeRole", of |-> m])

RevokeRole(s) ==
  /\ task[s] # Idle /\ task[s].op = "revokeRole"
  /\ roleOwner' = roleOwner \ {task[s].of}
  /\ CommitTask(s)
  /\ UNCHANGED <<member, authOwner, departed, inviteVars, foundVars>>

\* deactivateMembership: only an owner needs another owner.
BeginDeactivate(s) ==
  \E m \in Memberships :
    /\ member[m] = "active"
    /\ \/ m \notin Owners /\ BeginTask(s, [op |-> "deactivate", of |-> m])
       \/ /\ m \in Owners
          /\ NotLastOwner(m[1])
          /\ BeginTask(s, [op |-> "deactivateOwner", of |-> m])

DeactivateMembership(s) ==
  /\ task[s] # Idle /\ task[s].op \in {"deactivate", "deactivateOwner"}
  /\ member' = [member EXCEPT ![task[s].of] = "inactive"]
  /\ departed' = departed \cup {task[s].of}
  /\ CommitTask(s)
  /\ UNCHANGED <<authOwner, roleOwner, inviteVars, foundVars>>

ReactivateMembership(m) ==
  /\ member[m] = "inactive"
  /\ member' = [member EXCEPT ![m] = "active"]
  /\ WriteAlone(MemberRow(m))
  /\ UNCHANGED <<authOwner, roleOwner, departed, inviteVars, foundVars>>

-----------------------------------------------------------------------------

AccessNext ==
  \/ \E i \in Invitations :
       InviteMember(i) \/ InvitationLapses(i) \/ CancelInvitation(i)
  \/ \E m \in Memberships : AssignRole(m) \/ ReactivateMembership(m)
  \/ \E s \in Sessions :
       \/ BeginProvision(s) \/ Provision(s)
       \/ BeginAccept(s) \/ AcceptInvitation(s)
       \/ BeginRevokeRole(s) \/ RevokeRole(s)
       \/ BeginDeactivate(s) \/ DeactivateMembership(s)
       \/ Abandon(s)

AccessSpec == AccessInit /\ [][AccessNext]_accessVars

-----------------------------------------------------------------------------
(* Properties. *)

Rows == {MemberRow(m) : m \in Memberships} \cup {RoleRow(m) : m \in Memberships}
        \cup {InvitationRow(i) : i \in Invitations} \cup {RequestRow(k) : k \in Keys}

\* Every variable keeps its type.
AccessTypeOK ==
  /\ member \in [Memberships -> {"none", "active", "inactive"}]
  /\ authOwner \subseteq Memberships
  /\ roleOwner \subseteq Memberships
  /\ departed \subseteq Memberships
  /\ invitation \in [Invitations -> {"unused", "pending", "lapsed", "accepted", "canceled"}]
  /\ terms \in [Invitations -> Offers]
  /\ request \in [Keys -> Orgs \cup {NoOrg}]
  /\ founder \in [Orgs -> Users \cup {Nobody}]
  /\ task \in [Sessions -> Tasks \cup {Idle}]
  /\ barred \in [Sessions -> SUBSET Rows]

\* However revocations, deactivations, reactivations and invitations overlap, an
\* organization keeps an active owner (assertNotLastOwner).
OwnerRemains == \A o \in Orgs : founder[o] # Nobody => ActiveOwners(o) # {}

\* A key that is sent again, also while the first request runs, founds nothing
\* more: every organization is the one of its key, and of one key only.
FoundedOnce ==
  /\ \A o \in Orgs : founder[o] # Nobody => \E k \in Keys : request[k] = o
  /\ \A j, k \in Keys : request[j] = request[k] /\ request[j] # NoOrg => j = k

\* A user who founds two organizations by self-service had left one of them,
\* also if the requests run at once (self_service_limit_reached).
SelfServiceLimit ==
  \A j, k \in Keys :
    /\ j # k /\ request[j] # NoOrg /\ request[k] # NoOrg
    /\ SenderOf[j] = SenderOf[k] /\ SenderOf[j] # Nobody
    => \E o \in {request[j], request[k]} : <<o, SenderOf[j]>> \in departed

\* Organizations are founded as provisioning allows: one for a key however often
\* it is sent, one for a user unless an operator founds it, also concurrently.
FoundedAsAllowed == FoundedOnce /\ SelfServiceLimit

\* A member has founded the organization or accepted an invitation, which then
\* was not canceled, however acceptances and cancellations overlap.
MembersWereInvited ==
  \A m \in Memberships :
    member[m] # "none" =>
      \/ founder[m[1]] = m[2]
      \/ \E i \in Invitations : invitation[i] = "accepted" /\ terms[i][1] = m
=============================================================================
