----------------------------- MODULE Operators -----------------------------
(***************************************************************************)
(* Grants of the platform's operators: the administrators who manage them  *)
(* may also remove each other.                                             *)
(* Source: src/modules/platform/operator-grants.ts, authorization.ts and   *)
(* the bootstrap script.                                                   *)
(*                                                                         *)
(* A revocation is a serializable transaction: it begins with the snapshot *)
(* its checks use.  The others decide in one write at READ COMMITTED.      *)
(***************************************************************************)
EXTENDS Serializable

CONSTANTS
  Grants,       \* rows of platform_operator_grants
  Staff,        \* users who may become operators
  Revocations,  \* revocations that may be in flight at once
  NoGrant,      \* what one that is not in flight revokes
  Outsider      \* the user of a row that is not there yet

ASSUME OperatorsAssumption == NoGrant \notin Grants /\ Outsider \notin Staff

VARIABLES
  holder,    \* user_id
  isAdmin,   \* the grants of the role ADMIN; others manage nothing here
  standing,  \* "unused", "open" (expires_at is null), "timed" (it lies in the
             \* future), "expired" or "revoked"
  revoking,  \* the grant that a revocation is about
  fenced     \* rows it may no longer write

operatorVars == <<holder, isAdmin, standing, revoking, fenced>>

\* bootstrap-platform-operator: the first grant, of an administrator.
OperatorsInit ==
  \E g \in Grants, u \in Staff :
    /\ holder = [h \in Grants |-> IF h = g THEN u ELSE Outsider]
    /\ isAdmin = {g}
    /\ standing = [h \in Grants |-> IF h = g THEN "open" ELSE "unused"]
    /\ revoking = [r \in Revocations |-> NoGrant]
    /\ fenced = [r \in Revocations |-> {}]

Current == {g \in Grants : standing[g] \in {"open", "timed", "expired"}}

LiveAdmins == {g \in isAdmin : standing[g] \in {"open", "timed"}}

\* assertPlatformPermission and revalidatePlatformGrant, before the transaction.
Managed == LiveAdmins # {}

\* One that is in flight learns that these rows were read and written.
Notice(read, written) ==
  fenced' = [r \in Revocations |->
               IF revoking'[r] = NoGrant THEN {}
               ELSE fenced[r] \cup
                    Bars(IF revoking[r] \in isAdmin THEN isAdmin ELSE {revoking[r]},
                         read, written)]

\* grantOperatorRole: platform_operator_grants_one_current_per_user decides
\* between two that overlap.
GrantOperatorRole ==
  \E g \in Grants, u \in Staff, admin \in BOOLEAN, s \in {"open", "timed"} :
    /\ Managed
    /\ standing[g] = "unused"
    /\ \A h \in Current : holder[h] # u
    /\ holder' = [holder EXCEPT ![g] = u]
    /\ isAdmin' = IF admin THEN isAdmin \cup {g} ELSE isAdmin
    /\ standing' = [standing EXCEPT ![g] = s]
    /\ UNCHANGED <<revoking, fenced>>

\* extendOperatorGrant: also shortens, or brings an expired grant back.  Of a
\* grant that is revoked in between it writes the date of a revoked row.
ExtendOperatorGrant ==
  \E g \in Current, s \in {"open", "timed"} :
    /\ Managed
    /\ standing' = [standing EXCEPT ![g] = s]
    /\ UNCHANGED <<holder, isAdmin, revoking>>
    /\ Notice({}, {g})

GrantExpires ==
  \E g \in Grants :
    /\ standing[g] = "timed"
    /\ standing' = [standing EXCEPT ![g] = "expired"]
    /\ UNCHANGED <<holder, isAdmin, revoking, fenced>>

\* last_admin_protected: two live ADMIN grants are counted before one of the
\* role is revoked.  Mutant: off by one.
SpareAdminOrOne(g) == g \in isAdmin => LiveAdmins # {}

SpareAdmin(g) == g \in isAdmin => \E h, k \in LiveAdmins : h # k

BeginRevokeGrant(r) ==
  /\ revoking[r] = NoGrant
  /\ Managed
  /\ \E g \in Current :
       /\ SpareAdmin(g)
       /\ revoking' = [revoking EXCEPT ![r] = g]
  /\ UNCHANGED <<holder, isAdmin, standing, fenced>>

RevokeOperatorGrant(r) ==
  /\ revoking[r] # NoGrant
  /\ MayCommit(fenced[r], {revoking[r]})
  /\ standing' = [standing EXCEPT ![revoking[r]] = "revoked"]
  /\ revoking' = [revoking EXCEPT ![r] = NoGrant]
  /\ Notice(IF revoking[r] \in isAdmin THEN isAdmin ELSE {revoking[r]}, {revoking[r]})
  /\ UNCHANGED <<holder, isAdmin>>

\* The commit is refused, or the process dies.
DropRevocation(r) ==
  /\ revoking[r] # NoGrant
  /\ revoking' = [revoking EXCEPT ![r] = NoGrant]
  /\ fenced' = [fenced EXCEPT ![r] = {}]
  /\ UNCHANGED <<holder, isAdmin, standing>>

OperatorsNext ==
  \/ GrantOperatorRole
  \/ ExtendOperatorGrant
  \/ GrantExpires
  \/ \E r \in Revocations :
       BeginRevokeGrant(r) \/ RevokeOperatorGrant(r) \/ DropRevocation(r)

OperatorsSpec == OperatorsInit /\ [][OperatorsNext]_operatorVars

-----------------------------------------------------------------------------
(* Properties. *)

\* Every variable keeps its type.
OperatorsTypeOK ==
  /\ holder \in [Grants -> Staff \cup {Outsider}]
  /\ isAdmin \subseteq Grants
  /\ standing \in [Grants -> {"unused", "open", "timed", "expired", "revoked"}]
  /\ revoking \in [Revocations -> Grants \cup {NoGrant}]
  /\ fenced \in [Revocations -> SUBSET Grants]

\* However administrators revoke each other, one ADMIN grant is never revoked
\* (revokeOperatorGrant, "cannot revoke the final active ADMIN grant").  It may
\* have expired: expiry asks nobody.
AdminRemains == \E g \in isAdmin : standing[g] # "revoked"
=============================================================================
