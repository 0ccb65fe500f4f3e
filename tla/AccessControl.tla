---------------------------- MODULE AccessControl ----------------------------
(* Who may call what: the roles, the role that administers each, and the    *)
(* two steps by which the Diamond changes its owner.                        *)

CONSTANTS
    Accounts,
    NoAccount       \* the zero address

ASSUME AccessAssumption == NoAccount \notin Accounts

\* The roles the identity facets ask for, and role 0, which administers every
\* role that was given no other.
Roles == {"DEFAULT", "TRANSFER_AGENT", "RECOVERY_AGENT", "CLAIM_ISSUER_ROLE"}

VARIABLES
    owner, pendingOwner,
    roles,          \* role -> the accounts that hold it
    roleAdmin,      \* role -> the role that administers it
    nominator       \* history: who nominated pendingOwner

authority == <<owner, pendingOwner, roles, roleAdmin, nominator>>

OwnerOr(role, caller) == caller \in {owner} \cup roles[role]
IsRoleAdmin(role, caller) == OwnerOr(roleAdmin[role], caller)

AuthorityType ==
    /\ owner \in Accounts
    /\ pendingOwner \in Accounts \cup {NoAccount}
    /\ roles \in [Roles -> SUBSET Accounts]
    /\ roleAdmin \in [Roles -> Roles]
    /\ nominator \in Accounts \cup {NoAccount}

AuthorityInit ==
    /\ owner \in Accounts
    /\ pendingOwner = NoAccount
    /\ roles = [r \in Roles |-> {}]
    /\ roleAdmin = [r \in Roles |-> "DEFAULT"]
    /\ nominator = NoAccount

-----------------------------------------------------------------------------
(* AccessControlFacet *)

\* An account that holds the role already keeps it.
GrantRole(caller, role, account) ==
    /\ IsRoleAdmin(role, caller)
    /\ roles' = [roles EXCEPT ![role] = @ \cup {account}]
    /\ UNCHANGED <<owner, pendingOwner, roleAdmin, nominator>>

\* Mutant: whoever holds a role may take it from others.
RevokeRoleByAnyHolder(caller, role, account) ==
    /\ OwnerOr(role, caller)
    /\ roles' = [roles EXCEPT ![role] = @ \ {account}]
    /\ UNCHANGED <<owner, pendingOwner, roleAdmin, nominator>>

RevokeRole(caller, role, account) ==
    /\ IsRoleAdmin(role, caller)
    /\ roles' = [roles EXCEPT ![role] = @ \ {account}]
    /\ UNCHANGED <<owner, pendingOwner, roleAdmin, nominator>>

RenounceRole(caller, role) ==
    /\ roles' = [roles EXCEPT ![role] = @ \ {caller}]
    /\ UNCHANGED <<owner, pendingOwner, roleAdmin, nominator>>

SetRoleAdmin(caller, role, admin) ==
    /\ caller = owner
    /\ roleAdmin' = [roleAdmin EXCEPT ![role] = admin]
    /\ UNCHANGED <<owner, pendingOwner, roles, nominator>>

-----------------------------------------------------------------------------
(* OwnershipFacet *)

\* A nomination replaces the one before it.
TransferOwnership(caller, newOwner) ==
    /\ caller = owner
    /\ pendingOwner' = newOwner
    /\ nominator' = caller
    /\ UNCHANGED <<owner, roles, roleAdmin>>

\* Mutant: the nomination stands after it was accepted.
AcceptOwnershipAgain(caller) ==
    /\ caller = pendingOwner
    /\ owner' = caller
    /\ UNCHANGED <<pendingOwner, roles, roleAdmin, nominator>>

AcceptOwnership(caller) ==
    /\ caller = pendingOwner
    /\ owner' = caller
    /\ pendingOwner' = NoAccount
    /\ nominator' = NoAccount
    /\ UNCHANGED <<roles, roleAdmin>>

AuthorityNext(caller) ==
    \/ \E role \in Roles, account \in Accounts :
          GrantRole(caller, role, account) \/ RevokeRole(caller, role, account)
    \/ \E role \in Roles : RenounceRole(caller, role)
    \/ \E role, admin \in Roles : SetRoleAdmin(caller, role, admin)
    \/ \E account \in Accounts : TransferOwnership(caller, account)
    \/ AcceptOwnership(caller)

-----------------------------------------------------------------------------
\* Whoever may take the Diamond over was nominated by the owner it has now: no
\* nomination by an owner that is gone can still be accepted.
NominationIsTheOwners == pendingOwner # NoAccount => nominator = owner

\* An account gets a role, or loses one that it does not renounce, only by the
\* owner or by a holder of the role that administers it now; the owner changes
\* only by the nominee's own call.
AuthorityIsDelegated(caller) ==
    /\ \A r \in Roles, a \in Accounts :
          (a \in roles[r]) # (a \in roles'[r]) =>
              \/ IsRoleAdmin(r, caller)
              \/ caller = a /\ a \in roles[r]
    /\ owner' # owner => caller = pendingOwner /\ owner' = caller
=============================================================================
