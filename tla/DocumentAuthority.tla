------------------------- MODULE DocumentAuthority --------------------------
(***************************************************************************)
(* Who may do what with one document: its owner and custodian, the         *)
(* Managers of its department, Administrators, and everybody else, who     *)
(* needs a delegated grant (src/backend/app/services/access.py).           *)
(***************************************************************************)
CONSTANTS
  User,               \* registered identities
  Role,               \* [User -> role]
  InScope,            \* Managers whose departments include the document's
  Owner,              \* assets.owner_id of the document
  Custodian,          \* assets.custodian_id, or NoUser
  NoUser

Roles == {"ADMIN", "MANAGER", "AUDITOR", "USER"}

ASSUME RoleAssumption  == Role \in [User -> Roles]
ASSUME ScopeAssumption == InScope \subseteq User
ASSUME OwnerAssumption == Owner \in User /\ Custodian \in User \union {NoUser}
ASSUME UserAssumption  == NoUser \notin User

(* access.can_manage_asset; _privileged_for adds nothing to it. *)
CanManage(u) == \/ Role[u] = "ADMIN"
                \/ Role[u] = "MANAGER" /\ u \in InScope
IsHolder(u) == u \in {Owner, Custodian}
Delegate == {u \in User : ~IsHolder(u) /\ ~CanManage(u)}
=============================================================================
