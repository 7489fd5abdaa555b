------------------------------ MODULE AssetNFT ------------------------------
(***************************************************************************)
(* The on-chain registry (src/contracts/contracts/AssetNFT.sol): roles     *)
(* with separation of duties, custody tokens, the index from serial        *)
(* numbers to tokens, and the mirror of access permissions.                *)
(*                                                                         *)
(* A transaction is one atomic step, and a call that would revert is not   *)
(* enabled.  Plain ERC-721 transfers and approvals always revert, so they  *)
(* are no steps at all; the roles' grantRole, revokeRole and renounceRole  *)
(* come from OpenZeppelin's AccessControl.                                 *)
(***************************************************************************)
CONSTANTS
  Account,            \* addresses other than address(0)
  Governor,           \* constructor argument admin
  Registrar,          \* constructor argument registrar, or NoAccount
  Token, Serial, Did, Content,
  NoAccount,          \* address(0)
  NoToken,            \* token id 0
  Blank               \* the empty string

ASSUME GovernorAssumption == Governor \in Account /\ Registrar \in Account \union {NoAccount}
ASSUME NoneAssumption == /\ NoAccount \notin Account /\ NoToken \notin Token
                         /\ Blank \notin Serial /\ Blank \notin Did /\ Blank \notin Content

VARIABLES
  members,      \* AccessControl: role -> accounts
  paused,
  holder,       \* ERC-721 owner of a token
  record,       \* _assets
  index,        \* _serialToToken
  permission    \* _assetPermissions

vars == <<members, paused, holder, record, index, permission>>

-----------------------------------------------------------------------------
(* Types and derived state. *)

Operational == {"MINTER", "ANCHOR", "MANAGER", "AUDITOR"}
Governing   == {"ADMIN", "REGISTRAR"}
Roles == Operational \union Governing

(* _setRoleAdmin in the constructor; AccessControl's default otherwise. *)
AdminOf(r) == IF r \in Operational THEN "REGISTRAR" ELSE "ADMIN"

Levels == {"NONE", "READ", "READ_WRITE"}

Records == [serial  : Serial \union {Blank},
            did     : Did \union {Blank},
            content : Content \union {Blank},   \* fileHash and offchainURI
            digital : BOOLEAN]
NoRecord == [serial |-> Blank, did |-> Blank, content |-> Blank, digital |-> FALSE]

TypeOK ==
  /\ members \in [Roles -> SUBSET Account]
  /\ paused \in BOOLEAN
  /\ holder \in [Token -> Account \union {NoAccount}]
  /\ record \in [Token -> Records]
  /\ index \in [Serial -> Token \union {NoToken}]
  /\ permission \in [Token -> [Did -> Levels]]

Init ==
  /\ members = [r \in Roles |-> IF r = "ADMIN" THEN {Governor}
                                ELSE IF r = "REGISTRAR" THEN {Registrar} \ {NoAccount}
                                ELSE {}]
  /\ paused = FALSE
  /\ holder = [t \in Token |-> NoAccount]
  /\ record = [t \in Token |-> NoRecord]
  /\ index = [s \in Serial |-> NoToken]
  /\ permission = [t \in Token |-> [d \in Did |-> "NONE"]]

Exists(t) == holder[t] # NoAccount
Holds(a, R) == \E r \in R : a \in members[r]
registry == <<holder, record, index, permission>>

-----------------------------------------------------------------------------
(* Roles *)

(* A mistake: who holds an operational role may still become a registrar.   *)
GrantRoleOneWay(by, r, a) ==
  /\ by \in members[AdminOf(r)]
  /\ r \in Operational => ~Holds(a, Governing)
  /\ members' = [members EXCEPT ![r] = @ \union {a}]
  /\ UNCHANGED <<paused, registry>>

(* grantRole with the overridden _grantRole. *)
GrantRole(by, r, a) ==
  /\ by \in members[AdminOf(r)]
  /\ r \in Operational => ~Holds(a, Governing)
  /\ r \in Governing => ~Holds(a, Operational)
  /\ members' = [members EXCEPT ![r] = @ \union {a}]
  /\ UNCHANGED <<paused, registry>>

RevokeRole(by, r, a) ==
  /\ by \in members[AdminOf(r)] \/ by = a    \* revokeRole, renounceRole
  /\ members' = [members EXCEPT ![r] = @ \ {a}]
  /\ UNCHANGED <<paused, registry>>

SetPaused(by, p) ==
  /\ by \in members["ADMIN"]
  /\ paused = ~p
  /\ paused' = p
  /\ UNCHANGED <<members, registry>>

-----------------------------------------------------------------------------
(* Tokens *)

(* A mistake: only the token id is looked at.                               *)
MintIgnoringSerial(by, to, t, s, d, c) ==
  /\ by \in members["MINTER"]
  /\ ~paused
  /\ ~Exists(t)
  /\ record' = [record EXCEPT ![t] = [serial |-> s, did |-> d, content |-> c,
                                      digital |-> c # Blank]]
  /\ index' = [index EXCEPT ![s] = t]
  /\ permission' = [permission EXCEPT ![t][d] = "READ_WRITE"]
  /\ holder' = [holder EXCEPT ![t] = to]
  /\ UNCHANGED <<members, paused>>

(* mint (blank content) and mintDigitalAsset. *)
Mint(by, to, t, s, d, c) ==
  /\ by \in members["MINTER"]
  /\ ~paused
  /\ index[s] = NoToken
  /\ ~Exists(t)
  /\ record' = [record EXCEPT ![t] = [serial |-> s, did |-> d, content |-> c,
                                      digital |-> c # Blank]]
  /\ index' = [index EXCEPT ![s] = t]
  /\ permission' = [permission EXCEPT ![t][d] = "READ_WRITE"]
  /\ holder' = [holder EXCEPT ![t] = to]
  /\ UNCHANGED <<members, paused>>

(* updateDigitalAsset *)
UpdateDigitalAsset(by, t, c) ==
  /\ by \in members["ANCHOR"]
  /\ ~paused
  /\ Exists(t)
  /\ record[t].digital
  /\ record' = [record EXCEPT ![t].content = c]
  /\ UNCHANGED <<members, paused, holder, index, permission>>

(* transferAsset *)
TransferAsset(by, to, t, d) ==
  /\ by \in members["MANAGER"]
  /\ ~paused
  /\ Exists(t)
  /\ permission' = [permission EXCEPT ![t] =
                      [e \in Did |-> IF e = d THEN "READ_WRITE"
                                     ELSE IF e = record[t].did THEN "NONE"
                                     ELSE @[e]]]
  /\ record' = [record EXCEPT ![t].did = d]
  /\ holder' = [holder EXCEPT ![t] = to]
  /\ UNCHANGED <<members, paused, index>>

(* revoke: also while paused; the permissions given stay behind. *)
Revoke(by, t) ==
  /\ by \in members["MANAGER"]
  /\ Exists(t)
  /\ index' = [index EXCEPT ![record[t].serial] = NoToken]
  /\ record' = [record EXCEPT ![t] = NoRecord]
  /\ holder' = [holder EXCEPT ![t] = NoAccount]
  /\ UNCHANGED <<members, paused, permission>>

(* grantAssetAccess (a level other than NONE) and revokeAssetAccess (NONE). *)
SetAccess(by, t, d, level) ==
  /\ by \in members["MANAGER"]
  /\ Exists(t)
  /\ permission' = [permission EXCEPT ![t][d] = level]
  /\ UNCHANGED <<members, paused, holder, record, index>>

Next ==
  \/ \E by, a \in Account, r \in Roles : GrantRole(by, r, a) \/ RevokeRole(by, r, a)
  \/ \E by \in Account, p \in BOOLEAN : SetPaused(by, p)
  \/ \E by, to \in Account, t \in Token, s \in Serial, d \in Did,
        c \in Content \union {Blank} : Mint(by, to, t, s, d, c)
  \/ \E by \in Account, t \in Token, c \in Content : UpdateDigitalAsset(by, t, c)
  \/ \E by, to \in Account, t \in Token, d \in Did : TransferAsset(by, to, t, d)
  \/ \E by \in Account, t \in Token : Revoke(by, t)
  \/ \E by \in Account, t \in Token, d \in Did, level \in Levels : SetAccess(by, t, d, level)

Spec == Init /\ [][Next]_vars

-----------------------------------------------------------------------------
(* Properties *)

(* "A registrar can NEVER hold an operational role itself", nor can the     *)
(* governance key, in whatever order roles are given, renounced and revoked. *)
SeparationOfDuties ==
  \A a \in Account : ~(Holds(a, Governing) /\ Holds(a, Operational))

(* getTokenBySerial finds exactly the live tokens: a serial number leads to *)
(* the one token that carries it, and to none when it was revoked, so the   *)
(* number can be minted again.                                              *)
SerialIndexIsTrue ==
  \A s \in Serial, t \in Token :
    index[s] = t <=> Exists(t) /\ record[t].serial = s

(* A live token is a document with content for ever or a device without any *)
(* for ever: revisions are anchored to documents only, and nothing removes  *)
(* the hash of a document that is still registered.                         *)
DocumentsKeepAHash ==
  \A t \in Token : Exists(t) => (record[t].digital <=> record[t].content # Blank)
=============================================================================
