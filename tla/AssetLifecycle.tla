---------------------------- MODULE AssetLifecycle ----------------------------
(***************************************************************************)
(* Physical assets: their registration under identifiers that are unique   *)
(* in the whole registry, the status each one has, and who owns it         *)
(* (src/backend/app/api/assets.py, services/physical.py,                   *)
(* services/action_ids.py, services/identity.py; what the indexer does to  *)
(* an asset follows indexer/event_indexer.py).                             *)
(*                                                                         *)
(* A request reads, waits and writes: other requests, the chain and the    *)
(* indexer act between its steps.  A database transaction that takes the   *)
(* next action number holds that number's row until it ends, so two        *)
(* registrations are never both between numbering and commit.  Roles and   *)
(* departments are in Identities; here every request is an allowed one.    *)
(***************************************************************************)
EXTENDS Naturals, Sequences, FiniteSets

CONSTANTS
  User,       \* the people who may own an asset
  Serial,     \* serial numbers, as people write them
  Address,    \* MAC addresses and unique addresses, as people write them
  Norm,       \* the spelling that stands for all that normalise alike
  Asked,      \* bound: the identifiers of the assets that are registered
  Worker,     \* concurrently running requests
  MaxToken,   \* bound: token ids that the sequence gives
  MaxChain,   \* bound: transactions on the chain
  None

ASSUME BoundAssumption == MaxToken \in Nat /\ MaxChain \in Nat
ASSUME NormAssumption ==
  /\ Serial \intersect Address = {}
  /\ Norm \in [Serial \union Address -> Serial \union Address]
  /\ \A s \in Serial : Norm[s] \in Serial
  /\ \A a \in Address : Norm[a] \in Address
ASSUME AskedAssumption == Asked \in SUBSET (Serial \X Address)
ASSUME NoneAssumption == None \notin User \union Serial \union Address \union Worker

VARIABLES
  registry,      \* assets: the committed row of each token id
  person,        \* users: active, removed (delete_user) or revoked (an alert)
  sequence,      \* asset_token_id_seq
  counter,       \* the transaction that holds the CRT row of action_id_counters
  job,           \* the request of each worker
  holder,        \* who holds each token on the chain (external)
  txs,           \* the transactions on the chain (external)
  events,        \* the events that the indexer has not indexed (external)
  indexing,      \* the event that the indexer is indexing
  minted,        \* history: the tokens that were ever minted
  misnamed,      \* history: a duplicate attempt was recorded for what nobody has
  overlapped     \* history: a removal overlapped a change of ownership

stored == <<registry, person, sequence, counter, misnamed>>
chain == <<holder, txs, events, minted>>
vars == <<stored, chain, job, indexing, overlapped>>

-----------------------------------------------------------------------------
(* Types and derived state. *)

Token == 1..MaxToken
Identifier == Serial \union Address
Life == {"CREATED", "MINTED", "ASSIGNED", "REVOKED"}

Row == [serial : Serial, address : Address, owner : User, life : Life]
NoRow == [life |-> "none"]

Proposal == [op : {"propose"}, step : {"looked", "numbered", "staged", "lost"},
             serial : Serial, address : Address, to : User, token : 0..MaxToken]
Status == [op : {"status"}, token : Token, new : Life]
Removal == [op : {"remove"}, of : User]
NoJob == [op |-> "none"]

Event == [token : Token, to : User \union {None}]
NoEvent == [token |-> 0]

TypeOK ==
  /\ registry \in [Token -> Row \union {NoRow}]
  /\ person \in [User -> {"active", "removed", "revoked"}]
  /\ sequence \in 0..MaxToken
  /\ counter \in Worker \union {None}
  /\ job \in [Worker -> Proposal \union Status \union Removal \union {NoJob}]
  /\ holder \in [Token -> User \union {None}]
  /\ txs \in 0..MaxChain
  /\ events \in Seq(Event)
  /\ indexing \in Event \union {NoEvent}
  /\ minted \in SUBSET Token
  /\ misnamed \in BOOLEAN /\ overlapped \in BOOLEAN

Recorded(t) == registry[t] # NoRow
Active(u) == person[u] = "active"
Free(w) == job[w].op = "none"
At(w, step) == job[w].op = "propose" /\ job[w].step = step

Init ==
  /\ registry = [t \in Token |-> NoRow]
  /\ person = [u \in User |-> "active"]
  /\ sequence = 0
  /\ counter = None
  /\ job = [w \in Worker |-> NoJob]
  /\ holder = [t \in Token |-> None]
  /\ txs = 0
  /\ events = <<>>
  /\ indexing = NoEvent
  /\ minted = {}
  /\ misnamed = FALSE /\ overlapped = FALSE

-----------------------------------------------------------------------------
(* propose_physical_asset_creation *)

(* ux_assets_serial_norm, ux_assets_mac_norm, ux_assets_unique_address_norm *)
Known == UNION {{Norm[registry[t].serial], Norm[registry[t].address]} :
                  t \in {x \in Token : Recorded(x)}}

(* find_duplicate: the serial is looked up first *)
Duplicate(serial, address) ==
  CASE Norm[serial] \in Known -> Norm[serial]
    [] Norm[serial] \notin Known /\ Norm[address] \in Known -> Norm[address]
    [] OTHER -> None

(* The recipient is an active identity (_resolve_recipient), and the        *)
(* identifiers are looked up in the registry.                               *)
Propose(w, serial, address, to) ==
  /\ Free(w) /\ Active(to) /\ sequence < MaxToken
  /\ Duplicate(serial, address) = None
  /\ job' = [job EXCEPT ![w] = [op |-> "propose", step |-> "looked",
       serial |-> serial, address |-> address, to |-> to, token |-> 0]]
  /\ UNCHANGED <<stored, chain, indexing, overlapped>>

(* _reject_duplicate commits the attempt and refuses the request. *)
ProposeDuplicate(w, serial, address, to) ==
  /\ Free(w) /\ Active(to)
  /\ Duplicate(serial, address) # None
  /\ misnamed' = (misnamed \/ Duplicate(serial, address) \notin Known)
  /\ UNCHANGED <<registry, person, sequence, counter, chain, job, indexing,
                 overlapped>>

(* next_action_id waits for the row of the counter; next_token_id never     *)
(* gives an id twice, whether the transaction commits or not.               *)
Number(w) ==
  /\ At(w, "looked") /\ counter = None /\ sequence < MaxToken
  /\ counter' = w
  /\ sequence' = sequence + 1
  /\ job' = [job EXCEPT ![w] = [@ EXCEPT !.step = "numbered", !.token = sequence + 1]]
  /\ UNCHANGED <<registry, person, misnamed, chain, indexing, overlapped>>

(* A mistake: the columns are unique as they are written. *)
InsertableAsWritten(p) ==
  \A t \in Token : Recorded(t) =>
    registry[t].serial # p.serial /\ registry[t].address # p.address

(* The insert passes the unique indexes. *)
Insertable(p) == Norm[p.serial] \notin Known /\ Norm[p.address] \notin Known

(* _apply_approval looks the recipient up again. *)
Ownable(u) == Active(u)

(* The row is inserted (flush) and approved, and the recipient resolved     *)
(* again; without one the request ends and nothing was written.             *)
Stage(w) ==
  /\ At(w, "numbered") /\ Insertable(job[w])
  /\ \/ /\ Ownable(job[w].to)
        /\ job' = [job EXCEPT ![w].step = "staged"]
        /\ UNCHANGED counter
     \/ /\ ~Ownable(job[w].to)
        /\ job' = [job EXCEPT ![w] = NoJob]
        /\ counter' = None
  /\ UNCHANGED <<registry, person, sequence, misnamed, chain, indexing,
                 overlapped>>

(* IntegrityError: somebody else's row was committed first.  Roll back. *)
Lose(w) ==
  /\ At(w, "numbered") /\ ~Insertable(job[w])
  /\ job' = [job EXCEPT ![w].step = "lost"]
  /\ counter' = None
  /\ UNCHANGED <<registry, person, sequence, misnamed, chain, indexing,
                 overlapped>>

(* A mistake: the loser of the race is told of the serial it asked for. *)
BlamedSerial(p) == Norm[p.serial]

(* find_duplicate(...) or "serial" *)
Blamed(p) ==
  LET found == Duplicate(p.serial, p.address)
  IN IF found = None THEN Norm[p.serial] ELSE found

(* _reject_duplicate after the rollback: the session's objects have         *)
(* expired, and reading the actor's DID from one of them may fail before    *)
(* the attempt is recorded.                                                 *)
RefuseLoser(w) ==
  /\ At(w, "lost")
  /\ misnamed' \in {misnamed, misnamed \/ Blamed(job[w]) \notin Known}
  /\ job' = [job EXCEPT ![w] = NoJob]
  /\ UNCHANGED <<registry, person, sequence, counter, chain, indexing,
                 overlapped>>

Removing(u) == \E w \in Worker : job[w] = [op |-> "remove", of |-> u]

(* _apply_approval commits. *)
Record(w) ==
  LET p == job[w]
  IN /\ At(w, "staged")
     /\ registry' = [registry EXCEPT ![p.token] =
          [serial |-> p.serial, address |-> p.address, owner |-> p.to,
           life |-> "CREATED"]]
     /\ counter' = None
     /\ job' = [job EXCEPT ![w] = NoJob]
     /\ overlapped' = (overlapped \/ Removing(p.to))
     /\ UNCHANGED <<person, sequence, misnamed, chain, indexing>>

(* The request fails or the server stops: its transaction is rolled back. *)
Abort(w) ==
  /\ ~Free(w)
  /\ job' = [job EXCEPT ![w] = NoJob]
  /\ counter' = IF counter = w THEN None ELSE counter
  /\ UNCHANGED <<registry, person, sequence, misnamed, chain, indexing,
                 overlapped>>

-----------------------------------------------------------------------------
(* The status of an asset: change_physical_status,                          *)
(* assign_asset_custodian, record_asset_maintenance, _confirm_on_chain      *)

(* Only a column that differs from what was read is written. *)
ReadForStatus(w, t, new) ==
  /\ Free(w) /\ Recorded(t) /\ registry[t].life # new
  /\ job' = [job EXCEPT ![w] = [op |-> "status", token |-> t, new |-> new]]
  /\ UNCHANGED <<stored, chain, indexing, overlapped>>

(* PHYSICAL_STATUSES and MAINTENANCE are all ASSIGNED here.  A change of    *)
(* status does not ask the chain; maintenance may follow it at any time.    *)
ChangeStatus(w, t) == ReadForStatus(w, t, "ASSIGNED")

(* Assigning needs the token on the chain, and takes any status. *)
Assign(w, t, new) == holder[t] # None /\ ReadForStatus(w, t, new)

(* A mistake: a successful transaction is enough. *)
ShownByReceipt(t) == txs > 0

(* The receipt of a transaction of the contract, and the chain shows the    *)
(* serial minted with the reserved token id.                                *)
Shown(t) == txs > 0 /\ holder[t] # None

Confirm(w, t) == Shown(t) /\ ReadForStatus(w, t, "MINTED")

WriteStatus(w) ==
  LET s == job[w]
  IN /\ job[w].op = "status"
     /\ registry' = [registry EXCEPT ![s.token].life = s.new]
     /\ job' = [job EXCEPT ![w] = NoJob]
     /\ UNCHANGED <<person, sequence, counter, misnamed, chain, indexing,
                    overlapped>>

-----------------------------------------------------------------------------
(* Removing people *)

(* A mistake: only what the person holds on the chain is looked at. *)
OwnsNoToken(u) == \A t \in Token : holder[t] # u

(* revoke_identity, require_no_owned_assets *)
OwnsNothing(u) == \A t \in Token : Recorded(t) => registry[t].owner # u

ReadForRemoval(w, u) ==
  /\ Free(w) /\ Active(u) /\ OwnsNothing(u)
  /\ job' = [job EXCEPT ![w] = [op |-> "remove", of |-> u]]
  /\ UNCHANGED <<stored, chain, indexing, overlapped>>

(* Somebody is about to give the person an asset. *)
Receiving(u) ==
  \/ \E w \in Worker : At(w, "staged") /\ job[w].to = u
  \/ indexing # NoEvent /\ indexing.to = u

Remove(w) ==
  LET u == job[w].of
  IN /\ job[w].op = "remove"
     /\ person' = [person EXCEPT ![u] = "removed"]
     /\ job' = [job EXCEPT ![w] = NoJob]
     /\ overlapped' = (overlapped \/ Receiving(u))
     /\ UNCHANGED <<registry, sequence, counter, misnamed, chain, indexing>>

(* The alert chain revokes an identity, whatever it owns. *)
RevokeIdentity(u) ==
  /\ Active(u)
  /\ person' = [person EXCEPT ![u] = "revoked"]
  /\ UNCHANGED <<registry, sequence, counter, misnamed, chain, job, indexing,
                 overlapped>>

-----------------------------------------------------------------------------
(* The chain: calldata that the backend prepared, signed by a wallet.  A    *)
(* mint changes nothing in the registry.                                    *)

Mint(t, u) ==
  /\ Recorded(t) /\ holder[t] = None /\ txs < MaxChain
  /\ holder' = [holder EXCEPT ![t] = u]
  /\ txs' = txs + 1
  /\ minted' = minted \union {t}
  /\ UNCHANGED <<stored, events, job, indexing, overlapped>>

(* prepare_transfer, prepare_revoke, delete_asset: the token changes hands, *)
(* or is burned.                                                            *)
Move(t, to) ==
  /\ holder[t] # None /\ holder[t] # to /\ txs < MaxChain
  /\ holder' = [holder EXCEPT ![t] = to]
  /\ txs' = txs + 1
  /\ events' = Append(events, [token |-> t, to |-> to])
  /\ UNCHANGED <<stored, minted, job, indexing, overlapped>>

-----------------------------------------------------------------------------
(* The indexer: _reconcile_transfer and the AssetRevoked event *)

ReadEvent ==
  LET e == Head(events)
  IN /\ indexing = NoEvent /\ events # <<>>
     /\ events' = Tail(events)
     /\ \/ /\ e.to \in User /\ Active(e.to)
           /\ indexing' = e
        \/ /\ e.to \in User /\ ~Active(e.to)    \* TRANSFER_TO_UNKNOWN_IDENTITY
           /\ UNCHANGED indexing
        \/ /\ e.to = None
           /\ indexing' = IF registry[e.token].life = "REVOKED" THEN NoEvent ELSE e
     /\ UNCHANGED <<stored, holder, txs, minted, job, overlapped>>

WriteEvent ==
  LET t == indexing.token
      u == indexing.to
  IN /\ indexing # NoEvent
     /\ registry' = [registry EXCEPT ![t] =
          IF u = None THEN [@ EXCEPT !.life = "REVOKED"] ELSE [@ EXCEPT !.owner = u]]
     /\ overlapped' = (overlapped \/ (u # None /\ Removing(u)))
     /\ indexing' = NoEvent
     /\ UNCHANGED <<person, sequence, counter, misnamed, chain, job>>

-----------------------------------------------------------------------------

Serve(w) ==
  Number(w) \/ Stage(w) \/ Lose(w) \/ RefuseLoser(w) \/ Record(w)
  \/ WriteStatus(w) \/ Remove(w)

Indexing == ReadEvent \/ WriteEvent

Ask(w) ==
  \/ \E i \in Asked, u \in User :
       Propose(w, i[1], i[2], u) \/ ProposeDuplicate(w, i[1], i[2], u)
  \/ \E t \in Token : ChangeStatus(w, t) \/ Confirm(w, t)
  \/ \E t \in Token, new \in Life : Assign(w, t, new)
  \/ \E u \in User : ReadForRemoval(w, u)

Chain ==
  \/ \E t \in Token, u \in User : Mint(t, u)
  \/ \E t \in Token, to \in User \union {None} : Move(t, to)

Next ==
  \/ \E w \in Worker : Ask(w) \/ Serve(w) \/ Abort(w)
  \/ \E u \in User : RevokeIdentity(u)
  \/ Chain \/ Indexing

Spec == Init /\ [][Next]_vars

-----------------------------------------------------------------------------
(* Properties. *)

(* Identifiers are unique in the whole registry, however they are written   *)
(* and however many registrations looked them up and found none at once     *)
(* (physical.py: "globally unique across the whole registry").              *)
IdentifiersUnique ==
  \A t, x \in Token : t # x /\ Recorded(t) /\ Recorded(x) =>
    /\ Norm[registry[t].serial] # Norm[registry[x].serial]
    /\ Norm[registry[t].address] # Norm[registry[x].address]

(* An attempt that is recorded as a duplicate, and raises an alert about    *)
(* the person, names an identifier that really is in the registry; so does  *)
(* the refusal of the loser of a race, which falls back to "serial".        *)
RefusedIsTaken == ~misnamed

(* An asset is MINTED in the registry only if it was minted on the chain    *)
(* ("Record an on-chain effect ONLY after verifying it").                   *)
ConfirmedWasMinted ==
  \A t \in Token : Recorded(t) /\ registry[t].life = "MINTED" => t \in minted

(* A person whom an administrator removed owns nothing, as long as no       *)
(* removal overlapped a change of ownership: not a transfer that was        *)
(* signed before and indexed later, nor a registration asked for before.    *)
RemovedOwnNothing ==
  ~overlapped => \A t \in Token : Recorded(t) => person[registry[t].owner] # "removed"

(* The row of the action counter, for which every registration waits, is    *)
(* held only by a transaction that still runs: whichever lost, was refused  *)
(* or failed has let it go.                                                 *)
NumberIsReleased ==
  counter # None => At(counter, "numbered") \/ At(counter, "staged")

=============================================================================
