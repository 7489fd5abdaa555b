# LexCorp2 in TLA+

Specifications, model-checking configurations and machine-checked proofs for
the LexCorp2 asset and document registry: a FastAPI backend over PostgreSQL
(`src/backend`), a Solidity contract (`src/contracts`) and a browser frontend.
Everything here is translated from the code; the lines each definition stands
for are in `PROJECT.json` under `map`.

Contents: the system and its hazards (1), the modules and how they correspond
to the code (2), the runs (3), fairness (4), the proofs (5), where code and
documents disagree (6), what is not modelled (7).

## 1. The system

### Concurrency model

One asyncio process serves HTTP requests; each request has a database session
of its own (`get_db`) and awaits between statements, so handlers interleave at
every statement. PostgreSQL runs at READ COMMITTED. The handlers read without
`FOR UPDATE`, decide on what they read, and SQLAlchemy later writes the
attributes that changed with `UPDATE ... WHERE id = ...`. So every
read-decide-write handler works on values that may be stale, except where the
code writes under a condition (`UPDATE ... WHERE status = 'APPROVED'`,
`consume_view`, `consume_step_up`, the PIN) or an index refuses a duplicate
(serial numbers, MAC addresses, audit events). A handler that fails before its
commit is rolled back and its row locks are released. Next to the handlers run
the event indexer's task and the role reconciler; both call the chain, and both
start over when the server does.

### Components

| Component | State | Operations | Hard behaviour | What makes it correct |
|---|---|---|---|---|
| Controlled download (`api/assets.py`) | `document_actions` rows of type DOWNLOAD | request, owner's consent or refusal, approve, reject, fetch, owner's own copy, expiry | deciders and fetches overlap; failures after the claim | one copy per release, no copy without consent, independent approval, failures keep the approval |
| Delegated access (`api/assets.py`, `services/grants.py`) | SHARE actions, `asset_access_grants` | request access, decide, view, revoke, expire | many viewers at the limit, revocation during a view, failed renders | views within the limit, exact counter, revocation final |
| Versions and approvals (`api/assets.py`) | `assets` rows, CREATION and MODIFICATION actions, modification copies | propose, request and fetch a modification copy, submit a revision (two endpoints), decide | submissions overlap, no lock on the lineage, the security review of a tampered copy | lineage is a chain, one pending revision, a copy is used once, review before approval |
| AssetNFT contract | roles, pause flag, tokens, records, serial index, permission mirror | grant/revoke roles, pause, mint, anchor, transfer, revoke, permission mirror | long sequences of calls by several role holders | duties separate, serial index exact, hash of documents kept |
| Security alerts (`services/alerts.py`) | `security_alerts`, their trail | raise, forward, dismiss, revoke the subject | stale transitions, nobody left to act | no revocation without escalation, someone can always act |
| Sessions (`api/auth.py`, `api/dependencies.py`, `services/mfa.py`) | the `users` row: version, authenticator, PIN, wallet, flags; login passkeys | provision, sign in, set up, sign out, expire, ask for and approve a reset, role change, revocation | handlers write versions computed from what they read; half a reset | what was ended stays ended; full sessions are set up; a PIN provisions once |
| Factors (`services/mfa.py`, `api/auth.py`) | authenticators and last accepted steps, passkeys, challenges, step-up tokens, links | step up, use, enrol, register, disable, reset, reuse the login factors, separate | replays, checks on a reading, removal of the last | codes and tokens count once; nothing protected goes without proof |
| Users and roles (`api/users.py`, `services/identity.py`, `services/chain.py`) | identities; roles on the chain | provision, change role, revoke; synchronise a wallet, reconcile all | authority read before it is used, transactions sent one by one, timeouts, stale copy of the registry | no mixed powers, an Admin remains, chain and registry agree in the end |
| Event indexer (`indexer/event_indexer.py`) | cursor, saved cursor, audit events, owners | poll, catch up, restart, chain reset | crash between commit and cursor, two drivers of one cursor | nothing passed over, each event recorded once, all indexed in the end |
| Physical assets (`api/assets.py`, `services/physical.py`, `services/action_ids.py`) | `assets` rows, counters | register, change status, assign, confirm a mint; what the indexer writes; removal of people | races on three identifiers, status written by four parties | identifiers unique, refusals true, MINTED was minted, removed people own nothing |
| Copies and their verification (`services/verification.py`, `api/verify.py`, `services/copy_integrity.py`, `services/watermark_strip.py`) | marks and hashes recorded with an action, marks left in stored bytes, alerts about a reference | issue, return as a revision, decide, check, close an alert | chains of copies, anonymous checks that overlap | the issued copy matches and nothing else does; every incident has an alert, not one per check |

The remaining parts (rendering of watermarks, risk scoring, key rotation,
credentials, frontend, VPN and chain deployment) keep no state that these
protocols depend on; `PROJECT.json` lists them with reasons.

Interaction: all document components share the tables and the authority rules
of `services/access.py`. A download copy in MODIFICATION mode is what a
revision is made from; a usable grant lets a delegate request, view and fetch;
an open alert about a tampered revision blocks its approval. An approval
returns calldata that the approver's wallet sends to the contract; the indexer
reads the contract's events back into the registry; role changes are pushed to
the contract. The modules cut this along the tables. Where one reads what
another writes it says which module has the other side: `CopyVerification` has
the second fetch that `DownloadWorkflow` shows to be possible,
`AssetLifecycle` the removals that `Identities` authorises and the transfers
that `EventIndexer` records.

### Hazards

`PROJECT.json` lists, line by line, what can go wrong and a test would hardly
reach, with the properties that cover it. Those without a property say why.

## 2. The modules

| Module | Models | Main correspondence |
|---|---|---|
| `DocumentAuthority` | who holds, manages or is delegated a document | `access.can_manage_asset`, the holder tests of the handlers |
| `CopyRelease` | abstract: a copy leaves only while its request is open, and closes it | the promise of the download workflow |
| `MeteredAccess` | abstract: a grant shows copies while open, at most `limit` | the promise of delegated access |
| `DownloadWorkflow` | controlled downloads | `request_document_download`, `owner_decision_on_download`, `approve_document` and `_apply_approval`, `fetch_approved_download`, `owner_download` |
| `AccessGrants` | delegated access and metered views | `propose_document_share`, `_grant_share`, `view_digital_document`, `consume_view`, `revoke_access_grant` |
| `DocumentLineage` | versions of one document | `propose_document_creation`, `_create_revision`, `revise_document`, `upload_revision`, `approve_document`, `_apply_approval` |
| `AssetNFT` | the contract | one action per external function |
| `SecurityAlerts` | the alerts about one person | `raise_alert`, `_add_evidence`, `forward`, `dismiss`, `revoke_from_alert`, `_transition`; `set_managed_departments`, `delete_user` around them |
| `AccountRequests` | what the handlers of one account share | `get_db`, `users.session_version` |
| `Sessions` | the sessions of one account | `provision_wallet`, `_issue_session`, `_authenticate`, `logout`, the set-up handlers, `request_admin_reset`, `approve_user_reset` and `reset_login_factors` |
| `Factors` | the factors of one signed-in person | `verify_totp_code`, `issue_step_up`, `consume_step_up`, `require_factor`, the handlers of `api/auth.py` that enrol, link and remove |
| `Identities` | the registry and the roles on the chain | `create_or_register_user`, `update_user_role`, `revoke_identity`, `RoleSync.sync`, `reconcile_all` |
| `EventIndexer` | the indexer over a chain that may be replaced | `run`, `_index_block`, `_write_event`, `_validated_cursor`, `catch_up`, `_reconcile_transfer` |
| `AssetLifecycle` | physical assets and who owns them | `propose_physical_asset_creation`, `find_duplicate`, the status handlers, `_confirm_on_chain`, `revoke_identity`; the chain and the indexer around them |
| `CopyVerification` | copies, revisions made from them, and checks | the handlers that issue copies, `_create_revision`, `strip_watermark`, `check_copy`, `_hash_check`, `_hidden_check`, `_alert_already_raised`, `_record_result` |
| `*_proofs` | the theorems of a module; `Accounts_proofs` those of `Sessions`, `Factors` and `Identities`, `Chain_proofs` those of `AssetNFT` and `EventIndexer` | section 5 |
| `MC*` | values of the constants and symmetry | section 3 |

**Handlers as workers.** `job[w]` is what a running handler has read. A handler
that reads and then writes is a `ReadFor...` step, which makes all the handler's
checks on the row as it is then, and a write step, which writes what the code
writes without looking again. Between them anything may commit, and `Abort(w)`
may end the handler (failed factor, missing file, lost connection, restart of
the server). A handler that only inserts a row nobody else knows is one step.
`lock[r]` is the row lock an open transaction holds; only the statements that
hold one over further work (the claim of a fetch, the count of a view, the
counter of action numbers) need it.

**Lost updates.** Where no line of the code protects a read-decide-write
handler, two of them that overlap can lose one's effect, and the property they
share fails. Those outcomes are in the models, never left out; a history
variable (`crossed`, `outranked`, `contested`, `overlapped`, `skipped`) records
that one happened, and a property that can only hold without one says so. What holds regardless
(`TokenUsedOnce`, `PinProvisionsOnce`, `RecordedOnce`, `IdentifiersUnique`,
`RolesConverge`, all of the document modules) has no such condition. Section 6
lists what the lost updates contradict.

**DownloadWorkflow.** `row[r]` is the action row as committed; the JSON
`details` are reduced to the three facts the code asks for (`needsOwner`,
`ownerOK`, `direct`). Handlers that write `details` back write what they read,
so `Deliver`, `Reject` and `Refuse` restore the `ownerOK` they saw
(`sawConsent`). `Claim` is the conditional UPDATE: it waits for the lock and
evaluates its condition on the row as it is then. `CheckPermission` is the
second permission test inside that transaction. `perm[u]` stands for what
usable grants of a delegate carry and changes at any time (`GrantsChange`).
`consented`, `releases` and `copies` are history variables: no action reads
them.

**AccessGrants.** `Count` is `consume_view`: the WHERE clause is evaluated when
the lock is granted, except for the time it compares `expires_at` with, which
was fixed when the statement was issued (`IssueCount`). `age` is the order in
which decisions committed and stands for `created_at`; rows of one decision
have the same age, and `Newest` then picks any. The `shown` history counts the
copies that left. `views` and `shown` have no bound of their own: a grant
without limit is not among the `Limits` of the run, so the state space is
finite. The theorems do not depend on that.

**DocumentLineage.** An asset row and the action that created it are decided
together, so one record stands for both. Reading the lineage and inserting the
request for a copy are one step (`RequestCopy`, `OwnerCopy`): the copy is
fetched later anyway, and nothing is checked again then, so an insertion on a
stale reading is no new behaviour. Submission keeps the separate statements
(`ReadForRevision`, `CheckPending`, `Submit`) because its safety rests on their
order and on the unique index. A serial number that the server derives is
written as the version number it contains; clients of `/document/revise` may
name another one (`RequestedSerial`). With such names `LineageIsAChain` and
`CopyUsedOnce` are refuted by overlapping submissions (section 6), so the run
gives the empty set and the theorems state it as their hypothesis
(`ServerSerials`). `Refetch` is the effect of a second fetch (section 6, first
item) on a copy: it loses the mark that the copy was used. An alert about a
tampered revision is `open` from its creation until it was closed once, and may
be taken back by a stale transition (`reopened`).

**SecurityAlerts.** `covering` is the set of active managers whose departments
include the person's; appointing, moving and revoking managers is
`CoverageChanges`. A reviewer's handler reads the alert (`ReadForForward`,
`ReadForDismiss`, `ReadForRevoke`), an Auditor's or Administrator's forward then
asks for a manager (`AskForManager`), and `Move` or `Revoke` writes the new state
over whatever the alert is by then. A rule's alert is one insertion; an AI alert
is inserted or added to the one found (`ReadForRaise`, `RaiseByModel`,
`AddEvidence`). The person's `active` flag never comes back, so reading it
together with the alert is no restriction. `passed` and `uncovered` are history
variables. Alerts without a known person, and a second `raise_alert` for one
audit event (refused by a unique index), are left out.

**AssetNFT.** A transaction is one step; a call that reverts is not enabled.
`RevokeRole` covers `revokeRole` and `renounceRole` of AccessControl. Plain
ERC-721 transfers and approvals always revert and are no steps. Strings are
model values; `Blank` is the empty string and `NoToken` is token id 0.

**Sessions.** `user` is the account's row. A session is accepted while its
version is the row's and the account is active (`Accepted`). `Flushed` is what
SQLAlchemy sends: an attribute the handler leaves as it read it is not written.
`ended` holds the sessions that were issued before the last sign-in or end.
`crossed` is set when a handler commits on a reading whose version or
authenticator another one changed; `ProvisionWallet` does not set it, because
its conditional UPDATE protects what it writes, which is why
`PinProvisionsOnce` needs no condition. Inactivity is nondeterministic
(`ReadForExpiry`): the clock may have passed the limit at any request. A
person starts new or with a completed set-up.

**Factors.** A handler reads the row and the passkeys (`Read`) and commits
(`Handle`): one disjunct of `Commit` for each endpoint. Inside the commit the
conditional UPDATE of a token or a challenge is evaluated on the table as it is
then, while codes, links and passkeys are judged on the copy. `Merge` is the
flush. A code is a pair of the authenticator and its 30-second step; any step
may be presented, which includes old codes. `used` and `again` are the history
of what was accepted. Registration proves its purpose when the options are
asked for, so a passkey whose options were issued before the purpose was
protected can be added after; `RemovalIsProven` is therefore about
removals and links. Site names are abstracted: which of the passkeys of a
purpose belong to the name a request came from is chosen freely, so that
`RegisterOptions` asks for a proof, as the code does, only when one of those or
an authenticator protects the purpose. A sign-in in the middle of the session is
`SignInWithTotp` or `SignInWithPasskey`; its challenge has the action
`LoginAction`, which no protected endpoint asks for.

**Identities.** A request is authorised (`Authorise`), waits for its factor,
writes the row (`Provision`, `ChangeRole`, `Revoke`) and asks for a
synchronisation. `sync[p]` is one `RoleSync.sync`: read the roles, revoke what
is too much, grant what is missing, read again. Each change is a transaction:
`Send` puts it into `pool` and waits, `Mine` takes the oldest nonce (the
operator sends them all, so they are mined in that order) and wakes whoever
waits. A synchronisation may fail at any point (`SyncFails`), among others when
the receipt does not come within 60 s; its transaction then stays in the pool
with nobody waiting and is mined at any later time, like those of a server that
crashed. That the node keeps what it accepted is assumed. A pass copies the
registry, synchronises each known wallet from that copy, then lists every wallet
a `RoleGranted` log names (`holders`) that the copy does not know and strips
them. `outranked` says that a request wrote what its actor was no longer allowed
to. `contested` holds the wallets on which two synchronisations overlapped, or
one read roles while a late transaction of another was in the pool; a wallet
leaves it when a synchronisation verifies it with nothing else under way.

**EventIndexer.** A block has one log; a log moves the token (`transfer`) or
not (`other`), and the kinds are fetched in that order, as `_index_block`
goes through the event types. `scan[d]` is one `_index_block` of the poller or
of a catch-up: fetch a kind, look whether the first log is indexed, read the
owner, commit. A failed call of the chain leaves out one kind (`FetchFails`), a
failed commit one log (`CommitFails`), and an error of the database elsewhere
ends the scan with the cursor where it was (`ScanFails`). A transfer to nobody
who is an active identity is recorded and moves no owner (`NewOwner`); the run's
recipients are all active, the theorems allow any. `audit[e]` counts the rows of an event; the unique index is in
`Insertable`. `saved` carries the chain whose block hash was stored.
`ReplaceChain` is the reset of the development chain; the task notices only
when it starts. `skipped` records the three ways past an event that the code
leaves open (section 6).

**AssetLifecycle.** A registration looks for duplicates, takes an action
number, whose row its transaction then holds, and inserts (`Number`, `Stage`,
`Record`); the loser of a race is rolled back and looks again (`Lose`,
`RefuseLoser`). `Norm` maps each spelling to the one that stands for all of
them: `normalize_serial`, `normalize_mac` and the expression indexes of
migration 0008. MAC addresses and unique addresses are one set, an asset having
one or the other. All statuses but CREATED, MINTED and REVOKED are ASSIGNED
here, as no guard tells them apart. `holder`, `txs` and `events` are the chain.

**CopyVerification.** A file is which bytes it is, whose watermark it shows,
and which invisible marks can be read from it (`Files`). A rendering is a
member of `Copy` and stands for its bytes and its random mark. `LeftBehind` is
what stripping leaves, `MarksOf` what a new rendering of such bytes
carries: `hidden_mark` reads whichever marks survive, so both outcomes are
allowed. `Verdict` combines the three checks; two more sources of
contradictions, a typed reference and a record without any copy, are in
`TypedVerdict` and `Contradicted`. A check reads (`ReadForCheck`) and records
(`RecordResult`) in two steps. A finding of severity "review" (a page that is
gone with its layer) leaves the revision unflagged and its marks undetermined
(`Flagged`, `LeftBehind`). `about` names the reference of each alert an
anonymous check opened; `open` holds the open ones, a reference in it standing
for all other alerts about it. A reviewer closes an alert in one step (`Close`) but
forwards it in two (`ReadForForward`, `Forward`): the second writes an open
state whatever happened in between, as `Move` does in `SecurityAlerts`, which
has the stages and who may do what.

Each component module also contains a few operators introduced by a comment
"A mistake": plausible errors in the code the action translates. They are not
part of the specification; each shows that a property fails when the code is
changed that way (`mutants` in `PROJECT.json`).

## 3. The runs

| Run | Instance | Shows |
|---|---|---|
| `DownloadRace` | 1 request, 3 handlers, fair; a user who owns the document, a delegate, a Manager in scope, an Administrator | `NoCopyWithoutConsent`, `IndependentApproval`, `FailedFetchKeepsApproval`, `EveryHandlerEnds`, and the refinement `MeteredPromise` |
| `GrantRace` | 2 grants, 1 version, 2 handlers, limits 1 and 2 | `CounterIsTrue` and the refinement `MeteredPromise` |
| `LineageRace` | 3 assets, 2 copies, 2 handlers, server serial numbers | `LineageIsAChain`, `ReviewedBeforeApproval` |
| `AlertReview` | 1 alert about a Manager, 2 handlers, another Manager, an Auditor, an Administrator | `EscalatedBeforeRevocation`, `SomebodyCanAct` |
| `AssetRegistry` | 2 accounts (one both governor and registrar), 2 tokens, serial numbers, identities | `SeparationOfDuties`, `SerialIndexIsTrue` |
| `SessionRace` | 3 sessions, 2 PINs, 2 handlers, versions to 4 | `SessionWellFormed`, `EndedSessionsStayEnded`, `FullSessionIsSetUp`, `OutstandingPinIsClean`, `PinProvisionsOnce` |
| `FactorUse` | login and one higher purpose, 2 passkeys, 1 challenge, 2 tokens, 2 handlers, 2 time steps | `FactorWellFormed`, `TokenUsedOnce`, `CodeUsedOnce`, `LoginPasskeyStays`, `LinkedHasNoOwnFactor`, `RemovalIsProven` |
| `EventIndexing` | 2 chains of up to 2 blocks, one token, two owners, one fault | `IndexerTypeOK`, `NothingPassedOver`, `RecordedOnce`, `OwnerFollowsChain`, `EventsGetIndexed` |
| `RoleConvergence` | an Admin and a wallet that is another Admin's or an earlier registry's, 2 workers, the reconciler, 3 events | `NoMixedPower`, `AnAdminRemains`, `RolesConverge` |
| `AssetLifecycle` | 2 people, 2 token ids, identifiers of which one is spelt in two ways, 2 requests, 2 transactions | `IdentifiersUnique`, `RefusedIsTaken`, `ConfirmedWasMinted`, `RemovedOwnNothing` |
| `CopyChecks` | 4 references, 2 stored documents, 2 copies, 1 check | `GenuineCopiesMatch`, `OnlyTheIssuedCopyMatches` |
| `CopyAlerts` | 2 references, 1 document, 1 copy, 2 checks, 1 forward, 4 alerts | `AnonymousAlertsAreBounded`, `TamperingIsAlerted` |

Why the bounds are enough to be interesting. Three handlers are two deciders
(or a decider and the owner) and a fetch, the largest group whose members write
one row; one request suffices because no handler touches two. Two grants are
needed for a viewer to have an older grant besides the newest, and for two
decisions on one request to issue two. Three assets are two generations of
revisions or two competing ones; the two copies are what two submissions need.
Two handlers on one alert are two reviewers with stale readings of it, or a
reviewer and the model's evidence; the person is a Manager, so that the covering
manager and the person can be told apart. Three sessions are one that is ended,
the one that ended it and a third that finds both; the second PIN is a reset's.
Two passkeys are the last but one; two tokens and two steps let a second proof
follow the first. Two blocks let the cursor stand between them, the second
chain shorter or longer than the first. Three events are
a request, a transaction that is given up and mined late, and one more request
or fault; with the reconciler's copy of the registry that is enough for a late
grant to mix with another role, and `NoMixedPower` does fail there when late
transactions are not among what it excepts. The second wallet is an Admin's, so
that two Admins act on each other, or nobody's, with the roles of an earlier
registry or without. The bound on alerts is three for two checks and one forward; there are
four alerts, so it could be exceeded, and it is reached. The identifiers of
`AssetLifecycle` collide by serial number with the first device and by address
with the third, and those two do not collide. Two documents are one and its
revision, or one and another made from its copy; four references name the first
version, the modification copy, the revision, and a copy of that.

Bounds that appear in guards, each named where it is declared:

* `MaxVersion` (Sessions, Factors), `MaxStep`, `MaxBlock`, `MaxChain`,
  `MaxToken`, `MaxAlerted`: the size of a counter or a set. A step that would
  exceed one is not taken, so behaviours are cut, not changed.
* `MaxWatched` (CopyVerification): how many references are in use while an alert
  is about. Alerts are raised and closed one reference at a time, and three
  references are enough for a tampered revision; the verdicts are checked with
  four. `Alert` (CopyVerification): an anonymous check opens one that is neither
  open nor loaded by a forward; the others stand for closed alerts and are used
  again.
* `MaxFaults` and `MaxEvents` limit failures, crashes and requests, so that
  behaviours settle and convergence can be asked about.
* `AfterCrossing` (Sessions, Factors) and `AfterSkip` (EventIndexer) are FALSE
  in the runs: after a lost update no new request comes, and after a log may
  have been passed over nothing new happens around the indexer. The properties
  that say "unless" claim nothing there; the others are checked on every step up
  to the lost update and on those of the handlers that run then.
* `Given` and `Asked`: which roles requests give, which devices are registered.
* In the document modules every counter is bounded by the model itself (each
  row is inserted once, and a release needs an overlapping handler that read
  PENDING), so no artificial bound appears in a guard.

`CHECK_DEADLOCK FALSE` is set where all rows, sessions, steps or references can
be used up. Symmetry sets are used in runs without liveness properties only.
In `DownloadRace` the owner is an ordinary user: the consent only unlocks the
decision when an ordinary user asked, and is the approval when the Manager did.

## 4. Fairness

Three runs check liveness.

`EveryHandlerEnds` uses `FairSpec`: strong fairness of each worker's own steps.
A handler that has started runs on (the event loop schedules it) or ends by
`Abort`; strong fairness is needed for the statement that waits for a row lock,
since the lock may be taken again and again by others, and PostgreSQL serves
waiters of a row in order of arrival.

`EventsGetIndexed` assumes weak fairness of `Work`, the polling task's own steps: `run` is
a loop that catches every error, sleeps and goes on. Nothing is assumed of
the chain, of catch-ups, or of failures, which `MaxFaults` ends. The property
excepts what the code leaves open: a task that died at its start, a skipped
log, a replaced chain.

`RolesConverge` assumes weak fairness of each request that was begun, of the
reconciler, which the lifespan task starts over and over, and of each
synchronisation that was begun, and of `Mine`: the node mines what is in its
pool. Failures, timeouts among them, are among the `MaxEvents`.

No fairness is assumed of people: that somebody decides, consents, fetches,
revokes or signs in is never required.

## 5. The proofs

All theorems hold for every number of users, roles, requests, grants, assets,
wallets, references and handlers. They use only the named assumptions on the
constants (which TLC evaluates in the runs) and, for `DocumentLineage`, the
hypothesis `ServerSerials`: no client names a serial number. Most of the
assumptions say that a sentinel (`None`, `NoPin`, `NoUser`, ...) is none of the
things it stands beside, and that a bound is a number. The others are about the
program: somebody is an Admin at the start (`AdminAssumption`), an Auditor and
an Administrator other than the subject exist (`ReviewerAssumption`), spellings
have a normal form (`NormAssumption`), "login" is no higher purpose
(`PurposeAssumption`), and rows of different tables and codes differ
(`ProofsAssumption`).

Every proof of an invariant has one form: `Init` gives the inductive invariant,
one lemma for each action keeps it, and each property follows from it. TLC
checked the inductive invariants on the runs' instances, and those of `Sessions`,
`Factors` and `EventIndexer` also with `AfterCrossing` and `AfterSkip` TRUE.
Components that work on the same rows, or that meet on the chain, are proved in
one module, a chapter for each.

**Download workflow** (`DownloadWorkflow_proofs`). The properties are not
inductive alone: a stale approval may only be written by a handler that read a
consent. `IInv` adds what a running handler knows (`JobsSound`: the request it
serves exists, the consent it saw was committed, a decider manages the
document), that a row's own record of a consent is true (`ConsentKnown`), that
whatever was released has its consent (`ReleasedWithConsent`), and that unused
identifiers have no history (`Fresh`). One lemma per action shows that it keeps
`IInv`. `FailedFetchKeepsApproval` and the refinement `MeteredPromise` follow
from `IInv` step by step: claims and failures map to stuttering, an approval to
`Release`, a delivery to `Take`, a late rejection to `Withdraw`. Two parts of
the invariant are worth a theorem of their own: `OneCopyPerRelease` (every copy
is paid for by a release) and `ClaimHolds` (a claimed row stays APPROVED and
has one fetch).

**Delegated access** (`AccessGrants_proofs`). `IInv` says that the lock of a
grant is held exactly by the handler that is rendering through it
(`LocksMatchJobs`), and that this handler counted one more than the committed
counter, within the limit and before any revocation (`JobsSound`). Refinement of
`MeteredAccess`: only `Show` shows. `ViewsWithinLimit` and
`NoCopyAfterRevocation` spell out two parts of what that refinement promises.

**Lineage** (`DocumentLineage_proofs`). The safety of overlapping submissions
does not come from the checks but from the unique index: `SerialIsVersion`
makes the serial number of a row its version number, so no two rows have the same
version (with server serial numbers). `EarlierAreDecided` (all but the newest
row are decided) then gives one pending revision (`OnePendingRevision`),
`ParentsPrecede` and `Contiguous` the chain, and `CopiesOfVersions` with
`JobsSound` the single use of a copy even after its mark is lost
(`CopyUsedOnce`).

**Sessions** (`Accounts_proofs`). That an ended session stays ended rests on
`session_version`, and a version is computed from a reading. `SessionInv` says
what a reading is worth: as long as nothing crossed, the copy of a running
handler has an older version than the row, or the same and then the same
attributes (`WorkCurrent`), so a handler that commits without crossing makes a
version higher than all. `SessionsOrdered` then puts every ended session below
the row's version. `OutstandingPinIsClean` is not inductive alone: somebody might
sign in, or enrol, while the PIN is outstanding. `KeystoreFirst` excludes it,
since both need a keystore and the reset that hands out a PIN removes it.
`PinProvisionsOnce` needs neither, only `PinSound`: what the row names is the
latest PIN and has not provisioned; it holds with any crossing.

**Factors** (`Accounts_proofs`). `TokenUsedOnce` follows from `UsedIsConsumed`
(what was accepted is marked in its table) because the conditional UPDATE looks
at the table and not at the copy; it holds with any crossing. Codes are judged
on the copy: `CodesCovered` says that the last accepted step of an authenticator
covers every code that was accepted for it (a new secret has new codes and
starts from zero), and `Unstarted` that an authenticator out of use has
accepted none. `KeysHavePurpose` keeps the purpose of a passkey for good, so that a copy
of the passkeys counts the right ones. The action property `RemovalIsProven` has
a lemma of its own for each handler that removes or links.

**Event indexer** (`Chain_proofs`). The cursor may pass a block only after both
kinds of logs were fetched and each was found or written. `CompleteIn` says
for a running scan what is in the trail: everything below its range, the kinds it
finished, and of the present kind what it fetched and no longer has in hand; at
the end of a scan this is all up to its last block, and `CursorCovers` and
`SavedCovers` take it over. `ScanShape` ties the scan to the chain.
`OnlyHappened` (what is recorded of this chain is one of its blocks) makes a new
block or a new chain harmless. For the owner, `TransfersInOrder` says that the
recorded transfers are a prefix of the chain's, so the one that is written next
is the last, and `CopyIsCurrent` that the session's copy of the owner is not
stale, which needs `SoleScan`. `RecordedOnce` needs the unique index only. That
the earliest fetched log exists is induction on block numbers
(`LeastExists`), from the library's `WellFoundedInduction`.

**Contract** (`Chain_proofs`). `IInv` adds that tokens that do not exist have
a blank record; each function keeps the three properties, among them
`DocumentsKeepAHash`.

**Alerts** (`SecurityAlerts_proofs`). The state of an alert says little, since a
stale decision may overwrite any state; the history says what is needed.
`StageSound` ties the state to who passed the alert on and to whether it was
uncovered at some time, `CoverageKnown` ties the latter to the managers of the
moment, and `JobsSound` gives every running decision its share of that history,
which later steps only extend. `NeverStuck` needs the assumption that an Auditor
and an Administrator other than the person exist. That the severity only rises
(`SeverityOnlyRises`) rests on there being two levels: a handler writes only a
rise, and the only rise ends at the highest.

**Identities** (`Accounts_proofs`). While anything is left to revoke the roles
of a wallet only shrink, and once nothing is, they are part of what is wanted:
`Planned` says both, for a wallet that is not contested, and `Alone` that no
other synchronisation works on it. Late transactions are the rest of the
argument: `Awaited` says that whoever waits for a transaction has it as its next
step, and `GrantsAreHarmless` that a grant in the pool cannot mix the roles of a
wallet that is not contested, so mining it is safe whenever it happens; a synchronisation that reads the wallet before it is mined makes the
wallet contested. That an Admin remains rests on the
hierarchy: an Admin's identity changes only by the hand of another Admin, and
`outranked` excepts the hand that was not an Admin's any more.

**Physical assets** (`AssetLifecycle_proofs`). `NumberHeld`: a registration
between numbering and commit holds the counter row, so there is one at a time,
and `StagedFits` (nobody's row comes between its insertion and its commit)
follows. `LoserCollides`: who lost a race lost it to a row that stays, so the
refusal is true whenever it is written. `ConfirmsMinted` carries what a
confirmation saw to its write. `Leaving` says that nobody being removed
owns or receives anything, as long as nothing overlapped. `NumberIsReleased`
says that the counter row is never left held.

**Copies** (`CopyVerification_proofs`). `OwnMarkOnly`: copies of a clean version
carry their own mark and no other, because a version is clean only when its
bytes carry none (`CleanIsUnmarked`); with `RecordsAreAboutSomething` every
genuine copy passes the three checks. Conversely a match needs the recorded
hash. `LiveIsBounded` counts, for each reference, the anonymous alerts that are
open or loaded by a forward, together with the checks that found nothing and
still may open one. A check joins them only while none is open, and then the
live ones are at most the forwards; so the sum stays within the checks and
forwards there are. `CoverIsAlerted` (whatever a check may take for cover had an
alert) gives `TamperingIsAlerted`.

So every invariant and every action property of the runs is proved, and both
refinements. Only model-checked is liveness (`EveryHandlerEnds`,
`EventsGetIndexed`, `RolesConverge`): the prover reasons neither about fairness
nor about ENABLED.

## 6. Where code and documents disagree

Reached in the models; `PROJECT.json` quotes the lines (`findings`).

* A controlled download "can be fetched once". Two deciders who both read
  PENDING: the first approves, the requester fetches, the second writes APPROVED
  over COMPLETED, and the requester fetches again. What does hold: each copy is
  paid for by a release.
* "Nobody can approve their own submission": a Manager's modification request
  for their own document is approved by themselves in the same step. What does
  hold is `IndependentApproval`: such an approver has authority over the
  document.
* A comment says a modification copy needs any active delegated access; the
  fetch asks for the download permission.
* "The same modification download cannot be reused": two overlapping
  submissions that name different serial numbers both use it. With the server's
  serial numbers it cannot be (proved).
* "One session per account": two overlapping sign-ins write the same version.
* A reset that overlaps a provisioning leaves the new PIN marked as used; one
  that overlaps an enrolment leaves an authenticator enabled without a secret.
* "The same code is never accepted twice", and the last login passkey stays:
  each fails when two handlers read the row before either commits.
* "Each event is written exactly once": an event whose commit fails, or that a
  catch-up jumps over, is written never. None is written twice (`RecordedOnce`).
* "Revoke first so a demotion never leaves a window with extra power": a grant
  whose receipt did not come within 60 s may be mined after a later change of
  role and mix with it, until a reconciliation repairs it (`RolesConverge`).
* "Adding a credential to an already-protected purpose needs that purpose's
  factor": what is asked for is a passkey of the request's site name, or an
  authenticator.
* Two Admins who demote or revoke each other at once leave none.
* A reconciliation works on the registry of its start: until the next pass it
  can restore a role that was taken, or strip a new person.
* "Duplicate attempts are audited": the loser of a race may not be.
* "User still owns assets" is checked before, and not with, the removal.
* A status change writes over REVOKED.
* An untouched copy of a narrow image, of a document made from a protected
  copy, of an approved tampered revision, or of a request fetched again, is
  reported as a mismatch; a changed document is "unavailable" under
  its creation reference.
* Anonymous checks "don't open alert after alert": those that overlap do, and a
  forward that reopens a closed alert leaves it beside a newer one.

## 7. Not modelled

Abstracted in every module: file contents and cryptography (a hash is the
identity of bytes, a signature or a code is valid or not), audit rows that
nothing reads, notifications, text. Departments and the owner of a document do
not change within a document run. Factors are part of the read step of the
document and asset handlers; how they are proved is in `Factors`.

Left out, with the reason:

* Rendering of watermarks, PDFs, cards and QR codes, and parsing them: layout
  and libraries without state of their own. The capacity of the invisible mark
  and what stripping leaves behind are in `CopyVerification`.
* Risk scoring and training: numbers without transitions; the alerts they raise
  are modelled as free choices.
* Key rotation, credentials, configuration, client addresses, safe files:
  configuration and cryptography.
* Listings, search, profiles, audit queries: they read.
* Cookies, CSRF and the binding of a session to an address: a request is
  accepted or not.
* The frontend, the portal, the VPN, deployment and migrations.
* One open AI alert per person and one set of grants per request: nothing in
  the repository promises them for overlapping requests, and the models
  include both outcomes.
