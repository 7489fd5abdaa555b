----------------------------- MODULE Identities -----------------------------
(***************************************************************************)
(* The identity registry and the roles its people hold on the chain        *)
(* (src/backend/app/api/users.py, services/identity.py, services/chain.py, *)
(* main.py; who owns assets is in AssetLifecycle).                         *)
(*                                                                         *)
(* A request authorises its actor, waits (Factor 3), writes the users row  *)
(* and then asks for a synchronisation of the wallet's on-chain roles,     *)
(* each of which is a transaction of its own.  A reconciler goes over a    *)
(* copy of the whole registry from time to time.  Calls of the chain may   *)
(* fail or time out, and the server may crash between any two steps; the   *)
(* node mines a transaction that it accepted all the same.                 *)
(***************************************************************************)
EXTENDS Naturals, Sequences, FiniteSets

CONSTANTS
  Wallet,        \* wallet addresses
  Admin,         \* wallets of Admins at the start; others may be Admins too
  Covered,       \* the wallets in the departments that Managers manage
  WriterRole,    \* MINTER_ROLE, ANCHOR_ROLE, MANAGER_ROLE
  AuditorRole,   \* AUDITOR_ROLE
  Requester,     \* concurrently running requests
  Reconciler,    \* runs of reconcile_all
  MaxEvents,     \* bound on requests, failed calls and crashes
  Given,         \* bound: the roles that requests give
  None

ASSUME BoundAssumption == MaxEvents \in Nat
ASSUME AdminAssumption ==
  /\ Admin \in SUBSET Wallet /\ Admin # {} /\ Covered \in SUBSET Wallet
ASSUME NameAssumption ==
  /\ AuditorRole \notin WriterRole
  /\ Requester \intersect Reconciler = {} /\ None \notin Requester \union Reconciler
  /\ Given \in SUBSET {"ADMIN", "MANAGER", "AUDITOR", "USER"}

VARIABLES
  identity,      \* users: role and state of each wallet's identity
  roles,         \* the operational roles on the chain (external)
  holders,       \* the wallets that a RoleGranted log names (external)
  pool,          \* transactions sent and not mined, by nonce (external)
  job,           \* the request of each worker, authorised and not written
  sync,          \* RoleSync.sync, as each worker or reconciler runs it
  pass,          \* reconcile_all: the copy of the registry and what is left
  events,
  outranked,     \* history: a request wrote what it was no longer allowed to
  contested      \* history: wallets that two synchronisations changed at
                 \* once, or one and a late transaction of another, and
                 \* that none has verified alone since

chain == <<roles, holders, pool>>
vars == <<identity, chain, job, sync, pass, events, outranked, contested>>

-----------------------------------------------------------------------------
(* Types and derived state. *)

Level == [ADMIN |-> 3, MANAGER |-> 2, AUDITOR |-> 1, USER |-> 0]
Roles == DOMAIN Level
Operational == WriterRole \union {AuditorRole}
Process == Requester \union Reconciler

Identity == [role : Roles, state : {"active", "revoked"}]
Unregistered == [role |-> "USER", state |-> "none"]
Registry == [Wallet -> Identity \union {Unregistered}]

Ops == {"provision", "role", "revoke"}
Request == [op : Ops, by : Wallet, of : Wallet, new : Roles, saw : Roles,
            written : BOOLEAN]
NoRequest == [op |-> "none"]

Syncs == [of : Wallet, want : SUBSET Operational, read : BOOLEAN,
          revoke : SUBSET Operational, grant : SUBSET Operational]
NoSync == [of |-> None]

\* by: the synchronisation that waits for the receipt, None if it gave up
Transactions == [of : Wallet, role : Operational, grant : BOOLEAN,
                 by : Process \union {None}]

Passes == [known : Registry, left : SUBSET Wallet, stage : {"users", "orphans"}]
NoPass == [stage |-> "idle"]

TypeOK ==
  /\ identity \in Registry
  /\ roles \in [Wallet -> SUBSET Operational]
  /\ holders \in SUBSET Wallet
  /\ pool \in Seq(Transactions)
  /\ job \in [Requester -> Request \union {NoRequest}]
  /\ sync \in [Process -> Syncs \union {NoSync}]
  /\ pass \in [Reconciler -> Passes \union {NoPass}]
  /\ events \in 0..MaxEvents
  /\ outranked \in BOOLEAN /\ contested \in SUBSET Wallet

Registered(w) == identity[w] # Unregistered
Active(w) == identity[w].state = "active"
Rank(w) == Level[identity[w].role]

(* ROLE_MAP, desired_roles *)
Desired(id) ==
  IF id.state # "active" THEN {}
  ELSE CASE id.role \in {"ADMIN", "MANAGER"} -> WriterRole
         [] id.role = "AUDITOR" -> {AuditorRole}
         [] id.role = "USER" -> {}

(* The Admins have their roles; a wallet that was never registered may     *)
(* hold roles from an earlier registry, or have held them.                 *)
Init ==
  /\ \E admins \in SUBSET Wallet, old \in {{}, WriterRole} :
       \E past \in SUBSET (Wallet \ admins) :
         /\ Admin \subseteq admins
         /\ identity = [w \in Wallet |-> IF w \in admins
              THEN [role |-> "ADMIN", state |-> "active"] ELSE Unregistered]
         /\ holders = admins \union past
         /\ roles = [w \in Wallet |-> IF w \in admins THEN WriterRole
                                      ELSE IF w \in past THEN old ELSE {}]
  /\ pool = <<>>
  /\ job = [h \in Requester |-> NoRequest]
  /\ sync = [p \in Process |-> NoSync]
  /\ pass = [r \in Reconciler |-> NoPass]
  /\ events = 0
  /\ outranked = FALSE /\ contested = {}

-----------------------------------------------------------------------------
(* RoleSync.sync *)

Syncing(p) == sync[p] # NoSync

(* A synchronisation asked for, for an identity as it was read. *)
Asked(w, id) ==
  [of |-> w, want |-> Desired(id), read |-> FALSE, revoke |-> {}, grant |-> {}]

(* current_roles, and what differs *)
Compared(s) ==
  LET have == roles[s.of]
  IN [s EXCEPT !.read = TRUE, !.revoke = have \ s.want, !.grant = s.want \ have]

(* Somebody else is at work on the wallet of p: a synchronisation that has *)
(* read its roles, or a transaction that nobody waits for any more.        *)
Contest(p, w) ==
  \/ \E q \in Process \ {p} : Syncing(q) /\ sync[q].read /\ sync[q].of = w
  \/ \E i \in DOMAIN pool : pool[i].of = w

Reads(p, s) ==
  /\ sync' = [sync EXCEPT ![p] = Compared(s)]
  /\ contested' = IF Contest(p, s.of) THEN contested \union {s.of} ELSE contested

ReadRoles(p) ==
  /\ Syncing(p) /\ ~sync[p].read
  /\ Reads(p, sync[p])
  /\ UNCHANGED <<identity, chain, job, pass, events, outranked>>

(* A mistake: a promotion is sent before the demotion. *)
GrantFirst(s) ==
  IF s.grant # {} THEN CHOOSE r \in s.grant : TRUE ELSE CHOOSE r \in s.revoke : TRUE

(* "Revoke first so a demotion never leaves a window with extra power."    *)
NextRole(s) ==
  IF s.revoke # {} THEN CHOOSE r \in s.revoke : TRUE ELSE CHOOSE r \in s.grant : TRUE

Unsent(s) == s.revoke \union s.grant

(* _send: one transaction at a time; p waits for its receipt.              *)
Waiting(p) == \E i \in DOMAIN pool : pool[i].by = p

Send(p) ==
  LET s == sync[p]
  IN /\ Syncing(p) /\ s.read /\ Unsent(s) # {} /\ ~Waiting(p)
     /\ pool' = Append(pool, [of |-> s.of, role |-> NextRole(s),
                             grant |-> NextRole(s) \notin s.revoke, by |-> p])
     /\ UNCHANGED <<identity, roles, holders, job, sync, pass, events, outranked,
                    contested>>

(* All transactions are the operator's: the oldest nonce is mined first.   *)
Mined(t) ==
  roles' = [roles EXCEPT ![t.of] = IF t.grant THEN @ \union {t.role} ELSE @ \ {t.role}]

(* The receipt is there, if somebody still waits for it.                   *)
Received(t) ==
  sync' = IF t.by = None THEN sync
          ELSE [sync EXCEPT ![t.by].revoke = @ \ {t.role}, ![t.by].grant = @ \ {t.role}]

Mine ==
  /\ pool # <<>>
  /\ Mined(Head(pool))
  /\ holders' = IF Head(pool).grant THEN holders \union {Head(pool).of} ELSE holders
  /\ Received(Head(pool))
  /\ pool' = Tail(pool)
  /\ UNCHANGED <<identity, job, pass, events, outranked, contested>>

(* Nobody waits any more for the transactions of the processes in gone.    *)
Abandoned(gone) ==
  [i \in DOMAIN pool |-> IF pool[i].by \in gone THEN [pool[i] EXCEPT !.by = None] ELSE pool[i]]

(* Back in reconcile_all: a failure in the sweep ends the pass, and so does *)
(* its last wallet.                                                        *)
PassAfter(p, ok) ==
  pass' = IF p \in Reconciler /\ pass[p].stage = "orphans" /\ (ok => pass[p].left = {})
          THEN [pass EXCEPT ![p] = NoPass] ELSE pass

(* The roles are read again; they may have changed meanwhile. *)
Verify(p) ==
  LET s == sync[p]
      ok == roles[s.of] = s.want
  IN /\ Syncing(p) /\ s.read /\ Unsent(s) = {}
     /\ sync' = [sync EXCEPT ![p] = NoSync]
     /\ PassAfter(p, ok)
     /\ contested' = IF ok /\ ~Contest(p, s.of) THEN contested \ {s.of} ELSE contested
     /\ UNCHANGED <<identity, chain, job, events, outranked>>

(* A call fails, or the receipt of a transaction does not come within 60 s *)
(* and the transaction stays in the pool.                                  *)
SyncFails(p) ==
  /\ Syncing(p)
  /\ events < MaxEvents
  /\ events' = events + 1
  /\ sync' = [sync EXCEPT ![p] = NoSync]
  /\ pool' = Abandoned({p})
  /\ PassAfter(p, FALSE)
  /\ UNCHANGED <<identity, roles, holders, job, outranked, contested>>

Sync(p) == ReadRoles(p) \/ Send(p) \/ Verify(p)

-----------------------------------------------------------------------------
(* Requests: authorised on rows as they are read, written later. *)

Free(h) == job[h] = NoRequest /\ ~Syncing(h)

(* access.can_see_user *)
Sees(by, of) ==
  \/ identity[by].role \in {"ADMIN", "AUDITOR"}
  \/ by = of
  \/ identity[by].role = "MANAGER" /\ of \in Covered

Outranks(by, of) == Rank(of) < Rank(by) \/ identity[by].role = "ADMIN"

(* What each operation asks of its actor and of the identity it is about.  *)
MayProvision(by, of, new) ==
  /\ identity[by].role \in {"ADMIN", "MANAGER"}
  /\ Level[new] < Rank(by)
  /\ ~Registered(of)

MayChangeRole(by, of, new) ==
  /\ identity[by].role \in {"ADMIN", "MANAGER"}
  /\ Level[new] < Rank(by)
  /\ Registered(of) /\ Sees(by, of)
  /\ Outranks(by, of)
  /\ of # by

(* A mistake: equals may revoke each other, whoever they are. *)
MayRevokeAnybody(by, of) ==
  /\ identity[by].role \in {"ADMIN", "MANAGER"}
  /\ Registered(of) /\ Sees(by, of)
  /\ Active(of)

(* delete_user and revoke_identity; revoke_from_alert asks for an Admin.   *)
MayRevoke(by, of) ==
  /\ identity[by].role \in {"ADMIN", "MANAGER"}
  /\ Registered(of) /\ Sees(by, of)
  /\ of # by
  /\ Outranks(by, of)
  /\ Active(of)

Allowed(j) ==
  /\ Active(j.by)
  /\ CASE j.op = "provision" -> MayProvision(j.by, j.of, j.new)
       [] j.op = "role"      -> MayChangeRole(j.by, j.of, j.new)
       [] j.op = "revoke"    -> MayRevoke(j.by, j.of)

(* Authentication, the rows and the checks; then Factor 3 is awaited. *)
Authorise(h, op, by, of, new) ==
  LET j == [op |-> op, by |-> by, of |-> of, new |-> new,
            saw |-> identity[of].role, written |-> FALSE]
  IN /\ Free(h)
     /\ events < MaxEvents
     /\ events' = events + 1
     /\ Allowed(j)
     /\ job' = [job EXCEPT ![h] = j]
     /\ UNCHANGED <<identity, chain, sync, pass, outranked, contested>>

Begin(h) ==
  \E by, of \in Wallet :
    \/ \E new \in Given, op \in {"provision", "role"} : Authorise(h, op, by, of, new)
    \/ Authorise(h, "revoke", by, of, "USER")

Writing(h, op) == job[h] # NoRequest /\ job[h].op = op /\ ~job[h].written

(* The commit; the identity is then refreshed for the synchronisation.     *)
Written(h, id) ==
  /\ identity' = [identity EXCEPT ![job[h].of] = id]
  /\ job' = [job EXCEPT ![h].written = TRUE]
  /\ outranked' = (outranked \/ ~Allowed(job[h]))
  /\ UNCHANGED <<chain, sync, pass, events, contested>>

(* create_or_register_user; users.wallet_address is unique. *)
Provision(h) ==
  /\ Writing(h, "provision") /\ ~Registered(job[h].of)
  /\ Written(h, [role |-> job[h].new, state |-> "active"])

ProvisionRefused(h) ==
  /\ Writing(h, "provision") /\ Registered(job[h].of)
  /\ job' = [job EXCEPT ![h] = NoRequest]
  /\ UNCHANGED <<identity, chain, sync, pass, events, outranked, contested>>

(* update_user_role: a role set to what it was read as is not in the UPDATE. *)
ChangeRole(h) ==
  LET id == identity[job[h].of]
  IN /\ Writing(h, "role")
     /\ Written(h, IF job[h].new = job[h].saw THEN id ELSE [id EXCEPT !.role = job[h].new])

(* delete_user, revoke_from_alert *)
Revoke(h) ==
  /\ Writing(h, "revoke")
  /\ Written(h, [identity[job[h].of] EXCEPT !.state = "revoked"])

(* sync_user_chain_roles, with the identity as it is after db.refresh. *)
AskSync(h) ==
  /\ job[h] # NoRequest /\ job[h].written
  /\ sync' = [sync EXCEPT ![h] = Asked(job[h].of, identity[job[h].of])]
  /\ job' = [job EXCEPT ![h] = NoRequest]
  /\ UNCHANGED <<identity, chain, pass, events, outranked, contested>>

Serve(h) ==
  \/ Provision(h) \/ ProvisionRefused(h) \/ ChangeRole(h)
  \/ Revoke(h) \/ AskSync(h)

-----------------------------------------------------------------------------
(* reconcile_all *)

Passing(r, stage) == pass[r].stage = stage /\ ~Syncing(r)
Known(r) == {w \in Wallet : pass[r].known[w] # Unregistered}

(* One select of all users. *)
StartPass(r) ==
  /\ Passing(r, "idle")
  /\ pass' = [pass EXCEPT ![r] = [known |-> identity, stage |-> "users",
       left |-> {w \in Wallet : Registered(w)}]]
  /\ UNCHANGED <<identity, chain, job, sync, events, outranked, contested>>

(* The synchronisation of the next wallet of a pass. *)
Chosen(r) == CHOOSE w \in pass[r].left : TRUE
SyncNext(r, id) ==
  /\ Reads(r, Asked(Chosen(r), id))
  /\ pass' = [pass EXCEPT ![r].left = @ \ {Chosen(r)}]
  /\ UNCHANGED <<identity, chain, job, events, outranked>>

(* Each identity as it was selected; a failure does not end the pass. *)
NextUser(r) ==
  /\ Passing(r, "users") /\ pass[r].left # {}
  /\ SyncNext(r, pass[r].known[Chosen(r)])

(* A mistake: the sweep spares whoever holds WriterRole. *)
AuditorsOnly(r) == {w \in holders \ Known(r) : roles[w] \intersect WriterRole = {}}

(* onchain_role_holders, whoever was ever granted a role, that are no      *)
(* identity's wallet.                                                      *)
Orphans(r) == holders \ Known(r)

StartSweep(r) ==
  /\ Passing(r, "users") /\ pass[r].left = {}
  /\ pass' = [pass EXCEPT ![r] = IF Orphans(r) = {} THEN NoPass
       ELSE [@ EXCEPT !.left = Orphans(r), !.stage = "orphans"]]
  /\ UNCHANGED <<identity, chain, job, sync, events, outranked, contested>>

NextOrphan(r) ==
  /\ Passing(r, "orphans") /\ pass[r].left # {}
  /\ SyncNext(r, Unregistered)

Reconcile(r) ==
  StartPass(r) \/ NextUser(r) \/ StartSweep(r) \/ NextOrphan(r)

-----------------------------------------------------------------------------
(* The server is lost between any two steps and started again. *)
Crash ==
  /\ events < MaxEvents
  /\ events' = events + 1
  /\ job' = [h \in Requester |-> NoRequest]
  /\ sync' = [p \in Process |-> NoSync]
  /\ pass' = [r \in Reconciler |-> NoPass]
  /\ pool' = Abandoned(Process)
  /\ UNCHANGED <<identity, roles, holders, outranked, contested>>

Next ==
  \/ \E h \in Requester : Begin(h) \/ Serve(h)
  \/ \E r \in Reconciler : Reconcile(r)
  \/ \E p \in Process : Sync(p) \/ SyncFails(p)
  \/ Mine
  \/ Crash

(* Requests that were taken up go on, the reconciler keeps running, and    *)
(* the node keeps mining.                                                  *)
Fairness ==
  /\ \A h \in Requester : WF_vars(Serve(h))
  /\ \A r \in Reconciler : WF_vars(Reconcile(r))
  /\ \A p \in Process : WF_vars(Sync(p))
  /\ WF_vars(Mine)

Spec == Init /\ [][Next]_vars /\ Fairness

-----------------------------------------------------------------------------
(* Properties. *)

Unmixed(held) == AuditorRole \in held => held \intersect WriterRole = {}

(* No wallet holds the roles of two kinds of people at once, in the middle *)
(* of any change, after failed calls, late transactions and crashes too;   *)
(* unless two synchronisations of the wallet overlapped, or one read its   *)
(* roles before a transaction of another was mined, and then only until    *)
(* one verifies the wallet alone.                                          *)
NoMixedPower == \A w \in Wallet \ contested : Unmixed(roles[w])

(* Somebody can still administer the registry: Admins who act on each      *)
(* other do not all lose their identity, unless a request wrote what it    *)
(* was no longer allowed to.                                               *)
AnAdminRemains ==
  ~outranked => \E w \in Wallet : identity[w] = [role |-> "ADMIN", state |-> "active"]

(* The chain agrees with the registry in the end, whatever overlapped,     *)
(* failed or crashed, once nobody changes the registry any more.           *)
Agree == \A w \in Wallet : roles[w] = Desired(identity[w])
RolesConverge == <>[]Agree
=============================================================================
