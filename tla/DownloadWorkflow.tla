-------------------------- MODULE DownloadWorkflow --------------------------
(***************************************************************************)
(* The controlled download of one digital document: a request, the owner's *)
(* consent, a Manager's or Administrator's decision, and the requester's   *)
(* fetch (src/backend/app/api/assets.py).                                  *)
(*                                                                         *)
(* Every HTTP handler that first reads the request's row and later writes  *)
(* it is two or more steps of a worker.  PostgreSQL runs at READ COMMITTED *)
(* and the handlers take no lock when they read, so other workers commit   *)
(* in between; only the fetch writes under a condition (its UPDATE ...     *)
(* WHERE status = 'APPROVED') and then holds the row lock to its commit.   *)
(*                                                                         *)
(* The document is approved and its owner, its department and the roles do *)
(* not change here; what the grants of a delegate (anyone who neither      *)
(* holds nor manages the document) carry is the variable perm, which       *)
(* AccessGrants models in full.                                            *)
(***************************************************************************)
EXTENDS DocumentAuthority, Naturals

CONSTANTS
  Request,            \* download requests (DL- identifiers)
  Worker,             \* concurrently running request handlers
  OwnerApproval,      \* settings.DOWNLOAD_REQUIRES_OWNER_APPROVAL
  NoRequest, NoWorker

Modes == {"STANDARD", "MODIFICATION"}

ASSUME FlagAssumption  == OwnerApproval \in BOOLEAN
ASSUME NoneAssumption  == NoRequest \notin Request /\ NoWorker \notin Worker

VARIABLES
  row,          \* the document_actions row of each request, as committed
  lock,         \* the worker whose open transaction has updated the row
  job,          \* what each worker is doing and what it read
  perm,         \* permissions each delegate's currently usable grants carry
  consented,    \* history: requests whose owner's consent was committed
  releases,     \* history: times the request was made fetchable
  copies        \* history: protected copies handed out

vars == <<row, lock, job, perm, consented, releases, copies>>
history == <<consented, releases, copies>>

-----------------------------------------------------------------------------
(* Types and derived state. *)

Statuses == {"NONE", "PENDING", "APPROVED", "COMPLETED", "REJECTED"}
Ops == {"idle", "approve", "reject", "consent", "refuse",
        "fetch", "claimed", "render"}

Rows == [status     : Statuses,
         actor      : User \union {NoUser},
         approver   : User \union {NoUser},
         mode       : Modes,
         needsOwner : BOOLEAN,     \* details.requires_owner_approval
         ownerOK    : BOOLEAN,     \* details.owner_approved_by is set
         direct     : BOOLEAN,     \* details.owner_direct
         expired    : BOOLEAN]     \* token_expires_at has passed

Jobs == [op : Ops, user : User \union {NoUser},
         req : Request \union {NoRequest},
         sawConsent : BOOLEAN]

NoRow == [status |-> "NONE", actor |-> NoUser, approver |-> NoUser,
          mode |-> "STANDARD", needsOwner |-> FALSE, ownerOK |-> FALSE,
          direct |-> FALSE, expired |-> FALSE]
Idle == [op |-> "idle", user |-> NoUser, req |-> NoRequest,
         sawConsent |-> FALSE]

Permissions == SUBSET {"view", "download"}

TypeOK ==
  /\ row \in [Request -> Rows]
  /\ lock \in [Request -> Worker \union {NoWorker}]
  /\ job \in [Worker -> Jobs]
  /\ perm \in [Delegate -> Permissions]
  /\ consented \in SUBSET Request
  /\ releases \in [Request -> Nat]
  /\ copies \in [Request -> Nat]

Busy(w) == job[w].op # "idle"
Serving(w, op, r) == job[w].op = op /\ job[w].req = r
Fetching(w, r) == Serving(w, "claimed", r) \/ Serving(w, "render", r)
Unlocked(r) == lock[r] = NoWorker

Init ==
  /\ row = [r \in Request |-> NoRow]
  /\ lock = [r \in Request |-> NoWorker]
  /\ job = [w \in Worker |-> Idle]
  /\ perm \in [Delegate -> Permissions]
  /\ consented = {}
  /\ releases = [r \in Request |-> 0]
  /\ copies = [r \in Request |-> 0]

-----------------------------------------------------------------------------
(* Creating a request: it inserts a row nobody else can see before the     *)
(* commit, so reading and inserting is one step.                           *)

MayRequest(u, m) ==
  u \in Delegate => (IF m = "STANDARD" THEN "download" ELSE "view") \in perm[u]

(* A mistake: automatic approval for whoever needs no consent, privileged  *)
(* or not.                                                                 *)
RequestApprovedUnprivileged(u, r, m) ==
  /\ row[r].status = "NONE"
  /\ Role[u] # "AUDITOR"
  /\ MayRequest(u, m)
  /\ ~(m = "STANDARD" /\ u = Owner)
  /\ LET needs == OwnerApproval /\ u # Owner
     IN /\ row' = [row EXCEPT ![r] =
                     [NoRow EXCEPT !.status = IF needs THEN "PENDING" ELSE "APPROVED",
                                   !.actor = u,
                                   !.approver = IF needs THEN NoUser ELSE u,
                                   !.mode = m,
                                   !.needsOwner = needs]]
        /\ releases' = [releases EXCEPT ![r] = IF needs THEN 0 ELSE 1]
  /\ UNCHANGED <<lock, job, perm, consented, copies>>

(* request_document_download.  A modification request is further refused   *)
(* while a revision is pending; the module DocumentLineage models that.          *)
RequestDownload(u, r, m) ==
  /\ row[r].status = "NONE"
  /\ Role[u] # "AUDITOR"
  /\ MayRequest(u, m)
  /\ ~(m = "STANDARD" /\ u = Owner)
  /\ LET needs == OwnerApproval /\ u # Owner
         auto  == ~needs /\ CanManage(u)
     IN /\ row' = [row EXCEPT ![r] =
                     [NoRow EXCEPT !.status = IF auto THEN "APPROVED" ELSE "PENDING",
                                   !.actor = u,
                                   !.approver = IF auto THEN u ELSE NoUser,
                                   !.mode = m,
                                   !.needsOwner = needs]]
        /\ releases' = [releases EXCEPT ![r] = IF auto THEN 1 ELSE 0]
  /\ UNCHANGED <<lock, job, perm, consented, copies>>

(* owner_download: the owner's own copy is created COMPLETED. *)
OwnerDownload(r, m) ==
  /\ row[r].status = "NONE"
  /\ m = "MODIFICATION" => CanManage(Owner)
  /\ row' = [row EXCEPT ![r] = [NoRow EXCEPT !.status = "COMPLETED",
                                             !.actor = Owner,
                                             !.mode = m,
                                             !.direct = TRUE]]
  /\ releases' = [releases EXCEPT ![r] = 1]
  /\ copies' = [copies EXCEPT ![r] = 1]
  /\ UNCHANGED <<lock, job, perm, consented>>

-----------------------------------------------------------------------------
(* Handlers that read the row, and later write it by primary key. *)

Start(w, op, u, r) ==
  /\ ~Busy(w)
  /\ job' = [job EXCEPT ![w] = [op |-> op, user |-> u, req |-> r,
                                sawConsent |-> row[r].ownerOK]]
  /\ UNCHANGED <<row, lock, perm, history>>

Finish(w) == job' = [job EXCEPT ![w] = Idle]

(* A plain UPDATE waits for the lock of a fetch that claimed the row, then *)
(* applies whatever the status has become.                                 *)
WriteRow(w, op, r, new) ==
  /\ Serving(w, op, r)
  /\ Unlocked(r)
  /\ row' = [row EXCEPT ![r] = new]
  /\ Finish(w)
  /\ UNCHANGED <<lock, perm, copies>>

(* Mistakes: a decision that does not look at the owner's consent, and one *)
(* that does not look at the status.                                       *)
ReadForDecisionIgnoringConsent(w, u, r) ==
  /\ CanManage(u)
  /\ row[r].status = "PENDING"
  /\ ~(Role[u] = "MANAGER" /\ row[r].actor = u)
  /\ Start(w, "approve", u, r) \/ Start(w, "reject", u, r)

(* approve_document up to the decision: every check is made on the row as  *)
(* it was read.                                                            *)
ReadForDecision(w, u, r) ==
  /\ CanManage(u)
  /\ row[r].status = "PENDING"
  /\ ~(Role[u] = "MANAGER" /\ row[r].actor = u)
  /\ \/ /\ row[r].needsOwner => row[r].ownerOK
        /\ Start(w, "approve", u, r)
     \/ Start(w, "reject", u, r)

(* _apply_approval for a DOWNLOAD: status, approver and a new expiry. *)
Approved(r, u) == [row[r] EXCEPT !.status = "APPROVED",
                                 !.approver = u,
                                 !.expired = FALSE]

Approve(w, r) ==
  /\ WriteRow(w, "approve", r, Approved(r, job[w].user))
  /\ releases' = [releases EXCEPT ![r] = @ + 1]
  /\ UNCHANGED consented

(* The rejecting branch of approve_document also writes back the details   *)
(* it read, with its reason added.                                         *)
Reject(w, r) ==
  /\ WriteRow(w, "reject", r, [row[r] EXCEPT !.status = "REJECTED",
                                             !.approver = job[w].user,
                                             !.ownerOK = job[w].sawConsent])
  /\ UNCHANGED <<consented, releases>>

(* owner_decision_on_download, read by the owner. *)
ReadForConsent(w, r) ==
  /\ row[r].status = "PENDING"
  /\ row[r].needsOwner
  /\ ~row[r].ownerOK
  /\ Start(w, "consent", Owner, r) \/ Start(w, "refuse", Owner, r)

(* Consent approves at once when the requester or the owner is privileged; *)
(* otherwise only the details change and the status is left as it is.      *)
Consent(w, r) ==
  LET approves == CanManage(row[r].actor) \/ CanManage(Owner)
      base     == IF approves THEN Approved(r, Owner) ELSE row[r]
  IN /\ WriteRow(w, "consent", r, [base EXCEPT !.ownerOK = TRUE])
     /\ consented' = consented \union {r}
     /\ releases' = IF approves THEN [releases EXCEPT ![r] = @ + 1] ELSE releases

Refuse(w, r) ==
  /\ WriteRow(w, "refuse", r, [row[r] EXCEPT !.status = "REJECTED",
                                             !.ownerOK = job[w].sawConsent])
  /\ UNCHANGED <<consented, releases>>

-----------------------------------------------------------------------------
(* fetch_approved_download *)

ReadForFetch(w, u, r) ==
  /\ row[r].actor = u
  /\ row[r].status = "APPROVED"
  /\ ~row[r].expired
  /\ Start(w, "fetch", u, r)

(* The conditional UPDATE: it waits for the row lock and then re-evaluates *)
(* its WHERE clause; no row matched means "already been used" (409).       *)
Claim(w, r) ==
  /\ Serving(w, "fetch", r)
  /\ Unlocked(r)
  /\ IF row[r].status = "APPROVED"
     THEN /\ lock' = [lock EXCEPT ![r] = w]
          /\ job' = [job EXCEPT ![w].op = "claimed"]
     ELSE /\ Finish(w)
          /\ UNCHANGED lock
  /\ UNCHANGED <<row, perm, history>>

MayFetch(u) == u \in Delegate => "download" \in perm[u]

(* Mistakes: the claim is committed although the permission is gone, and   *)
(* the transaction is left open, so that its row lock is never released.   *)
CheckPermissionAfterCommit(w, r) ==
  /\ Serving(w, "claimed", r)
  /\ IF MayFetch(job[w].user)
     THEN /\ job' = [job EXCEPT ![w].op = "render"]
          /\ UNCHANGED <<row, lock>>
     ELSE /\ Finish(w)
          /\ lock' = [lock EXCEPT ![r] = NoWorker]
          /\ row' = [row EXCEPT ![r].status = "COMPLETED"]
  /\ UNCHANGED <<perm, history>>

CheckPermissionWithoutRollback(w, r) ==
  /\ Serving(w, "claimed", r)
  /\ IF MayFetch(job[w].user)
     THEN job' = [job EXCEPT ![w].op = "render"]
     ELSE Finish(w)
  /\ UNCHANGED <<row, lock, perm, history>>

(* The permission is checked again inside the claiming transaction; when   *)
(* it is gone the handler raises and the claim is rolled back.             *)
CheckPermission(w, r) ==
  /\ Serving(w, "claimed", r)
  /\ IF MayFetch(job[w].user)
     THEN /\ job' = [job EXCEPT ![w].op = "render"]
          /\ UNCHANGED lock
     ELSE /\ Finish(w)
          /\ lock' = [lock EXCEPT ![r] = NoWorker]
  /\ UNCHANGED <<row, perm, history>>

(* A mistake: a copy is sent while the row is left APPROVED.               *)
DeliverLeavingApproved(w, r) ==
  /\ Serving(w, "render", r)
  /\ row' = [row EXCEPT ![r].ownerOK = job[w].sawConsent]
  /\ lock' = [lock EXCEPT ![r] = NoWorker]
  /\ copies' = [copies EXCEPT ![r] = @ + 1]
  /\ Finish(w)
  /\ UNCHANGED <<perm, consented, releases>>

(* The watermarked copy exists: commit, release the lock, send the copy.   *)
(* The details written are those read, with the copy's manifest added.     *)
Deliver(w, r) ==
  /\ Serving(w, "render", r)
  /\ row' = [row EXCEPT ![r].status = "COMPLETED",
                        ![r].ownerOK = job[w].sawConsent]
  /\ lock' = [lock EXCEPT ![r] = NoWorker]
  /\ copies' = [copies EXCEPT ![r] = @ + 1]
  /\ Finish(w)
  /\ UNCHANGED <<perm, consented, releases>>

-----------------------------------------------------------------------------
(* Any handler may end without committing: a wrong factor, a file that     *)
(* cannot be rendered, a lost connection, a restart of the server.  Its    *)
(* transaction is rolled back and its row lock released.                   *)
Abort(w) ==
  /\ Busy(w)
  /\ Finish(w)
  /\ lock' = [r \in Request |-> IF lock[r] = w THEN NoWorker ELSE lock[r]]
  /\ UNCHANGED <<row, perm, history>>

(* DOWNLOAD_APPROVAL_TTL_HOURS after the approval. *)
Expire(r) ==
  /\ row[r].status = "APPROVED"
  /\ ~row[r].expired
  /\ row' = [row EXCEPT ![r].expired = TRUE]
  /\ UNCHANGED <<lock, job, perm, history>>

(* Grants are given, revoked, used up and expire (module AccessGrants). *)
GrantsChange(u) ==
  /\ \E p \in Permissions : perm' = [perm EXCEPT ![u] = p]
  /\ UNCHANGED <<row, lock, job, history>>

HandlerStep(w) ==
  \E r \in Request :
    \/ Approve(w, r) \/ Reject(w, r)
    \/ Consent(w, r) \/ Refuse(w, r)
    \/ Claim(w, r) \/ CheckPermission(w, r) \/ Deliver(w, r)

Next ==
  \/ \E u \in User, r \in Request, m \in Modes : RequestDownload(u, r, m)
  \/ \E r \in Request, m \in Modes : OwnerDownload(r, m)
  \/ \E w \in Worker, u \in User, r \in Request :
       ReadForDecision(w, u, r) \/ ReadForFetch(w, u, r)
  \/ \E w \in Worker, r \in Request : ReadForConsent(w, r)
  \/ \E w \in Worker : HandlerStep(w)
  \/ \E w \in Worker : Abort(w)
  \/ \E r \in Request : Expire(r)
  \/ \E u \in Delegate : GrantsChange(u)

Spec == Init /\ [][Next]_vars

(* A handler that has started finishes; PostgreSQL grants a row lock in    *)
(* the order of arrival, so a waiting statement is not passed over for     *)
(* ever.                                                                   *)
FairSpec == Spec /\ \A w \in Worker : SF_vars(HandlerStep(w))

-----------------------------------------------------------------------------
(* Properties *)

(* Each copy is paid for by an approval: however decisions and fetches     *)
(* interleave, a request is fetched no more often than it was made         *)
(* fetchable (the claim in fetch_approved_download is atomic).             *)
Unspent(r) == IF row[r].status = "APPROVED" THEN 1 ELSE 0
OneCopyPerRelease == \A r \in Request : copies[r] + Unspent(r) <= releases[r]

(* No copy of a document that needs its owner's consent leaves before the  *)
(* owner's consent was committed, although the approver's check of it and  *)
(* the approval are separate steps and later writers put back the details  *)
(* they read.                                                              *)
NoCopyWithoutConsent ==
  \A r \in Request : copies[r] > 0 /\ row[r].needsOwner => r \in consented

(* A claim is exclusive and nothing changes a claimed row under it: the    *)
(* row still reads APPROVED for as long as a fetch holds it, and exactly   *)
(* that fetch is working on it.                                            *)
ClaimHolds ==
  \A r \in Request :
    /\ lock[r] # NoWorker => row[r].status = "APPROVED" /\ Fetching(lock[r], r)
    /\ \A w \in Worker : Fetching(w, r) => lock[r] = w

(* "Any failure below rolls the claim back, so the approval stays usable": *)
(* a claim is given up either with a copy delivered or with the row        *)
(* exactly as it was.                                                      *)
FailedFetchKeepsApproval ==
  [][\A r \in Request :
       lock[r] # NoWorker /\ lock'[r] = NoWorker
         => \/ copies'[r] = copies[r] + 1 /\ row'[r].status = "COMPLETED"
            \/ copies'[r] = copies[r] /\ row'[r] = row[r]]_vars

(* A requester without any authority over the document never ends up as    *)
(* the one who approved the copy that was taken, on any of the three paths *)
(* that approve (a decision, an owner's consent, automatic approval).      *)
IndependentApproval ==
  \A r \in Request :
    row[r].status \in {"APPROVED", "COMPLETED"} /\ ~row[r].direct
      => /\ row[r].approver \in User
         /\ CanManage(row[r].approver) \/ row[r].approver = Owner
         /\ row[r].approver = row[r].actor => CanManage(row[r].actor)

(* Under any interleaving the workflow implements the metered promise of   *)
(* CopyRelease.                                                            *)
Open == {r \in Request : row[r].status = "APPROVED"}
Promise == INSTANCE CopyRelease WITH open <- Open
MeteredPromise == Promise!Spec

(* Every handler that started is answered: no set of handlers waits for    *)
(* the row locks of one another for ever.                                  *)
EveryHandlerEnds == \A w \in Worker : []<>~Busy(w)
=============================================================================
