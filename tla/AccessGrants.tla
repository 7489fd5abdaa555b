---------------------------- MODULE AccessGrants ----------------------------
(***************************************************************************)
(* Delegated access to a document: access requests (SHARE actions), the    *)
(* grants a decision issues, metered views through a grant, revocation and *)
(* expiry (src/backend/app/api/assets.py, services/grants.py).             *)
(*                                                                         *)
(* As in DownloadWorkflow a handler that reads and later writes is two or  *)
(* more steps of a worker.  The count of a view is a conditional UPDATE    *)
(* that holds the row lock of the grant until the copy exists and the      *)
(* transaction commits; what it has counted is not visible before that.    *)
(* Views by holders and managers use no grant and are not metered.         *)
(***************************************************************************)
EXTENDS DocumentAuthority, Naturals, FiniteSets

CONSTANTS
  Version,       \* the approved versions of the document
  Share,         \* SHARE actions (ACR- identifiers)
  Grant,         \* asset_access_grants row identifiers
  Worker,        \* concurrently running request handlers
  Limits,        \* values of max_views an approver may choose
  NoLimit, NoShare, NoGrant, NoWorker

ASSUME LimitAssumption == Limits \subseteq Nat \union {NoLimit} /\ NoLimit \notin Nat
ASSUME FiniteAssumption == IsFiniteSet(Grant)
ASSUME NoneAssumption  == /\ NoShare \notin Share
                          /\ NoGrant \notin Grant
                          /\ NoWorker \notin Worker

VARIABLES
  share,         \* the document_actions row of each access request
  grant,         \* the asset_access_grants rows, as committed
  lock,          \* the worker whose open transaction has updated the row
  job,           \* what each worker is doing and what it read
  shown          \* history: protected copies shown through each grant

vars == <<share, grant, lock, job, shown>>

-----------------------------------------------------------------------------
(* Types and derived state. *)

Ops == {"idle", "approve", "reject", "view", "count", "render", "revoke"}

Shares == [status   : {"NONE", "PENDING", "APPROVED", "REJECTED"},
           actor    : User \union {NoUser},
           target   : User \union {NoUser},
           versions : SUBSET Version]

Grants == [issued   : BOOLEAN,
           by       : Share \union {NoShare},   \* request_action_id
           grantee  : User \union {NoUser},
           version  : SUBSET Version,           \* {v}, or {} before it is issued
           download : BOOLEAN,                  \* can_download; can_view is true
           max      : Nat \union {NoLimit},
           views    : Nat,                      \* views_count
           expiry   : {"never", "later", "past"},
           revoked  : BOOLEAN,
           age      : Nat]                      \* order of created_at

Jobs == [op : Ops, user : User \union {NoUser}, share : Share \union {NoShare},
         grant : Grant \union {NoGrant}, counted : Nat]

NoShareRow == [status |-> "NONE", actor |-> NoUser, target |-> NoUser, versions |-> {}]
NoGrantRow == [issued |-> FALSE, by |-> NoShare, grantee |-> NoUser, version |-> {},
               download |-> FALSE, max |-> NoLimit, views |-> 0, expiry |-> "never",
               revoked |-> FALSE, age |-> 0]
Idle == [op |-> "idle", user |-> NoUser, share |-> NoShare, grant |-> NoGrant,
         counted |-> 0]

TypeOK ==
  /\ share \in [Share -> Shares]
  /\ grant \in [Grant -> Grants]
  /\ lock \in [Grant -> Worker \union {NoWorker}]
  /\ job \in [Worker -> Jobs]
  /\ shown \in [Grant -> Nat]

Init ==
  /\ share = [s \in Share |-> NoShareRow]
  /\ grant = [g \in Grant |-> NoGrantRow]
  /\ lock = [g \in Grant |-> NoWorker]
  /\ job = [w \in Worker |-> Idle]
  /\ shown = [g \in Grant |-> 0]

Issued == {g \in Grant : grant[g].issued}

(* valid_grant_clause *)
Valid(g) == g \in Issued /\ ~grant[g].revoked /\ grant[g].expiry # "past"
ViewsLeft(g) == grant[g].max # NoLimit => grant[g].views < grant[g].max

(* What usable_grant finds for the 'view' permission, newest first. *)
Viewable(u, v) == {g \in Grant : /\ Valid(g)
                                 /\ grant[g].grantee = u
                                 /\ v \in grant[g].version
                                 /\ ViewsLeft(g)}
Newest(G) == {g \in G : \A h \in G : grant[h].age <= grant[g].age}

Serving(w, op) == job[w].op = op
Start(w, new) == Serving(w, "idle") /\ job' = [job EXCEPT ![w] = new]
Finish(w) == job' = [job EXCEPT ![w] = Idle]

-----------------------------------------------------------------------------
(* Requests for access and the grants a decision issues. *)

(* _grant_share: one new row per requested version, all with the approver's *)
(* limits.                                                                  *)
IssueGrants(s, target, versions, max, download, expiry) ==
  \E f \in [versions -> Grant \ Issued] :
    /\ \A v1, v2 \in versions : f[v1] = f[v2] => v1 = v2
    /\ grant' = [g \in Grant |->
         IF \E v \in versions : f[v] = g
         THEN [NoGrantRow EXCEPT !.issued = TRUE, !.by = s, !.grantee = target,
                                 !.version = {v \in versions : f[v] = g},
                                 !.download = download, !.max = max,
                                 !.expiry = expiry, !.age = Cardinality(Issued) + 1]
         ELSE grant[g]]

Lifetimes == {"never", "later"}

(* propose_document_share: a holder's request waits for a decision, a       *)
(* Manager's or Administrator's is granted in the same transaction.         *)
ProposeShare(u, s, target, versions, max, download, expiry) ==
  /\ share[s].status = "NONE"
  /\ IsHolder(u) \/ CanManage(u)
  /\ target \notin {u, Owner}
  /\ versions # {}
  /\ share' = [share EXCEPT ![s] =
                 [status |-> IF CanManage(u) THEN "APPROVED" ELSE "PENDING",
                  actor |-> u, target |-> target, versions |-> versions]]
  /\ IF CanManage(u)
     THEN IssueGrants(s, target, versions, max, download, expiry)
     ELSE UNCHANGED grant
  /\ UNCHANGED <<lock, job, shown>>

(* approve_document up to the decision, on the row as it was read. *)
ReadForDecision(w, u, s) ==
  /\ CanManage(u)
  /\ share[s].status = "PENDING"
  /\ ~(Role[u] = "MANAGER" /\ share[s].actor = u)
  /\ \E op \in {"approve", "reject"} :
       Start(w, [Idle EXCEPT !.op = op, !.user = u, !.share = s])
  /\ UNCHANGED <<share, grant, lock, shown>>

(* _apply_approval of a SHARE: it does not look at the status again. *)
Approve(w, max, download, expiry) ==
  /\ Serving(w, "approve")
  /\ LET s == job[w].share
     IN /\ share' = [share EXCEPT ![s].status = "APPROVED"]
        /\ IssueGrants(s, share[s].target, share[s].versions, max, download, expiry)
  /\ Finish(w)
  /\ UNCHANGED <<lock, shown>>

Reject(w) ==
  /\ Serving(w, "reject")
  /\ share' = [share EXCEPT ![job[w].share].status = "REJECTED"]
  /\ Finish(w)
  /\ UNCHANGED <<grant, lock, shown>>

-----------------------------------------------------------------------------
(* Metered views: view_digital_document and consume_view. *)

ReadForView(w, u, v) ==
  /\ \E g \in Newest(Viewable(u, v)) :
       Start(w, [Idle EXCEPT !.op = "view", !.user = u, !.grant = g])
  /\ UNCHANGED <<share, grant, lock, shown>>

(* The counting statement is issued; the time it compares the expiry with   *)
(* is fixed now, even if it then waits for the row lock.                    *)
IssueCount(w) ==
  /\ Serving(w, "view")
  /\ IF grant[job[w].grant].expiry = "past"
     THEN Finish(w)
     ELSE job' = [job EXCEPT ![w].op = "count"]
  /\ UNCHANGED <<share, grant, lock, shown>>

(* A mistake: a count that reads without the lock.                          *)
CountWithoutLock(w) ==
  LET g == job[w].grant
  IN /\ Serving(w, "count")
     /\ IF ~grant[g].revoked /\ ViewsLeft(g)
        THEN job' = [job EXCEPT ![w].op = "render",
                                ![w].counted = grant[g].views + 1]
        ELSE Finish(w)
     /\ UNCHANGED <<share, grant, lock, shown>>

(* It gets the row lock and evaluates its WHERE clause on the row as it is  *)
(* now; no row updated means the race was lost.                             *)
Count(w) ==
  LET g == job[w].grant
  IN /\ Serving(w, "count")
     /\ lock[g] = NoWorker
     /\ IF ~grant[g].revoked /\ ViewsLeft(g)
        THEN /\ lock' = [lock EXCEPT ![g] = w]
             /\ job' = [job EXCEPT ![w].op = "render",
                                   ![w].counted = grant[g].views + 1]
        ELSE /\ Finish(w)
             /\ UNCHANGED lock
     /\ UNCHANGED <<share, grant, shown>>

(* The watermarked copy exists: commit the count and show the copy. *)
Show(w) ==
  LET g == job[w].grant
  IN /\ Serving(w, "render")
     /\ grant' = [grant EXCEPT ![g].views = job[w].counted]
     /\ lock' = [lock EXCEPT ![g] = NoWorker]
     /\ shown' = [shown EXCEPT ![g] = @ + 1]
     /\ Finish(w)
     /\ UNCHANGED share

-----------------------------------------------------------------------------
(* revoke_access_grant: reads the grant, then updates it by primary key.    *)

ReadForRevoke(w, u, g) ==
  /\ g \in Issued
  /\ ~grant[g].revoked
  /\ u = Owner \/ CanManage(u)
  /\ Start(w, [Idle EXCEPT !.op = "revoke", !.user = u, !.grant = g])
  /\ UNCHANGED <<share, grant, lock, shown>>

Revoke(w) ==
  LET g == job[w].grant
  IN /\ Serving(w, "revoke")
     /\ lock[g] = NoWorker
     /\ grant' = [grant EXCEPT ![g].revoked = TRUE]
     /\ Finish(w)
     /\ UNCHANGED <<share, lock, shown>>

(* expires_at passes. *)
Expire(g) ==
  /\ grant[g].expiry = "later"
  /\ grant' = [grant EXCEPT ![g].expiry = "past"]
  /\ UNCHANGED <<share, lock, job, shown>>

(* A mistake: the count is committed before the copy exists.                *)
AbortAfterCommit(w) ==
  LET g == job[w].grant
  IN /\ ~Serving(w, "idle")
     /\ Finish(w)
     /\ lock' = [h \in Grant |-> IF lock[h] = w THEN NoWorker ELSE lock[h]]
     /\ grant' = IF Serving(w, "render")
                 THEN [grant EXCEPT ![g].views = job[w].counted] ELSE grant
     /\ UNCHANGED <<share, shown>>

(* A handler ends without committing: the copy cannot be rendered, the      *)
(* connection or the server is lost.  Nothing it counted remains.           *)
Abort(w) ==
  /\ ~Serving(w, "idle")
  /\ Finish(w)
  /\ lock' = [g \in Grant |-> IF lock[g] = w THEN NoWorker ELSE lock[g]]
  /\ UNCHANGED <<share, grant, shown>>

HandlerStep(w) ==
  \/ \E max \in Limits, download \in BOOLEAN, expiry \in Lifetimes :
       Approve(w, max, download, expiry)
  \/ Reject(w)
  \/ IssueCount(w) \/ Count(w) \/ Show(w)
  \/ Revoke(w)

Next ==
  \/ \E u \in User, s \in Share, target \in User, versions \in SUBSET Version,
        max \in Limits, download \in BOOLEAN, expiry \in Lifetimes :
       ProposeShare(u, s, target, versions, max, download, expiry)
  \/ \E w \in Worker, u \in User, s \in Share : ReadForDecision(w, u, s)
  \/ \E w \in Worker, u \in User, v \in Version : ReadForView(w, u, v)
  \/ \E w \in Worker, u \in User, g \in Grant : ReadForRevoke(w, u, g)
  \/ \E w \in Worker : HandlerStep(w) \/ Abort(w)
  \/ \E g \in Grant : Expire(g)

Spec == Init /\ [][Next]_vars

-----------------------------------------------------------------------------
(* Properties *)

(* "The limit can never be exceeded" (consume_view): however many viewers    *)
(* pass the first check together, the copies shown through a grant stay      *)
(* within its max_views.                                                     *)
ViewsWithinLimit ==
  \A g \in Grant : grant[g].max # NoLimit => shown[g] <= grant[g].max

(* "A failed render never consumes a view", and no concurrent count is lost: *)
(* the committed counter says exactly how many copies were shown.            *)
CounterIsTrue == \A g \in Grant : grant[g].views = shown[g]

(* Once a revocation has committed no copy is shown through the grant, not   *)
(* even by a viewer that had passed every check before it.                   *)
NoCopyAfterRevocation ==
  [][\A g \in Grant : grant[g].revoked => shown'[g] = shown[g]]_vars

(* Views implement the metered promise grant by grant. *)
Phase == [g \in Grant |-> IF ~grant[g].issued THEN "unissued"
                          ELSE IF grant[g].revoked THEN "withdrawn" ELSE "open"]
Promise == INSTANCE MeteredAccess
             WITH phase <- Phase, limit <- [g \in Grant |-> grant[g].max]
MeteredPromise == Promise!Spec
=============================================================================
