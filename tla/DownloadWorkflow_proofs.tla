----------------------- MODULE DownloadWorkflow_proofs ----------------------
(***************************************************************************)
(* Theorems about the controlled download, for every set of identities,    *)
(* roles, requests and concurrent handlers.                                *)
(*                                                                         *)
(* The argument: a committed row only ever tells the truth about the       *)
(* owner's consent (ConsentKnown), so whatever a handler read about it     *)
(* stays true until the handler writes (JobsSound); a claim keeps every    *)
(* other writer away from the row (ClaimHolds), so a delivery finds the    *)
(* row APPROVED and uses up exactly that approval.                         *)
(***************************************************************************)
EXTENDS DownloadWorkflow, TLAPS

(* An unused identifier has no history. *)
Fresh == \A r \in Request :
  row[r].status = "NONE" => releases[r] = 0 /\ copies[r] = 0

(* A row that says the owner consented is right. *)
ConsentKnown == \A r \in Request : row[r].ownerOK => r \in consented

(* A row that was ever fetchable has its owner's consent if it needs it,   *)
(* and nobody needs the consent of themselves.                             *)
ReleasedWithConsent == \A r \in Request :
  /\ row[r].status \in {"APPROVED", "COMPLETED"} /\ row[r].needsOwner
       => r \in consented
  /\ row[r].needsOwner => row[r].actor # Owner

(* What a handler read when it started still holds when it writes. *)
JobSound(w) ==
  /\ job[w].user \in User
  /\ job[w].req \in Request
  /\ row[job[w].req].status # "NONE"
  /\ job[w].sawConsent => job[w].req \in consented
  /\ job[w].op \in {"approve", "reject"} => CanManage(job[w].user)
  /\ job[w].op = "approve" /\ row[job[w].req].needsOwner => job[w].req \in consented
  /\ job[w].op = "consent" => row[job[w].req].needsOwner
JobsSound == \A w \in Worker : Busy(w) => JobSound(w)

IInv == /\ TypeOK
        /\ Fresh
        /\ ConsentKnown
        /\ ReleasedWithConsent
        /\ JobsSound
        /\ ClaimHolds
        /\ OneCopyPerRelease
        /\ NoCopyWithoutConsent
        /\ IndependentApproval

USE RoleAssumption, ScopeAssumption, OwnerAssumption, FlagAssumption, NoneAssumption, UserAssumption
USE DEF Rows, Jobs, Statuses, Ops, Modes, Permissions

(* No row, no job, no copy. *)
LEMMA InitInvariant == Init => IInv
BY DEF Init, IInv, TypeOK, Fresh, ConsentKnown, ReleasedWithConsent,
   JobsSound, Busy,
       ClaimHolds, Fetching, Serving, OneCopyPerRelease, Unspent,
       NoCopyWithoutConsent, IndependentApproval, NoRow, Idle

(* A request fills a blank row, approved only by who may approve. *)
LEMMA RequestDownloadKeeps ==
  ASSUME IInv, NEW u \in User, NEW r \in Request, NEW m \in Modes,
         RequestDownload(u, r, m)
  PROVE  IInv'
<1>1. TypeOK'
  BY DEF IInv, RequestDownload, NoRow, TypeOK, Serving
<1>2. Fresh'
  BY DEF IInv, RequestDownload, NoRow, TypeOK, Fresh, Serving
<1>3. ConsentKnown'
  BY DEF IInv, RequestDownload, NoRow, TypeOK, ConsentKnown, Serving
<1>4. ReleasedWithConsent'
  BY DEF IInv, RequestDownload, NoRow, TypeOK, ReleasedWithConsent, Serving
<1>5. JobsSound'
  BY DEF IInv, RequestDownload, NoRow, TypeOK, JobsSound, JobSound, Busy,
     Serving
<1>6. ClaimHolds'
  BY DEF IInv, RequestDownload, NoRow, TypeOK, ClaimHolds, Fetching, Serving
<1>7. OneCopyPerRelease'
  BY DEF IInv, RequestDownload, NoRow, TypeOK, OneCopyPerRelease, Unspent,
     Serving, Fresh
<1>8. NoCopyWithoutConsent'
  BY DEF IInv, RequestDownload, NoRow, TypeOK, NoCopyWithoutConsent,
     Serving, Fresh
<1>9. IndependentApproval'
  BY DEF IInv, RequestDownload, NoRow, TypeOK, IndependentApproval, Serving
<1> QED
  BY <1>1, <1>2, <1>3, <1>4, <1>5, <1>6, <1>7, <1>8, <1>9 DEF IInv

(* The owner's copy is paid for by its own release. *)
LEMMA OwnerDownloadKeeps ==
  ASSUME IInv, NEW r \in Request, NEW m \in Modes, OwnerDownload(r, m)
  PROVE  IInv'
<1>1. TypeOK'
  BY DEF IInv, OwnerDownload, NoRow, TypeOK, Serving
<1>2. Fresh'
  BY DEF IInv, OwnerDownload, NoRow, TypeOK, Fresh, Serving
<1>3. ConsentKnown'
  BY DEF IInv, OwnerDownload, NoRow, TypeOK, ConsentKnown, Serving
<1>4. ReleasedWithConsent'
  BY DEF IInv, OwnerDownload, NoRow, TypeOK, ReleasedWithConsent, Serving
<1>5. JobsSound'
  BY DEF IInv, OwnerDownload, NoRow, TypeOK, JobsSound, JobSound, Busy, Serving
<1>6. ClaimHolds'
  BY DEF IInv, OwnerDownload, NoRow, TypeOK, ClaimHolds, Fetching, Serving
<1>7. OneCopyPerRelease'
  BY DEF IInv, OwnerDownload, NoRow, TypeOK, OneCopyPerRelease, Unspent,
     Serving
<1>8. NoCopyWithoutConsent'
  BY DEF IInv, OwnerDownload, NoRow, TypeOK, NoCopyWithoutConsent, Serving
<1>9. IndependentApproval'
  BY DEF IInv, OwnerDownload, NoRow, TypeOK, IndependentApproval, Serving
<1> QED
  BY <1>1, <1>2, <1>3, <1>4, <1>5, <1>6, <1>7, <1>8, <1>9 DEF IInv

(* Starting a handler records only what the row says. *)
LEMMA StartKeeps ==
  ASSUME IInv, NEW w \in Worker, NEW u \in User, NEW r \in Request,
         NEW op \in {"approve", "reject", "consent", "refuse", "fetch"},
         Start(w, op, u, r), row[r].status # "NONE",
         op \in {"approve", "reject"} => CanManage(u),
         op = "approve" /\ row[r].needsOwner => row[r].ownerOK,
         op = "consent" => row[r].needsOwner
  PROVE  IInv'
<1>1. TypeOK'
  BY DEF IInv, Start, history, TypeOK, Busy, Serving
<1>2. Fresh'
  BY DEF IInv, Start, history, TypeOK, Fresh, Busy, Serving
<1>3. ConsentKnown'
  BY DEF IInv, Start, history, TypeOK, ConsentKnown, Busy, Serving
<1>4. ReleasedWithConsent'
  BY DEF IInv, Start, history, TypeOK, ReleasedWithConsent, Busy, Serving
<1>5. JobsSound'
  BY DEF IInv, Start, history, TypeOK, JobsSound, JobSound, Busy, Serving,
     ConsentKnown
<1>6. ClaimHolds'
  BY DEF IInv, Start, history, TypeOK, ClaimHolds, Fetching, Busy, Serving
<1>7. OneCopyPerRelease'
  BY DEF IInv, Start, history, TypeOK, OneCopyPerRelease, Unspent, Busy,
     Serving
<1>8. NoCopyWithoutConsent'
  BY DEF IInv, Start, history, TypeOK, NoCopyWithoutConsent, Busy, Serving
<1>9. IndependentApproval'
  BY DEF IInv, Start, history, TypeOK, IndependentApproval, Busy, Serving
<1> QED
  BY <1>1, <1>2, <1>3, <1>4, <1>5, <1>6, <1>7, <1>8, <1>9 DEF IInv

(* A late approval releases the request once more. *)
LEMMA ApproveKeeps ==
  ASSUME IInv, NEW w \in Worker, NEW r \in Request, Approve(w, r)
  PROVE  IInv'
<1>1. TypeOK'
  <2>1. row[r] \in Rows /\ job[w] \in Jobs
    BY DEF IInv, TypeOK
  <2>2. Approved(r, job[w].user) \in Rows
    BY <2>1 DEF IInv, JobsSound, JobSound, Busy, Serving, Approve, WriteRow,
       Approved, Serving
  <2>3. row' = [row EXCEPT ![r] = Approved(r, job[w].user)]
    BY DEF Approve, WriteRow, Approved, Serving
  <2>4. row' \in [Request -> Rows]
    BY <2>2, <2>3 DEF IInv, TypeOK
  <2> QED
    BY <2>4 DEF IInv, TypeOK, Finish, Idle, Approve, WriteRow, Approved,
       Serving
<1>2. Fresh'
  BY DEF IInv, Approve, WriteRow, Approved, Finish, Idle, Unlocked, TypeOK,
     Fresh, Serving
<1>3. ConsentKnown'
  BY DEF IInv, Approve, WriteRow, Approved, Finish, Idle, Unlocked, TypeOK,
     ConsentKnown, Serving
<1>4. ReleasedWithConsent'
  BY DEF IInv, Approve, WriteRow, Approved, Finish, Idle, Unlocked, TypeOK,
     ReleasedWithConsent, Busy, Serving, JobsSound, JobSound
<1>5. JobsSound'
  BY DEF IInv, Approve, WriteRow, Approved, Finish, Idle, Unlocked, TypeOK,
     JobsSound, JobSound, Busy, Serving
<1>6. ClaimHolds'
  BY DEF IInv, Approve, WriteRow, Approved, Finish, Idle, Unlocked, TypeOK,
     ClaimHolds, Fetching, Serving
<1>7. OneCopyPerRelease'
  BY DEF IInv, Approve, WriteRow, Approved, Finish, Idle, Unlocked, TypeOK,
     OneCopyPerRelease, Unspent, Serving
<1>8. NoCopyWithoutConsent'
  BY DEF IInv, Approve, WriteRow, Approved, Finish, Idle, Unlocked, TypeOK,
     NoCopyWithoutConsent, Serving
<1>9. IndependentApproval'
  BY DEF IInv, Approve, WriteRow, Approved, Finish, Idle, Unlocked, TypeOK,
     IndependentApproval, Busy, Serving, JobsSound, JobSound
<1> QED
  BY <1>1, <1>2, <1>3, <1>4, <1>5, <1>6, <1>7, <1>8, <1>9 DEF IInv

(* A rejection puts back a consent that was read before. *)
LEMMA RejectKeeps ==
  ASSUME IInv, NEW w \in Worker, NEW r \in Request, Reject(w, r)
  PROVE  IInv'
<1>1. TypeOK'
  <2>1. row[r] \in Rows /\ job[w] \in Jobs
    BY DEF IInv, TypeOK
  <2>2. [row[r] EXCEPT !.status = "REJECTED", !.approver = job[w].user,
                                            !.ownerOK = job[w].sawConsent] \in Rows
    BY <2>1 DEF IInv, JobsSound, JobSound, Busy, Serving, Reject, WriteRow,
       Serving
  <2>3. row' = [row EXCEPT ![r] = [row[r] EXCEPT !.status = "REJECTED", !.approver = job[w].user,
                                            !.ownerOK = job[w].sawConsent]]
    BY DEF Reject, WriteRow, Serving
  <2>4. row' \in [Request -> Rows]
    BY <2>2, <2>3 DEF IInv, TypeOK
  <2> QED
    BY <2>4 DEF IInv, TypeOK, Finish, Idle, Reject, WriteRow, Serving
<1>2. Fresh'
  BY DEF IInv, Reject, WriteRow, Finish, Idle, Unlocked, TypeOK, Fresh, Serving
<1>3. ConsentKnown'
  BY DEF IInv, Reject, WriteRow, Finish, Idle, Unlocked, TypeOK,
     ConsentKnown, Busy, Serving, JobsSound, JobSound
<1>4. ReleasedWithConsent'
  BY DEF IInv, Reject, WriteRow, Finish, Idle, Unlocked, TypeOK,
     ReleasedWithConsent, Serving
<1>5. JobsSound'
  BY DEF IInv, Reject, WriteRow, Finish, Idle, Unlocked, TypeOK, JobsSound,
     JobSound, Busy, Serving
<1>6. ClaimHolds'
  BY DEF IInv, Reject, WriteRow, Finish, Idle, Unlocked, TypeOK, ClaimHolds,
     Fetching, Serving
<1>7. OneCopyPerRelease'
  BY DEF IInv, Reject, WriteRow, Finish, Idle, Unlocked, TypeOK,
     OneCopyPerRelease, Unspent, Serving
<1>8. NoCopyWithoutConsent'
  BY DEF IInv, Reject, WriteRow, Finish, Idle, Unlocked, TypeOK,
     NoCopyWithoutConsent, Serving
<1>9. IndependentApproval'
  BY DEF IInv, Reject, WriteRow, Finish, Idle, Unlocked, TypeOK,
     IndependentApproval, Serving
<1> QED
  BY <1>1, <1>2, <1>3, <1>4, <1>5, <1>6, <1>7, <1>8, <1>9 DEF IInv

(* A consent is recorded before any copy it releases. *)
LEMMA ConsentKeeps ==
  ASSUME IInv, NEW w \in Worker, NEW r \in Request, Consent(w, r)
  PROVE  IInv'
<1>1. TypeOK'
  <2>1. row[r] \in Rows /\ job[w] \in Jobs
    BY DEF IInv, TypeOK
  <2>2. PICK base \in {row[r], Approved(r, Owner)} : row' = [row EXCEPT ![r] = [base EXCEPT !.ownerOK = TRUE]]
    BY DEF Consent, WriteRow
  <2>3. base \in Rows
    BY ZenonT(30), <2>1 DEF Approved
  <2>4. [base EXCEPT !.ownerOK = TRUE] \in Rows
    BY <2>3
  <2>5. row' \in [Request -> Rows]
    BY <2>2, <2>4 DEF IInv, TypeOK
  <2> QED
    BY <2>5 DEF IInv, TypeOK, Consent, WriteRow, Finish, Idle, Serving
<1>2. Fresh'
  BY DEF IInv, Consent, WriteRow, Approved, Finish, Idle, Unlocked, TypeOK,
     Fresh, Serving
<1>3. ConsentKnown'
  BY DEF IInv, Consent, WriteRow, Approved, Finish, Idle, Unlocked, TypeOK,
     ConsentKnown, Serving
<1>4. ReleasedWithConsent'
  BY DEF IInv, Consent, WriteRow, Approved, Finish, Idle, Unlocked, TypeOK,
     ReleasedWithConsent, Serving
<1>5. JobsSound'
  BY DEF IInv, Consent, WriteRow, Approved, Finish, Idle, Unlocked, TypeOK,
     JobsSound, JobSound, Busy, Serving
<1>6. ClaimHolds'
  BY DEF IInv, Consent, WriteRow, Approved, Finish, Idle, Unlocked, TypeOK,
     ClaimHolds, Fetching, Serving
<1>7. OneCopyPerRelease'
  BY DEF IInv, Consent, WriteRow, Approved, Finish, Idle, Unlocked, TypeOK,
     OneCopyPerRelease, Unspent, Serving
<1>8. NoCopyWithoutConsent'
  BY DEF IInv, Consent, WriteRow, Approved, Finish, Idle, Unlocked, TypeOK,
     NoCopyWithoutConsent, Serving
<1>9. IndependentApproval'
  BY DEF IInv, Consent, WriteRow, Approved, Finish, Idle, Unlocked, TypeOK,
     IndependentApproval, Serving
<1> QED
  BY <1>1, <1>2, <1>3, <1>4, <1>5, <1>6, <1>7, <1>8, <1>9 DEF IInv

(* A refusal releases nothing. *)
LEMMA RefuseKeeps ==
  ASSUME IInv, NEW w \in Worker, NEW r \in Request, Refuse(w, r)
  PROVE  IInv'
<1>1. TypeOK'
  <2>1. row[r] \in Rows /\ job[w] \in Jobs
    BY DEF IInv, TypeOK
  <2>2. [row[r] EXCEPT !.status = "REJECTED",
                                            !.ownerOK = job[w].sawConsent] \in Rows
    BY <2>1 DEF IInv, JobsSound, JobSound, Busy, Serving, Refuse, WriteRow,
       Serving
  <2>3. row' = [row EXCEPT ![r] = [row[r] EXCEPT !.status = "REJECTED",
                                            !.ownerOK = job[w].sawConsent]]
    BY DEF Refuse, WriteRow, Serving
  <2>4. row' \in [Request -> Rows]
    BY <2>2, <2>3 DEF IInv, TypeOK
  <2> QED
    BY <2>4 DEF IInv, TypeOK, Finish, Idle, Refuse, WriteRow, Serving
<1>2. Fresh'
  BY DEF IInv, Refuse, WriteRow, Finish, Idle, Unlocked, TypeOK, Fresh, Serving
<1>3. ConsentKnown'
  BY DEF IInv, Refuse, WriteRow, Finish, Idle, Unlocked, TypeOK,
     ConsentKnown, Busy, Serving, JobsSound, JobSound
<1>4. ReleasedWithConsent'
  BY DEF IInv, Refuse, WriteRow, Finish, Idle, Unlocked, TypeOK,
     ReleasedWithConsent, Serving
<1>5. JobsSound'
  BY DEF IInv, Refuse, WriteRow, Finish, Idle, Unlocked, TypeOK, JobsSound,
     JobSound, Busy, Serving
<1>6. ClaimHolds'
  BY DEF IInv, Refuse, WriteRow, Finish, Idle, Unlocked, TypeOK, ClaimHolds,
     Fetching, Serving
<1>7. OneCopyPerRelease'
  BY DEF IInv, Refuse, WriteRow, Finish, Idle, Unlocked, TypeOK,
     OneCopyPerRelease, Unspent, Serving
<1>8. NoCopyWithoutConsent'
  BY DEF IInv, Refuse, WriteRow, Finish, Idle, Unlocked, TypeOK,
     NoCopyWithoutConsent, Serving
<1>9. IndependentApproval'
  BY DEF IInv, Refuse, WriteRow, Finish, Idle, Unlocked, TypeOK,
     IndependentApproval, Serving
<1> QED
  BY <1>1, <1>2, <1>3, <1>4, <1>5, <1>6, <1>7, <1>8, <1>9 DEF IInv

(* A claim succeeds only on a free and approved row. *)
LEMMA ClaimKeeps ==
  ASSUME IInv, NEW w \in Worker, NEW r \in Request, Claim(w, r)
  PROVE  IInv'
<1> DEFINE advanced == [job[w] EXCEPT !.op = "claimed"]
<1>a. job[w] \in Jobs /\ advanced \in Jobs
  <2>1. job[w] \in Jobs
    BY DEF IInv, TypeOK
  <2> QED
    BY <2>1
<1>b. PICK next \in {advanced, Idle} : job' = [job EXCEPT ![w] = next]
  BY DEF Claim, Finish, history
<1>c. next \in Jobs
  <2>1. Idle \in Jobs
    BY DEF Idle
  <2> QED
    BY <2>1, <1>a, <1>b
<1>d. job' \in [Worker -> Jobs]
  BY <1>b, <1>c DEF IInv, TypeOK
<1>e. \A x \in Worker : job'[x] = IF x = w THEN next ELSE job[x]
  BY <1>b DEF IInv, TypeOK
<1>f. next = advanced <=> row[r].status = "APPROVED"
  BY <1>b, <1>a DEF Claim, Finish, history, Serving, Idle, IInv, TypeOK
<1>g. lock' \in [Request -> Worker \union {NoWorker}]
  BY DEF IInv, TypeOK, Claim, Finish, history
<1>1. TypeOK'
  BY <1>d, <1>g DEF IInv, TypeOK, Claim, Finish, history
<1>2. Fresh'
  BY DEF IInv, Claim, Finish, Idle, Unlocked, history, TypeOK, Fresh, Serving
<1>3. ConsentKnown'
  BY DEF IInv, Claim, Finish, Idle, Unlocked, history, TypeOK, ConsentKnown,
     Serving
<1>4. ReleasedWithConsent'
  BY DEF IInv, Claim, Finish, Idle, Unlocked, history, TypeOK,
     ReleasedWithConsent, Serving
<1>5. JobsSound'
  BY <1>a, <1>d, <1>e, <1>f DEF IInv, Claim, Finish, history, TypeOK,
     JobsSound, JobSound, Busy, Serving, Unlocked, Idle
<1>6. ClaimHolds'
  <2>1. CASE next = advanced
    <3>1. lock' = [lock EXCEPT ![r] = w] /\ row' = row
      BY <2>1, <1>f DEF Claim
    <3>2. Fetching(w, r)' /\ row[r].status = "APPROVED"
      BY <2>1, <1>a, <1>e, <1>f DEF Fetching, Claim, Serving
    <3>3. \A x \in Worker, q \in Request : x # w => (Fetching(x, q)' <=> Fetching(x, q))
      BY <1>e DEF Fetching, Serving
    <3>4. \A q \in Request : q # r => ~Fetching(w, q)' /\ ~Fetching(w, q)
      BY <2>1, <1>a, <1>e DEF Fetching, Claim, Serving
    <3>5. \A x \in Worker : ~Fetching(x, r)
      BY DEF IInv, ClaimHolds, Claim, Unlocked
    <3> QED
      BY <3>1, <3>2, <3>3, <3>4, <3>5 DEF IInv, TypeOK, ClaimHolds
  <2>2. CASE next # advanced
    <3>1. lock' = lock /\ row' = row
      BY <2>2, <1>f DEF Claim
    <3>2. \A x \in Worker, q \in Request : Fetching(x, q)' <=> Fetching(x, q)
      BY <2>2, <1>b, <1>e DEF Fetching, Claim, Serving, Idle
    <3> QED
      BY <3>1, <3>2 DEF IInv, TypeOK, ClaimHolds
  <2> QED
    BY <2>1, <2>2
<1>7. OneCopyPerRelease'
  BY DEF IInv, Claim, Finish, Idle, Unlocked, history, TypeOK,
     OneCopyPerRelease, Unspent, Serving
<1>8. NoCopyWithoutConsent'
  BY DEF IInv, Claim, Finish, Idle, Unlocked, history, TypeOK,
     NoCopyWithoutConsent, Serving
<1>9. IndependentApproval'
  BY DEF IInv, Claim, Finish, Idle, Unlocked, history, TypeOK,
     IndependentApproval, Serving
<1> QED
  BY <1>1, <1>2, <1>3, <1>4, <1>5, <1>6, <1>7, <1>8, <1>9 DEF IInv

(* A claim is given up without touching the row. *)
LEMMA CheckPermissionKeeps ==
  ASSUME IInv, NEW w \in Worker, NEW r \in Request, CheckPermission(w, r)
  PROVE  IInv'
<1> DEFINE advanced == [job[w] EXCEPT !.op = "render"]
<1>a. job[w] \in Jobs /\ advanced \in Jobs
  <2>1. job[w] \in Jobs
    BY DEF IInv, TypeOK
  <2> QED
    BY <2>1
<1>b. PICK next \in {advanced, Idle} : job' = [job EXCEPT ![w] = next]
  BY DEF CheckPermission, Finish
<1>c. next \in Jobs
  <2>1. Idle \in Jobs
    BY DEF Idle
  <2> QED
    BY <2>1, <1>a, <1>b
<1>d. job' \in [Worker -> Jobs]
  BY <1>b, <1>c DEF IInv, TypeOK
<1>e. \A x \in Worker : job'[x] = IF x = w THEN next ELSE job[x]
  BY <1>b DEF IInv, TypeOK
<1>f. next = advanced <=> MayFetch(job[w].user)
  BY <1>b, <1>a DEF CheckPermission, history, Finish, Serving, Idle, IInv, TypeOK
<1>g. lock' \in [Request -> Worker \union {NoWorker}]
  BY DEF IInv, TypeOK, CheckPermission, history, Finish
<1>1. TypeOK'
  BY <1>d, <1>g DEF IInv, TypeOK, CheckPermission, history, Finish
<1>2. Fresh'
  BY DEF IInv, CheckPermission, history, Finish, Idle, TypeOK, Fresh, Serving
<1>3. ConsentKnown'
  BY DEF IInv, CheckPermission, history, Finish, Idle, TypeOK, ConsentKnown, Serving
<1>4. ReleasedWithConsent'
  BY DEF IInv, CheckPermission, history, Finish, Idle, TypeOK, ReleasedWithConsent,
     Serving
<1>5. JobsSound'
  BY SMTT(20), <1>a, <1>d, <1>e, <1>f DEF IInv, CheckPermission, history, Finish, TypeOK,
     JobsSound, JobSound, Busy, Serving, Unlocked, Idle
<1>6. ClaimHolds'
  <2>0. lock[r] = w /\ row' = row
    BY DEF IInv, ClaimHolds, Fetching, CheckPermission
  <2>1. CASE next = advanced
    <3>1. lock' = lock
      BY <2>1, <1>f DEF CheckPermission
    <3>2. \A x \in Worker, q \in Request : Fetching(x, q)' <=> Fetching(x, q)
      BY <2>1, <1>a, <1>e DEF Fetching, CheckPermission, history, Serving
    <3> QED
      BY <2>0, <3>1, <3>2 DEF IInv, TypeOK, ClaimHolds
  <2>2. CASE next # advanced
    <3>1. lock' = [lock EXCEPT ![r] = NoWorker]
      BY <2>2, <1>f DEF CheckPermission
    <3>2. \A q \in Request : ~Fetching(w, q)'
      BY <2>2, <1>b, <1>e DEF Fetching, Serving, Idle
    <3>3. \A x \in Worker, q \in Request : x # w => (Fetching(x, q)' <=> Fetching(x, q))
      BY <1>e DEF Fetching, Serving
    <3>4. \A q \in Request : q # r => lock[q] # w
      BY DEF IInv, ClaimHolds, Fetching, CheckPermission, history, Serving
    <3> QED
      BY <2>0, <3>1, <3>2, <3>3, <3>4 DEF IInv, TypeOK, ClaimHolds
  <2> QED
    BY <2>1, <2>2
<1>7. OneCopyPerRelease'
  BY DEF IInv, CheckPermission, history, Finish, Idle, TypeOK, OneCopyPerRelease,
     Unspent, Serving
<1>8. NoCopyWithoutConsent'
  BY DEF IInv, CheckPermission, history, Finish, Idle, TypeOK, NoCopyWithoutConsent,
     Serving
<1>9. IndependentApproval'
  BY DEF IInv, CheckPermission, history, Finish, Idle, TypeOK, IndependentApproval,
     Serving
<1> QED
  BY <1>1, <1>2, <1>3, <1>4, <1>5, <1>6, <1>7, <1>8, <1>9 DEF IInv

(* The lock guarantees that the row delivered is still approved. *)
LEMMA DeliverKeeps ==
  ASSUME IInv, NEW w \in Worker, NEW r \in Request, Deliver(w, r)
  PROVE  IInv'
<1>1. TypeOK'
  <2>1. row[r] \in Rows /\ job[w] \in Jobs
    BY DEF IInv, TypeOK
  <2>2. [row[r] EXCEPT !.status = "COMPLETED",
                                            !.ownerOK = job[w].sawConsent] \in Rows
    BY <2>1 DEF IInv, JobsSound, JobSound, Busy, Serving, Deliver, Serving
  <2>3. row' = [row EXCEPT ![r] = [row[r] EXCEPT !.status = "COMPLETED",
                                            !.ownerOK = job[w].sawConsent]]
    BY DEF Deliver, Serving
  <2>4. row' \in [Request -> Rows]
    BY <2>2, <2>3 DEF IInv, TypeOK
  <2> QED
    BY <2>4 DEF IInv, TypeOK, Finish, Idle, Deliver, Serving
<1>2. Fresh'
  BY DEF IInv, Deliver, Finish, Idle, TypeOK, Fresh, Serving
<1>3. ConsentKnown'
  BY DEF IInv, Deliver, Finish, Idle, TypeOK, ConsentKnown, Busy, Serving,
     JobsSound, JobSound
<1>4. ReleasedWithConsent'
  BY DEF IInv, Deliver, Finish, Idle, TypeOK, ReleasedWithConsent, Serving,
     ClaimHolds, Fetching
<1>5. JobsSound'
  BY DEF IInv, Deliver, Finish, Idle, TypeOK, JobsSound, JobSound, Busy,
     Serving
<1>6. ClaimHolds'
  BY DEF IInv, Deliver, Finish, Idle, TypeOK, ClaimHolds, Fetching, Serving
<1>7. OneCopyPerRelease'
  BY DEF IInv, Deliver, Finish, Idle, TypeOK, OneCopyPerRelease, Unspent,
     Serving, ClaimHolds, Fetching
<1>8. NoCopyWithoutConsent'
  BY DEF IInv, Deliver, Finish, Idle, TypeOK, NoCopyWithoutConsent, Serving,
     ClaimHolds, Fetching, ReleasedWithConsent
<1>9. IndependentApproval'
  BY SMTT(20) DEF IInv, Deliver, Finish, Idle, TypeOK, IndependentApproval, Serving,
     ClaimHolds, Fetching
<1> QED
  BY <1>1, <1>2, <1>3, <1>4, <1>5, <1>6, <1>7, <1>8, <1>9 DEF IInv

(* A handler that ends without committing gives up its claim only. *)
LEMMA AbortKeeps ==
  ASSUME IInv, NEW w \in Worker, Abort(w)
  PROVE  IInv'
<1>1. TypeOK'
  BY DEF IInv, Abort, Finish, Idle, history, TypeOK, Serving
<1>2. Fresh'
  BY DEF IInv, Abort, Finish, Idle, history, TypeOK, Fresh, Serving
<1>3. ConsentKnown'
  BY DEF IInv, Abort, Finish, Idle, history, TypeOK, ConsentKnown, Serving
<1>4. ReleasedWithConsent'
  BY DEF IInv, Abort, Finish, Idle, history, TypeOK, ReleasedWithConsent,
     Serving
<1>5. JobsSound'
  BY DEF IInv, Abort, Finish, Idle, history, TypeOK, JobsSound, JobSound,
     Busy, Serving
<1>6. ClaimHolds'
  BY DEF IInv, Abort, Finish, Idle, history, TypeOK, ClaimHolds, Fetching,
     Serving
<1>7. OneCopyPerRelease'
  BY DEF IInv, Abort, Finish, Idle, history, TypeOK, OneCopyPerRelease,
     Unspent, Serving
<1>8. NoCopyWithoutConsent'
  BY DEF IInv, Abort, Finish, Idle, history, TypeOK, NoCopyWithoutConsent,
     Serving
<1>9. IndependentApproval'
  BY DEF IInv, Abort, Finish, Idle, history, TypeOK, IndependentApproval,
     Serving
<1> QED
  BY <1>1, <1>2, <1>3, <1>4, <1>5, <1>6, <1>7, <1>8, <1>9 DEF IInv

(* An expiry changes no status. *)
LEMMA ExpireKeeps ==
  ASSUME IInv, NEW r \in Request, Expire(r)
  PROVE  IInv'
<1>1. TypeOK'
  <2>0. row[r] \in Rows
    BY DEF IInv, TypeOK
  <2>1. [row[r] EXCEPT !.expired = TRUE] \in Rows
    BY <2>0
  <2>2. row' \in [Request -> Rows]
    BY <2>1 DEF IInv, TypeOK, Expire
  <2> QED
    BY <2>2 DEF IInv, TypeOK, Expire, history
<1>2. Fresh'
  BY DEF IInv, Expire, history, TypeOK, Fresh, Serving
<1>3. ConsentKnown'
  BY DEF IInv, Expire, history, TypeOK, ConsentKnown, Serving
<1>4. ReleasedWithConsent'
  BY DEF IInv, Expire, history, TypeOK, ReleasedWithConsent, Serving
<1>5. JobsSound'
  BY DEF IInv, Expire, history, TypeOK, JobsSound, JobSound, Busy, Serving
<1>6. ClaimHolds'
  BY DEF IInv, Expire, history, TypeOK, ClaimHolds, Fetching, Serving
<1>7. OneCopyPerRelease'
  BY DEF IInv, Expire, history, TypeOK, OneCopyPerRelease, Unspent, Serving
<1>8. NoCopyWithoutConsent'
  BY DEF IInv, Expire, history, TypeOK, NoCopyWithoutConsent, Serving
<1>9. IndependentApproval'
  BY DEF IInv, Expire, history, TypeOK, IndependentApproval, Serving
<1> QED
  BY <1>1, <1>2, <1>3, <1>4, <1>5, <1>6, <1>7, <1>8, <1>9 DEF IInv

(* The grants of a delegate are no part of the argument. *)
LEMMA GrantsChangeKeeps ==
  ASSUME IInv, NEW u \in Delegate, GrantsChange(u)
  PROVE  IInv'
<1>1. TypeOK'
  BY DEF IInv, GrantsChange, history, TypeOK, Serving
<1>2. Fresh'
  BY DEF IInv, GrantsChange, history, TypeOK, Fresh, Serving
<1>3. ConsentKnown'
  BY DEF IInv, GrantsChange, history, TypeOK, ConsentKnown, Serving
<1>4. ReleasedWithConsent'
  BY DEF IInv, GrantsChange, history, TypeOK, ReleasedWithConsent, Serving
<1>5. JobsSound'
  BY DEF IInv, GrantsChange, history, TypeOK, JobsSound, JobSound, Busy,
     Serving
<1>6. ClaimHolds'
  BY DEF IInv, GrantsChange, history, TypeOK, ClaimHolds, Fetching, Serving
<1>7. OneCopyPerRelease'
  BY DEF IInv, GrantsChange, history, TypeOK, OneCopyPerRelease, Unspent,
     Serving
<1>8. NoCopyWithoutConsent'
  BY DEF IInv, GrantsChange, history, TypeOK, NoCopyWithoutConsent, Serving
<1>9. IndependentApproval'
  BY DEF IInv, GrantsChange, history, TypeOK, IndependentApproval, Serving
<1> QED
  BY <1>1, <1>2, <1>3, <1>4, <1>5, <1>6, <1>7, <1>8, <1>9 DEF IInv

(* Nothing changes. *)
LEMMA StutterKeeps ==
  ASSUME IInv, UNCHANGED vars
  PROVE  IInv'
<1>1. TypeOK'
  BY DEF IInv, vars, TypeOK, Serving
<1>2. Fresh'
  BY DEF IInv, vars, TypeOK, Fresh, Serving
<1>3. ConsentKnown'
  BY DEF IInv, vars, TypeOK, ConsentKnown, Serving
<1>4. ReleasedWithConsent'
  BY DEF IInv, vars, TypeOK, ReleasedWithConsent, Serving
<1>5. JobsSound'
  BY DEF IInv, vars, TypeOK, JobsSound, JobSound, Busy, Serving
<1>6. ClaimHolds'
  BY DEF IInv, vars, TypeOK, ClaimHolds, Fetching, Serving
<1>7. OneCopyPerRelease'
  BY DEF IInv, vars, TypeOK, OneCopyPerRelease, Unspent, Serving
<1>8. NoCopyWithoutConsent'
  BY DEF IInv, vars, TypeOK, NoCopyWithoutConsent, Serving
<1>9. IndependentApproval'
  BY DEF IInv, vars, TypeOK, IndependentApproval, Serving
<1> QED
  BY <1>1, <1>2, <1>3, <1>4, <1>5, <1>6, <1>7, <1>8, <1>9 DEF IInv

(* Every step of Next keeps the invariant. *)
LEMMA NextKeeps == IInv /\ [Next]_vars => IInv'
<1> SUFFICES ASSUME IInv, [Next]_vars PROVE IInv'
  OBVIOUS
<1>1. ASSUME NEW w \in Worker, NEW u \in User, NEW r \in Request, ReadForDecision(w, u, r)
      PROVE  IInv'
  BY <1>1, StartKeeps DEF ReadForDecision
<1>2. ASSUME NEW w \in Worker, NEW u \in User, NEW r \in Request, ReadForFetch(w, u, r)
      PROVE  IInv'
  BY <1>2, StartKeeps DEF ReadForFetch
<1>3. ASSUME NEW w \in Worker, NEW r \in Request, ReadForConsent(w, r)
      PROVE  IInv'
  BY <1>3, StartKeeps DEF ReadForConsent
<1>4. ASSUME NEW w \in Worker, HandlerStep(w)
      PROVE  IInv'
  BY <1>4, ApproveKeeps, RejectKeeps, ConsentKeeps, RefuseKeeps, ClaimKeeps,
     CheckPermissionKeeps, DeliverKeeps DEF HandlerStep
<1>5. CASE UNCHANGED vars
  BY <1>5, StutterKeeps
<1> QED
  BY <1>1, <1>2, <1>3, <1>4, <1>5, RequestDownloadKeeps, OwnerDownloadKeeps,
     AbortKeeps, ExpireKeeps, GrantsChangeKeeps DEF Next

(* The inductive invariant holds of every behaviour. *)
THEOREM Invariance == Spec => []IInv
BY InitInvariant, NextKeeps, PTL DEF Spec

(* Type correctness of the whole workflow.                                 *)
THEOREM TypeCorrect == Spec => []TypeOK
BY Invariance, PTL DEF IInv

(* However decisions, consents and fetches interleave, the number of       *)
(* copies handed out on a request never exceeds the number of approvals.   *)
THEOREM CopiesArePaidFor == Spec => []OneCopyPerRelease
BY Invariance, PTL DEF IInv

(* No copy leaves before the owner whose consent it needs has given it.    *)
THEOREM ConsentComesFirst == Spec => []NoCopyWithoutConsent
BY Invariance, PTL DEF IInv

(* A fetch that claimed the row is alone on it until it commits or fails.  *)
THEOREM ClaimsAreExclusive == Spec => []ClaimHolds
BY Invariance, PTL DEF IInv

(* No requester without authority approved the copy they took.             *)
THEOREM ApprovalIsIndependent == Spec => []IndependentApproval
BY Invariance, PTL DEF IInv

-----------------------------------------------------------------------------
(* A fetch that fails leaves the approval as it was. *)

ClaimGivenUp(r) ==
  lock[r] # NoWorker /\ lock'[r] = NoWorker
    => \/ copies'[r] = copies[r] + 1 /\ row'[r].status = "COMPLETED"
       \/ copies'[r] = copies[r] /\ row'[r] = row[r]

(* Whoever gives up a claim delivered a copy or changed nothing. *)
LEMMA NextGivesUpCleanly ==
  ASSUME IInv, [Next]_vars, NEW q \in Request
  PROVE  ClaimGivenUp(q)
<1> USE DEF IInv, TypeOK, ClaimGivenUp
<1>1. ASSUME NEW w \in Worker, NEW r \in Request, Deliver(w, r)
      PROVE  ClaimGivenUp(q)
  BY <1>1 DEF Deliver
<1>2. ASSUME NEW w \in Worker, HandlerStep(w), \A r \in Request : ~Deliver(w, r)
      PROVE  row' = row \/ lock' = lock
  BY <1>2 DEF HandlerStep, Approve, Reject, Consent, Refuse, WriteRow,
     Claim, CheckPermission
<1>3. ASSUME NEW w \in Worker, HandlerStep(w), \A r \in Request : ~Deliver(w, r)
      PROVE  copies' = copies
  BY <1>3 DEF HandlerStep, Approve, Reject, Consent, Refuse, WriteRow, Claim,
              CheckPermission, history
<1>4. ASSUME NEW w \in Worker, HandlerStep(w)
      PROVE  ClaimGivenUp(q)
  BY <1>1, <1>2, <1>3, <1>4
<1>5. ASSUME NEW w \in Worker, NEW u \in User, NEW r \in Request,
             ReadForDecision(w, u, r) \/ ReadForFetch(w, u, r) \/ ReadForConsent(w, r)
      PROVE  ClaimGivenUp(q)
  BY <1>5 DEF ReadForDecision, ReadForFetch, ReadForConsent, Start
<1>6. ASSUME NEW w \in Worker, Abort(w)
      PROVE  ClaimGivenUp(q)
  BY <1>6 DEF Abort, history
<1>7. ASSUME NEW u \in User, NEW r \in Request, NEW m \in Modes,
             RequestDownload(u, r, m) \/ OwnerDownload(r, m)
      PROVE  ClaimGivenUp(q)
  BY <1>7 DEF RequestDownload, OwnerDownload
<1>8. ASSUME NEW r \in Request, Expire(r)
      PROVE  ClaimGivenUp(q)
  BY <1>8 DEF Expire
<1>9. ASSUME NEW u \in Delegate, GrantsChange(u)
      PROVE  ClaimGivenUp(q)
  BY <1>9 DEF GrantsChange
<1>10. CASE UNCHANGED vars
  BY <1>10 DEF vars
<1> QED
  BY <1>4, <1>5, <1>6, <1>7, <1>8, <1>9, <1>10 DEF Next, Delegate

(* "Any failure below rolls the claim back, so the approval stays usable." *)
THEOREM FailureKeepsApproval == Spec => FailedFetchKeepsApproval
<1>1. IInv /\ [Next]_vars
        => [\A r \in Request : ClaimGivenUp(r)]_vars
  BY NextGivesUpCleanly
<1> QED
  BY <1>1, Invariance, PTL DEF Spec, FailedFetchKeepsApproval, ClaimGivenUp

-----------------------------------------------------------------------------
(* The workflow implements CopyRelease. *)

(* Nothing is open and nothing copied in the beginning. *)
LEMMA InitImplements == Init => Promise!Init
BY DEF Init, Promise!Init, Open, NoRow

(* Every step is a step of the abstract promise or a stutter. *)
LEMMA NextImplements ==
  ASSUME IInv, [Next]_vars
  PROVE  [Promise!Next]_(Promise!vars)
<1> USE DEF Promise!Next, Promise!vars
<1> DEFINE Same == UNCHANGED Promise!vars
<1>1. ASSUME NEW u \in User, NEW r \in Request, NEW m \in Modes, RequestDownload(u, r, m)
      PROVE  Promise!Release(r) \/ Same
  <2> USE <1>1 DEF IInv, TypeOK
  <2>1. releases[r] = 0 /\ r \notin Open
    BY DEF RequestDownload, Fresh, Open
  <2>2. CASE row'[r].status = "APPROVED"
    <3>1. Open' = Open \union {r}
      BY <2>2 DEF RequestDownload, Open, NoRow
    <3>2. releases' = [releases EXCEPT ![r] = 1]
      BY <2>2 DEF RequestDownload, NoRow
    <3>3. releases' = [releases EXCEPT ![r] = @ + 1]
      BY <2>1, <3>2
    <3>4. copies' = copies
      BY DEF RequestDownload
    <3> QED
      BY <3>1, <3>3, <3>4 DEF Promise!Release
  <2>3. CASE row'[r].status # "APPROVED"
    <3>1. Open' = Open
      BY <2>1, <2>3 DEF RequestDownload, Open, NoRow
    <3>2. releases' = [releases EXCEPT ![r] = 0]
      BY <2>3 DEF RequestDownload, NoRow
    <3> QED
      BY <2>1, <3>1, <3>2 DEF RequestDownload
  <2> QED
    BY <2>2, <2>3
<1>2. ASSUME NEW r \in Request, NEW m \in Modes, OwnerDownload(r, m)
      PROVE  Promise!TakeOwn(r)
  BY <1>2 DEF OwnerDownload, Promise!TakeOwn, Open, NoRow, IInv, TypeOK, Fresh
<1>3. ASSUME NEW w \in Worker, NEW r \in Request, Approve(w, r)
      PROVE  Promise!Release(r)
  BY <1>3 DEF Approve, WriteRow, Approved, Promise!Release, Open, IInv, TypeOK
<1>4. ASSUME NEW w \in Worker, NEW r \in Request, Reject(w, r) \/ Refuse(w, r)
      PROVE  Promise!Withdraw(r) \/ Same
  <2>0. row'[r].status = "REJECTED" /\ \A q \in Request : q # r => row'[q] = row[q]
    <3>1. row[r] \in Rows /\ row \in [Request -> Rows]
      BY DEF IInv, TypeOK
    <3>2. CASE Reject(w, r)
      BY <3>1, <3>2 DEF Reject, WriteRow
    <3>3. CASE Refuse(w, r)
      BY <3>1, <3>3 DEF Refuse, WriteRow
    <3> QED
      BY <1>4, <3>2, <3>3
  <2>1. Open' = Open \ {r}
    BY <2>0 DEF Open
  <2>2. releases' = releases /\ copies' = copies
    BY <1>4 DEF Reject, Refuse, WriteRow
  <2> QED
    BY <2>1, <2>2 DEF Promise!Withdraw
<1>5. ASSUME NEW w \in Worker, NEW r \in Request, Consent(w, r)
      PROVE  Promise!Release(r) \/ Same
  BY <1>5 DEF Consent, WriteRow, Approved, Promise!Release, Open, IInv, TypeOK
<1>6. ASSUME NEW w \in Worker, NEW r \in Request, Deliver(w, r)
      PROVE  Promise!Take(r)
  BY <1>6 DEF Deliver, Promise!Take, Open, IInv, TypeOK, ClaimHolds, Fetching
<1>7. ASSUME NEW w \in Worker, NEW r \in Request, Claim(w, r) \/ CheckPermission(w, r)
      PROVE  Same
  BY <1>7 DEF Claim, CheckPermission, Open, history
<1>8. ASSUME NEW w \in Worker, NEW u \in User, NEW r \in Request,
             ReadForDecision(w, u, r) \/ ReadForFetch(w, u, r) \/ ReadForConsent(w, r)
      PROVE  Same
  BY <1>8 DEF ReadForDecision, ReadForFetch, ReadForConsent, Start, Open,
     history
<1>9. ASSUME NEW w \in Worker, Abort(w)
      PROVE  Same
  BY <1>9 DEF Abort, Open, history
<1>10. ASSUME NEW r \in Request, Expire(r)
       PROVE  Same
  BY <1>10 DEF Expire, Open, history, IInv, TypeOK
<1>11. ASSUME NEW u \in Delegate, GrantsChange(u)
       PROVE  Same
  BY <1>11 DEF GrantsChange, Open, history
<1>12. CASE UNCHANGED vars
  BY <1>12 DEF vars, Open
<1> QED
  BY <1>1, <1>2, <1>3, <1>4, <1>5, <1>6, <1>7, <1>8, <1>9, <1>10, <1>11, <1>12
  DEF Next, HandlerStep, Delegate

(* The workflow, whatever its interleavings, implements the metered        *)
(* promise: every copy uses up a release of its own.                       *)
THEOREM Implements == Spec => MeteredPromise
<1>1. Init => Promise!Init
  BY InitImplements
<1>2. IInv /\ [Next]_vars => [Promise!Next]_(Promise!vars)
  BY NextImplements
<1> QED
  BY <1>1, <1>2, Invariance, PTL DEF Spec, MeteredPromise, Promise!Spec

=============================================================================
