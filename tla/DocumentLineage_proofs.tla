----------------------- MODULE DocumentLineage_proofs -----------------------
(***************************************************************************)
(* The lineage of a document whose revisions get their serial numbers from *)
(* the server, for every number of users, rows, copies and concurrent      *)
(* handlers.                                                               *)
(***************************************************************************)
EXTENDS DocumentLineage, TLAPS

(* The inductive invariant.  A handler that has read the latest approved   *)
(* version n holds, from then on, a promise to insert version n + 1 under  *)
(* the serial number n + 1.  Versions below n + 1 are decided and stay so; *)
(* versions are contiguous, so if anyone inserted a revision in between,   *)
(* the serial number n + 1 is taken and the promise is void.               *)

Decided(a) == asset[a].status \in {"APPROVED", "REJECTED"}

ServerSerials == RequestedSerial = {}

SerialIsVersion ==
  /\ \A a \in Issued : asset[a].version \in Nat \ {0} /\ asset[a].serial = asset[a].version
  /\ \A a, b \in Issued : asset[a].version = asset[b].version => a = b

ParentsPrecede ==
  \A a \in Issued :
    IF asset[a].version = 1
    THEN asset[a].parent = NoAsset /\ asset[a].copy = NoCopy
    ELSE /\ asset[a].parent \in Issued
         /\ asset[a].version = asset[asset[a].parent].version + 1

Contiguous ==
  \A a \in Issued : \A n \in 1..asset[a].version : \E b \in Issued : asset[b].version = n

EarlierAreDecided ==
  \A a, b \in Issued : asset[a].version < asset[b].version => Decided(a)

CopiesOfVersions ==
  /\ \A c \in Copy : copy[c].status # "NONE" => copy[c].of \in Issued /\ Decided(copy[c].of)
  /\ \A a \in Issued : asset[a].copy # NoCopy
       => copy[asset[a].copy].status # "NONE" /\ asset[a].parent = copy[asset[a].copy].of
  /\ \A c \in Copy : copy[c].used => copy[c].status # "NONE"

Submitting(w) ==
  /\ job[w].copy \in Copy
  /\ copy[job[w].copy].status # "NONE"
  /\ job[w].version = asset[copy[job[w].copy].of].version + 1
  /\ job[w].serial = job[w].version

JobSound(w) ==
  /\ job[w].op \in {"check", "revise"} => Submitting(w)
  /\ job[w].op \in {"approve", "reject"} => job[w].asset \in Issued
  /\ job[w].op = "approve" => asset[job[w].asset].alert # "open"
JobsSound == \A w \in Worker : JobSound(w)

IInv == /\ TypeOK /\ ServerSerials
        /\ SerialIsVersion /\ ParentsPrecede /\ Contiguous /\ EarlierAreDecided
        /\ CopiesOfVersions /\ JobsSound /\ ReviewedBeforeApproval

-----------------------------------------------------------------------------
(* What the invariant says of the properties. *)

(* Two revisions of one version would have the same version number. *)
LEMMA ChainFromInvariant == IInv => LineageIsAChain
<1> SUFFICES ASSUME IInv PROVE LineageIsAChain
  OBVIOUS
<1>1. \A a \in Issued : asset[a].version > 1
        => asset[a].parent \in Issued /\ asset[a].version = asset[asset[a].parent].version + 1
  BY DEF IInv, ParentsPrecede
<1>2. ASSUME NEW a \in Issued, NEW b \in Issued, asset[a].parent = asset[b].parent
      PROVE  a = b
  <2>1. NoAsset \notin Issued
    BY NoneAssumption DEF Issued
  <2>2. asset[a].version = asset[b].version
    BY <1>2, <2>1 DEF IInv, ParentsPrecede, SerialIsVersion
  <2> QED
    BY <2>2 DEF IInv, SerialIsVersion
<1> QED
  BY <1>1, <1>2 DEF LineageIsAChain

(* Of two pending versions the earlier one would be decided. *)
LEMMA OnePendingFromInvariant == IInv => OnePendingRevision
<1> SUFFICES ASSUME IInv, NEW a \in Issued, NEW b \in Issued,
                    asset[a].status = "PENDING", asset[b].status = "PENDING"
             PROVE  a = b
  BY DEF OnePendingRevision
<1>1. ~(asset[a].version < asset[b].version) /\ ~(asset[b].version < asset[a].version)
  BY DEF IInv, EarlierAreDecided, Decided
<1>2. asset[a].version \in Nat /\ asset[b].version \in Nat
  BY DEF IInv, SerialIsVersion
<1> QED
  BY <1>1, <1>2 DEF IInv, SerialIsVersion

(* Two revisions from one copy would be revisions of one version. *)
LEMMA CopyUsedOnceFromInvariant == IInv => CopyUsedOnce
<1> SUFFICES ASSUME IInv, NEW a \in Issued, NEW b \in Issued,
                    asset[a].copy = asset[b].copy, asset[a].copy # NoCopy
             PROVE  a = b
  BY DEF CopyUsedOnce
<1>1. asset[a].parent = asset[b].parent
  BY DEF IInv, CopiesOfVersions
<1> QED
  BY <1>1, ChainFromInvariant DEF LineageIsAChain

-----------------------------------------------------------------------------
(* Initially, and step by step. *)

(* The empty lineage satisfies the invariant. *)
LEMMA InitInvariant == ServerSerials /\ Init => IInv
BY DEF Init, IInv, TypeOK, Assets, Copies, Jobs, Serials, NoRow, NoCopyRow, Idle,
   Issued, SerialIsVersion, ParentsPrecede, Contiguous, EarlierAreDecided,
   CopiesOfVersions, JobsSound, JobSound, ReviewedBeforeApproval

(* A step that only changes what workers do. *)
LEMMA JobsOnly ==
  ASSUME IInv, UNCHANGED <<asset, copy>>, job' \in [Worker -> Jobs],
         \A w \in Worker : JobSound(w)'
  PROVE  IInv'
BY DEF IInv, TypeOK, ServerSerials, Issued, SerialIsVersion, ParentsPrecede, Contiguous,
   EarlierAreDecided, Decided, CopiesOfVersions, JobsSound, ReviewedBeforeApproval

(* A step that changes neither the order of the lineage nor the jobs but   *)
(* may decide, mark obsolete or review the rows there are.                 *)
LEMMA RowsKeepTheirPlace ==
  ASSUME IInv, UNCHANGED copy, asset' \in [Asset -> Assets],
         \A a \in Asset : /\ asset'[a].version = asset[a].version
                          /\ asset'[a].serial = asset[a].serial
                          /\ asset'[a].parent = asset[a].parent
                          /\ asset'[a].copy = asset[a].copy
                          /\ asset'[a].status = "NONE" <=> asset[a].status = "NONE"
                          /\ Decided(a) => Decided(a)'
  PROVE  /\ Issued' = Issued /\ copy' \in [Copy -> Copies] /\ ServerSerials'
         /\ SerialIsVersion' /\ ParentsPrecede' /\ Contiguous' /\ EarlierAreDecided'
         /\ CopiesOfVersions'
         /\ \A w \in Worker : job'[w] = job[w] /\ Submitting(w) => Submitting(w)'
<1>1. Issued' = Issued
  BY DEF Issued
<1>2. SerialIsVersion'
  BY <1>1 DEF IInv, SerialIsVersion, Issued
<1>3. ParentsPrecede'
  BY <1>1 DEF IInv, ParentsPrecede, Issued
<1>4. Contiguous'
  BY <1>1 DEF IInv, Contiguous, Issued
<1>5. EarlierAreDecided'
  BY <1>1 DEF IInv, EarlierAreDecided, Issued
<1>6. CopiesOfVersions'
  BY <1>1 DEF IInv, CopiesOfVersions, Issued
<1>7. ASSUME NEW w \in Worker, job'[w] = job[w], Submitting(w)
      PROVE  Submitting(w)'
  <2>1. copy[job[w].copy].of \in Asset
    BY <1>7 DEF Submitting, IInv, CopiesOfVersions, Issued
  <2> QED
    BY <1>7, <2>1 DEF Submitting
<1> QED
  BY <1>1, <1>2, <1>3, <1>4, <1>5, <1>6, <1>7 DEF IInv, TypeOK, ServerSerials

-----------------------------------------------------------------------------
(* Steps that change nothing but one worker's job. *)

(* It is enough to look at the worker that moved. *)
LEMMA OneJob ==
  ASSUME IInv, UNCHANGED <<asset, copy>>, NEW w \in Worker, NEW new \in Jobs,
         job' = [job EXCEPT ![w] = new], JobSound(w)'
  PROVE  IInv'
<1>1. job' \in [Worker -> Jobs] /\ \A x \in Worker \ {w} : job'[x] = job[x]
  BY DEF IInv, TypeOK
<1>2. ASSUME NEW x \in Worker PROVE JobSound(x)'
  <2>1. CASE x = w
    BY <2>1
  <2>2. CASE x # w
    BY <1>1, <2>2 DEF IInv, JobsSound, JobSound, Submitting, Issued
  <2> QED
    BY <2>1, <2>2
<1> QED
  BY <1>1, <1>2, JobsOnly

(* The job of a worker that has nothing to do. *)
LEMMA IdleIsAJob == Idle \in Jobs
BY DEF Idle, Jobs, Serials

(* Ending a handler is always sound. *)
LEMMA FinishIsSound ==
  ASSUME IInv, NEW w \in Worker, Finish(w)
  PROVE  /\ JobSound(w)' /\ job' = [job EXCEPT ![w] = Idle] /\ job' \in [Worker -> Jobs]
         /\ \A x \in Worker \ {w} : job'[x] = job[x]
<1>1. job' = [job EXCEPT ![w] = Idle] /\ job'[w] = Idle
  BY DEF Finish, IInv, TypeOK
<1> QED
  BY <1>1, IdleIsAJob DEF IInv, TypeOK, JobSound, Idle

(* A handler that ends without committing promises nothing more. *)
LEMMA AbortKeeps ==
  ASSUME IInv, NEW w \in Worker, Abort(w)
  PROVE  IInv'
BY FinishIsSound, IdleIsAJob, OneJob DEF Abort

(* A revision starts from a copy of a decided version. *)
LEMMA ReadForRevisionKeeps ==
  ASSUME IInv, NEW w \in Worker, NEW c \in Copy, NEW upload \in BOOLEAN,
         NEW s, ReadForRevision(w, c, s, upload)
  PROVE  IInv'
<1> DEFINE a == copy[c].of
           new == [Idle EXCEPT !.op = "check", !.user = copy[c].by, !.copy = c,
                               !.version = asset[a].version + 1,
                               !.serial = s, !.upload = upload]
<1>1. /\ copy[c] \in Copies /\ copy[c].status = "COMPLETED" /\ a \in Asset
      /\ asset[a] \in Assets
  BY DEF ReadForRevision, IInv, TypeOK, CopiesOfVersions, Issued
<1>2. s = asset[a].version + 1 /\ s \in Nat
  BY <1>1 DEF ReadForRevision, SerialsFor, IInv, ServerSerials, Assets
<1>3. new \in Jobs
  BY <1>1, <1>2 DEF Idle, Jobs, Serials, Copies
<1>4. job' = [job EXCEPT ![w] = new] /\ UNCHANGED <<asset, copy>>
  BY DEF ReadForRevision, Start
<1>5. job'[w] = new
  BY <1>4 DEF IInv, TypeOK
<1>6. JobSound(w)'
  <2>1. /\ new.op = "check" /\ new.copy = c /\ new.version = s /\ new.serial = s
    BY <1>2 DEF Idle
  <2> HIDE DEF new
  <2> QED
    BY <1>1, <1>2, <1>4, <1>5, <2>1 DEF JobSound, Submitting
<1> HIDE DEF new
<1> QED
  BY <1>3, <1>4, <1>6, OneJob

(* The later checks keep what the first reads established. *)
LEMMA CheckPendingKeeps ==
  ASSUME IInv, NEW w \in Worker, CheckPending(w)
  PROVE  IInv'
<1> DEFINE new == [job[w] EXCEPT !.op = "revise"]
<1>1. job[w] \in Jobs /\ job[w].op = "check"
  BY DEF CheckPending, Serving, IInv, TypeOK
<1>2. new \in Jobs /\ new.op = "revise" /\ new.copy = job[w].copy
      /\ new.version = job[w].version /\ new.serial = job[w].serial
  BY <1>1 DEF Jobs
<1>3. job' = [job EXCEPT ![w] = new] /\ UNCHANGED <<asset, copy>>
  BY DEF CheckPending
<1> HIDE DEF new
<1>4. job'[w] = new
  BY <1>3 DEF IInv, TypeOK
<1>5. Submitting(w)
  BY <1>1 DEF IInv, JobsSound, JobSound
<1>6. JobSound(w)'
  BY <1>2, <1>3, <1>4, <1>5 DEF JobSound, Submitting
<1> QED
  BY <1>2, <1>3, <1>6, OneJob

(* An approval starts with no open alert. *)
LEMMA ReadForDecisionKeeps ==
  ASSUME IInv, NEW w \in Worker, NEW u \in User, NEW a \in Asset,
         ReadForDecision(w, u, a)
  PROVE  IInv'
<1>1. PICK op \in {"approve", "reject"} :
        /\ op = "approve" => ~UnderReview(a)
        /\ job' = [job EXCEPT ![w] = [Idle EXCEPT !.op = op, !.user = u, !.asset = a]]
  BY DEF ReadForDecision, Start
<1> DEFINE new == [Idle EXCEPT !.op = op, !.user = u, !.asset = a]
<1>2. new \in Jobs /\ new.op = op /\ new.asset = a
  BY DEF Idle, Jobs, Serials
<1> HIDE DEF new
<1>3. job' = [job EXCEPT ![w] = new] /\ UNCHANGED <<asset, copy>>
  BY <1>1 DEF ReadForDecision, new
<1>4. job'[w] = new
  BY <1>3 DEF IInv, TypeOK
<1>5. a \in Issued
  BY DEF ReadForDecision, Issued
<1>6. JobSound(w)'
  BY <1>1, <1>2, <1>3, <1>4, <1>5 DEF JobSound, UnderReview, Issued
<1> QED
  BY <1>2, <1>3, <1>6, OneJob

-----------------------------------------------------------------------------
(* Decisions, and the course of an alert. *)

(* A worker that did not move keeps its soundness when rows keep their     *)
(* place and no alert is opened anew.                                      *)
LEMMA OthersStaySound ==
  ASSUME IInv, NEW w \in Worker, job'[w] = job[w], Issued' = Issued,
         Submitting(w) => Submitting(w)',
         \A a \in Asset : asset'[a].alert = "open" => asset[a].alert = "open"
  PROVE  JobSound(w)'
BY DEF IInv, JobsSound, JobSound, Issued

(* A late approval decides a row again but moves no row. *)
LEMMA ApproveKeeps ==
  ASSUME IInv, NEW w \in Worker, Approve(w)
  PROVE  IInv'
<1> DEFINE a == job[w].asset
           parent == asset[a].parent
<1>1. a \in Asset /\ asset[a].status # "NONE" /\ asset[a].alert # "open"
  BY DEF Approve, Serving, IInv, JobsSound, JobSound, Issued
<1>2. asset' = [b \in Asset |->
          IF b = a THEN [asset[b] EXCEPT !.status = "APPROVED", !.life =
                           IF asset[b].version > 1 THEN "CREATED" ELSE @]
          ELSE IF b = parent THEN [asset[b] EXCEPT !.life = "OBSOLETE"]
          ELSE asset[b]]
      /\ UNCHANGED copy /\ Finish(w)
  BY DEF Approve
<1>3. ASSUME NEW b \in Asset
      PROVE  /\ asset'[b] \in Assets
             /\ asset'[b].version = asset[b].version /\ asset'[b].serial = asset[b].serial
             /\ asset'[b].parent = asset[b].parent /\ asset'[b].copy = asset[b].copy
             /\ asset'[b].alert = asset[b].alert
             /\ asset'[b].status = IF b = a THEN "APPROVED" ELSE asset[b].status
  <2>1. asset[b] \in Assets
    BY DEF IInv, TypeOK
  <2> QED
    BY <1>2, <2>1 DEF Assets
<1>4. \A b \in Asset : /\ asset'[b].status = "NONE" <=> asset[b].status = "NONE"
                       /\ Decided(b) => Decided(b)'
  BY <1>1, <1>3 DEF Decided
<1>5. asset' \in [Asset -> Assets]
  BY <1>2, <1>3
<1>6. /\ Issued' = Issued /\ copy' \in [Copy -> Copies] /\ ServerSerials'
      /\ SerialIsVersion' /\ ParentsPrecede' /\ Contiguous' /\ EarlierAreDecided'
      /\ CopiesOfVersions'
      /\ \A x \in Worker : job'[x] = job[x] /\ Submitting(x) => Submitting(x)'
  BY <1>2, <1>3, <1>4, <1>5, RowsKeepTheirPlace
<1>7. JobsSound'
  BY ZenonT(30), <1>2, <1>3, <1>6, FinishIsSound, OthersStaySound DEF JobsSound
<1>8. ReviewedBeforeApproval'
  BY <1>1, <1>3, <1>6 DEF ReviewedBeforeApproval, IInv, Issued
<1> QED
  BY <1>2, <1>5, <1>6, <1>7, <1>8, FinishIsSound DEF IInv, TypeOK

(* So does a late rejection. *)
LEMMA RejectKeeps ==
  ASSUME IInv, NEW w \in Worker, Reject(w)
  PROVE  IInv'
<1> DEFINE a == job[w].asset
<1>1. a \in Asset /\ asset[a].status # "NONE"
  BY DEF Reject, Serving, IInv, JobsSound, JobSound, Issued
<1>2. /\ asset' = [asset EXCEPT ![a].status = "REJECTED"]
      /\ UNCHANGED copy /\ Finish(w)
  BY DEF Reject
<1>3. ASSUME NEW b \in Asset
      PROVE  /\ asset'[b] \in Assets
             /\ asset'[b].version = asset[b].version /\ asset'[b].serial = asset[b].serial
             /\ asset'[b].parent = asset[b].parent /\ asset'[b].copy = asset[b].copy
             /\ asset'[b].alert = asset[b].alert
             /\ asset'[b].status = IF b = a THEN "REJECTED" ELSE asset[b].status
  <2>1. asset[b] \in Assets /\ asset \in [Asset -> Assets]
    BY DEF IInv, TypeOK
  <2> QED
    BY <1>1, <1>2, <2>1 DEF Assets
<1>4. \A b \in Asset : /\ asset'[b].status = "NONE" <=> asset[b].status = "NONE"
                       /\ Decided(b) => Decided(b)'
  BY <1>1, <1>3 DEF Decided
<1>5. asset' \in [Asset -> Assets]
  BY <1>2, <1>3 DEF IInv, TypeOK
<1>6. /\ Issued' = Issued /\ copy' \in [Copy -> Copies] /\ ServerSerials'
      /\ SerialIsVersion' /\ ParentsPrecede' /\ Contiguous' /\ EarlierAreDecided'
      /\ CopiesOfVersions'
      /\ \A x \in Worker : job'[x] = job[x] /\ Submitting(x) => Submitting(x)'
  BY <1>2, <1>3, <1>4, <1>5, RowsKeepTheirPlace
<1>7. JobsSound'
  BY <1>2, <1>3, <1>6, FinishIsSound, OthersStaySound DEF JobsSound
<1>8. ReviewedBeforeApproval'
  BY <1>3, <1>6 DEF ReviewedBeforeApproval, IInv, Issued
<1> QED
  BY <1>2, <1>5, <1>6, <1>7, <1>8, FinishIsSound DEF IInv, TypeOK

(* An alert that was closed once is never open in the first sense again. *)
LEMMA AlertKeeps ==
  ASSUME IInv, NEW a \in Asset, NEW state \in {"closed", "reopened"},
         asset' = [asset EXCEPT ![a].alert = state], UNCHANGED <<copy, job>>
  PROVE  IInv'
<1>1. ASSUME NEW b \in Asset
      PROVE  /\ asset'[b] \in Assets
             /\ asset'[b].version = asset[b].version /\ asset'[b].serial = asset[b].serial
             /\ asset'[b].parent = asset[b].parent /\ asset'[b].copy = asset[b].copy
             /\ asset'[b].status = asset[b].status
             /\ asset'[b].alert = IF b = a THEN state ELSE asset[b].alert
  <2>1. asset[b] \in Assets /\ asset \in [Asset -> Assets]
    BY DEF IInv, TypeOK
  <2> QED
    BY <2>1 DEF Assets
<1>2. asset' \in [Asset -> Assets]
  BY <1>1 DEF IInv, TypeOK
<1>3. \A b \in Asset : Decided(b) => Decided(b)'
  BY <1>1 DEF Decided
<1>4. /\ Issued' = Issued /\ copy' \in [Copy -> Copies] /\ ServerSerials'
      /\ SerialIsVersion' /\ ParentsPrecede' /\ Contiguous' /\ EarlierAreDecided'
      /\ CopiesOfVersions'
      /\ \A x \in Worker : job'[x] = job[x] /\ Submitting(x) => Submitting(x)'
  BY <1>1, <1>2, <1>3, RowsKeepTheirPlace
<1>5. JobsSound'
  BY <1>1, <1>4, OthersStaySound DEF JobsSound
<1>6. ReviewedBeforeApproval'
  BY <1>1, <1>4 DEF ReviewedBeforeApproval, IInv, Issued
<1> QED
  BY <1>2, <1>4, <1>5, <1>6 DEF IInv, TypeOK

-----------------------------------------------------------------------------
(* Modification copies. *)

(* A copy appears for, or changes its standing with, a decided version;    *)
(* what a copy in use was made from never changes.                         *)
LEMMA CopyStep ==
  ASSUME IInv, UNCHANGED <<asset, job>>, NEW c \in Copy, NEW row \in Copies,
         copy' = [copy EXCEPT ![c] = row], row.status # "NONE",
         row.of \in Issued, Decided(row.of),
         copy[c].status # "NONE" => row.of = copy[c].of
  PROVE  IInv'
<1>1. /\ copy'[c] = row /\ copy' \in [Copy -> Copies]
      /\ \A d \in Copy : d # c => copy'[d] = copy[d]
  BY DEF IInv, TypeOK
<1>2. Issued' = Issued /\ \A a \in Asset : Decided(a)' <=> Decided(a)
  BY DEF Issued, Decided
<1>3. CopiesOfVersions'
  <2>1. ASSUME NEW d \in Copy, copy'[d].status # "NONE"
        PROVE  (copy[d].of \in Issued)' /\ Decided(copy[d].of)'
    <3>1. CASE d = c
      BY <1>1, <1>2, <3>1 DEF Issued, Decided
    <3>2. CASE d # c
      BY <1>1, <1>2, <2>1, <3>2 DEF IInv, CopiesOfVersions, Issued, Decided
    <3> QED
      BY <3>1, <3>2
  <2>2. ASSUME NEW a \in Issued, asset[a].copy # NoCopy
        PROVE  /\ copy'[asset[a].copy].status # "NONE"
               /\ asset[a].parent = copy'[asset[a].copy].of
    <3>1. /\ copy[asset[a].copy].status # "NONE"
          /\ asset[a].parent = copy[asset[a].copy].of
          /\ asset[a].copy \in Copy
      BY <2>2 DEF IInv, CopiesOfVersions, TypeOK, Assets, Issued
    <3> QED
      BY <1>1, <3>1
  <2>3. \A d \in Copy : copy'[d].used => copy'[d].status # "NONE"
    BY <1>1 DEF IInv, CopiesOfVersions
  <2>4. \A a \in Issued' : asset'[a].copy # NoCopy
          => /\ copy'[asset'[a].copy].status # "NONE"
             /\ asset'[a].parent = copy'[asset'[a].copy].of
    BY <1>2, <2>2
  <2> QED
    BY <2>1, <2>3, <2>4 DEF CopiesOfVersions
<1>4. JobsSound'
  <2>1. ASSUME NEW w \in Worker, Submitting(w) PROVE Submitting(w)'
    BY <1>1, <2>1 DEF Submitting
  <2> QED
    BY <1>2, <2>1 DEF IInv, JobsSound, JobSound
<1> QED
  BY <1>1, <1>2, <1>3, <1>4 DEF IInv, TypeOK, ServerSerials, SerialIsVersion, ParentsPrecede,
     Contiguous, EarlierAreDecided, Decided, Issued, ReviewedBeforeApproval

(* A copy is requested of an approved version. *)
LEMMA RequestCopyKeeps ==
  ASSUME IInv, NEW u \in User, NEW c \in Copy, NEW a \in Asset, RequestCopy(u, c, a)
  PROVE  IInv'
<1> DEFINE row == [NoCopyRow EXCEPT !.status = "REQUESTED", !.of = a, !.by = u]
<1>1. row \in Copies /\ row.status # "NONE" /\ row.of = a
  BY DEF NoCopyRow, Copies
<1>2. copy' = [copy EXCEPT ![c] = row] /\ UNCHANGED <<asset, job>> /\ copy[c].status = "NONE"
  BY DEF RequestCopy
<1>3. a \in Issued /\ Decided(a)
  BY DEF RequestCopy, Issued, Decided
<1> HIDE DEF row
<1> QED
  BY <1>1, <1>2, <1>3, CopyStep

(* So is an owner's copy. *)
LEMMA OwnerCopyKeeps ==
  ASSUME IInv, NEW c \in Copy, NEW a \in Asset, OwnerCopy(c, a)
  PROVE  IInv'
<1> DEFINE row == [NoCopyRow EXCEPT !.status = "COMPLETED", !.of = a, !.by = Owner]
<1>1. row \in Copies /\ row.status # "NONE" /\ row.of = a
  BY OwnerAssumption DEF NoCopyRow, Copies
<1>2. copy' = [copy EXCEPT ![c] = row] /\ UNCHANGED <<asset, job>> /\ copy[c].status = "NONE"
  BY DEF OwnerCopy
<1>3. a \in Issued /\ Decided(a)
  BY DEF OwnerCopy, Issued, Decided
<1> HIDE DEF row
<1> QED
  BY <1>1, <1>2, <1>3, CopyStep

(* Fetching a copy, or losing the mark of its use, changes nothing else. *)
LEMMA CopyMarkKeeps ==
  ASSUME IInv, NEW c \in Copy, FetchCopy(c) \/ Refetch(c)
  PROVE  IInv'
<1>0. copy[c].status # "NONE"
  BY DEF FetchCopy, Refetch, IInv, CopiesOfVersions
<1>1. PICK row \in Copies : /\ copy' = [copy EXCEPT ![c] = row]
                            /\ row.of = copy[c].of /\ row.status # "NONE"
  <2>1. copy[c] \in Copies /\ copy[c].status # "NONE"
    BY <1>0 DEF IInv, TypeOK
  <2>2. CASE FetchCopy(c)
    <3>1. [copy[c] EXCEPT !.status = "COMPLETED"] \in Copies
      BY <2>1 DEF Copies
    <3>2. copy' = [copy EXCEPT ![c] = [copy[c] EXCEPT !.status = "COMPLETED"]]
      BY <2>2 DEF FetchCopy
    <3> QED
      BY <2>1, <3>1, <3>2 DEF Copies
  <2>3. CASE Refetch(c)
    <3>1. [copy[c] EXCEPT !.used = FALSE] \in Copies
      BY <2>1 DEF Copies
    <3>2. copy' = [copy EXCEPT ![c] = [copy[c] EXCEPT !.used = FALSE]]
      BY <2>3 DEF Refetch
    <3> QED
      BY <2>1, <3>1, <3>2 DEF Copies
  <2> QED
    BY <2>2, <2>3
<1>2. copy[c].of \in Issued /\ Decided(copy[c].of)
  BY <1>0 DEF IInv, CopiesOfVersions
<1>3. UNCHANGED <<asset, job>>
  BY DEF FetchCopy, Refetch
<1> QED
  BY <1>1, <1>2, <1>3, CopyStep

-----------------------------------------------------------------------------
(* New rows. *)

(* The first row of a lineage. *)
LEMMA ProposeDocumentKeeps ==
  ASSUME IInv, NEW u \in User, NEW a \in Asset, ProposeDocument(u, a)
  PROVE  IInv'
<1> DEFINE row == [NoRow EXCEPT !.status = IF CanManage(u) THEN "APPROVED" ELSE "PENDING",
                                !.version = 1, !.serial = 1, !.life = "CREATED",
                                !.by = u]
<1>1. /\ row \in Assets /\ row.status \in {"APPROVED", "PENDING"} /\ row.version = 1
      /\ row.serial = 1 /\ row.parent = NoAsset /\ row.copy = NoCopy /\ row.alert = "none"
  BY DEF NoRow, Assets, Serials
<1>2. asset' = [asset EXCEPT ![a] = row] /\ UNCHANGED <<copy, job>> /\ Issued = {}
  BY DEF ProposeDocument
<1> HIDE DEF row
<1>3. /\ asset'[a] = row /\ asset' \in [Asset -> Assets]
      /\ \A b \in Asset : b # a => asset'[b] = asset[b]
  BY <1>1, <1>2 DEF IInv, TypeOK
<1>4. Issued' = {a}
  BY <1>1, <1>2, <1>3 DEF Issued
<1>5. \A c \in Copy : copy[c].status = "NONE"
  BY <1>2 DEF IInv, CopiesOfVersions
<1>6. \A w \in Worker : job[w].op = "idle"
  <2>1. \A w \in Worker : job[w] \in Jobs
    BY DEF IInv, TypeOK
  <2> QED
    BY <1>2, <1>5, <2>1 DEF IInv, JobsSound, JobSound, Submitting, Jobs
<1>7. SerialIsVersion' /\ ParentsPrecede' /\ EarlierAreDecided'
  BY <1>1, <1>3, <1>4 DEF SerialIsVersion, ParentsPrecede, EarlierAreDecided
<1>8. Contiguous'
  BY <1>1, <1>3, <1>4 DEF Contiguous
<1>9. CopiesOfVersions' /\ JobsSound' /\ ReviewedBeforeApproval'
  BY <1>1, <1>2, <1>3, <1>4, <1>5, <1>6 DEF CopiesOfVersions, JobsSound, JobSound,
     ReviewedBeforeApproval, IInv
<1> QED
  BY <1>2, <1>3, <1>7, <1>8, <1>9 DEF IInv, TypeOK, ServerSerials

(* The heart of the argument: a handler that still finds its serial number *)
(* free has the latest version before it, and all the others are decided.  *)
LEMMA FreeSerialIsNext ==
  ASSUME IInv, NEW w \in Worker, Submitting(w), ~Taken(job[w].serial)
  PROVE  \A b \in Issued : asset[b].version < job[w].version /\ Decided(b)
<1> DEFINE p == copy[job[w].copy].of
           k == job[w].version
<1>1. p \in Issued /\ Decided(p) /\ k = asset[p].version + 1 /\ asset[p].version \in Nat
  BY DEF Submitting, IInv, CopiesOfVersions, SerialIsVersion
<1>2. \A b \in Issued : asset[b].version \in Nat /\ asset[b].version # k
  BY DEF Taken, Submitting, IInv, SerialIsVersion
<1>3. ASSUME NEW b \in Issued, asset[b].version > k
      PROVE  FALSE
  <2>1. k \in 1..asset[b].version
    BY SMTT(20), <1>1, <1>2, <1>3
  <2> QED
    BY <1>2, <2>1 DEF IInv, Contiguous
<1>4. ASSUME NEW b \in Issued
      PROVE  asset[b].version < k /\ Decided(b)
  <2>1. asset[b].version < k
    BY SMTT(20), <1>1, <1>2, <1>3
  <2>2. CASE asset[b].version = asset[p].version
    BY <1>1, <2>1, <2>2 DEF IInv, SerialIsVersion
  <2>3. CASE asset[b].version < asset[p].version
    BY <1>1, <2>1, <2>3 DEF IInv, EarlierAreDecided
  <2> QED
    BY SMTT(20), <1>1, <1>2, <2>1, <2>2, <2>3
<1> QED
  BY <1>4

(* The new row is the last of the lineage. *)
LEMMA SubmitKeeps ==
  ASSUME IInv, NEW w \in Worker, NEW a \in Asset, NEW flagged \in BOOLEAN,
         Submit(w, a, flagged)
  PROVE  IInv'
<1> DEFINE direct == job[w].upload /\ Role[job[w].user] = "ADMIN" /\ ~flagged
           c == job[w].copy
           p == copy[c].of
           k == job[w].version
           row == Revision(w, flagged, direct)
<1>1. /\ Submitting(w) /\ job[w] \in Jobs /\ c \in Copy /\ copy[c] \in Copies
      /\ p \in Issued /\ Decided(p) /\ k = asset[p].version + 1
      /\ asset[p].version \in Nat \ {0}
  BY DEF Submit, Serving, IInv, TypeOK, JobsSound, JobSound, Submitting,
     CopiesOfVersions, SerialIsVersion
<1>2. /\ asset[a].status = "NONE" /\ ~Taken(job[w].serial)
      /\ asset' = [asset EXCEPT ![a] = row, ![p].life = IF direct THEN "OBSOLETE" ELSE @]
      /\ copy' = [copy EXCEPT ![c].used = TRUE]
      /\ Finish(w)
  BY DEF Submit
<1>3. /\ row \in Assets /\ row.status \in {"APPROVED", "PENDING"}
      /\ row.version = k /\ row.serial = k /\ row.parent = p /\ row.copy = c
      /\ row.status = "APPROVED" => row.alert # "open"
  BY ZenonT(30), <1>1 DEF Revision, NoRow, Assets, Serials, Jobs, Issued, Submitting
<1>4. a # p /\ p \in Asset
  BY <1>1, <1>2 DEF Issued
<1> HIDE DEF row, direct
<1>5. ASSUME NEW b \in Asset
      PROVE  /\ asset'[b] \in Assets
             /\ IF b = a THEN asset'[b] = row
                ELSE /\ asset'[b].version = asset[b].version
                     /\ asset'[b].serial = asset[b].serial
                     /\ asset'[b].parent = asset[b].parent
                     /\ asset'[b].copy = asset[b].copy
                     /\ asset'[b].status = asset[b].status
                     /\ asset'[b].alert = asset[b].alert
  <2>1. asset[b] \in Assets /\ asset \in [Asset -> Assets]
    BY DEF IInv, TypeOK
  <2>2. CASE b = a
    BY <1>2, <1>3, <1>4, <2>1, <2>2
  <2>3. CASE b = p
    <3>1. asset'[b] = [asset[b] EXCEPT !.life = IF direct THEN "OBSOLETE" ELSE @]
      BY <1>2, <1>4, <2>1, <2>3
    <3> QED
      BY <1>4, <2>1, <2>3, <3>1 DEF Assets
  <2>4. CASE b # a /\ b # p
    BY <1>2, <2>1, <2>4
  <2> QED
    BY <2>2, <2>3, <2>4
<1>6. asset' \in [Asset -> Assets]
  BY <1>2, <1>5 DEF IInv, TypeOK
<1>7. Issued' = Issued \union {a} /\ a \notin Issued
  BY <1>2, <1>3, <1>5 DEF Issued
<1>8. \A b \in Issued : asset[b].version < k /\ Decided(b) /\ asset[b].version \in Nat
  BY <1>1, <1>2, FreeSerialIsNext DEF IInv, SerialIsVersion
<1>9. \A b \in Issued : b # a /\ b \in Asset /\ Decided(b)'
  BY <1>5, <1>7, <1>8 DEF Decided, Issued
<1>10. SerialIsVersion'
  BY SMTT(20), <1>1, <1>3, <1>5, <1>7, <1>8, <1>9 DEF IInv, SerialIsVersion
<1>11. ParentsPrecede'
  BY SMTT(20), <1>1, <1>3, <1>4, <1>5, <1>7, <1>9 DEF IInv, ParentsPrecede
<1>12. Contiguous'
  <2>1. ASSUME NEW b \in Issued', NEW n \in 1..asset'[b].version
        PROVE  \E d \in Issued' : asset'[d].version = n
    <3>1. CASE b = a /\ n = k
      BY <1>3, <1>5, <1>7, <3>1
    <3>2. CASE b = a /\ n # k
      <4>1. n \in 1..asset[p].version
        BY SMTT(20), <1>1, <1>3, <1>5, <2>1, <3>2
      <4>2. PICK d \in Issued : asset[d].version = n
        BY <1>1, <4>1 DEF IInv, Contiguous
      <4> QED
        BY <1>5, <1>7, <1>9, <4>2
    <3>3. CASE b # a
      <4>1. b \in Issued /\ n \in 1..asset[b].version
        BY <1>5, <1>7, <1>9, <2>1, <3>3
      <4>2. PICK d \in Issued : asset[d].version = n
        BY <4>1 DEF IInv, Contiguous
      <4> QED
        BY <1>5, <1>7, <1>9, <4>2
    <3> QED
      BY <3>1, <3>2, <3>3
  <2> QED
    BY <2>1 DEF Contiguous
<1>13. EarlierAreDecided'
  <2>1. ASSUME NEW b \in Issued', NEW d \in Issued', asset'[b].version < asset'[d].version
        PROVE  Decided(b)'
    <3>1. b # a
      BY SMTT(20), <1>1, <1>3, <1>5, <1>7, <1>8, <1>9, <2>1
    <3> QED
      BY <1>7, <1>9, <3>1
  <2> QED
    BY <2>1 DEF EarlierAreDecided
<1>14. /\ copy' \in [Copy -> Copies]
       /\ \A d \in Copy : copy'[d].status = copy[d].status /\ copy'[d].of = copy[d].of
       /\ copy[c].status # "NONE"
       /\ \A d \in Copy : copy'[d].used => copy'[d].status # "NONE"
  <2>1. copy' = [copy EXCEPT ![c] = [copy[c] EXCEPT !.used = TRUE]]
    BY <1>2
  <2>2. /\ [copy[c] EXCEPT !.used = TRUE] \in Copies
        /\ [copy[c] EXCEPT !.used = TRUE].status = copy[c].status
        /\ [copy[c] EXCEPT !.used = TRUE].of = copy[c].of
    BY <1>1 DEF Copies
  <2>3. copy[c].status # "NONE"
    BY <1>1 DEF Submitting
  <2> QED
    BY <1>1, <2>1, <2>2, <2>3 DEF IInv, TypeOK, CopiesOfVersions
<1>15. CopiesOfVersions'
  <2>1. \A d \in Copy : copy'[d].status # "NONE"
          => copy'[d].of \in Issued' /\ copy'[d].of \in Issued
    BY <1>7, <1>14 DEF IInv, CopiesOfVersions
  <2>2. ASSUME NEW d \in Copy, copy'[d].status # "NONE"
        PROVE  Decided(copy[d].of)'
    BY <1>9, <2>1, <2>2 DEF Decided
  <2>3. \A b \in Issued' : asset'[b].copy # NoCopy
          => /\ copy'[asset'[b].copy].status # "NONE"
             /\ asset'[b].parent = copy'[asset'[b].copy].of
    <3>1. ASSUME NEW b \in Issued, asset[b].copy # NoCopy
          PROVE  /\ asset[b].copy \in Copy /\ copy[asset[b].copy].status # "NONE"
                 /\ asset[b].parent = copy[asset[b].copy].of
      BY <3>1 DEF IInv, CopiesOfVersions, TypeOK, Assets, Issued
    <3> QED
      BY SMTT(20), <1>1, <1>3, <1>5, <1>7, <1>9, <1>14, <3>1
  <2> QED
    BY <1>14, <2>1, <2>2, <2>3 DEF CopiesOfVersions
<1>16. JobsSound'
  <2>1. ASSUME NEW x \in Worker, x # w PROVE JobSound(x)'
    <3>1. job'[x] = job[x] /\ JobSound(x)
      BY <1>2, <2>1, FinishIsSound DEF IInv, JobsSound
    <3>2. Submitting(x) => Submitting(x)'
      <4>1. ASSUME Submitting(x) PROVE copy[job[x].copy].of \in Issued
        BY <4>1 DEF Submitting, IInv, CopiesOfVersions
      <4> QED
        BY <1>5, <1>9, <1>14, <3>1, <4>1 DEF Submitting
    <3> QED
      BY <1>5, <1>7, <1>9, <3>1, <3>2 DEF JobSound
  <2> QED
    BY <1>2, <2>1, FinishIsSound DEF JobsSound
<1>17. ReviewedBeforeApproval'
  BY <1>3, <1>5, <1>7, <1>9 DEF IInv, ReviewedBeforeApproval
<1> QED
  BY <1>2, <1>6, <1>10, <1>11, <1>12, <1>13, <1>14, <1>15, <1>16, <1>17, FinishIsSound
  DEF IInv, TypeOK, ServerSerials

-----------------------------------------------------------------------------
(* The theorems. *)

(* Every step of Next keeps the invariant. *)
LEMMA NextKeeps == IInv /\ [Next]_vars => IInv'
<1> SUFFICES ASSUME IInv, [Next]_vars PROVE IInv'
  OBVIOUS
<1>1. CASE \E w \in Worker, c \in Copy, upload \in BOOLEAN :
             \E s \in RequestedSerial \union {asset[a].version + 1 : a \in ApprovedVersions} :
               ReadForRevision(w, c, s, upload)
  BY <1>1, ReadForRevisionKeeps
<1>2. CASE \E w \in Worker, a \in Asset, flagged \in BOOLEAN : Submit(w, a, flagged)
  BY <1>2, SubmitKeeps
<1>3. CASE \E w \in Worker, u \in User, a \in Asset : ReadForDecision(w, u, a)
  BY <1>3, ReadForDecisionKeeps
<1>4. CASE \E w \in Worker : CheckPending(w) \/ Approve(w) \/ Reject(w) \/ Abort(w)
  BY <1>4, CheckPendingKeeps, ApproveKeeps, RejectKeeps, AbortKeeps
<1>5. CASE \E a \in Asset : CloseAlert(a) \/ ReopenAlert(a)
  BY <1>5, AlertKeeps DEF CloseAlert, ReopenAlert
<1>6. CASE UNCHANGED vars
  <2>1. job' \in [Worker -> Jobs] /\ UNCHANGED <<asset, copy, job>>
    BY <1>6 DEF vars, IInv, TypeOK
  <2>2. \A w \in Worker : JobSound(w)'
    BY <2>1 DEF IInv, JobsSound, JobSound, Submitting, Issued
  <2> QED
    BY <2>1, <2>2, JobsOnly
<1> QED
  BY <1>1, <1>2, <1>3, <1>4, <1>5, <1>6, ProposeDocumentKeeps, RequestCopyKeeps,
     OwnerCopyKeeps, CopyMarkKeeps DEF Next

(* As long as the server chooses the serial numbers, the inductive         *)
(* invariant holds of every behaviour.                                     *)
THEOREM Invariance == ServerSerials /\ Spec => []IInv
BY InitInvariant, NextKeeps, PTL DEF Spec

(* Every value stays in the columns' types.                                *)
THEOREM TypeCorrect == ServerSerials /\ Spec => []TypeOK
BY Invariance, PTL DEF IInv

(* The lineage never forks, however submissions and decisions interleave.  *)
THEOREM NoForks == ServerSerials /\ Spec => []LineageIsAChain
BY Invariance, ChainFromInvariant, PTL

(* Two revisions are never pending together, although _create_revision     *)
(* checks and inserts without a lock.                                      *)
THEOREM RevisionsTakeTurns == ServerSerials /\ Spec => []OnePendingRevision
BY Invariance, OnePendingFromInvariant, PTL

(* A modification copy leads to one revision at most.                      *)
THEOREM CopiesAreSingleUse == ServerSerials /\ Spec => []CopyUsedOnce
BY Invariance, CopyUsedOnceFromInvariant, PTL

(* A tampered revision is approved only after its security review.         *)
THEOREM TamperingIsReviewed == ServerSerials /\ Spec => []ReviewedBeforeApproval
BY Invariance, PTL DEF IInv
=============================================================================
