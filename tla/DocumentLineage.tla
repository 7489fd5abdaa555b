-------------------------- MODULE DocumentLineage ---------------------------
(***************************************************************************)
(* The versions of one document: its creation, modification copies, the    *)
(* revisions made from them, and the decisions on creations and revisions  *)
(* (src/backend/app/api/assets.py).                                        *)
(*                                                                         *)
(* As in DownloadWorkflow a handler that reads and later writes is two     *)
(* steps of a worker.  Nothing locks the lineage: that no two revisions of *)
(* the same version are accepted together rests on one thing, the unique   *)
(* index on assets.serial_number, because the server derives the serial    *)
(* number of a revision from its version number.  A client of /document/   *)
(* revise may choose another serial number (RequestedSerial).              *)
(*                                                                         *)
(* An asset row and the action that created it are decided together, so    *)
(* one record stands for both.                                             *)
(***************************************************************************)
EXTENDS DocumentAuthority, Naturals

CONSTANTS
  Asset,             \* rows of the assets table that this document may use
  Copy,              \* MODIFICATION downloads (DL- identifiers)
  Worker,            \* concurrently running request handlers
  RequestedSerial,   \* serial numbers clients ask for
  NoAsset, NoCopy

ASSUME SerialAssumption == RequestedSerial \intersect Nat = {}
ASSUME NoneAssumption   == NoAsset \notin Asset /\ NoCopy \notin Copy

VARIABLES
  asset,      \* assets joined with their CREATION or MODIFICATION action
  copy,       \* the document_actions rows of modification copies
  job         \* what each worker is doing and what it read

vars == <<asset, copy, job>>

-----------------------------------------------------------------------------
(* Types and derived state. *)

Serials == Nat \union RequestedSerial

Assets == [status  : {"NONE", "PENDING", "APPROVED", "REJECTED"},
           version : Nat,                      \* version_number
           serial  : Serials,
           parent  : Asset \union {NoAsset},   \* parent_asset_id
           life    : {"PENDING", "CREATED", "OBSOLETE"},
           by      : User \union {NoUser},     \* the action's actor
           copy    : Copy \union {NoCopy},     \* details.download_id
           alert   : {"none", "open", "closed", "reopened"}]

Copies == [status : {"NONE", "REQUESTED", "COMPLETED"},
           of     : Asset \union {NoAsset},
           by     : User \union {NoUser},
           used   : BOOLEAN]                   \* details.revision_mod_id is set

Jobs == [op : {"idle", "check", "revise", "approve", "reject"},
         user : User \union {NoUser},
         asset : Asset \union {NoAsset},
         copy : Copy \union {NoCopy},
         version : Nat, serial : Serials,
         upload : BOOLEAN]

NoRow == [status |-> "NONE", version |-> 0, serial |-> 0, parent |-> NoAsset,
          life |-> "PENDING", by |-> NoUser, copy |-> NoCopy, alert |-> "none"]
NoCopyRow == [status |-> "NONE", of |-> NoAsset, by |-> NoUser, used |-> FALSE]
Idle == [op |-> "idle", user |-> NoUser, asset |-> NoAsset, copy |-> NoCopy,
         version |-> 0, serial |-> 0, upload |-> FALSE]

TypeOK ==
  /\ asset \in [Asset -> Assets]
  /\ copy \in [Copy -> Copies]
  /\ job \in [Worker -> Jobs]

Init ==
  /\ asset = [a \in Asset |-> NoRow]
  /\ copy = [c \in Copy |-> NoCopyRow]
  /\ job = [w \in Worker |-> Idle]

Issued == {a \in Asset : asset[a].status # "NONE"}
ApprovedVersions == {a \in Asset : asset[a].status = "APPROVED"}
Taken(s) == \E a \in Issued : asset[a].serial = s

(* _lineage_state *)
IsLatest(a) == \A b \in ApprovedVersions : asset[b].version <= asset[a].version
RevisionPending == \E a \in Issued : asset[a].version > 1 /\ asset[a].status = "PENDING"

Serving(w, op) == job[w].op = op
Start(w, new) == Serving(w, "idle") /\ job' = [job EXCEPT ![w] = new]
Finish(w) == job' = [job EXCEPT ![w] = Idle]

-----------------------------------------------------------------------------
(* propose_document_creation: version 1, approved at once when the proposer *)
(* manages the document's department.  Its serial number is the client's,   *)
(* written 1 here: no revision is ever given it.                            *)
ProposeDocument(u, a) ==
  /\ Issued = {}
  /\ Role[u] # "AUDITOR"
  /\ asset' = [asset EXCEPT ![a] =
                 [NoRow EXCEPT !.status = IF CanManage(u) THEN "APPROVED" ELSE "PENDING",
                               !.version = 1, !.serial = 1, !.life = "CREATED",
                               !.by = u]]
  /\ UNCHANGED <<copy, job>>

(* request_document_download with mode MODIFICATION, as far as the lineage  *)
(* is concerned (DownloadWorkflow has the rest).                            *)
RequestCopy(u, c, a) ==
  /\ copy[c].status = "NONE"
  /\ asset[a].status = "APPROVED"
  /\ Role[u] # "AUDITOR"
  /\ IsLatest(a)
  /\ ~RevisionPending
  /\ copy' = [copy EXCEPT ![c] = [NoCopyRow EXCEPT !.status = "REQUESTED",
                                                   !.of = a, !.by = u]]
  /\ UNCHANGED <<asset, job>>

(* The request is approved and fetched.  The version, and whether it is     *)
(* still the latest, are not looked at again.                               *)
FetchCopy(c) ==
  /\ copy[c].status = "REQUESTED"
  /\ copy' = [copy EXCEPT ![c].status = "COMPLETED"]
  /\ UNCHANGED <<asset, job>>

(* owner_download with mode MODIFICATION. *)
OwnerCopy(c, a) ==
  /\ copy[c].status = "NONE"
  /\ asset[a].status = "APPROVED"
  /\ CanManage(Owner)
  /\ IsLatest(a)
  /\ ~RevisionPending
  /\ copy' = [copy EXCEPT ![c] = [NoCopyRow EXCEPT !.status = "COMPLETED",
                                                   !.of = a, !.by = Owner]]
  /\ UNCHANGED <<asset, job>>

(* A second fetch, after a stale approval reopened the request (see         *)
(* DownloadTwice), writes back the details it had read before the revision. *)
Refetch(c) ==
  /\ copy[c].used
  /\ copy' = [copy EXCEPT ![c].used = FALSE]
  /\ UNCHANGED <<asset, job>>

-----------------------------------------------------------------------------
(* Revisions: revise_document and upload_revision, both by _create_revision *)

(* The serial number is derived from the version unless the client of       *)
(* /document/revise names one.                                              *)
SerialsFor(a, upload) ==
  {asset[a].version + 1} \union (IF upload THEN {} ELSE RequestedSerial)

(* The first reads of _create_revision: a fetched and unused modification   *)
(* copy of the latest approved version.                                     *)
ReadForRevision(w, c, s, upload) ==
  LET a == copy[c].of
  IN /\ copy[c].status = "COMPLETED"
     /\ ~copy[c].used
     /\ asset[a].status = "APPROVED"
     /\ IsLatest(a)
     /\ s \in SerialsFor(a, upload)
     /\ Start(w, [Idle EXCEPT !.op = "check", !.user = copy[c].by, !.copy = c,
                              !.version = asset[a].version + 1,
                              !.serial = s, !.upload = upload])
     /\ UNCHANGED <<asset, copy>>

(* Its later reads, each a statement of its own: nothing is pending and the *)
(* serial number is free.                                                   *)
CheckPending(w) ==
  /\ Serving(w, "check")
  /\ ~RevisionPending
  /\ ~Taken(job[w].serial)
  /\ job' = [job EXCEPT ![w].op = "revise"]
  /\ UNCHANGED <<asset, copy>>

Revision(w, flagged, direct) ==
  [NoRow EXCEPT !.status = IF direct THEN "APPROVED" ELSE "PENDING",
                !.version = job[w].version,
                !.serial = job[w].serial,
                !.parent = copy[job[w].copy].of,
                !.life = IF direct THEN "CREATED" ELSE "PENDING",
                !.by = job[w].user,
                !.copy = job[w].copy,
                !.alert = IF flagged THEN "open" ELSE "none"]

(* A mistake: serial numbers are not unique in the database.                *)
SubmitAnySerial(w, a, flagged) ==
  LET direct == job[w].upload /\ Role[job[w].user] = "ADMIN" /\ ~flagged
      parent == copy[job[w].copy].of
  IN /\ Serving(w, "revise")
     /\ asset[a].status = "NONE"
     /\ asset' = [asset EXCEPT ![a] = Revision(w, flagged, direct),
                               ![parent].life = IF direct THEN "OBSOLETE" ELSE @]
     /\ copy' = [copy EXCEPT ![job[w].copy].used = TRUE]
     /\ Finish(w)

(* The revision is inserted and the copy marked as used.  The index refuses *)
(* a serial number that was taken since it was read (the handler then ends  *)
(* by Abort).  An Administrator's upload is approved in the same            *)
(* transaction unless its watermark was tampered with, which raises an      *)
(* alert instead.                                                           *)
Submit(w, a, flagged) ==
  LET direct == job[w].upload /\ Role[job[w].user] = "ADMIN" /\ ~flagged
      parent == copy[job[w].copy].of
  IN /\ Serving(w, "revise")
     /\ asset[a].status = "NONE"
     /\ ~Taken(job[w].serial)
     /\ asset' = [asset EXCEPT ![a] = Revision(w, flagged, direct),
                               ![parent].life = IF direct THEN "OBSOLETE" ELSE @]
     /\ copy' = [copy EXCEPT ![job[w].copy].used = TRUE]
     /\ Finish(w)

-----------------------------------------------------------------------------
(* Decisions on a creation or a revision: approve_document. *)

UnderReview(a) == asset[a].alert \in {"open", "reopened"}

(* A mistake: the security review is not asked about.                       *)
ReadForDecisionIgnoringReview(w, u, a) ==
  /\ CanManage(u)
  /\ asset[a].status = "PENDING"
  /\ ~(Role[u] = "MANAGER" /\ asset[a].by = u)
  /\ \E op \in {"approve", "reject"} :
       Start(w, [Idle EXCEPT !.op = op, !.user = u, !.asset = a])
  /\ UNCHANGED <<asset, copy>>

(* Every check is made on the rows as they are read; only an approval asks  *)
(* whether the revision is under security review.                           *)
ReadForDecision(w, u, a) ==
  /\ CanManage(u)
  /\ asset[a].status = "PENDING"
  /\ ~(Role[u] = "MANAGER" /\ asset[a].by = u)
  /\ \E op \in {"approve", "reject"} :
       /\ op = "approve" => ~UnderReview(a)
       /\ Start(w, [Idle EXCEPT !.op = op, !.user = u, !.asset = a])
  /\ UNCHANGED <<asset, copy>>

(* _apply_approval: the version becomes current and its parent obsolete.    *)
Approve(w) ==
  LET a == job[w].asset
      parent == asset[a].parent
  IN /\ Serving(w, "approve")
     /\ asset' = [b \in Asset |->
          IF b = a THEN [asset[b] EXCEPT !.status = "APPROVED", !.life =
                           IF asset[b].version > 1 THEN "CREATED" ELSE @]
          ELSE IF b = parent THEN [asset[b] EXCEPT !.life = "OBSOLETE"]
          ELSE asset[b]]
     /\ Finish(w)
     /\ UNCHANGED copy

Reject(w) ==
  /\ Serving(w, "reject")
  /\ asset' = [asset EXCEPT ![job[w].asset].status = "REJECTED"]
  /\ Finish(w)
  /\ UNCHANGED copy

(* The alert about a tampered copy is dismissed or leads to a revocation; a *)
(* stale transition can take it back out of its final state                 *)
(* (services/alerts.py, api/alerts.py).                                     *)
CloseAlert(a) ==
  /\ UnderReview(a)
  /\ asset' = [asset EXCEPT ![a].alert = "closed"]
  /\ UNCHANGED <<copy, job>>

ReopenAlert(a) ==
  /\ asset[a].alert = "closed"
  /\ asset' = [asset EXCEPT ![a].alert = "reopened"]
  /\ UNCHANGED <<copy, job>>

(* A handler ends without committing. *)
Abort(w) ==
  /\ ~Serving(w, "idle")
  /\ Finish(w)
  /\ UNCHANGED <<asset, copy>>

Next ==
  \/ \E u \in User, a \in Asset : ProposeDocument(u, a)
  \/ \E u \in User, c \in Copy, a \in Asset : RequestCopy(u, c, a)
  \/ \E c \in Copy : FetchCopy(c) \/ Refetch(c)
  \/ \E c \in Copy, a \in Asset : OwnerCopy(c, a)
  \/ \E w \in Worker, c \in Copy, upload \in BOOLEAN :
       \E s \in RequestedSerial \union {asset[a].version + 1 : a \in ApprovedVersions} :
         ReadForRevision(w, c, s, upload)
  \/ \E w \in Worker, a \in Asset, flagged \in BOOLEAN : Submit(w, a, flagged)
  \/ \E w \in Worker, u \in User, a \in Asset : ReadForDecision(w, u, a)
  \/ \E w \in Worker : CheckPending(w) \/ Approve(w) \/ Reject(w) \/ Abort(w)
  \/ \E a \in Asset : CloseAlert(a) \/ ReopenAlert(a)

Spec == Init /\ [][Next]_vars

-----------------------------------------------------------------------------
(* Properties *)

(* The lineage never forks: every revision follows the version it was made  *)
(* from, and no version has two revisions made from it, however submissions *)
(* and decisions interleave (when serial numbers are the server's).         *)
LineageIsAChain ==
  /\ \A a \in Issued : asset[a].version > 1
       => /\ asset[a].parent \in Issued
          /\ asset[a].version = asset[asset[a].parent].version + 1
  /\ \A a, b \in Issued : asset[a].parent = asset[b].parent => a = b

(* "A revision of this document is already pending approval": never two at  *)
(* a time, although the check and the insertion are separate.               *)
OnePendingRevision ==
  \A a, b \in Issued :
    asset[a].status = "PENDING" /\ asset[b].status = "PENDING" => a = b

(* "The same modification download cannot be reused": a modification copy   *)
(* leads to one revision at most, even when the mark of its use is lost.    *)
CopyUsedOnce ==
  \A a, b \in Issued :
    asset[a].copy = asset[b].copy /\ asset[a].copy # NoCopy => a = b

(* A revision whose watermark was tampered with becomes a version of the    *)
(* document only after its alert was closed at least once, on both paths    *)
(* that approve (a decision, an Administrator's upload).                    *)
ReviewedBeforeApproval ==
  \A a \in Issued : asset[a].status = "APPROVED" => asset[a].alert # "open"
=============================================================================
