-------------------------- MODULE CopyVerification --------------------------
(***************************************************************************)
(* Protected copies and what checking one says: the mark and the hash a    *)
(* copy is issued with, the modification copy that comes back as a         *)
(* revision, the checks of a presented file against the record of the      *)
(* reference it names, and the security alerts a contradiction raises      *)
(* (services/verification.py, api/verify.py, services/copy_integrity.py,   *)
(* services/watermark_strip.py and the handlers of api/assets.py that      *)
(* issue copies).                                                          *)
(*                                                                         *)
(* A file is what the checks can tell apart: which bytes it is, whose      *)
(* visible watermark it shows and which invisible marks can be read in it. *)
(* Every rendering is a member of Copy, and stands for its own bytes and   *)
(* its own random mark.  A check reads the record, compares, looks for an  *)
(* alert that covers the reference, and only later inserts: these are two  *)
(* steps of a worker.  A reviewer who forwards an alert reads it first and *)
(* writes an open state later, even if another closed it meanwhile.  The   *)
(* other handlers are one transaction each here; their overlaps are the    *)
(* subject of DownloadWorkflow and DocumentLineage.                        *)
(***************************************************************************)
EXTENDS Integers, FiniteSets

CONSTANTS
  Ref,        \* action identifiers (document_actions.action_id)
  Version,    \* rows of the assets table: documents and their revisions
  Copy,       \* renderings of a protected copy
  Worker,     \* concurrently running checks
  Reviewer,   \* concurrently running handlers that forward an alert
  Alert,      \* alerts of anonymous checks that are open or may be again
  MaxAlerted, \* bound: references that alerts are raised about
  MaxWatched, \* bound: references in use once an alert is about
  NoRef, NoCopy, NoVersion, NoAlert,
  Changed     \* bytes that are no rendering and no version

ASSUME WorkerAssumption ==
  IsFiniteSet(Worker) /\ IsFiniteSet(Reviewer) /\ IsFiniteSet(Alert)
ASSUME NoneAssumption ==
  /\ Alert \intersect (Ref \union {NoAlert}) = {} /\ NoAlert \notin Ref
  /\ NoRef \notin Ref /\ NoCopy \notin Copy /\ NoVersion \notin Version
  /\ (Copy \union {NoCopy}) \intersect (Version \union {NoVersion}) = {}
  /\ Changed \notin Copy \union Version \union {NoCopy, NoVersion}

VARIABLES
  record,     \* document_actions: what was recorded under each reference
  version,    \* assets: the stored documents
  copy,       \* the copies that were handed out
  about,      \* the reference that each anonymous check's alert is about
  open,       \* open alerts; r in Ref stands for the others about r
  forward,    \* the alert that each reviewer read and is about to forward
  recent,     \* references with a tamper event in the last hour
  alerted,    \* references an alert was ever raised about
  tampered,   \* references with a tamper event in the audit trail
  job         \* what each check found and still has to write

vars == <<record, version, copy, about, open, forward, recent, alerted, tampered, job>>

-----------------------------------------------------------------------------
(* Types and derived state. *)

\* request: of a download, not fetched yet
Records == [kind : {"none", "creation", "revision", "view", "own", "request", "download"},
            version : Version \union {NoVersion},
            copy : Copy \union {NoCopy},   \* copy_sha256 and hidden_mark
            used : BOOLEAN]                \* details.revision_mod_id is set

Versions == [status : {"none", "PENDING", "APPROVED", "REJECTED"},
             number : Nat,
             root : Version \union {NoVersion},
             narrow : BOOLEAN,             \* an image under 176 pixels wide
             carries : SUBSET Copy,        \* marks left in the stored bytes
             clean : BOOLEAN]              \* made from unmarked bytes, no findings

Copies == [of : Ref \union {NoRef}, marks : SUBSET Copy]

Jobs == [op : {"idle", "record"}, ref : Ref \union {NoRef},
         anonymous : BOOLEAN, covered : BOOLEAN]

NoRecord == [kind |-> "none", version |-> NoVersion, copy |-> NoCopy, used |-> FALSE]
NoDocument == [status |-> "none", number |-> 0, root |-> NoVersion,
               narrow |-> FALSE, carries |-> {}, clean |-> TRUE]
Idle == [op |-> "idle", ref |-> NoRef, anonymous |-> FALSE, covered |-> FALSE]

TypeOK ==
  /\ record \in [Ref -> Records]
  /\ version \in [Version -> Versions]
  /\ copy \in [Copy -> Copies]
  /\ about \in [Alert -> Ref \union {NoRef}]
  /\ open \subseteq Alert \union Ref
  /\ forward \in [Reviewer -> Alert \union Ref \union {NoAlert}]
  /\ recent \subseteq Ref /\ alerted \subseteq Ref /\ tampered \subseteq Ref
  /\ job \in [Worker -> Jobs]

Init ==
  /\ record = [r \in Ref |-> NoRecord]
  /\ version = [v \in Version |-> NoDocument]
  /\ copy = [c \in Copy |-> [of |-> NoRef, marks |-> {}]]
  /\ about = [a \in Alert |-> NoRef]
  /\ open = {}
  /\ forward = [f \in Reviewer |-> NoAlert]
  /\ recent = {} /\ alerted = {} /\ tampered = {}
  /\ job = [w \in Worker |-> Idle]

Used == {r \in Ref : record[r].kind # "none"}
Stored == {v \in Version : version[v].status # "none"}
Out == {c \in Copy : copy[c].of # NoRef}

AlertVars == <<about, open, forward, recent, alerted, tampered>>

Watched == alerted \union ({job[w].ref : w \in Worker} \ {NoRef})
MayUse == Watched = {} \/ Cardinality(Used) < MaxWatched
MayWatch(r) == /\ Cardinality(Watched \union {r}) <= MaxAlerted
               /\ Cardinality(Used \union {r}) <= MaxWatched

Raise(r) ==
  /\ MayWatch(r)
  /\ open' = open \union {r}
  /\ alerted' = alerted \union {r}
  /\ UNCHANGED <<about, forward>>

-----------------------------------------------------------------------------
(* Issuing: a document is filed, and copies of it are handed out. *)

(* The bytes of a new document are stored as they come: someone may have    *)
(* made them from a protected copy of another document.                     *)
ProposeDocument(r, v, marks) ==
  /\ MayUse /\ r \notin Used /\ v \notin Stored
  /\ marks \in {{}} \union {copy[c].marks : c \in Out}
  /\ record' = [record EXCEPT ![r] = [NoRecord EXCEPT !.kind = "creation", !.version = v]]
  /\ \E status \in {"PENDING", "APPROVED"}, narrow \in BOOLEAN :
       version' = [version EXCEPT ![v] =
         [status |-> status, number |-> 1, root |-> v, narrow |-> narrow,
          carries |-> marks, clean |-> marks = {}]]
  /\ UNCHANGED <<copy, AlertVars, job>>

(* The marks that can be read in a new copy of v: its own, unless the image *)
(* is too narrow to draw it in, and those already in the stored bytes,      *)
(* which a new layer may hide.                                              *)
MarksOf(c, v) ==
  LET own == IF version[v].narrow THEN {} ELSE {c}
  IN {own, own \union version[v].carries}

(* A download is asked for; until it is fetched its record has no copy.     *)
RequestDownload(r, v) ==
  /\ MayUse /\ r \notin Used
  /\ version[v].status = "APPROVED"
  /\ record' = [record EXCEPT ![r] = [NoRecord EXCEPT !.kind = "request", !.version = v]]
  /\ UNCHANGED <<version, copy, AlertVars, job>>

(* A view, or an owner's or approved download: the copy is rendered and its *)
(* watermark, hash and mark are recorded in the same transaction.  The risk *)
(* model may raise an alert that names the same reference.                  *)
Issue(r, c, v, kind, scored) ==
  /\ c \notin Out
  /\ \/ kind = "view" /\ MayUse /\ r \notin Used /\ v \in Stored
     \/ kind = "own" /\ MayUse /\ r \notin Used /\ version[v].status = "APPROVED"
     \/ kind = "download" /\ record[r].kind = "request" /\ record[r].version = v
  /\ record' = [record EXCEPT ![r] = [kind |-> kind, version |-> v, copy |-> c, used |-> FALSE]]
  /\ \E marks \in MarksOf(c, v) : copy' = [copy EXCEPT ![c] = [of |-> r, marks |-> marks]]
  /\ IF scored THEN Raise(r) ELSE UNCHANGED <<about, open, forward, alerted>>
  /\ UNCHANGED <<version, recent, tampered, job>>

(* A request that a stale approval reopened is fetched again (see           *)
(* DownloadWorkflow): the record then describes the second copy, and has    *)
(* the details that were read before a revision could be noted in them.     *)
FetchAgain(r, c) ==
  /\ record[r].kind = "download"
  /\ c \notin Out
  /\ \E used \in {FALSE, record[r].used} :
       record' = [record EXCEPT ![r].copy = c, ![r].used = used]
  /\ \E marks \in MarksOf(c, record[r].version) :
       copy' = [copy EXCEPT ![c] = [of |-> r, marks |-> marks]]
  /\ UNCHANGED <<version, AlertVars, job>>

-----------------------------------------------------------------------------
(* A modification copy comes back as a revision (_create_revision). *)

Lineage(v) == {u \in Stored : version[u].root = version[v].root}
IsLatest(v) == \A u \in Lineage(v) :
                 version[u].status = "APPROVED" => version[u].number <= version[v].number
RevisionPending(v) == \E u \in Lineage(v) : version[u].number > 1 /\ version[u].status = "PENDING"

(* check_copy and strip_watermark find nothing to object to in a file made  *)
(* from copy c that comes back for download d: the QR code, the control     *)
(* block and every layer are those that d describes.  What was changed in   *)
(* the body does not matter.                                                *)
Untampered(d, c, found) == found = "none" /\ record[d].copy = c

(* A finding of severity "review", a page that is gone with its layer, does *)
(* not flag the revision.                                                   *)
Flagged(d, c, found) == found = "tamper" \/ record[d].copy # c

(* A mistake: the marks stay in a file whose layers were all found.         *)
LeftBehindAlways(d, c, found) == {copy[c].marks}

(* The marks strip_watermark may leave in the file: when it finds every     *)
(* layer, only what the stored document carried before; otherwise any, as   *)
(* the file may be kept as it came back.                                    *)
LeftBehind(d, c, found) ==
  IF Untampered(d, c, found) THEN SUBSET version[record[d].version].carries
  ELSE SUBSET copy[c].marks

(* A flagged file is accepted as pending, silently, with an alert about the *)
(* revision's own reference.  An Administrator's revision is approved at    *)
(* once unless it is flagged.                                               *)
ReturnRevision(m, v, d, c, found, direct) ==
  LET parent == record[d].version
      ok == Untampered(d, c, found)
  IN /\ MayUse /\ m \notin Used /\ v \notin Stored
     /\ record[d].kind \in {"own", "download"} /\ ~record[d].used
     /\ version[parent].status = "APPROVED" /\ IsLatest(parent)
     /\ ~RevisionPending(parent)
     /\ direct => ~Flagged(d, c, found)
     /\ record' = [record EXCEPT ![d].used = TRUE,
          ![m] = [NoRecord EXCEPT !.kind = "revision", !.version = v]]
     /\ \E left \in LeftBehind(d, c, found),
           narrow \in IF ok THEN {version[parent].narrow} ELSE BOOLEAN :
          version' = [version EXCEPT ![v] =
            [status |-> IF direct THEN "APPROVED" ELSE "PENDING",
             number |-> version[parent].number + 1, root |-> version[parent].root,
             narrow |-> narrow, carries |-> left, clean |-> ok /\ version[parent].clean]]
     /\ IF ~Flagged(d, c, found) THEN UNCHANGED AlertVars
        ELSE /\ Raise(m)
             /\ recent' = recent \union {m} /\ tampered' = tampered \union {m}
     /\ UNCHANGED <<copy, job>>

IsOpen(r) == r \in open \/ \E a \in Alert \intersect open : about[a] = r

(* approve_document: a revision under security review is not approved, and  *)
(* any open alert that names its reference is a review.                     *)
Decide(m, approve) ==
  LET v == record[m].version
  IN /\ record[m].kind \in {"creation", "revision"}
     /\ version[v].status = "PENDING"
     /\ record[m].kind = "revision" /\ approve => ~IsOpen(m)
     /\ version' = [version EXCEPT ![v].status = IF approve THEN "APPROVED" ELSE "REJECTED"]
     /\ UNCHANGED <<record, copy, AlertVars, job>>

-----------------------------------------------------------------------------
(* Checking a file against a reference (evaluate_copy). *)

Genuine(c) == [bytes |-> c, says |-> copy[c].of, marks |-> copy[c].marks]
Original(v) == [bytes |-> v, says |-> NoRef, marks |-> version[v].carries]
\* A copy whose bytes were changed, and perhaps its watermark; converting or
\* rebuilding it also loses the marks.
Edited(c, r, kept) == [bytes |-> Changed, says |-> r, marks |-> IF kept THEN copy[c].marks ELSE {}]

Files == {Genuine(c) : c \in Out} \union {Original(v) : v \in Stored}
         \union {Edited(c, r, kept) : c \in Out, r \in Used \union {NoRef}, kept \in BOOLEAN}

IsCopy(q) == record[q].copy # NoCopy
IsVersion(q) == record[q].kind \in {"creation", "revision"}

(* The visible watermark, field by field, against the recorded one.         *)
FieldsCheck(q, f) ==
  IF f.says = NoRef THEN "unavailable"
  ELSE IF ~IsCopy(q) THEN "not_on_record"
  ELSE IF f.says = q THEN "match" ELSE "differs"

(* A mistake: a hash no record knows is nothing to compare.                 *)
HashCheckUnknownIsFine(q, f) ==
  IF IsCopy(q) /\ f.bytes = record[q].copy THEN "match"
  ELSE IF f.bytes = record[q].version THEN (IF IsVersion(q) THEN "match" ELSE "differs")
  ELSE IF \/ \E r \in Used \ {q} : IsCopy(r) /\ record[r].copy = f.bytes
          \/ f.bytes \in Lineage(record[q].version)
       THEN "differs"
  ELSE "unavailable"

(* _hash_check *)
HashCheck(q, f) ==
  IF IsCopy(q) /\ f.bytes = record[q].copy THEN "match"
  ELSE IF f.bytes = record[q].version THEN (IF IsVersion(q) THEN "match" ELSE "differs")
  ELSE IF \/ \E r \in Used \ {q} : IsCopy(r) /\ record[r].copy = f.bytes
          \/ f.bytes \in Lineage(record[q].version)
       THEN "differs"
  ELSE IF IsCopy(q) THEN "differs" ELSE "unavailable"

(* _hidden_check: exactly the recorded mark, or a contradiction.            *)
HiddenCheck(q, f) ==
  LET known == {m \in f.marks : \E r \in Used : record[r].copy = m}
      foreign == {m \in known : m # record[q].copy}
  IN IF IsCopy(q) /\ f.marks = {record[q].copy} THEN "match"
     ELSE IF foreign # {} \/ (f.marks # {} /\ known = {}) \/ IsCopy(q) THEN "differs"
     ELSE "unavailable"

(* One contradiction is enough; one comparison is needed.                   *)
Conclusion(results) ==
  IF results \intersect {"differs", "not_on_record"} # {} THEN "MISMATCH"
  ELSE IF "match" \in results THEN "MATCH" ELSE "NOTHING_TO_COMPARE"

Verdict(q, f) == Conclusion({FieldsCheck(q, f), HashCheck(q, f), HiddenCheck(q, f)})

(* Values typed from a copy instead of an upload: no invisible mark is      *)
(* read, and the hash may be left out.                                      *)
TypedVerdict(q, f, hashed) ==
  Conclusion({FieldsCheck(q, f)} \union (IF hashed THEN {HashCheck(q, f)} ELSE {}))

(* References that some file or some typed values contradict.               *)
Contradicted ==
  {q \in Used : \/ \E f \in Files : Verdict(q, f) = "MISMATCH"
               \/ \E says \in Used, hashed \in BOOLEAN :
                    TypedVerdict(q, [bytes |-> Changed, says |-> says], hashed) = "MISMATCH"}

(* Mistakes: the check's own event is in the trail before the trail is      *)
(* searched; only the last hour is searched, not the open alerts.           *)
AlreadyRaisedByItself(q) == q \in Used
AlreadyRaisedThisHour(q) == q \in recent

(* _alert_already_raised *)
AlreadyRaised(q) == IsOpen(q) \/ q \in recent

(* compare_action, compare_action_file and the Auditors' counterparts, up   *)
(* to the insertions.  A reference without a record is refused in _load; a  *)
(* check without a contradiction inserts an event that nothing reads, so q  *)
(* is a reference that what was presented contradicts.                      *)
ReadForCheck(w, q, anonymous) ==
  /\ job[w].op = "idle"
  /\ MayWatch(q)
  /\ job' = [job EXCEPT ![w] = [op |-> "record", ref |-> q, anonymous |-> anonymous,
                                covered |-> anonymous /\ AlreadyRaised(q)]]
  /\ UNCHANGED <<record, version, copy, AlertVars>>

(* An alert that is open, or that a forward may open again. *)
Live(a) == a \in open \/ \E f \in Reviewer : forward[f] = a

Insert(a, q) ==
  /\ ~Live(a)
  /\ about' = [about EXCEPT ![a] = q] /\ open' = open \union {a}

(* _record_result: a mismatch is a tamper event, and raises an alert unless *)
(* the check was anonymous and found the reference covered.                 *)
RecordResult(w) ==
  LET q == job[w].ref
  IN /\ job[w].op = "record"
     /\ job' = [job EXCEPT ![w] = Idle]
     /\ recent' = recent \union {q} /\ tampered' = tampered \union {q}
     /\ IF job[w].covered THEN UNCHANGED <<about, open, alerted>>
        ELSE /\ alerted' = alerted \union {q}
             /\ IF job[w].anonymous THEN \E a \in Alert : Insert(a, q)
                ELSE open' = open \union {q} /\ UNCHANGED about
     /\ UNCHANGED <<record, version, copy, forward>>

Abort(w) ==
  /\ job[w].op = "record"
  /\ job' = [job EXCEPT ![w] = Idle]
  /\ UNCHANGED <<record, version, copy, AlertVars>>

(* A reviewer closes an alert, dismissing it or revoking an identity        *)
(* (SecurityAlerts has the stages and who may).                             *)
Close(a) ==
  /\ a \in open
  /\ open' = open \ {a}
  /\ UNCHANGED <<record, version, copy, about, forward, recent, alerted, tampered, job>>

(* forward_alert loads an open alert, and asks who covers the department.   *)
ReadForForward(f, a) ==
  /\ forward[f] = NoAlert /\ a \in open
  /\ forward' = [forward EXCEPT ![f] = a]
  /\ UNCHANGED <<record, version, copy, about, open, recent, alerted, tampered, job>>

(* _transition writes the next stage, whatever the alert's state is by now. *)
Forward(f) ==
  /\ forward[f] # NoAlert
  /\ open' = open \union {forward[f]}
  /\ forward' = [forward EXCEPT ![f] = NoAlert]
  /\ UNCHANGED <<record, version, copy, about, recent, alerted, tampered, job>>

(* The forward is refused, or its connection is lost.                       *)
KeepStage(f) ==
  /\ forward[f] # NoAlert
  /\ forward' = [forward EXCEPT ![f] = NoAlert]
  /\ UNCHANGED <<record, version, copy, about, open, recent, alerted, tampered, job>>

(* The tamper events about q are more than an hour old.                     *)
HourPasses(q) ==
  /\ q \in recent
  /\ recent' = recent \ {q}
  /\ UNCHANGED <<record, version, copy, about, open, forward, alerted, tampered, job>>

Next ==
  \/ \E r \in Ref, v \in Version, marks \in SUBSET Copy : ProposeDocument(r, v, marks)
  \/ \E r \in Ref, v \in Version : RequestDownload(r, v)
  \/ \E r \in Ref, c \in Copy, v \in Version, kind \in {"view", "own", "download"}, scored \in BOOLEAN :
       Issue(r, c, v, kind, scored)
  \/ \E r \in Ref, c \in Copy : FetchAgain(r, c)
  \/ \E m, d \in Ref, v \in Version, c \in Out,
        found \in {"none", "review", "tamper"}, direct \in BOOLEAN :
       ReturnRevision(m, v, d, c, found, direct)
  \/ \E m \in Ref, approve \in BOOLEAN : Decide(m, approve)
  \/ \E q \in Contradicted, w \in Worker, anonymous \in BOOLEAN : ReadForCheck(w, q, anonymous)
  \/ \E w \in Worker : RecordResult(w) \/ Abort(w)
  \/ \E a \in Alert \union Ref : Close(a)
  \/ \E f \in Reviewer, a \in Alert \union Ref : ReadForForward(f, a)
  \/ \E f \in Reviewer : Forward(f) \/ KeepStage(f)
  \/ \E q \in Ref : HourPasses(q)

Spec == Init /\ [][Next]_vars

-----------------------------------------------------------------------------
(* Properties *)

(* A copy that is checked as it was issued, against its own reference, is   *)
(* found to match, down any chain of revisions whose copies came back       *)
(* untampered; unless a second fetch replaced its record, or the image was  *)
(* too narrow for the mark that was recorded.                               *)
GenuineCopiesMatch ==
  \A c \in Out :
    LET r == copy[c].of
        v == record[r].version
    IN record[r].copy = c /\ ~version[v].narrow /\ version[v].clean
         => Verdict(r, Genuine(c)) = "MATCH"

(* The verdict of an upload cannot be borrowed: whatever was edited,        *)
(* relabelled or stripped, only the very copy issued under a reference      *)
(* matches it, and only the stored bytes match the record of a version.     *)
OnlyTheIssuedCopyMatches ==
  \A q \in Used, f \in Files :
    Verdict(q, f) = "MATCH" =>
      f = IF IsCopy(q) THEN Genuine(record[q].copy) ELSE Original(record[q].version)

(* "recorded but don't open alert after alert": anonymous checks that all   *)
(* looked before any of them wrote each open one, a forward that was read   *)
(* before its alert was closed opens it again, and that is all, however     *)
(* often a reference is checked, reviewed and checked again.                *)
AnonymousAlertsAreBounded ==
  \A q \in Ref : Cardinality({a \in Alert \intersect open : about[a] = q})
                  <= Cardinality(Worker) + Cardinality(Reviewer)

(* Holding an alert back never hides an incident: every reference with a    *)
(* tamper event in the trail had an alert.                                  *)
TamperingIsAlerted == tampered \subseteq alerted
=============================================================================
