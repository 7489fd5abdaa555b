---------------------- MODULE CopyVerification_proofs -----------------------
(***************************************************************************)
(* Verdicts and alerts for every number of references, versions, copies,   *)
(* concurrent checks and concurrent forwards.                              *)
(***************************************************************************)
EXTENDS CopyVerification, FiniteSetTheorems, TLAPS

USE NoneAssumption

(* What is recorded is there: a used reference is about a stored version,  *)
(* and its copy, if it has one, was handed out under it.                   *)
RecordsAreAboutSomething ==
  /\ \A r \in Used : record[r].version \in Stored
  /\ \A r \in Ref : IsCopy(r) => r \in Used /\ record[r].copy \in Out
                                 /\ copy[record[r].copy].of = r
  /\ \A r \in Used : record[r].kind \in {"view", "own", "download"} <=> IsCopy(r)
  /\ \A c \in Out : copy[c].of \in Used /\ IsCopy(copy[c].of)

CleanIsUnmarked == \A v \in Stored : version[v].clean => version[v].carries = {}

(* The copies of a version without old marks have their own mark only. *)
OwnMarkOnly ==
  \A c \in Out :
    LET v == record[copy[c].of].version
    IN version[v].clean /\ ~version[v].narrow => copy[c].marks = {c}

Copying == RecordsAreAboutSomething /\ CleanIsUnmarked /\ OwnMarkOnly

(* Whatever covers a reference, there was an alert about it. *)
CoverIsAlerted ==
  /\ tampered \subseteq alerted /\ recent \subseteq alerted
  /\ open \intersect Ref \subseteq alerted
  /\ \A a \in Alert : about[a] \in Ref => about[a] \in alerted
  /\ \A f \in Reviewer : forward[f] \in Ref => forward[f] \in alerted
  /\ \A w \in Worker : job[w].op = "record" =>
       job[w].ref \in Ref /\ (job[w].covered => job[w].ref \in alerted)

(* Anonymous checks of q that found it uncovered. *)
Stale(q) == {w \in Worker : /\ job[w].op = "record" /\ job[w].ref = q
                            /\ job[w].anonymous /\ ~job[w].covered}

(* Anonymous checks' alerts about q that are open or that a forward opens. *)
LiveAbout(q) == {a \in Alert : about[a] = q /\ Live(a)}

(* Once an alert is open no further check finds the reference uncovered; a  *)
(* check that does leaves only the alerts that forwards were read for.      *)
LiveIsBounded ==
  \A q \in Ref : Cardinality(LiveAbout(q)) + Cardinality(Stale(q))
                   <= Cardinality(Worker) + Cardinality(Reviewer)

Alerting == CoverIsAlerted /\ LiveIsBounded

(* The inductive invariant. *)
IInv == TypeOK /\ Copying /\ Alerting

-----------------------------------------------------------------------------
(* What the invariant says of the properties. *)

LEMMA GenuineFollows == ASSUME IInv PROVE GenuineCopiesMatch
<1> SUFFICES ASSUME NEW c \in Out,
                    record[copy[c].of].copy = c,
                    ~version[record[copy[c].of].version].narrow,
                    version[record[copy[c].of].version].clean
             PROVE  Verdict(copy[c].of, Genuine(c)) = "MATCH"
  BY DEF GenuineCopiesMatch
<1> DEFINE r == copy[c].of
           f == Genuine(c)
<1>1. IsCopy(r) /\ r # NoRef /\ c # NoCopy
  BY DEF IInv, Copying, RecordsAreAboutSomething, Out, Used
<1>2. f.bytes = c /\ f.says = r /\ f.marks = {c}
  BY DEF Genuine, IInv, Copying, OwnMarkOnly
<1>3. FieldsCheck(r, f) = "match"
  BY <1>1, <1>2 DEF FieldsCheck
<1>4. HashCheck(r, f) = "match"
  BY <1>1, <1>2 DEF HashCheck
<1>5. HiddenCheck(r, f) = "match"
  BY <1>1, <1>2 DEF HiddenCheck
<1> QED
  BY <1>3, <1>4, <1>5 DEF Verdict, Conclusion

(* What files are made of. *)
LEMMA FileFacts ==
  ASSUME TypeOK, NEW f \in Files
  PROVE  /\ f.bytes \in Copy => f = Genuine(f.bytes)
         /\ f.bytes \in Version => f = Original(f.bytes)
<1>1. CASE \E c \in Out : f = Genuine(c)
  BY <1>1 DEF Genuine, Out
<1>2. CASE \E v \in Stored : f = Original(v)
  BY <1>2 DEF Original, Stored
<1>3. CASE \E c \in Out, r \in Used \union {NoRef}, kept \in BOOLEAN : f = Edited(c, r, kept)
  BY <1>3 DEF Edited
<1> QED
  BY <1>1, <1>2, <1>3 DEF Files

LEMMA OnlyIssuedFollows == ASSUME IInv PROVE OnlyTheIssuedCopyMatches
<1> SUFFICES ASSUME NEW q \in Used, NEW f \in Files, Verdict(q, f) = "MATCH"
             PROVE  f = IF IsCopy(q) THEN Genuine(record[q].copy) ELSE Original(record[q].version)
  BY DEF OnlyTheIssuedCopyMatches
<1>1. /\ FieldsCheck(q, f) \notin {"differs", "not_on_record"}
      /\ HashCheck(q, f) \notin {"differs", "not_on_record"}
      /\ HiddenCheck(q, f) \notin {"differs", "not_on_record"}
      /\ "match" \in {FieldsCheck(q, f), HashCheck(q, f), HiddenCheck(q, f)}
  BY DEF Verdict, Conclusion
<1>2. CASE IsCopy(q)
  <2>0. ~IsVersion(q)
    BY <1>2 DEF IInv, Copying, RecordsAreAboutSomething, IsVersion
  <2>1. f.bytes = record[q].copy
    BY <1>1, <1>2, <2>0 DEF HashCheck
  <2>2. record[q].copy \in Copy
    BY <1>2 DEF IInv, TypeOK, Records, IsCopy, Used
  <2> QED
    BY <1>2, <2>1, <2>2, FileFacts DEF IInv
<1>3. CASE ~IsCopy(q)
  <2>1. FieldsCheck(q, f) # "match"
    BY <1>1, <1>3 DEF FieldsCheck
  <2>2. HiddenCheck(q, f) # "match"
    BY <1>1, <1>3 DEF HiddenCheck
  <2>3. HashCheck(q, f) = "match"
    BY <1>1, <2>1, <2>2
  <2>4. f.bytes = record[q].version
    BY <1>3, <2>3 DEF HashCheck
  <2>5. record[q].version \in Version
    BY DEF IInv, Copying, RecordsAreAboutSomething, Stored
  <2> QED
    BY <1>3, <2>4, <2>5, FileFacts DEF IInv
<1> QED
  BY <1>2, <1>3

LEMMA StaleFacts ==
  ASSUME NEW q \in Ref
  PROVE  IsFiniteSet(Stale(q)) /\ Cardinality(Stale(q)) \in Nat
         /\ Cardinality(Stale(q)) <= Cardinality(Worker) /\ Cardinality(Worker) \in Nat
<1>1. Stale(q) \in SUBSET Worker
  BY DEF Stale
<1> QED
  BY <1>1, WorkerAssumption, FS_Subset, FS_CardinalityType

LEMMA LiveFacts ==
  ASSUME NEW q \in Ref
  PROVE  IsFiniteSet(LiveAbout(q)) /\ Cardinality(LiveAbout(q)) \in Nat
         /\ Cardinality(Reviewer) \in Nat
<1>1. LiveAbout(q) \in SUBSET Alert
  BY DEF LiveAbout
<1> QED
  BY <1>1, WorkerAssumption, FS_Subset, FS_CardinalityType

LEMMA BoundFollows == ASSUME IInv PROVE AnonymousAlertsAreBounded
<1> SUFFICES ASSUME NEW q \in Ref
             PROVE  Cardinality({a \in Alert \intersect open : about[a] = q})
                      <= Cardinality(Worker) + Cardinality(Reviewer)
  BY DEF AnonymousAlertsAreBounded
<1> DEFINE S == {a \in Alert \intersect open : about[a] = q}
<1>1. S \in SUBSET LiveAbout(q)
  BY DEF LiveAbout, Live
<1>2. IsFiniteSet(S) /\ Cardinality(S) <= Cardinality(LiveAbout(q))
  BY <1>1, LiveFacts, FS_Subset
<1>3. Cardinality(S) \in Nat
  BY <1>2, FS_CardinalityType
<1>4. Cardinality(LiveAbout(q)) + Cardinality(Stale(q)) <= Cardinality(Worker) + Cardinality(Reviewer)
  BY DEF IInv, Alerting, LiveIsBounded
<1> HIDE DEF S
<1>5. Cardinality(S) <= Cardinality(Worker) + Cardinality(Reviewer)
  BY <1>2, <1>3, <1>4, StaleFacts, LiveFacts
<1> QED
  BY <1>5 DEF S

-----------------------------------------------------------------------------
(* What keeps the two parts of the invariant. *)

LEMMA CopyingUntouched ==
  ASSUME Copying, UNCHANGED <<record, version, copy>>
  PROVE  Copying'
BY DEF Copying, RecordsAreAboutSomething, CleanIsUnmarked, OwnMarkOnly, Used, Stored, Out, IsCopy

LEMMA AlertingUntouched ==
  ASSUME Alerting, UNCHANGED <<AlertVars, job>>
  PROVE  Alerting'
BY DEF Alerting, CoverIsAlerted, LiveIsBounded, LiveAbout, Live, Stale, AlertVars

(* No alert becomes live and no check finds its reference uncovered. *)
LEMMA BoundKept ==
  ASSUME LiveIsBounded,
         \A q \in Ref : LiveAbout(q)' \subseteq LiveAbout(q) /\ Stale(q)' \subseteq Stale(q)
  PROVE  LiveIsBounded'
<1> SUFFICES ASSUME NEW q \in Ref
             PROVE  Cardinality(LiveAbout(q)') + Cardinality(Stale(q)')
                      <= Cardinality(Worker) + Cardinality(Reviewer)
  BY DEF LiveIsBounded
<1>1. PICK L, M : L = LiveAbout(q)' /\ M = Stale(q)'
  OBVIOUS
<1>2. L \in SUBSET LiveAbout(q) /\ M \in SUBSET Stale(q)
  BY <1>1
<1>3. /\ IsFiniteSet(L) /\ Cardinality(L) <= Cardinality(LiveAbout(q))
      /\ IsFiniteSet(M) /\ Cardinality(M) <= Cardinality(Stale(q))
  BY <1>2, LiveFacts, StaleFacts, FS_Subset
<1>4. Cardinality(L) \in Nat /\ Cardinality(M) \in Nat
  BY <1>3, FS_CardinalityType
<1>5. Cardinality(LiveAbout(q)) + Cardinality(Stale(q)) <= Cardinality(Worker) + Cardinality(Reviewer)
  BY DEF LiveIsBounded
<1>6. Cardinality(L) + Cardinality(M) <= Cardinality(Worker) + Cardinality(Reviewer)
  BY <1>3, <1>4, <1>5, LiveFacts, StaleFacts
<1> QED
  BY <1>1, <1>6

LEMMA RaiseTypes ==
  ASSUME TypeOK, NEW r \in Ref, Raise(r)
  PROVE  /\ open' \subseteq Alert \union Ref /\ alerted' \subseteq Ref
         /\ about' = about /\ forward' = forward
BY DEF Raise, TypeOK

(* An alert of another kind is raised about r, with or without an event.   *)
LEMMA RaiseKeeps ==
  ASSUME IInv, NEW r \in Ref, Raise(r), UNCHANGED job,
         recent' \subseteq recent \union {r}, tampered' \subseteq tampered \union {r}
  PROVE  Alerting'
<1>1. CoverIsAlerted'
  BY DEF IInv, Alerting, CoverIsAlerted, Raise
<1>2. \A q \in Ref : LiveAbout(q)' \subseteq LiveAbout(q) /\ Stale(q)' \subseteq Stale(q)
  BY DEF Raise, LiveAbout, Live, Stale
<1>3. LiveIsBounded'
  BY <1>2, BoundKept DEF IInv, Alerting
<1> QED
  BY <1>1, <1>3 DEF Alerting

-----------------------------------------------------------------------------
(* Each action keeps the invariant. *)

LEMMA InitHolds == Init => IInv
<1> SUFFICES ASSUME Init PROVE IInv
  OBVIOUS
<1>1. TypeOK
  BY DEF Init, TypeOK, Records, Versions, Copies, Jobs, NoRecord, NoDocument, Idle
<1>2. Used = {} /\ Stored = {} /\ Out = {} /\ \A r \in Ref : ~IsCopy(r)
  BY DEF Init, Used, Stored, Out, IsCopy, NoRecord, NoDocument
<1>3. Copying
  BY <1>2 DEF Copying, RecordsAreAboutSomething, CleanIsUnmarked, OwnMarkOnly
<1>4. Alerting
  <2>1. CoverIsAlerted
    BY DEF Init, CoverIsAlerted, Idle
  <2>2. \A q \in Ref : LiveAbout(q) = {} /\ Stale(q) = {}
    BY DEF Init, LiveAbout, Live, Stale, Idle
  <2>3. Cardinality({}) = 0 /\ Cardinality(Worker) \in Nat /\ Cardinality(Reviewer) \in Nat
    BY WorkerAssumption, FS_EmptySet, FS_CardinalityType
  <2>4. ASSUME NEW q \in Ref
        PROVE  Cardinality(LiveAbout(q)) + Cardinality(Stale(q))
                 <= Cardinality(Worker) + Cardinality(Reviewer)
    <3>1. Cardinality(LiveAbout(q)) = 0 /\ Cardinality(Stale(q)) = 0
      BY <2>2, <2>3
    <3> QED
      BY <2>3, <3>1
  <2>5. LiveIsBounded
    BY <2>4 DEF LiveIsBounded
  <2> QED
    BY <2>1, <2>5 DEF Alerting
<1> QED
  BY <1>1, <1>3, <1>4 DEF IInv

LEMMA ProposeKeeps ==
  ASSUME IInv, NEW r \in Ref, NEW v \in Version, NEW marks \in SUBSET Copy,
         ProposeDocument(r, v, marks)
  PROVE  IInv'
<1> USE DEF IInv
<1>1. PICK status \in {"PENDING", "APPROVED"}, narrow \in BOOLEAN :
        version' = [version EXCEPT ![v] =
          [status |-> status, number |-> 1, root |-> v, narrow |-> narrow,
           carries |-> marks, clean |-> marks = {}]]
  BY DEF ProposeDocument
<1>2. TypeOK'
  <2>1. record' \in [Ref -> Records]
    BY DEF ProposeDocument, TypeOK, Records, NoRecord
  <2>2. version' \in [Version -> Versions]
    BY <1>1 DEF TypeOK, Versions
  <2> QED
    BY <2>1, <2>2 DEF ProposeDocument, TypeOK, AlertVars
<1>3. Used' = Used \union {r} /\ r \notin Used /\ Stored' = Stored \union {v} /\ v \notin Stored /\ Out' = Out
  BY <1>1 DEF ProposeDocument, Used, Stored, Out, NoRecord, TypeOK
<1>4. /\ \A q \in Ref \ {r} : record'[q] = record[q]
      /\ record'[r].kind = "creation" /\ record'[r].version = v /\ record'[r].copy = NoCopy
      /\ \A u \in Version \ {v} : version'[u] = version[u]
      /\ version'[v].clean => version'[v].carries = {}
      /\ copy' = copy
  BY <1>1 DEF ProposeDocument, NoRecord, TypeOK
<1>5. RecordsAreAboutSomething'
  BY <1>3, <1>4 DEF Copying, RecordsAreAboutSomething, IsCopy, Used, Out
<1>6. CleanIsUnmarked'
  BY <1>3, <1>4 DEF Copying, CleanIsUnmarked, Stored
<1>7. OwnMarkOnly'
  BY <1>3, <1>4 DEF Copying, OwnMarkOnly, RecordsAreAboutSomething, Used, Stored
<1>8. Alerting'
  BY AlertingUntouched DEF ProposeDocument
<1> QED
  BY <1>2, <1>5, <1>6, <1>7, <1>8 DEF Copying

LEMMA RequestKeeps ==
  ASSUME IInv, NEW r \in Ref, NEW v \in Version, RequestDownload(r, v)
  PROVE  IInv'
<1> USE DEF IInv
<1>1. TypeOK'
  <2>1. record' \in [Ref -> Records]
    BY DEF RequestDownload, TypeOK, Records, NoRecord
  <2> QED
    BY <2>1 DEF RequestDownload, TypeOK, AlertVars
<1>2. /\ \A q \in Ref \ {r} : record'[q] = record[q]
      /\ record'[r].kind = "request" /\ record'[r].version = v /\ record'[r].copy = NoCopy
      /\ version' = version /\ copy' = copy
  BY DEF RequestDownload, NoRecord, TypeOK
<1>3. Used' = Used \union {r} /\ r \notin Used /\ Stored' = Stored /\ v \in Stored /\ Out' = Out
  BY <1>2 DEF RequestDownload, Used, Stored, Out
<1>4. RecordsAreAboutSomething'
  BY <1>2, <1>3 DEF Copying, RecordsAreAboutSomething, IsCopy, Used, Out
<1>5. CleanIsUnmarked'
  BY <1>2, <1>3 DEF Copying, CleanIsUnmarked
<1>6. OwnMarkOnly'
  BY <1>2, <1>3 DEF Copying, OwnMarkOnly, RecordsAreAboutSomething, Used
<1>7. Alerting'
  BY AlertingUntouched DEF RequestDownload
<1> QED
  BY <1>1, <1>4, <1>5, <1>6, <1>7 DEF Copying

LEMMA MarksFacts ==
  ASSUME TypeOK, NEW c \in Copy, NEW v \in Version, NEW marks \in MarksOf(c, v)
  PROVE  /\ marks \in SUBSET Copy
         /\ ~version[v].narrow /\ version[v].carries = {} => marks = {c}
BY DEF MarksOf, TypeOK, Versions

LEMMA IssueKeeps ==
  ASSUME IInv, NEW r \in Ref, NEW c \in Copy, NEW v \in Version,
         NEW kind \in {"view", "own", "download"}, NEW scored \in BOOLEAN,
         Issue(r, c, v, kind, scored)
  PROVE  IInv'
<1> USE DEF IInv
<1>1. PICK marks \in MarksOf(c, v) : copy' = [copy EXCEPT ![c] = [of |-> r, marks |-> marks]]
  BY DEF Issue
<1>2. /\ marks \in SUBSET Copy
      /\ ~version[v].narrow /\ version[v].carries = {} => marks = {c}
  BY <1>1, MarksFacts
<1>3. TypeOK'
  <2>1. record' \in [Ref -> Records]
    BY DEF Issue, TypeOK, Records
  <2>2. copy' \in [Copy -> Copies]
    BY <1>1, <1>2 DEF TypeOK, Copies
  <2>3. /\ open' \subseteq Alert \union Ref /\ alerted' \subseteq Ref
        /\ about' = about /\ forward' = forward
    BY RaiseTypes DEF Issue, TypeOK
  <2> QED
    BY <2>1, <2>2, <2>3 DEF Issue, TypeOK
<1>4. v \in Stored /\ \A b \in Out : copy[b].of # r
  <2>1. CASE kind \in {"view", "own"}
    BY <2>1 DEF Issue, Stored, Copying, RecordsAreAboutSomething
  <2>2. CASE kind = "download"
    <3>1. record[r].kind = "request" /\ record[r].version = v /\ r \in Used
      BY <2>2 DEF Issue, Used
    <3> QED
      BY <3>1 DEF Copying, RecordsAreAboutSomething
  <2> QED
    BY <2>1, <2>2
<1>5. Used' = Used \union {r} /\ Out' = Out \union {c} /\ c \notin Out /\ Stored' = Stored
  BY <1>1 DEF Issue, Used, Stored, Out, TypeOK
<1>6. /\ \A q \in Ref \ {r} : record'[q] = record[q]
      /\ record'[r].kind = kind /\ record'[r].version = v /\ record'[r].copy = c
      /\ \A b \in Copy \ {c} : copy'[b] = copy[b]
      /\ copy'[c].of = r /\ copy'[c].marks = marks
      /\ version' = version
  BY <1>1 DEF Issue, TypeOK
<1>7. RecordsAreAboutSomething'
  BY <1>4, <1>5, <1>6 DEF Copying, RecordsAreAboutSomething, IsCopy, Used, Out
<1>8. CleanIsUnmarked'
  BY <1>5, <1>6 DEF Copying, CleanIsUnmarked
<1>9. OwnMarkOnly'
  BY <1>2, <1>4, <1>5, <1>6 DEF Copying, CleanIsUnmarked, OwnMarkOnly, RecordsAreAboutSomething, Used, Out
<1>10. Alerting'
  <2>1. CASE scored
    BY <2>1, RaiseKeeps DEF Issue
  <2>2. CASE ~scored
    BY <2>2, AlertingUntouched DEF Issue, AlertVars
  <2> QED
    BY <2>1, <2>2
<1> QED
  BY <1>3, <1>7, <1>8, <1>9, <1>10 DEF Copying

LEMMA FetchAgainKeeps ==
  ASSUME IInv, NEW r \in Ref, NEW c \in Copy, FetchAgain(r, c)
  PROVE  IInv'
<1> USE DEF IInv
<1> DEFINE v == record[r].version
<1>1. r \in Used /\ v \in Stored /\ v \in Version
  BY DEF FetchAgain, Used, Stored, Copying, RecordsAreAboutSomething
<1>2. PICK marks \in MarksOf(c, v) : copy' = [copy EXCEPT ![c] = [of |-> r, marks |-> marks]]
  BY DEF FetchAgain
<1>3. /\ marks \in SUBSET Copy
      /\ ~version[v].narrow /\ version[v].carries = {} => marks = {c}
  BY <1>1, <1>2, MarksFacts
<1>4. PICK used \in {FALSE, record[r].used} :
        record' = [record EXCEPT ![r].copy = c, ![r].used = used]
  BY DEF FetchAgain
<1>5. TypeOK'
  <2>1. used \in BOOLEAN /\ record[r] \in Records
    BY <1>4 DEF TypeOK, Records
  <2>2. [[record[r] EXCEPT !.copy = c] EXCEPT !.used = used] \in Records
    BY <2>1 DEF Records
  <2>3. record' \in [Ref -> Records]
    BY <1>4, <2>2 DEF TypeOK
  <2>4. copy' \in [Copy -> Copies]
    BY <1>2, <1>3 DEF TypeOK, Copies
  <2> QED
    BY <2>3, <2>4 DEF FetchAgain, TypeOK, AlertVars
<1>6. /\ \A q \in Ref \ {r} : record'[q] = record[q]
      /\ record'[r].kind = record[r].kind /\ record'[r].version = v /\ record'[r].copy = c
      /\ record[r].kind = "download"
      /\ \A b \in Copy \ {c} : copy'[b] = copy[b]
      /\ copy'[c].of = r /\ copy'[c].marks = marks
      /\ version' = version
  BY <1>2, <1>4 DEF FetchAgain, TypeOK, Records
<1>7. Used' = Used /\ Out' = Out \union {c} /\ c \notin Out /\ Stored' = Stored
  <2>1. \A q \in Ref : record'[q].kind = record[q].kind
    BY <1>6
  <2>2. Used' = Used
    BY <2>1 DEF Used
  <2>3. Out' = Out \union {c} /\ c \notin Out
    BY <1>6 DEF FetchAgain, Out
  <2>4. Stored' = Stored
    BY <1>6 DEF Stored
  <2> QED
    BY <2>2, <2>3, <2>4
<1>8. RecordsAreAboutSomething'
  BY <1>1, <1>6, <1>7 DEF Copying, RecordsAreAboutSomething, IsCopy, Used, Out
<1>9. CleanIsUnmarked'
  BY <1>6, <1>7 DEF Copying, CleanIsUnmarked
<1>10. OwnMarkOnly'
  BY <1>1, <1>3, <1>6, <1>7 DEF Copying, CleanIsUnmarked, OwnMarkOnly, RecordsAreAboutSomething, Used, Out
<1>11. Alerting'
  BY AlertingUntouched DEF FetchAgain
<1> QED
  BY <1>5, <1>8, <1>9, <1>10, <1>11 DEF Copying

LEMMA ReturnKeeps ==
  ASSUME IInv, NEW m \in Ref, NEW v \in Version, NEW d \in Ref, NEW c \in Out,
         NEW found \in {"none", "review", "tamper"}, NEW direct \in BOOLEAN,
         ReturnRevision(m, v, d, c, found, direct)
  PROVE  IInv'
<1> USE DEF IInv
<1> DEFINE parent == record[d].version
           ok == Untampered(d, c, found)
<1>1. d \in Used /\ parent \in Stored /\ parent \in Version /\ c \in Copy /\ m \notin Used /\ m # d
  BY DEF ReturnRevision, Used, Stored, Out, Copying, RecordsAreAboutSomething
<1>2. PICK left \in LeftBehind(d, c, found),
           narrow \in IF ok THEN {version[parent].narrow} ELSE BOOLEAN :
        version' = [version EXCEPT ![v] =
          [status |-> IF direct THEN "APPROVED" ELSE "PENDING",
           number |-> version[parent].number + 1, root |-> version[parent].root,
           narrow |-> narrow, carries |-> left, clean |-> ok /\ version[parent].clean]]
  BY DEF ReturnRevision
<1>3. /\ left \in SUBSET Copy
      /\ ok /\ version[parent].carries = {} => left = {}
  BY <1>1, <1>2 DEF LeftBehind, TypeOK, Versions, Copies
<1>4. narrow \in BOOLEAN /\ (ok /\ version[parent].clean) \in BOOLEAN
  BY <1>1, <1>2 DEF TypeOK, Versions, Untampered
<1>5. TypeOK'
  <2>1. record' \in [Ref -> Records]
    <3> DEFINE marked == [record[d] EXCEPT !.used = TRUE]
    <3>0. record[d] \in Records
      BY DEF TypeOK
    <3>1. marked \in Records
      BY <3>0 DEF Records
    <3>2. [NoRecord EXCEPT !.kind = "revision", !.version = v] \in Records
      BY DEF NoRecord, Records
    <3> QED
      BY <3>1, <3>2 DEF ReturnRevision, TypeOK
  <2>2. version' \in [Version -> Versions]
    BY <1>1, <1>2, <1>3, <1>4 DEF TypeOK, Versions
  <2>3. /\ open' \subseteq Alert \union Ref /\ about' = about /\ forward' = forward
        /\ alerted' \subseteq Ref /\ recent' \subseteq Ref /\ tampered' \subseteq Ref
    <3>1. CASE ~Flagged(d, c, found)
      BY <3>1 DEF ReturnRevision, TypeOK, AlertVars
    <3>2. CASE Flagged(d, c, found)
      BY <3>2, RaiseTypes DEF ReturnRevision, TypeOK
    <3> QED
      BY <3>1, <3>2
  <2> QED
    BY <2>1, <2>2, <2>3 DEF ReturnRevision, TypeOK
<1>6. /\ \A q \in Ref \ {m} : /\ record'[q].kind = record[q].kind
                             /\ record'[q].version = record[q].version
                             /\ record'[q].copy = record[q].copy
      /\ record'[m].kind = "revision" /\ record'[m].version = v /\ record'[m].copy = NoCopy
      /\ copy' = copy
  BY <1>1 DEF ReturnRevision, TypeOK, Records, NoRecord
<1>7. /\ \A u \in Version \ {v} : version'[u] = version[u]
      /\ version'[v].carries = left /\ version'[v].clean = (ok /\ version[parent].clean)
      /\ version'[v].status # "none"
  BY <1>2 DEF TypeOK
<1>8. Used' = Used \union {m} /\ Stored' = Stored \union {v} /\ v \notin Stored /\ Out' = Out
  <2>1. Used' = Used \union {m}
    BY <1>6 DEF Used
  <2>2. v \notin Stored
    BY DEF ReturnRevision
  <2>3. Stored' = Stored \union {v}
    BY <1>7 DEF Stored
  <2>4. Out' = Out
    BY <1>6 DEF Out
  <2> QED
    BY <2>1, <2>2, <2>3, <2>4
<1>9. RecordsAreAboutSomething'
  BY <1>1, <1>6, <1>8 DEF Copying, RecordsAreAboutSomething, IsCopy, Used, Out
<1>10. CleanIsUnmarked'
  BY <1>1, <1>3, <1>7, <1>8 DEF Copying, CleanIsUnmarked, Stored
<1>11. OwnMarkOnly'
  BY <1>1, <1>6, <1>7, <1>8 DEF Copying, OwnMarkOnly, RecordsAreAboutSomething, Used, Stored
<1>12. Alerting'
  <2>1. CASE ~Flagged(d, c, found)
    BY <2>1, AlertingUntouched DEF ReturnRevision
  <2>2. CASE Flagged(d, c, found)
    BY <2>2, RaiseKeeps DEF ReturnRevision
  <2> QED
    BY <2>1, <2>2
<1> QED
  BY <1>5, <1>9, <1>10, <1>11, <1>12 DEF Copying

LEMMA DecideKeeps ==
  ASSUME IInv, NEW m \in Ref, NEW approve \in BOOLEAN, Decide(m, approve)
  PROVE  IInv'
<1> USE DEF IInv
<1> DEFINE v == record[m].version
<1>1. PICK status \in {"APPROVED", "REJECTED"} :
        /\ version' = [version EXCEPT ![v] = [version[v] EXCEPT !.status = status]]
        /\ version[v].status = "PENDING"
  BY DEF Decide
<1>2. \A u \in Version : version[u] \in Versions
  BY DEF TypeOK
<1>3. \A u \in Version : [version[u] EXCEPT !.status = status] \in Versions
  BY <1>2 DEF Versions
<1>4. v \in Version
  BY DEF Decide, Copying, RecordsAreAboutSomething, Used, Stored
<1>5. /\ \A u \in Version \ {v} : version'[u] = version[u]
      /\ version'[v] = [version[v] EXCEPT !.status = status]
  BY <1>1, <1>4 DEF TypeOK
<1>6. /\ version'[v].clean = version[v].clean
      /\ version'[v].carries = version[v].carries
      /\ version'[v].narrow = version[v].narrow
      /\ version'[v].status = status
  BY <1>2, <1>4, <1>5 DEF Versions
<1>7. TypeOK'
  <2>1. version' \in [Version -> Versions]
    BY <1>1, <1>3 DEF TypeOK
  <2> QED
    BY <2>1 DEF Decide, TypeOK, AlertVars
<1>8. \A u \in Version : /\ version'[u].clean = version[u].clean
                         /\ version'[u].carries = version[u].carries
                         /\ version'[u].narrow = version[u].narrow
  BY <1>5, <1>6
<1>9. Stored' = Stored
  <2>1. version[v].status # "none" /\ version'[v].status # "none"
    BY <1>1, <1>6
  <2>2. \A u \in Version : version'[u].status # "none" <=> version[u].status # "none"
    BY <1>5, <2>1
  <2> QED
    BY <2>2 DEF Stored
<1>10. Copying'
  <2>1. record' = record /\ copy' = copy
    BY DEF Decide
  <2>2. RecordsAreAboutSomething'
    BY <1>9, <2>1 DEF Copying, RecordsAreAboutSomething, Used, Out, IsCopy
  <2>3. CleanIsUnmarked'
    BY <1>8, <1>9 DEF Copying, CleanIsUnmarked, Stored
  <2>4. OwnMarkOnly'
    BY <1>8, <2>1 DEF Copying, OwnMarkOnly, RecordsAreAboutSomething, Used, Stored, Out
  <2> QED
    BY <2>2, <2>3, <2>4 DEF Copying
<1>11. Alerting'
  BY AlertingUntouched DEF Decide
<1> QED
  BY <1>7, <1>10, <1>11

(* No alert about an uncovered reference is open: those that may be again  *)
(* were read by a reviewer each.                                            *)
LEMMA UncoveredFacts ==
  ASSUME NEW q \in Ref, ~IsOpen(q), TypeOK
  PROVE  Cardinality(LiveAbout(q)) <= Cardinality(Reviewer)
<1> DEFINE read == {forward[f] : f \in Reviewer}
<1>1. LiveAbout(q) \in SUBSET read
  BY DEF LiveAbout, Live, IsOpen
<1>2. forward \in Surjection(Reviewer, read)
  BY DEF TypeOK, Surjection
<1>3. IsFiniteSet(read) /\ Cardinality(read) <= Cardinality(Reviewer)
  BY <1>2, WorkerAssumption, FS_Surjection
<1>4. Cardinality(LiveAbout(q)) <= Cardinality(read)
  BY <1>1, <1>3, FS_Subset
<1>5. Cardinality(read) \in Nat
  BY <1>3, FS_CardinalityType
<1> HIDE DEF read
<1> QED
  BY <1>3, <1>4, <1>5, LiveFacts

LEMMA ReadKeeps ==
  ASSUME IInv, NEW w \in Worker, NEW q \in Ref, NEW anonymous \in BOOLEAN,
         ReadForCheck(w, q, anonymous)
  PROVE  IInv'
<1> USE DEF IInv
<1> DEFINE covered == anonymous /\ AlreadyRaised(q)
<1>1. PICK c \in BOOLEAN : c = covered
  OBVIOUS
<1>2. job' = [job EXCEPT ![w] = [op |-> "record", ref |-> q, anonymous |-> anonymous,
                                 covered |-> c]]
  BY <1>1 DEF ReadForCheck
<1>3. TypeOK'
  <2>1. job' \in [Worker -> Jobs]
    BY <1>2 DEF TypeOK, Jobs
  <2> QED
    BY <2>1 DEF ReadForCheck, TypeOK, AlertVars
<1>4. Copying'
  BY CopyingUntouched DEF ReadForCheck
<1>5. c => q \in alerted
  BY <1>1 DEF AlreadyRaised, IsOpen, Alerting, CoverIsAlerted, TypeOK
<1>6. CoverIsAlerted'
  BY <1>2, <1>5 DEF ReadForCheck, TypeOK, Alerting, CoverIsAlerted, AlertVars
<1>7. \A p \in Ref : LiveAbout(p)' = LiveAbout(p)
  BY DEF ReadForCheck, AlertVars, LiveAbout, Live
<1>8. CASE ~anonymous \/ c
  <2>1. \A p \in Ref : Stale(p)' \subseteq Stale(p)
    BY <1>2, <1>8 DEF Stale, TypeOK
  <2>2. LiveIsBounded'
    BY <1>7, <2>1, BoundKept DEF Alerting
  <2> QED
    BY <1>3, <1>4, <1>6, <2>2 DEF Alerting
<1>9. CASE anonymous /\ ~c
  <2>1. ~IsOpen(q)
    BY <1>1, <1>9 DEF AlreadyRaised
  <2>2. Cardinality(LiveAbout(q)) <= Cardinality(Reviewer)
    BY <2>1, UncoveredFacts
  <2>3. Stale(q)' \in SUBSET Worker
    BY DEF Stale
  <2>4. Cardinality(Stale(q)') \in Nat /\ Cardinality(Stale(q)') <= Cardinality(Worker)
    BY <2>3, WorkerAssumption, FS_Subset, FS_CardinalityType
  <2>5. ASSUME NEW p \in Ref
        PROVE  Cardinality(LiveAbout(p)') + Cardinality(Stale(p)')
                 <= Cardinality(Worker) + Cardinality(Reviewer)
    <3>1. CASE p = q
      BY <1>7, <2>2, <2>4, <3>1, LiveFacts, StaleFacts
    <3>2. CASE p # q
      <4>1. Stale(p)' \subseteq Stale(p)
        BY <1>2, <3>2 DEF Stale, TypeOK
      <4>2. PICK M : M = Stale(p)'
        OBVIOUS
      <4>3. M \in SUBSET Stale(p)
        BY <4>1, <4>2
      <4>4. IsFiniteSet(M) /\ Cardinality(M) <= Cardinality(Stale(p))
        BY <4>3, StaleFacts, FS_Subset
      <4>5. Cardinality(M) \in Nat
        BY <4>4, FS_CardinalityType
      <4>6. Cardinality(LiveAbout(p)) + Cardinality(Stale(p))
              <= Cardinality(Worker) + Cardinality(Reviewer)
        BY DEF Alerting, LiveIsBounded
      <4>7. Cardinality(LiveAbout(p)) + Cardinality(M)
              <= Cardinality(Worker) + Cardinality(Reviewer)
        BY <4>4, <4>5, <4>6, StaleFacts, LiveFacts
      <4> QED
        BY <1>7, <4>2, <4>7
    <3> QED
      BY <3>1, <3>2
  <2>6. LiveIsBounded'
    BY <2>5 DEF LiveIsBounded
  <2> QED
    BY <1>3, <1>4, <1>6, <2>6 DEF Alerting
<1> QED
  BY <1>8, <1>9

(* A check is done with: nothing is stale that was not.                    *)
LEMMA IdleFacts ==
  ASSUME IInv, NEW w \in Worker, job' = [job EXCEPT ![w] = Idle], NEW p \in Ref
  PROVE  /\ Stale(p)' = Stale(p) \ {w}
         /\ w \in Stale(p) => Cardinality(Stale(p)') = Cardinality(Stale(p)) - 1
<1>1. Stale(p)' = Stale(p) \ {w}
  BY DEF IInv, TypeOK, Stale, Idle
<1> DEFINE S == Stale(p)
<1>2. IsFiniteSet(S)
  BY StaleFacts
<1>3. Cardinality(S \ {w}) = IF w \in S THEN Cardinality(S) - 1 ELSE Cardinality(S)
  BY <1>2, FS_RemoveElement
<1> QED
  BY <1>1, <1>3

LEMMA AbortKeeps == ASSUME IInv, NEW w \in Worker, Abort(w) PROVE IInv'
<1> USE DEF IInv
<1>1. job' = [job EXCEPT ![w] = Idle]
  BY DEF Abort
<1>2. TypeOK'
  BY <1>1 DEF Abort, TypeOK, AlertVars, Idle, Jobs
<1>3. Copying'
  BY CopyingUntouched DEF Abort
<1>4. CoverIsAlerted'
  BY <1>1 DEF Abort, TypeOK, Alerting, CoverIsAlerted, AlertVars, Idle
<1>5. \A q \in Ref : LiveAbout(q)' \subseteq LiveAbout(q) /\ Stale(q)' \subseteq Stale(q)
  BY <1>1, IdleFacts DEF Abort, AlertVars, LiveAbout, Live
<1>6. LiveIsBounded'
  BY <1>5, BoundKept DEF Alerting
<1> QED
  BY <1>2, <1>3, <1>4, <1>6 DEF Alerting

(* One alert about q becomes live. *)
LEMMA InsertFacts ==
  ASSUME TypeOK, NEW a \in Alert, NEW q \in Ref, Insert(a, q), UNCHANGED forward
  PROVE  /\ open' \subseteq Alert \union Ref /\ open' \intersect Ref = open \intersect Ref
         /\ about' \in [Alert -> Ref \union {NoRef}]
         /\ \A b \in Alert : about'[b] = about[b] \/ about'[b] = q
         /\ \A p \in Ref \ {q} : LiveAbout(p)' \subseteq LiveAbout(p)
         /\ Cardinality(LiveAbout(q)') = Cardinality(LiveAbout(q)) + 1
<1>1. /\ open' \subseteq Alert \union Ref /\ open' \intersect Ref = open \intersect Ref
      /\ about' \in [Alert -> Ref \union {NoRef}]
      /\ about'[a] = q /\ \A b \in Alert \ {a} : about'[b] = about[b]
  BY DEF Insert, TypeOK
<1>2. \A b \in Alert : Live(b)' <=> (Live(b) \/ b = a)
  BY DEF Insert, Live
<1>3. \A p \in Ref \ {q} : LiveAbout(p)' \subseteq LiveAbout(p)
  BY <1>1, <1>2 DEF LiveAbout
<1>4. LiveAbout(q)' = LiveAbout(q) \union {a} /\ a \notin LiveAbout(q)
  BY <1>1, <1>2 DEF LiveAbout, Insert
<1>5. Cardinality(LiveAbout(q) \union {a}) = Cardinality(LiveAbout(q)) + 1
  BY <1>4, LiveFacts, FS_AddElement
<1> QED
  BY <1>1, <1>3, <1>4, <1>5

LEMMA RecordKeeps == ASSUME IInv, NEW w \in Worker, RecordResult(w) PROVE IInv'
<1> USE DEF IInv
<1>0. PICK q : q = job[w].ref
  OBVIOUS
<1>1. /\ job' = [job EXCEPT ![w] = Idle] /\ job[w].op = "record" /\ q \in Ref
      /\ recent' = recent \union {q} /\ tampered' = tampered \union {q}
      /\ UNCHANGED <<record, version, copy, forward>>
  BY <1>0 DEF RecordResult, Alerting, CoverIsAlerted
<1>2. /\ job' \in [Worker -> Jobs]
      /\ \A u \in Worker : job'[u].op = "record" => job'[u] = job[u]
  BY <1>1 DEF TypeOK, Idle, Jobs
<1>3. Copying'
  BY <1>1, CopyingUntouched
<1>4. \A p \in Ref : Stale(p)' \subseteq Stale(p)
  BY <1>1, IdleFacts
<1>5. CASE job[w].covered
  <2>1. UNCHANGED <<about, open, alerted>> /\ q \in alerted
    BY <1>0, <1>1, <1>5 DEF RecordResult, Alerting, CoverIsAlerted
  <2>2. TypeOK'
    BY <1>1, <1>2, <2>1 DEF TypeOK
  <2>3. CoverIsAlerted'
    BY <1>1, <1>2, <2>1 DEF Alerting, CoverIsAlerted
  <2>4. \A p \in Ref : LiveAbout(p)' \subseteq LiveAbout(p)
    BY <1>1, <2>1 DEF LiveAbout, Live
  <2>5. LiveIsBounded'
    BY <1>4, <2>4, BoundKept DEF Alerting
  <2> QED
    BY <1>3, <2>2, <2>3, <2>5 DEF Alerting
<1>6. CASE ~job[w].covered /\ ~job[w].anonymous
  <2>1. alerted' = alerted \union {q} /\ open' = open \union {q} /\ UNCHANGED about
    BY <1>0, <1>6 DEF RecordResult
  <2>2. TypeOK'
    BY <1>1, <1>2, <2>1 DEF TypeOK
  <2>3. CoverIsAlerted'
    BY <1>1, <1>2, <2>1 DEF Alerting, CoverIsAlerted
  <2>4. \A p \in Ref : LiveAbout(p)' \subseteq LiveAbout(p)
    BY <1>1, <2>1 DEF LiveAbout, Live
  <2>5. LiveIsBounded'
    BY <1>4, <2>4, BoundKept DEF Alerting
  <2> QED
    BY <1>3, <2>2, <2>3, <2>5 DEF Alerting
<1>7. CASE ~job[w].covered /\ job[w].anonymous
  <2>1. PICK a \in Alert : Insert(a, q) /\ alerted' = alerted \union {q}
    BY <1>0, <1>7 DEF RecordResult
  <2>2. /\ open' \subseteq Alert \union Ref /\ open' \intersect Ref = open \intersect Ref
        /\ about' \in [Alert -> Ref \union {NoRef}]
        /\ \A b \in Alert : about'[b] = about[b] \/ about'[b] = q
        /\ \A p \in Ref \ {q} : LiveAbout(p)' \subseteq LiveAbout(p)
        /\ Cardinality(LiveAbout(q)') = Cardinality(LiveAbout(q)) + 1
    BY <1>1, <2>1, InsertFacts
  <2>3. TypeOK'
    BY <1>1, <1>2, <2>1, <2>2 DEF TypeOK
  <2>4. CoverIsAlerted'
    BY <1>1, <1>2, <2>1, <2>2 DEF Alerting, CoverIsAlerted
  <2>5. ASSUME NEW p \in Ref
        PROVE  Cardinality(LiveAbout(p)') + Cardinality(Stale(p)')
                 <= Cardinality(Worker) + Cardinality(Reviewer)
    <3>0. Cardinality(LiveAbout(p)) + Cardinality(Stale(p))
            <= Cardinality(Worker) + Cardinality(Reviewer)
      BY DEF Alerting, LiveIsBounded
    <3>1. CASE p = q
      <4>1. w \in Stale(p)
        BY <1>0, <1>1, <1>7, <3>1 DEF Stale
      <4>2. Cardinality(Stale(p)') = Cardinality(Stale(p)) - 1
        BY <1>1, <4>1, IdleFacts
      <4> QED
        BY <2>2, <3>0, <3>1, <4>2, StaleFacts, LiveFacts
    <3>2. CASE p # q
      <4>1. PICK L, M : L = LiveAbout(p)' /\ M = Stale(p)'
        OBVIOUS
      <4>2. L \in SUBSET LiveAbout(p) /\ M \in SUBSET Stale(p)
        BY <1>4, <2>2, <3>2, <4>1
      <4>3. /\ IsFiniteSet(L) /\ Cardinality(L) <= Cardinality(LiveAbout(p))
            /\ IsFiniteSet(M) /\ Cardinality(M) <= Cardinality(Stale(p))
        BY <4>2, LiveFacts, StaleFacts, FS_Subset
      <4>4. Cardinality(L) \in Nat /\ Cardinality(M) \in Nat
        BY <4>3, FS_CardinalityType
      <4>5. Cardinality(L) + Cardinality(M) <= Cardinality(Worker) + Cardinality(Reviewer)
        BY <3>0, <4>3, <4>4, StaleFacts, LiveFacts
      <4> QED
        BY <4>1, <4>5
    <3> QED
      BY <3>1, <3>2
  <2>6. LiveIsBounded'
    BY <2>5 DEF LiveIsBounded
  <2> QED
    BY <1>3, <2>3, <2>4, <2>6 DEF Alerting
<1> QED
  BY <1>5, <1>6, <1>7

(* An alert is read to be forwarded, forwarded or kept as it is: whatever a *)
(* forward opens was live since it was read.                                *)
LEMMA ReviewKeeps ==
  ASSUME IInv, NEW f \in Reviewer, NEW a \in Alert \union Ref,
         ReadForForward(f, a) \/ Forward(f) \/ KeepStage(f)
  PROVE  IInv'
<1> USE DEF IInv
<1>1. UNCHANGED <<record, version, copy, about, recent, alerted, tampered, job>>
  BY DEF ReadForForward, Forward, KeepStage
<1>2. /\ \A b \in open' : b \in open \/ \E g \in Reviewer : forward[g] = b
      /\ \A g \in Reviewer : /\ forward'[g] \in Alert \union Ref \union {NoAlert}
                             /\ forward'[g] = forward[g] \/ forward'[g] = NoAlert
                                   \/ forward'[g] \in open
      /\ forward' \in [Reviewer -> Alert \union Ref \union {NoAlert}]
  <2>1. CASE ReadForForward(f, a)
    BY <2>1 DEF ReadForForward, TypeOK
  <2>2. CASE Forward(f)
    BY <2>2 DEF Forward, TypeOK
  <2>3. CASE KeepStage(f)
    BY <2>3 DEF KeepStage, TypeOK
  <2> QED
    BY <2>1, <2>2, <2>3
<1>3. open' \subseteq Alert \union Ref
  <2>1. CASE Forward(f)
    BY <2>1 DEF Forward, TypeOK
  <2>2. CASE open' \subseteq open
    BY <2>2 DEF TypeOK
  <2> QED
    BY <2>1, <2>2 DEF ReadForForward, KeepStage
<1>4. TypeOK'
  BY <1>1, <1>2, <1>3 DEF TypeOK
<1>5. Copying'
  BY <1>1, CopyingUntouched
<1>6. CoverIsAlerted'
  BY <1>1, <1>2 DEF Alerting, CoverIsAlerted
<1>7. \A b \in Alert : Live(b)' => Live(b)
  BY <1>2 DEF Live
<1>8. \A q \in Ref : LiveAbout(q)' \subseteq LiveAbout(q) /\ Stale(q)' \subseteq Stale(q)
  BY <1>1, <1>7 DEF LiveAbout, Stale
<1>9. LiveIsBounded'
  BY <1>8, BoundKept DEF Alerting
<1> QED
  BY <1>4, <1>5, <1>6, <1>9 DEF Alerting

LEMMA CloseKeeps == ASSUME IInv, NEW a \in Alert \union Ref, Close(a) PROVE IInv'
<1> USE DEF IInv
<1>1. TypeOK'
  BY DEF Close, TypeOK
<1>2. Copying'
  BY CopyingUntouched DEF Close
<1>3. CoverIsAlerted'
  BY DEF Close, Alerting, CoverIsAlerted
<1>4. \A q \in Ref : LiveAbout(q)' \subseteq LiveAbout(q) /\ Stale(q)' \subseteq Stale(q)
  BY DEF Close, LiveAbout, Live, Stale
<1>5. LiveIsBounded'
  BY <1>4, BoundKept DEF Alerting
<1> QED
  BY <1>1, <1>2, <1>3, <1>5 DEF Alerting

LEMMA HourPassesKeeps == ASSUME IInv, NEW q \in Ref, HourPasses(q) PROVE IInv'
<1>1. TypeOK'
  BY DEF IInv, HourPasses, TypeOK
<1>2. Copying'
  BY CopyingUntouched DEF IInv, HourPasses
<1>3. CoverIsAlerted'
  BY DEF IInv, HourPasses, Alerting, CoverIsAlerted
<1>4. \A p \in Ref : LiveAbout(p)' \subseteq LiveAbout(p) /\ Stale(p)' \subseteq Stale(p)
  BY DEF HourPasses, LiveAbout, Live, Stale
<1>5. LiveIsBounded'
  BY <1>4, BoundKept DEF IInv, Alerting
<1> QED
  BY <1>1, <1>2, <1>3, <1>5 DEF IInv, Alerting

LEMMA StutterKeeps == ASSUME IInv, UNCHANGED vars PROVE IInv'
<1>1. TypeOK'
  BY DEF IInv, vars, TypeOK
<1>2. Copying' /\ Alerting'
  BY CopyingUntouched, AlertingUntouched DEF IInv, vars, AlertVars
<1> QED
  BY <1>1, <1>2 DEF IInv

LEMMA NextKeeps == ASSUME IInv, [Next]_vars PROVE IInv'
<1>1. CASE \E r \in Ref, v \in Version, marks \in SUBSET Copy : ProposeDocument(r, v, marks)
  BY <1>1, ProposeKeeps
<1>2. CASE \E r \in Ref, c \in Copy, v \in Version, kind \in {"view", "own", "download"},
              scored \in BOOLEAN : Issue(r, c, v, kind, scored)
  BY <1>2, IssueKeeps
<1>3. CASE \E r \in Ref, c \in Copy : FetchAgain(r, c)
  BY <1>3, FetchAgainKeeps
<1>4. CASE \E m, d \in Ref, v \in Version, c \in Out,
              found \in {"none", "review", "tamper"}, direct \in BOOLEAN :
             ReturnRevision(m, v, d, c, found, direct)
  BY <1>4, ReturnKeeps
<1>5. CASE \E m \in Ref, approve \in BOOLEAN : Decide(m, approve)
  BY <1>5, DecideKeeps
<1>6. CASE \E q \in Contradicted, w \in Worker, anonymous \in BOOLEAN : ReadForCheck(w, q, anonymous)
  <2>1. Contradicted \subseteq Ref
    BY DEF Contradicted, Used
  <2> QED
    BY <1>6, <2>1, ReadKeeps
<1>7. CASE \E w \in Worker : RecordResult(w) \/ Abort(w)
  BY <1>7, RecordKeeps, AbortKeeps
<1>8. CASE \E a \in Alert \union Ref : Close(a)
  BY <1>8, CloseKeeps
<1>10. CASE \E f \in Reviewer, a \in Alert \union Ref : ReadForForward(f, a)
  BY <1>10, ReviewKeeps
<1>11. CASE \E f \in Reviewer : Forward(f) \/ KeepStage(f)
  <2>1. PICK f \in Reviewer : Forward(f) \/ KeepStage(f)
    BY <1>11
  <2>2. forward[f] \in Alert \union Ref
    BY <2>1 DEF Forward, KeepStage, IInv, TypeOK
  <2> QED
    BY <2>1, <2>2, ReviewKeeps
<1>12. CASE \E q \in Ref : HourPasses(q)
  BY <1>12, HourPassesKeeps
<1>13. CASE \E r \in Ref, v \in Version : RequestDownload(r, v)
  BY <1>13, RequestKeeps
<1>9. CASE UNCHANGED vars
  BY <1>9, StutterKeeps
<1> QED
  BY <1>1, <1>2, <1>3, <1>4, <1>5, <1>6, <1>7, <1>8, <1>9, <1>10, <1>11, <1>12, <1>13 DEF Next

-----------------------------------------------------------------------------
(* The results. *)

(* Every reachable state satisfies the inductive invariant: records, copies *)
(* and marks belong together, and every reference an anonymous check may    *)
(* find covered had an alert.                                               *)
THEOREM InvariantHolds == Spec => []IInv
<1>1. Init => IInv
  BY InitHolds
<1>2. IInv /\ [Next]_vars => IInv'
  BY NextKeeps
<1> QED
  BY <1>1, <1>2, PTL DEF Spec

(* A genuine copy matches its own reference, however many revisions and     *)
(* stripped layers lie between it and the first document (evaluate_copy,    *)
(* strip_watermark).                                                        *)
THEOREM GenuineCopiesAreRecognised == Spec => []GenuineCopiesMatch
<1>1. IInv => GenuineCopiesMatch
  BY GenuineFollows
<1> QED
  BY <1>1, InvariantHolds, PTL

(* Only the issued bytes match a reference (evaluate_copy, _hash_check).    *)
THEOREM VerdictsCannotBeBorrowed == Spec => []OnlyTheIssuedCopyMatches
<1>1. IInv => OnlyTheIssuedCopyMatches
  BY OnlyIssuedFollows
<1> QED
  BY <1>1, InvariantHolds, PTL

(* Anonymous checks keep no more alerts open about a reference than checks  *)
(* and forwards run at once (_alert_already_raised, _record_result,         *)
(* forward_alert).                                                          *)
THEOREM AlertsAreBounded == Spec => []AnonymousAlertsAreBounded
<1>1. IInv => AnonymousAlertsAreBounded
  BY BoundFollows
<1> QED
  BY <1>1, InvariantHolds, PTL

(* A tamper event is never silent: its reference had an alert               *)
(* (_record_result, _create_revision).                                      *)
THEOREM EveryTamperingIsAlerted == Spec => []TamperingIsAlerted
<1>1. IInv => TamperingIsAlerted
  BY DEF IInv, Alerting, CoverIsAlerted, TamperingIsAlerted
<1> QED
  BY <1>1, InvariantHolds, PTL
=============================================================================
