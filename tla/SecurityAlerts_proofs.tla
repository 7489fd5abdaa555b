----------------------- MODULE SecurityAlerts_proofs ------------------------
(***************************************************************************)
(* The escalation of alerts, for every number of users, alerts and         *)
(* concurrent handlers.                                                    *)
(***************************************************************************)
EXTENDS SecurityAlerts, TLAPS

(* The inductive invariant.  A decision can be written to an alert that    *)
(* others have dismissed or passed on meanwhile, so the state it was read  *)
(* in is no guide.  What lasts is the history: who passed the alert on,    *)
(* and that nobody covered it at some time.  A handler about to escalate   *)
(* or to revoke knows the part of it that its decision needs.              *)

Raised(a) == a \in Alert /\ alert[a].state # "NONE"
Escalated(a) == "AUDITOR" \in passed[a] /\ ("MANAGER" \in passed[a] \/ uncovered[a])

CoverageKnown == ~ManagerExists => \A a \in Alert : Raised(a) => uncovered[a]

StageSound ==
  \A a \in Alert :
    /\ alert[a].state = "MANAGER_REVIEW" => "AUDITOR" \in passed[a]
    /\ alert[a].state = "ADMIN_REVIEW" => Escalated(a)
    /\ alert[a].state = "IDENTITY_REVOKED" => ~active /\ Escalated(a)

ForwardSound(j) ==
  /\ Raised(j.alert) /\ j.user \in User
  /\ "AUDITOR" \in passed[j.alert] \union {Role[j.user]}
MoveSound(j) ==
  /\ Raised(j.alert) /\ j.user \in User
  /\ j.to \in {"MANAGER_REVIEW", "ADMIN_REVIEW", "DISMISSED"}
  /\ j.to \in OpenStates => "AUDITOR" \in passed[j.alert] \union {Role[j.user]}
  /\ j.to = "ADMIN_REVIEW"
       => "MANAGER" \in passed[j.alert] \union {Role[j.user]} \/ uncovered[j.alert]
JobSound(w) ==
  /\ job[w].op = "forward" => ForwardSound(job[w])
  /\ job[w].op = "move" => MoveSound(job[w])
  /\ job[w].op = "revoke" => Raised(job[w].alert) /\ Escalated(job[w].alert)
JobsSound == \A w \in Worker : JobSound(w)

IInv == TypeOK /\ CoverageKnown /\ StageSound /\ JobsSound

USE RoleAssumption, NoneAssumption

-----------------------------------------------------------------------------
(* Each step keeps the invariant. *)

(* The initial state satisfies the invariant. *)
LEMMA InitInvariant == Init => IInv
BY DEF Init, IInv, TypeOK, CoverageKnown, StageSound, JobsSound, JobSound, Raised,
   Alerts, Jobs, NoRow, Idle, Levels, States, OpenStates

(* What a handler knows of the history stays true: alerts stay raised, and *)
(* who passed one on and when it was uncovered is never forgotten.         *)
LEMMA HistoryKeepsJobs ==
  ASSUME IInv, NEW w \in Worker, job'[w] = job[w],
         \A a \in Alert : Raised(a) => /\ alert'[a].state # "NONE"
                                       /\ passed[a] \subseteq passed'[a]
                                       /\ uncovered[a] => uncovered'[a]
  PROVE  JobSound(w)'
<1>1. JobSound(w)
  BY DEF IInv, JobsSound
<1>2. \A a \in Alert : Raised(a) => Raised(a)'
  BY DEF Raised
<1> QED
  BY <1>1, <1>2 DEF JobSound, ForwardSound, MoveSound, Escalated, Raised

(* Raising an alert on a blank row. *)
LEMMA InsertKeeps ==
  ASSUME IInv, NEW a \in Alert, NEW source \in {"AI", "RULE"}, NEW level \in Levels,
         Insert(a, source, level), UNCHANGED <<covering, active, passed>>
  PROVE  /\ alert' \in [Alert -> Alerts] /\ uncovered' \in [Alert -> BOOLEAN]
         /\ CoverageKnown' /\ StageSound'
         /\ \A w \in Worker : job'[w] = job[w] => JobSound(w)'
<1> DEFINE new == [state |-> "AUDITOR_REVIEW", source |-> source,
                   level |-> level, recent |-> TRUE]
<1>1. /\ alert[a].state = "NONE" /\ alert' = [alert EXCEPT ![a] = new]
      /\ uncovered' = [uncovered EXCEPT ![a] = ~ManagerExists]
  BY DEF Insert
<1>2. new \in Alerts /\ new.state = "AUDITOR_REVIEW"
  BY DEF Alerts, States, OpenStates
<1> HIDE DEF new
<1>3. /\ alert'[a] = new /\ (uncovered'[a] <=> ~ManagerExists)
      /\ \A b \in Alert : b # a => alert'[b] = alert[b] /\ uncovered'[b] = uncovered[b]
  BY <1>1 DEF IInv, TypeOK
<1>4. alert' \in [Alert -> Alerts] /\ uncovered' \in [Alert -> BOOLEAN]
  BY <1>1, <1>2 DEF IInv, TypeOK, ManagerExists
<1>5. CoverageKnown'
  <2>1. ManagerExists' <=> ManagerExists
    BY DEF ManagerExists
  <2> QED
    BY <1>3, <2>1 DEF IInv, CoverageKnown, Raised
<1>6. StageSound'
  BY <1>2, <1>3 DEF IInv, StageSound, Escalated
<1>7. ASSUME NEW w \in Worker, job'[w] = job[w] PROVE JobSound(w)'
  <2>1. \A b \in Alert : Raised(b) => /\ alert'[b].state # "NONE"
                                      /\ passed[b] \subseteq passed'[b]
                                      /\ uncovered[b] => uncovered'[b]
    BY <1>1, <1>3 DEF Raised
  <2> QED
    BY <1>7, <2>1, HistoryKeepsJobs
<1> QED
  BY <1>4, <1>5, <1>6, <1>7

(* A rule's alert is inserted in one step. *)
LEMMA RaiseByRuleKeeps ==
  ASSUME IInv, NEW a \in Alert, NEW level \in Levels, RaiseByRule(a, level)
  PROVE  IInv'
<1>1. /\ alert' \in [Alert -> Alerts] /\ uncovered' \in [Alert -> BOOLEAN]
      /\ CoverageKnown' /\ StageSound'
      /\ \A w \in Worker : job'[w] = job[w] => JobSound(w)'
  BY InsertKeeps DEF RaiseByRule
<1> QED
  BY <1>1 DEF IInv, TypeOK, JobsSound, RaiseByRule

(* A handler that changes nothing but its own job. *)
LEMMA JobKeeps ==
  ASSUME IInv, NEW w \in Worker, NEW new \in Jobs, job' = [job EXCEPT ![w] = new],
         new.op = "forward" => ForwardSound(new),
         new.op = "move" => MoveSound(new),
         new.op = "revoke" => Raised(new.alert) /\ Escalated(new.alert),
         UNCHANGED <<alert, covering, active, history>>
  PROVE  IInv'
<1>1. /\ job'[w] = new /\ TypeOK'
      /\ \A x \in Worker : x # w => job'[x] = job[x]
  BY DEF IInv, TypeOK, history
<1>2. CoverageKnown' /\ StageSound'
  BY DEF IInv, CoverageKnown, StageSound, Escalated, Raised, ManagerExists, history
<1>3. JobSound(w)'
  BY <1>1 DEF JobSound, ForwardSound, MoveSound, Escalated, Raised, history
<1>4. ASSUME NEW x \in Worker, x # w PROVE JobSound(x)'
  BY <1>1, <1>4, HistoryKeepsJobs DEF Raised, history
<1> QED
  BY <1>1, <1>2, <1>3, <1>4 DEF IInv, JobsSound

(* Looking for an open alert obliges to nothing. *)
LEMMA ReadForRaiseKeeps ==
  ASSUME IInv, NEW w \in Worker, NEW level \in Levels, ReadForRaise(w, level)
  PROVE  IInv'
<1>1. PICK a \in Alert \union {NoAlert} :
        Start(w, [Idle EXCEPT !.op = "raise", !.alert = a, !.level = level,
                              !.seen = IF a = NoAlert THEN level ELSE alert[a].level])
  BY DEF ReadForRaise, OpenIncidents
<1> DEFINE seen == IF a = NoAlert THEN level ELSE alert[a].level
           new == [Idle EXCEPT !.op = "raise", !.alert = a, !.level = level, !.seen = seen]
<1>2. seen \in Levels
  BY DEF IInv, TypeOK, Alerts
<1>3. job' = [job EXCEPT ![w] = new]
  BY <1>1 DEF Start
<1> HIDE DEF seen
<1>4. new \in Jobs /\ new.op = "raise"
  BY <1>2 DEF Jobs, Idle, States
<1>5. UNCHANGED <<alert, covering, active, history>>
  BY DEF ReadForRaise
<1> HIDE DEF new
<1> QED
  BY <1>3, <1>4, <1>5, JobKeeps

(* A handler that ends. *)
LEMMA IdleIsSound == Idle \in Jobs /\ Idle.op = "idle"
BY DEF Jobs, Idle, Levels, States

(* An AI alert is inserted when the handler found no open one. *)
LEMMA RaiseByModelKeeps ==
  ASSUME IInv, NEW w \in Worker, NEW a \in Alert, RaiseByModel(w, a)
  PROVE  IInv'
<1>1. /\ job[w].level \in Levels /\ Insert(a, "AI", job[w].level)
      /\ job' = [job EXCEPT ![w] = Idle] /\ UNCHANGED <<covering, active, passed>>
  BY DEF RaiseByModel, Finish, IInv, TypeOK, Jobs
<1>2. /\ alert' \in [Alert -> Alerts] /\ uncovered' \in [Alert -> BOOLEAN]
      /\ CoverageKnown' /\ StageSound'
      /\ \A x \in Worker : job'[x] = job[x] => JobSound(x)'
  BY <1>1, InsertKeeps
<1>3. job'[w] = Idle /\ job' \in [Worker -> Jobs]
      /\ \A x \in Worker : x # w => job'[x] = job[x]
  BY <1>1, IdleIsSound DEF IInv, TypeOK
<1>4. JobSound(w)'
  BY <1>3, IdleIsSound DEF JobSound
<1> QED
  BY <1>1, <1>2, <1>3, <1>4 DEF IInv, TypeOK, JobsSound

(* A change of an alert that leaves its state alone; jobs may only end.     *)
LEMMA SameStateKeeps ==
  ASSUME IInv, alert' \in [Alert -> Alerts],
         \A a \in Alert : alert'[a].state = alert[a].state,
         job' \in [Worker -> Jobs],
         \A w \in Worker : job'[w] = job[w] \/ job'[w] = Idle,
         UNCHANGED <<covering, active, history>>
  PROVE  IInv'
<1>1. TypeOK' /\ CoverageKnown' /\ StageSound'
  BY DEF IInv, TypeOK, CoverageKnown, StageSound, Escalated, Raised, ManagerExists, history
<1>2. ASSUME NEW w \in Worker PROVE JobSound(w)'
  <2>1. CASE job'[w] = job[w]
    BY <2>1, HistoryKeepsJobs DEF Raised, history
  <2>2. CASE job'[w] = Idle
    BY <2>2, IdleIsSound DEF JobSound
  <2> QED
    BY <2>1, <2>2
<1> QED
  BY <1>1, <1>2 DEF IInv, JobsSound

(* Evidence raises the severity only. *)
LEMMA AddEvidenceKeeps ==
  ASSUME IInv, NEW w \in Worker, AddEvidence(w)
  PROVE  IInv'
<1> DEFINE a == job[w].alert
           row == [alert[a] EXCEPT !.level = job[w].level]
<1>1. /\ a \in Alert /\ alert[a] \in Alerts /\ job[w].level \in Levels
      /\ job' = [job EXCEPT ![w] = Idle] /\ UNCHANGED <<covering, active, history>>
  BY DEF AddEvidence, Finish, IInv, TypeOK, Jobs
<1>2. row \in Alerts /\ row.state = alert[a].state
  BY <1>1 DEF Alerts
<1>3. alert' = [alert EXCEPT ![a] = row] \/ alert' = alert
  BY DEF AddEvidence
<1> HIDE DEF row
<1>4. alert' \in [Alert -> Alerts] /\ \A b \in Alert : alert'[b].state = alert[b].state
  BY <1>1, <1>2, <1>3 DEF IInv, TypeOK
<1>5. job' \in [Worker -> Jobs] /\ \A x \in Worker : job'[x] = job[x] \/ job'[x] = Idle
  BY <1>1, IdleIsSound DEF IInv, TypeOK
<1> QED
  BY <1>1, <1>4, <1>5, SameStateKeeps

(* An alert that ages is the same alert. *)
LEMMA AgeKeeps ==
  ASSUME IInv, NEW a \in Alert, Age(a)
  PROVE  IInv'
<1> DEFINE row == [alert[a] EXCEPT !.recent = FALSE]
<1>0. alert[a] \in Alerts
  BY DEF IInv, TypeOK
<1>1. row \in Alerts /\ row.state = alert[a].state
  BY <1>0 DEF Alerts
<1>2. alert' = [alert EXCEPT ![a] = row] /\ UNCHANGED <<covering, active, job, history>>
  BY DEF Age
<1> HIDE DEF row
<1>3. alert' \in [Alert -> Alerts] /\ \A b \in Alert : alert'[b].state = alert[b].state
  BY <1>1, <1>2 DEF IInv, TypeOK
<1> QED
  BY <1>2, <1>3, SameStateKeeps DEF IInv, TypeOK

(* A handler that ends without committing. *)
LEMMA AbortKeeps ==
  ASSUME IInv, NEW w \in Worker, Abort(w)
  PROVE  IInv'
<1>1. job' = [job EXCEPT ![w] = Idle] /\ UNCHANGED <<alert, covering, active, history>>
  BY DEF Abort, Finish
<1> QED
  BY <1>1, IdleIsSound, JobKeeps

(* A forward starts with what the alert's state says of its history. *)
LEMMA ReadForForwardKeeps ==
  ASSUME IInv, NEW w \in Worker, NEW u \in User, NEW a \in Alert, ReadForForward(w, u, a)
  PROVE  IInv'
<1>1. PICK op \in {"move", "forward"} :
        /\ op = "move" <=> Role[u] = "MANAGER"
        /\ Review(w, u, a, op, "ADMIN_REVIEW")
  BY DEF ReadForForward
<1> DEFINE new == [Idle EXCEPT !.op = op, !.user = u, !.alert = a,
                               !.from = alert[a].state, !.to = "ADMIN_REVIEW"]
<1>2. alert[a].state \in States
  BY DEF IInv, TypeOK, Alerts
<1>3. /\ new \in Jobs /\ new.op = op /\ new.user = u /\ new.alert = a
      /\ new.to = "ADMIN_REVIEW"
  BY <1>2 DEF Jobs, Idle, States, OpenStates, Levels
<1>4. job' = [job EXCEPT ![w] = new] /\ UNCHANGED <<alert, covering, active, history>>
  BY <1>1 DEF Review, Start
<1> HIDE DEF new
<1>5. Raised(a) /\ "AUDITOR" \in passed[a] \union {Role[u]}
  BY DEF ReadForForward, MayForward, Reviewers, Raised, IInv, StageSound
<1>6. op = "move" => MoveSound(new)
  BY <1>1, <1>3, <1>5 DEF MoveSound
<1>7. op = "forward" => ForwardSound(new)
  BY <1>3, <1>5 DEF ForwardSound
<1> QED
  BY <1>3, <1>4, <1>6, <1>7, JobKeeps

(* Asking which managers cover the department. *)
LEMMA AskForManagerKeeps ==
  ASSUME IInv, NEW w \in Worker, AskForManager(w)
  PROVE  IInv'
<1>1. /\ ForwardSound(job[w]) /\ job[w] \in Jobs
      /\ UNCHANGED <<alert, covering, active, history>>
  BY DEF AskForManager, Serving, IInv, JobsSound, JobSound, TypeOK
<1>2. CASE Finish(w)
  BY <1>1, <1>2, IdleIsSound, JobKeeps DEF Finish
<1>3. ASSUME NEW to \in {"ADMIN_REVIEW", "MANAGER_REVIEW"},
             to = "ADMIN_REVIEW" => ~ManagerExists,
             job' = [job EXCEPT ![w].op = "move", ![w].to = to]
      PROVE  IInv'
  <2> DEFINE new == [job[w] EXCEPT !.op = "move", !.to = to]
  <2>1. /\ new \in Jobs /\ new.op = "move" /\ new.to = to
        /\ new.user = job[w].user /\ new.alert = job[w].alert
    BY <1>1 DEF Jobs, States, OpenStates
  <2>2. job' = [job EXCEPT ![w] = new]
    BY <1>3
  <2> HIDE DEF new
  <2>3. MoveSound(new)
    BY <1>1, <1>3, <2>1 DEF MoveSound, ForwardSound, IInv, CoverageKnown, Raised
  <2> QED
    BY <1>1, <2>1, <2>2, <2>3, JobKeeps
<1> QED
  BY <1>2, <1>3 DEF AskForManager

(* A dismissal escalates nothing. *)
LEMMA ReadForDismissKeeps ==
  ASSUME IInv, NEW w \in Worker, NEW u \in User, NEW a \in Alert, ReadForDismiss(w, u, a)
  PROVE  IInv'
<1> DEFINE new == [Idle EXCEPT !.op = "move", !.user = u, !.alert = a,
                               !.from = alert[a].state, !.to = "DISMISSED"]
<1>1. alert[a].state \in States /\ Raised(a)
  BY DEF IInv, TypeOK, Alerts, ReadForDismiss, MayDismiss, Raised
<1>2. /\ new \in Jobs /\ new.op = "move" /\ new.user = u /\ new.alert = a
      /\ new.to = "DISMISSED"
  BY <1>1 DEF Jobs, Idle, States, Levels
<1>3. job' = [job EXCEPT ![w] = new] /\ UNCHANGED <<alert, covering, active, history>>
  BY DEF ReadForDismiss, Review, Start
<1> HIDE DEF new
<1>4. MoveSound(new)
  BY <1>1, <1>2 DEF MoveSound, OpenStates
<1> QED
  BY <1>2, <1>3, <1>4, JobKeeps

(* A revocation starts from an alert that was escalated. *)
LEMMA ReadForRevokeKeeps ==
  ASSUME IInv, NEW w \in Worker, NEW u \in User, NEW a \in Alert, ReadForRevoke(w, u, a)
  PROVE  IInv'
<1> DEFINE new == [Idle EXCEPT !.op = "revoke", !.user = u, !.alert = a,
                               !.from = alert[a].state, !.to = "IDENTITY_REVOKED"]
<1>1. alert[a].state \in States /\ Raised(a) /\ Escalated(a)
  BY DEF IInv, TypeOK, Alerts, StageSound, ReadForRevoke, Raised
<1>2. new \in Jobs /\ new.op = "revoke" /\ new.alert = a
  BY <1>1 DEF Jobs, Idle, States, Levels
<1>3. job' = [job EXCEPT ![w] = new] /\ UNCHANGED <<alert, covering, active, history>>
  BY DEF ReadForRevoke, Review, Start
<1> HIDE DEF new
<1> QED
  BY <1>1, <1>2, <1>3, JobKeeps

(* A stale decision is still backed by the history of its alert. *)
LEMMA MoveKeeps ==
  ASSUME IInv, NEW w \in Worker, Move(w)
  PROVE  IInv'
<1> DEFINE a == job[w].alert
           to == job[w].to
           row == [alert[a] EXCEPT !.state = to]
<1>1. MoveSound(job[w]) /\ job[w] \in Jobs
  BY DEF Move, Serving, IInv, JobsSound, JobSound, TypeOK
<1>2. /\ a \in Alert /\ alert[a] \in Alerts /\ Role[job[w].user] \in Roles
      /\ to \in {"MANAGER_REVIEW", "ADMIN_REVIEW", "DISMISSED"}
  BY <1>1 DEF MoveSound, Raised, IInv, TypeOK
<1>3. row \in Alerts /\ row.state = to
  BY <1>2 DEF Alerts, States, OpenStates
<1>4. /\ alert' = [alert EXCEPT ![a] = row]
      /\ passed' = IF to \in OpenStates
                   THEN [passed EXCEPT ![a] = @ \union {Role[job[w].user]}] ELSE passed
      /\ job' = [job EXCEPT ![w] = Idle] /\ UNCHANGED <<covering, active, uncovered>>
  BY DEF Move, Finish
<1> HIDE DEF row
<1>5. /\ alert'[a].state = to /\ \A b \in Alert : b # a => alert'[b] = alert[b]
      /\ alert' \in [Alert -> Alerts]
  BY <1>2, <1>3, <1>4 DEF IInv, TypeOK
<1>6. /\ passed' \in [Alert -> SUBSET Roles]
      /\ \A b \in Alert : passed[b] \subseteq passed'[b]
      /\ to \in OpenStates => passed'[a] = passed[a] \union {Role[job[w].user]}
  BY <1>2, <1>4 DEF IInv, TypeOK
<1>7. TypeOK'
  BY <1>4, <1>5, <1>6, IdleIsSound DEF IInv, TypeOK
<1>8. CoverageKnown'
  BY <1>1, <1>4, <1>5 DEF IInv, CoverageKnown, Raised, ManagerExists, MoveSound
<1>9. StageSound'
  <2>1. ASSUME NEW b \in Alert, b # a
        PROVE  /\ alert'[b].state = "MANAGER_REVIEW" => "AUDITOR" \in passed'[b]
               /\ alert'[b].state = "ADMIN_REVIEW" => Escalated(b)'
               /\ alert'[b].state = "IDENTITY_REVOKED" => ~active' /\ Escalated(b)'
    BY <1>4, <1>5, <1>6, <2>1 DEF IInv, StageSound, Escalated
  <2>2. /\ to \in OpenStates => "AUDITOR" \in passed'[a]
        /\ to = "ADMIN_REVIEW"
             => "AUDITOR" \in passed'[a] /\ ("MANAGER" \in passed'[a] \/ uncovered'[a])
    BY <1>1, <1>4, <1>6 DEF MoveSound, OpenStates
  <2> QED
    BY <1>2, <1>5, <2>1, <2>2 DEF StageSound, OpenStates, Escalated
<1>10. JobsSound'
  <2>1. \A b \in Alert : Raised(b) => /\ alert'[b].state # "NONE"
                                      /\ passed[b] \subseteq passed'[b]
                                      /\ uncovered[b] => uncovered'[b]
    BY <1>2, <1>4, <1>5, <1>6 DEF Raised
  <2>2. ASSUME NEW x \in Worker PROVE JobSound(x)'
    <3>1. CASE x = w
      BY <1>4, <3>1, IdleIsSound DEF IInv, TypeOK, JobSound
    <3>2. CASE x # w
      BY <1>4, <2>1, <3>2, HistoryKeepsJobs DEF IInv, TypeOK
    <3> QED
      BY <3>1, <3>2
  <2> QED
    BY <2>2 DEF JobsSound
<1> QED
  BY <1>7, <1>8, <1>9, <1>10 DEF IInv

(* A revocation is written to an alert that was escalated, whatever became  *)
(* of it since.                                                             *)
LEMMA RevokeKeeps ==
  ASSUME IInv, NEW w \in Worker, Revoke(w)
  PROVE  IInv'
<1> DEFINE a == job[w].alert
           row == [alert[a] EXCEPT !.state = "IDENTITY_REVOKED"]
<1>1. a \in Alert /\ Raised(a) /\ Escalated(a) /\ alert[a] \in Alerts
  BY DEF Revoke, Serving, IInv, JobsSound, JobSound, TypeOK, Raised
<1>2. row \in Alerts /\ row.state = "IDENTITY_REVOKED"
  BY <1>1 DEF Alerts, States
<1>3. /\ alert' = [alert EXCEPT ![a] = row] /\ ~active' /\ active' \in BOOLEAN
      /\ job' = [job EXCEPT ![w] = Idle] /\ UNCHANGED <<covering, passed, uncovered>>
  BY DEF Revoke, Finish, history
<1> HIDE DEF row
<1>4. /\ alert'[a].state = "IDENTITY_REVOKED" /\ alert' \in [Alert -> Alerts]
      /\ \A b \in Alert : b # a => alert'[b] = alert[b]
  BY <1>1, <1>2, <1>3 DEF IInv, TypeOK
<1>5. TypeOK'
  BY <1>3, <1>4, IdleIsSound DEF IInv, TypeOK
<1>6. CoverageKnown' /\ StageSound'
  BY <1>1, <1>3, <1>4 DEF IInv, CoverageKnown, StageSound, Escalated, Raised, ManagerExists
<1>7. ASSUME NEW x \in Worker PROVE JobSound(x)'
  <2>1. CASE x = w
    BY <1>3, <2>1, IdleIsSound DEF IInv, TypeOK, JobSound
  <2>2. CASE x # w
    BY <1>3, <1>4, <2>2, HistoryKeepsJobs DEF IInv, TypeOK, Raised
  <2> QED
    BY <2>1, <2>2
<1> QED
  BY <1>5, <1>6, <1>7 DEF IInv, JobsSound

(* Managers who come and go only add to what is known. *)
LEMMA CoverageChangesKeeps ==
  ASSUME IInv, NEW C \in SUBSET Managers, CoverageChanges(C)
  PROVE  IInv'
<1>1. /\ covering' = C /\ UNCHANGED <<alert, active, job, passed>>
      /\ uncovered' = [a \in Alert |-> \/ uncovered[a]
                                       \/ alert[a].state # "NONE" /\ C \ {Subject} = {}]
  BY DEF CoverageChanges
<1>2. TypeOK'
  BY <1>1 DEF IInv, TypeOK
<1>3. CoverageKnown'
  BY <1>1 DEF CoverageKnown, Raised, ManagerExists
<1>4. StageSound'
  BY <1>1 DEF IInv, StageSound, Escalated
<1>5. \A w \in Worker : JobSound(w)'
  BY <1>1, HistoryKeepsJobs DEF Raised
<1> QED
  BY <1>2, <1>3, <1>4, <1>5 DEF IInv, JobsSound

(* A person revoked without an alert. *)
LEMMA RevokeDirectlyKeeps ==
  ASSUME IInv, RevokeDirectly
  PROVE  IInv'
<1>1. ~active' /\ active' \in BOOLEAN /\ UNCHANGED <<alert, covering, job, passed, uncovered>>
  BY DEF RevokeDirectly, history
<1>2. TypeOK' /\ CoverageKnown' /\ StageSound'
  BY <1>1 DEF IInv, TypeOK, CoverageKnown, StageSound, Escalated, Raised, ManagerExists
<1>3. \A w \in Worker : JobSound(w)'
  BY <1>1, HistoryKeepsJobs DEF Raised
<1> QED
  BY <1>2, <1>3 DEF IInv, JobsSound

-----------------------------------------------------------------------------
(* The theorems. *)

(* Every step of Next keeps the invariant. *)
LEMMA NextKeeps == IInv /\ [Next]_vars => IInv'
<1> SUFFICES ASSUME IInv, [Next]_vars PROVE IInv'
  OBVIOUS
<1>1. CASE UNCHANGED vars
  BY <1>1 DEF vars, IInv, TypeOK, CoverageKnown, StageSound, JobsSound, JobSound,
     ForwardSound, MoveSound, Escalated, Raised, ManagerExists
<1>2. CASE \E w \in Worker :
             AddEvidence(w) \/ AskForManager(w) \/ Move(w) \/ Revoke(w) \/ Abort(w)
  BY <1>2, AddEvidenceKeeps, AskForManagerKeeps, MoveKeeps, RevokeKeeps, AbortKeeps
<1>3. CASE \E w \in Worker, u \in User, a \in Alert :
             ReadForForward(w, u, a) \/ ReadForDismiss(w, u, a) \/ ReadForRevoke(w, u, a)
  BY <1>3, ReadForForwardKeeps, ReadForDismissKeeps, ReadForRevokeKeeps
<1> QED
  BY <1>1, <1>2, <1>3, RaiseByRuleKeeps, ReadForRaiseKeeps, RaiseByModelKeeps,
     CoverageChangesKeeps, RevokeDirectlyKeeps, AgeKeeps DEF Next

(* The inductive invariant holds of every behaviour. *)
THEOREM Invariance == Spec => []IInv
BY InitInvariant, NextKeeps, PTL DEF Spec

(* Every value stays in the columns' types. *)
THEOREM TypeCorrect == Spec => []TypeOK
BY Invariance, PTL DEF IInv

(* No identity is revoked from an alert that was not escalated stage by     *)
(* stage, by any number of reviewers with stale readings.                   *)
THEOREM EscalationComesFirst == Spec => []EscalatedBeforeRevocation
<1>1. IInv => EscalatedBeforeRevocation
  BY DEF IInv, StageSound, Escalated, EscalatedBeforeRevocation
<1> QED
  BY <1>1, Invariance, PTL

(* An open alert never waits for nobody. *)
THEOREM NeverStuck == Spec => []SomebodyCanAct
<1>1. IInv => SomebodyCanAct
  <2> SUFFICES ASSUME IInv, NEW a \in Alert, IsOpen(a)
               PROVE  \E u \in User : CanAct(u, a)
    BY DEF SomebodyCanAct
  <2>1. PICK aud \in Reviewers("AUDITOR"), adm \in Reviewers("ADMIN") : TRUE
    BY ReviewerAssumption
  <2>2. aud \in User /\ adm \in User /\ Role[adm] = "ADMIN"
    BY <2>1 DEF Reviewers
  <2>3. CASE alert[a].state = "AUDITOR_REVIEW"
    BY <2>1, <2>2, <2>3 DEF CanAct, MayDismiss
  <2>4. CASE alert[a].state = "MANAGER_REVIEW" /\ ManagerExists
    <3>1. PICK m \in covering : m # Subject
      BY <2>4 DEF ManagerExists
    <3>2. m \in User /\ m \in Reviewers("MANAGER") \intersect covering
      BY <3>1 DEF IInv, TypeOK, Managers, Reviewers
    <3> QED
      BY <2>4, <3>2 DEF CanAct, MayDismiss
  <2>5. CASE alert[a].state = "MANAGER_REVIEW" /\ ~ManagerExists
    BY <2>1, <2>2, <2>5 DEF CanAct, MayForward
  <2>6. CASE alert[a].state = "ADMIN_REVIEW"
    BY <2>1, <2>2, <2>6 DEF CanAct, MayDismiss
  <2> QED
    BY <2>3, <2>4, <2>5, <2>6 DEF IsOpen, OpenStates
<1> QED
  BY <1>1, Invariance, PTL

(* One step never lowers the severity of an alert: with two levels, the     *)
(* only rise there is ends at the highest, however stale its reading.       *)
LEMMA StepKeepsSeverity ==
  ASSUME IInv, [Next]_vars, NEW a \in Alert, alert[a].state # "NONE"
  PROVE  alert'[a].level >= alert[a].level
<1>1. alert[a] \in Alerts /\ alert[a].level \in Levels
  BY DEF IInv, TypeOK, Alerts
<1>2. alert[a].level >= alert[a].level
  BY <1>1 DEF Levels
<1>3. CASE alert'[a].level = alert[a].level
  BY <1>2, <1>3
<1>4. ASSUME NEW b \in Alert, NEW source \in {"AI", "RULE"}, NEW level \in Levels,
             Insert(b, source, level)
      PROVE  alert'[a].level = alert[a].level
  BY <1>4 DEF Insert, IInv, TypeOK
<1>5. ASSUME NEW w \in Worker, NEW b \in Alert, RaiseByModel(w, b)
      PROVE  alert'[a].level = alert[a].level
  BY <1>4, <1>5 DEF RaiseByModel, IInv, TypeOK, Jobs
<1>6. ASSUME NEW w \in Worker, AddEvidence(w)
      PROVE  alert'[a].level >= alert[a].level
  <2>1. job[w].level \in Levels /\ job[w].seen \in Levels
    BY DEF IInv, TypeOK, Jobs
  <2>2. CASE job[w].level > job[w].seen /\ a = job[w].alert
    <3>1. job[w].level = 2
      BY <2>1, <2>2 DEF Levels
    <3>2. alert'[a] = [alert[a] EXCEPT !.level = job[w].level]
      BY <1>6, <2>2 DEF AddEvidence, IInv, TypeOK
    <3>3. alert'[a].level = 2
      BY <1>1, <3>1, <3>2 DEF Alerts
    <3> QED
      BY <1>1, <3>3 DEF Levels
  <2>3. CASE ~(job[w].level > job[w].seen /\ a = job[w].alert)
    <3>1. alert'[a] = alert[a]
      BY <1>6, <2>3 DEF AddEvidence, IInv, TypeOK
    <3> QED
      BY <1>2, <3>1
  <2> QED
    BY <2>2, <2>3
<1>7. ASSUME NEW w \in Worker, Move(w) \/ Revoke(w)
      PROVE  alert'[a].level = alert[a].level
  <2>1. CASE a = job[w].alert
    <3>1. PICK s \in {job[w].to, "IDENTITY_REVOKED"} : alert'[a] = [alert[a] EXCEPT !.state = s]
      BY <1>7, <2>1 DEF Move, Revoke, IInv, TypeOK
    <3> QED
      BY <1>1, <3>1 DEF Alerts
  <2>2. CASE a # job[w].alert
    BY <1>7, <2>2 DEF Move, Revoke, IInv, TypeOK
  <2> QED
    BY <2>1, <2>2
<1>8. ASSUME NEW b \in Alert, Age(b)
      PROVE  alert'[a].level = alert[a].level
  <2>1. alert'[a] = alert[a] \/ alert'[a] = [alert[a] EXCEPT !.recent = FALSE]
    BY <1>8 DEF Age, IInv, TypeOK
  <2> QED
    BY <1>1, <2>1 DEF Alerts
<1>9. CASE UNCHANGED alert
  BY <1>2, <1>9
<1>10. ASSUME NEW w \in Worker, NEW u \in User, NEW b \in Alert,
              ReadForForward(w, u, b) \/ ReadForDismiss(w, u, b) \/ ReadForRevoke(w, u, b)
       PROVE  UNCHANGED alert
  BY <1>10 DEF ReadForForward, ReadForDismiss, ReadForRevoke, Review
<1>11. ASSUME NEW w \in Worker, AskForManager(w) \/ Abort(w)
       PROVE  UNCHANGED alert
  BY <1>11 DEF AskForManager, Abort
<1> QED
  BY <1>3, <1>4, <1>5, <1>6, <1>7, <1>8, <1>9, <1>10, <1>11
     DEF Next, RaiseByRule, ReadForRaise, CoverageChanges, RevokeDirectly, vars

(* The severity of an alert only rises, however many actions overlap.       *)
THEOREM SeverityNeverFalls == Spec => SeverityOnlyRises
<1>1. IInv /\ [Next]_vars
        => [\A a \in Alert : alert[a].state # "NONE" => alert'[a].level >= alert[a].level]_vars
  BY StepKeepsSeverity
<1> QED
  BY <1>1, Invariance, PTL DEF Spec, SeverityOnlyRises
=============================================================================
