--------------------------- MODULE SecurityAlerts ---------------------------
(***************************************************************************)
(* The security alerts about one person and their escalation from Auditor  *)
(* to Manager to Administrator (src/backend/app/services/alerts.py,        *)
(* api/alerts.py).                                                         *)
(*                                                                         *)
(* A reviewer's handler loads the alert, may ask which managers cover the  *)
(* person's department, and then writes the new state by primary key: what *)
(* it read may be stale by then.  An AI alert looks for an open alert of   *)
(* the same person first and is inserted, or added to that one, later.     *)
(***************************************************************************)
EXTENDS Naturals

CONSTANTS
  User,
  Role,          \* [User -> role]
  Subject,       \* the person the alerts are about
  Alert,         \* security_alerts row identifiers
  Worker,        \* concurrently running request handlers
  NoUser, NoAlert

Roles == {"ADMIN", "MANAGER", "AUDITOR", "USER"}
Reviewers(role) == {u \in User : Role[u] = role /\ u # Subject}
Managers == {u \in User : Role[u] = "MANAGER"}

ASSUME RoleAssumption == Role \in [User -> Roles]
ASSUME NoneAssumption == Subject \in User /\ NoUser \notin User /\ NoAlert \notin Alert

(* The organisation has an Auditor and an Administrator besides the person. *)
ASSUME ReviewerAssumption == Reviewers("AUDITOR") # {} /\ Reviewers("ADMIN") # {}

VARIABLES
  alert,         \* the security_alerts rows, as committed
  covering,      \* active managers whose departments include the person's
  active,        \* users.is_active of the person
  job,           \* what each worker is doing and what it read
  passed,        \* history: roles that passed an alert on
  uncovered      \* history: since it was raised, no other manager covered

vars == <<alert, covering, active, job, passed, uncovered>>
history == <<passed, uncovered>>

-----------------------------------------------------------------------------
(* Types and derived state. *)

Levels == {1, 2}                       \* LEVEL_RANK: HIGH, CRITICAL
OpenStates == {"AUDITOR_REVIEW", "MANAGER_REVIEW", "ADMIN_REVIEW"}
States == OpenStates \union {"NONE", "DISMISSED", "IDENTITY_REVOKED"}

Alerts == [state  : States,
           source : {"AI", "RULE"},
           level  : Levels,
           recent : BOOLEAN]           \* raised within the last 24 hours

Jobs == [op    : {"idle", "raise", "forward", "move", "revoke"},
         user  : User \union {NoUser},
         alert : Alert \union {NoAlert},
         level : Levels,               \* raise: of the scored action
         seen  : Levels,               \* raise: of the open alert as read
         from  : States, to : States]

NoRow == [state |-> "NONE", source |-> "RULE", level |-> 1, recent |-> FALSE]
Idle == [op |-> "idle", user |-> NoUser, alert |-> NoAlert, level |-> 1, seen |-> 1,
         from |-> "NONE", to |-> "NONE"]

TypeOK ==
  /\ alert \in [Alert -> Alerts]
  /\ covering \in SUBSET Managers
  /\ active \in BOOLEAN
  /\ job \in [Worker -> Jobs]
  /\ passed \in [Alert -> SUBSET Roles]
  /\ uncovered \in [Alert -> BOOLEAN]

Init ==
  /\ alert = [a \in Alert |-> NoRow]
  /\ covering \in SUBSET Managers
  /\ active = TRUE
  /\ job = [w \in Worker |-> Idle]
  /\ passed = [a \in Alert |-> {}]
  /\ uncovered = [a \in Alert |-> FALSE]

IsOpen(a) == alert[a].state \in OpenStates

(* A mistake: the person the alert is about counts as a manager who can     *)
(* review it.                                                               *)
ManagerExistsAtAll == covering # {}

(* _manager_exists_for *)
ManagerExists == covering \ {Subject} # {}

Serving(w, op) == job[w].op = op
Start(w, new) == Serving(w, "idle") /\ job' = [job EXCEPT ![w] = new]
Finish(w) == job' = [job EXCEPT ![w] = Idle]

-----------------------------------------------------------------------------
(* raise_alert *)

Insert(a, source, level) ==
  /\ alert[a].state = "NONE"
  /\ alert' = [alert EXCEPT ![a] = [state |-> "AUDITOR_REVIEW", source |-> source,
                                    level |-> level, recent |-> TRUE]]
  /\ uncovered' = [uncovered EXCEPT ![a] = ~ManagerExists]

(* An alert raised by a rule is inserted without looking for another one.   *)
RaiseByRule(a, level) ==
  /\ Insert(a, "RULE", level)
  /\ UNCHANGED <<covering, active, job, passed>>

(* The open AI alert of the last 24 hours, if there is one.                 *)
OpenIncidents == {a \in Alert : IsOpen(a) /\ alert[a].source = "AI" /\ alert[a].recent}

ReadForRaise(w, level) ==
  /\ \E a \in IF OpenIncidents = {} THEN {NoAlert} ELSE OpenIncidents :
       Start(w, [Idle EXCEPT !.op = "raise", !.alert = a, !.level = level,
                             !.seen = IF a = NoAlert THEN level ELSE alert[a].level])
  /\ UNCHANGED <<alert, covering, active, history>>

RaiseByModel(w, a) ==
  /\ Serving(w, "raise")
  /\ job[w].alert = NoAlert
  /\ Insert(a, "AI", job[w].level)
  /\ Finish(w)
  /\ UNCHANGED <<covering, active, passed>>

(* _add_evidence: only a rise of the severity that was read is written.     *)
AddEvidence(w) ==
  LET a == job[w].alert
  IN /\ Serving(w, "raise")
     /\ a # NoAlert
     /\ alert' = IF job[w].level > job[w].seen
                 THEN [alert EXCEPT ![a].level = job[w].level] ELSE alert
     /\ Finish(w)
     /\ UNCHANGED <<covering, active, history>>

-----------------------------------------------------------------------------
(* The decisions of reviewers. *)

MayForward(u, a) ==
  \/ alert[a].state = "AUDITOR_REVIEW" /\ u \in Reviewers("AUDITOR")
  \/ alert[a].state = "MANAGER_REVIEW" /\ u \in Reviewers("MANAGER") \intersect covering
  \/ alert[a].state = "MANAGER_REVIEW" /\ u \in Reviewers("ADMIN")

MayDismiss(u, a) ==
  \/ alert[a].state = "AUDITOR_REVIEW" /\ u \in Reviewers("AUDITOR")
  \/ alert[a].state = "MANAGER_REVIEW" /\ u \in Reviewers("MANAGER") \intersect covering
  \/ alert[a].state = "ADMIN_REVIEW" /\ u \in Reviewers("ADMIN")

Review(w, u, a, op, to) ==
  /\ Start(w, [Idle EXCEPT !.op = op, !.user = u, !.alert = a,
                           !.from = alert[a].state, !.to = to])
  /\ UNCHANGED <<alert, covering, active, history>>

(* Only a Manager's forward goes on without asking who else could review.   *)
ReadForForward(w, u, a) ==
  /\ MayForward(u, a)
  /\ IF Role[u] = "MANAGER"
     THEN Review(w, u, a, "move", "ADMIN_REVIEW")
     ELSE Review(w, u, a, "forward", "ADMIN_REVIEW")

(* A mistake: the Auditor's forward always goes to the Administrator.       *)
AskForNobody(w) ==
  /\ Serving(w, "forward")
  /\ job' = [job EXCEPT ![w].op = "move", ![w].to = "ADMIN_REVIEW"]
  /\ UNCHANGED <<alert, covering, active, history>>

(* The Auditor's forward skips a stage nobody could work on; the            *)
(* Administrator may only take over from such a stage.                      *)
AskForManager(w) ==
  /\ Serving(w, "forward")
  /\ IF ~ManagerExists
     THEN job' = [job EXCEPT ![w].op = "move", ![w].to = "ADMIN_REVIEW"]
     ELSE IF job[w].from = "AUDITOR_REVIEW"
     THEN job' = [job EXCEPT ![w].op = "move", ![w].to = "MANAGER_REVIEW"]
     ELSE Finish(w)
  /\ UNCHANGED <<alert, covering, active, history>>

ReadForDismiss(w, u, a) ==
  /\ MayDismiss(u, a)
  /\ Review(w, u, a, "move", "DISMISSED")

(* revoke_from_alert; a person already revoked is refused.                  *)
ReadForRevoke(w, u, a) ==
  /\ u \in Reviewers("ADMIN")
  /\ alert[a].state = "ADMIN_REVIEW"
  /\ active
  /\ Review(w, u, a, "revoke", "IDENTITY_REVOKED")

(* _transition writes the state decided on, whatever it is by now.          *)
Move(w) ==
  LET a == job[w].alert
  IN /\ Serving(w, "move")
     /\ alert' = [alert EXCEPT ![a].state = job[w].to]
     /\ passed' = IF job[w].to \in OpenStates
                  THEN [passed EXCEPT ![a] = @ \union {Role[job[w].user]}]
                  ELSE passed
     /\ Finish(w)
     /\ UNCHANGED <<covering, active, uncovered>>

Revoke(w) ==
  /\ Serving(w, "revoke")
  /\ alert' = [alert EXCEPT ![job[w].alert].state = "IDENTITY_REVOKED"]
  /\ active' = FALSE
  /\ Finish(w)
  /\ UNCHANGED <<covering, history>>

-----------------------------------------------------------------------------
(* Managers are appointed, given departments, and revoked                   *)
(* (api/users.py).                                                          *)
CoverageChanges(C) ==
  /\ covering' = C
  /\ uncovered' = [a \in Alert |-> \/ uncovered[a]
                                   \/ alert[a].state # "NONE" /\ C \ {Subject} = {}]
  /\ UNCHANGED <<alert, active, job, passed>>

(* delete_user revokes the person without any alert.                        *)
RevokeDirectly ==
  /\ active
  /\ active' = FALSE
  /\ UNCHANGED <<alert, covering, job, history>>

(* 24 hours pass. *)
Age(a) ==
  /\ alert[a].recent
  /\ alert' = [alert EXCEPT ![a].recent = FALSE]
  /\ UNCHANGED <<covering, active, job, history>>

(* A handler ends without committing. *)
Abort(w) ==
  /\ ~Serving(w, "idle")
  /\ Finish(w)
  /\ UNCHANGED <<alert, covering, active, history>>

Next ==
  \/ \E a \in Alert, level \in Levels : RaiseByRule(a, level)
  \/ \E w \in Worker, level \in Levels : ReadForRaise(w, level)
  \/ \E w \in Worker, a \in Alert : RaiseByModel(w, a)
  \/ \E w \in Worker, u \in User, a \in Alert :
       ReadForForward(w, u, a) \/ ReadForDismiss(w, u, a) \/ ReadForRevoke(w, u, a)
  \/ \E w \in Worker :
       AddEvidence(w) \/ AskForManager(w) \/ Move(w) \/ Revoke(w) \/ Abort(w)
  \/ \E C \in SUBSET Managers : CoverageChanges(C)
  \/ RevokeDirectly
  \/ \E a \in Alert : Age(a)

Spec == Init /\ [][Next]_vars

-----------------------------------------------------------------------------
(* Properties *)

(* An identity is revoked from an alert only after an Auditor passed the    *)
(* alert on, and then a Manager did or there was a time when nobody         *)
(* independent covered the department, whatever stale decisions were        *)
(* written in between (revoke_subject, forward).                            *)
EscalatedBeforeRevocation ==
  \A a \in Alert : alert[a].state = "IDENTITY_REVOKED"
    => /\ ~active
       /\ "AUDITOR" \in passed[a]
       /\ "MANAGER" \in passed[a] \/ uncovered[a]

(* "... so the alert is never stuck" (the project brief): whoever leaves    *)
(* while it is being forwarded, somebody other than its subject can act on  *)
(* an open alert.                                                           *)
CanAct(u, a) == \/ MayDismiss(u, a)
                \/ MayForward(u, a) /\ (Role[u] = "ADMIN" => ~ManagerExists)
SomebodyCanAct == \A a \in Alert : IsOpen(a) => \E u \in User : CanAct(u, a)

(* "Severity only rises" (_add_evidence), although the severity it is       *)
(* compared with is a stale one when actions overlap.                       *)
SeverityOnlyRises ==
  [][\A a \in Alert : alert[a].state # "NONE" => alert'[a].level >= alert[a].level]_vars

=============================================================================
