-------------------------- MODULE Accounts_proofs ---------------------------
(***************************************************************************)
(* The sessions and the factors of one account, for every number of        *)
(* handlers, sessions, PINs, passkeys, tokens and codes; and the roles on  *)
(* the chain with the last Admin, for every number of wallets, requests,   *)
(* reconcilers, failures and crashes.                                      *)
(***************************************************************************)
EXTENDS Sessions, Factors, Identities, TLAPS

-----------------------------------------------------------------------------
(* Sessions (Sessions.tla). *)

(* Attributes that change only together with the session_version. *)
SameAccount(acct) ==
  \A f \in {"pin", "pinUsed", "wallet", "pending", "active"} : acct[f] = user[f]

Reading(w) == work[w].op \notin {"idle", "provision"}
Enrolling(w) == work[w].op \in {"signin", "enrol", "register", "complete"}

(* What a handler decided when it read the row. *)
WorkSound(w) ==
  /\ work[w].read.pin \in given \union {NoPin}
  /\ work[w].op = "provision" => work[w].pin \in Pin
  /\ work[w].op = "enrol" => work[w].read.secret
  /\ work[w].op = "setup" => ~work[w].read.totp

(* As long as nothing crossed, a copy of the row is an older version of it *)
(* or agrees with it.                                                      *)
WorkCurrent(w) ==
  /\ Reading(w) =>
       /\ work[w].read.version <= user.version
       /\ work[w].read.version = user.version => SameAccount(work[w].read)
  /\ Enrolling(w) => work[w].read.wallet # NoPin

WorkIsSound == \A w \in Worker : WorkSound(w)
WorkIsCurrent == ~crossed => \A w \in Worker : WorkCurrent(w)

PinSound ==
  /\ user.pin \in {latest, NoPin} /\ latest \in given
  /\ user.pin # NoPin => provisioned[user.pin] = 0
  /\ \A p \in Pin \ given : provisioned[p] = 0

SessionsOrdered ==
  /\ ended \subseteq Issued
  /\ ~crossed =>
       \A s \in Issued : /\ issued[s].version <= user.version
                         /\ s \in ended => issued[s].version < user.version

(* Nobody signs in or enrols a factor before the keystore is there. *)
KeystoreFirst ==
  ~crossed /\ (user.totp \/ passkey \/ \E s \in Session : Accepted(s)) =>
    user.wallet # NoPin

SessionInv ==
  /\ SessionWellFormed /\ PinSound /\ WorkIsSound /\ WorkIsCurrent
  /\ SessionsOrdered /\ KeystoreFirst /\ FullSessionIsSetUp /\ OutstandingPinIsClean

-----------------------------------------------------------------------------
(* The attributes of a row after a flush: those the handler changed on its *)
(* copy, and those of the table otherwise.                                 *)
WrittenAttribute(w, new, f) == IF new[f] = work[w].read[f] THEN user[f] ELSE new[f]

(* A flush of a row is a row, attribute by attribute. *)
LEMMA FlushedRow ==
  ASSUME SessionTypeOK, NEW w \in Worker, NEW new \in Users
  PROVE  /\ Flushed(w, new) \in Users
         /\ Flushed(w, new).version = WrittenAttribute(w, new, "version")
         /\ Flushed(w, new).secret = WrittenAttribute(w, new, "secret")
         /\ Flushed(w, new).totp = WrittenAttribute(w, new, "totp")
         /\ Flushed(w, new).pin = WrittenAttribute(w, new, "pin")
         /\ Flushed(w, new).pinUsed = WrittenAttribute(w, new, "pinUsed")
         /\ Flushed(w, new).wallet = WrittenAttribute(w, new, "wallet")
         /\ Flushed(w, new).pending = WrittenAttribute(w, new, "pending")
         /\ Flushed(w, new).reset = WrittenAttribute(w, new, "reset")
         /\ Flushed(w, new).active = WrittenAttribute(w, new, "active")
<1>1. user \in Users
  BY DEF SessionTypeOK
<1>2. DOMAIN user = {"version", "secret", "totp", "pin", "pinUsed", "wallet",
                     "pending", "reset", "active"}
  BY <1>1 DEF Users
<1>3. \A f \in DOMAIN user : Flushed(w, new)[f] = WrittenAttribute(w, new, f)
  BY DEF Flushed, WrittenAttribute
<1>4. DOMAIN Flushed(w, new) = DOMAIN user
  BY DEF Flushed
<1>5. Flushed(w, new) = [version |-> WrittenAttribute(w, new, "version"),
                         secret  |-> WrittenAttribute(w, new, "secret"),
                         totp    |-> WrittenAttribute(w, new, "totp"),
                         pin     |-> WrittenAttribute(w, new, "pin"),
                         pinUsed |-> WrittenAttribute(w, new, "pinUsed"),
                         wallet  |-> WrittenAttribute(w, new, "wallet"),
                         pending |-> WrittenAttribute(w, new, "pending"),
                         reset   |-> WrittenAttribute(w, new, "reset"),
                         active  |-> WrittenAttribute(w, new, "active")]
  BY <1>2, <1>3, <1>4 DEF Flushed
<1>6. /\ WrittenAttribute(w, new, "version") \in Versions
      /\ WrittenAttribute(w, new, "secret") \in BOOLEAN
      /\ WrittenAttribute(w, new, "totp") \in BOOLEAN
      /\ WrittenAttribute(w, new, "pin") \in Pin \union {NoPin}
      /\ WrittenAttribute(w, new, "pinUsed") \in BOOLEAN
      /\ WrittenAttribute(w, new, "wallet") \in Pin \union {NoPin}
      /\ WrittenAttribute(w, new, "pending") \in BOOLEAN
      /\ WrittenAttribute(w, new, "reset") \in BOOLEAN
      /\ WrittenAttribute(w, new, "active") \in BOOLEAN
  BY <1>1 DEF Users, WrittenAttribute
<1> HIDE DEF Flushed
<1>7. QED
  BY <1>5, <1>6 DEF Users

(* A new version changes nothing else. *)
LEMMA BumpedRow ==
  ASSUME NEW acct \in Users, CanBump(acct)
  PROVE  /\ Bumped(acct) \in Users
         /\ Bumped(acct).version = acct.version + 1
         /\ Bumped(acct).secret = acct.secret /\ Bumped(acct).totp = acct.totp
         /\ Bumped(acct).pin = acct.pin /\ Bumped(acct).pinUsed = acct.pinUsed
         /\ Bumped(acct).wallet = acct.wallet /\ Bumped(acct).pending = acct.pending
         /\ Bumped(acct).reset = acct.reset /\ Bumped(acct).active = acct.active
BY VersionAssumption DEF Users, Versions, Bumped, CanBump

(* What reset_login_factors makes of the row. *)
LEMMA ResetRowFields ==
  ASSUME NEW acct \in Users, CanBump(acct), NEW p \in Pin
  PROVE  LET new == ResetRow(acct, p)
         IN /\ new \in Users
            /\ new.version = acct.version + 1 /\ ~new.secret /\ ~new.totp
            /\ new.pin = p /\ ~new.pinUsed /\ new.wallet = NoPin /\ new.pending
            /\ ~new.reset /\ new.active = acct.active
<1> DEFINE b == Bumped(acct)
<1>1. b \in Users /\ b.version = acct.version + 1 /\ b.active = acct.active
  BY BumpedRow
<1>2. ResetRow(acct, p) = [b EXCEPT !.secret = FALSE, !.totp = FALSE, !.wallet = NoPin,
         !.pin = p, !.pinUsed = FALSE, !.pending = TRUE, !.reset = FALSE]
  BY DEF ResetRow
<1> HIDE DEF b
<1>3. ResetRow(acct, p) =
        [version |-> b.version, secret |-> FALSE, totp |-> FALSE, pin |-> p,
         pinUsed |-> FALSE, wallet |-> NoPin, pending |-> TRUE, reset |-> FALSE,
         active |-> b.active]
  BY <1>1, <1>2 DEF Users
<1>4. b.version \in Versions /\ b.active \in BOOLEAN
  BY <1>1 DEF Users
<1>5. QED
  BY <1>1, <1>3, <1>4 DEF Users

(* The two rows an account starts with are rows. *)
LEMMA InitialRow ==
  ASSUME NEW p \in Pin \union {NoPin}
  PROVE  NewUser(p) \in Users /\ OnboardedUser(p) \in Users
<1>1. \A q \in Pin \union {NoPin} : NewUser(q) \in Users
  BY VersionAssumption DEF Users, Versions, NewUser
<1>2. PICK r \in Users : r = NewUser(NoPin)
  BY <1>1
<1>3. OnboardedUser(p) = [r EXCEPT !.secret = TRUE, !.totp = TRUE, !.pinUsed = TRUE,
                                  !.wallet = p, !.pending = FALSE]
  BY <1>2 DEF OnboardedUser
<1>4. QED
  BY <1>1, <1>2, <1>3 DEF Users

(* What the actions name as a job is one. *)
LEMMA JobTypes ==
  /\ NoWork \in Jobs /\ NoWork.op = "idle" /\ NoWork.read.pin = NoPin
  /\ \A op \in Handlings, r \in Users, p \in Pin \union {NoPin} :
       [op |-> op, read |-> r, pin |-> p] \in Jobs
<1>1. NewUser(NoPin) \in Users /\ NewUser(NoPin).pin = NoPin
  BY InitialRow DEF NewUser
<1>2. QED
  BY <1>1 DEF Jobs, NoWork, Handlings

-----------------------------------------------------------------------------
(* A provisioned or an onboarded account satisfies the invariant. *)
LEMMA SessionInitInvariant == SessionInit => SessionInv
<1> SUFFICES ASSUME SessionInit PROVE SessionInv
  OBVIOUS
<1> USE VersionAssumption, PinAssumption
<1>1. PICK p \in Pin :
        /\ \/ user = NewUser(p) /\ passkey = FALSE /\ provisioned = [q \in Pin |-> 0]
           \/ /\ user = OnboardedUser(p) /\ passkey = TRUE
              /\ provisioned = [q \in Pin |-> IF q = p THEN 1 ELSE 0]
        /\ issued = [s \in Session |-> NotIssued]
        /\ work = [w \in Worker |-> NoWork]
        /\ ended = {} /\ given = {p} /\ latest = p /\ crossed = FALSE
  BY DEF SessionInit
<1>2. SessionTypeOK
  <2>1. user \in Users /\ passkey \in BOOLEAN
    BY <1>1, InitialRow
  <2>2. issued \in [Session -> Issues]
    BY <1>1 DEF NotIssued, Issues, Versions
  <2>3. work \in [Worker -> Jobs]
    BY <1>1, JobTypes
  <2>4. /\ ended \in SUBSET Session /\ given \in SUBSET Pin /\ latest \in Pin
        /\ crossed \in BOOLEAN
    BY <1>1
  <2>5. provisioned \in [Pin -> Nat]
    <3>1. CASE provisioned = [q \in Pin |-> 0]
      BY <3>1
    <3>2. CASE provisioned = [q \in Pin |-> IF q = p THEN 1 ELSE 0]
      BY <3>2
    <3>3. QED
      BY <1>1, <3>1, <3>2
  <2>6. QED
    BY <2>1, <2>2, <2>3, <2>4, <2>5 DEF SessionTypeOK
<1>3. /\ user.totp => user.secret
      /\ user.pin \in {p, NoPin} /\ (user.pin # NoPin => provisioned[p] = 0)
      /\ \A q \in Pin \ {p} : provisioned[q] = 0
      /\ user.totp \/ passkey => user.wallet # NoPin
      /\ user.pin # NoPin => ~user.pinUsed /\ user.wallet = NoPin
  <2>1. CASE user = NewUser(p) /\ passkey = FALSE /\ provisioned = [q \in Pin |-> 0]
    BY <1>1, <2>1 DEF NewUser
  <2>2. CASE /\ user = OnboardedUser(p) /\ passkey = TRUE
             /\ provisioned = [q \in Pin |-> IF q = p THEN 1 ELSE 0]
    <3>1. /\ user.totp /\ user.secret /\ user.pin = NoPin /\ user.wallet = p
      BY <2>2 DEF NewUser, OnboardedUser
    <3>2. QED
      BY <1>1, <2>2, <3>1
  <2>3. QED
    BY <1>1, <2>1, <2>2
<1>4. Issued = {} /\ \A s \in Session : ~Accepted(s)
  BY <1>1 DEF Issued, Accepted
<1>5. \A w \in Worker : WorkSound(w) /\ WorkCurrent(w)
  BY <1>1, JobTypes DEF WorkSound, WorkCurrent, Reading, Enrolling
<1>6. QED
  BY <1>1, <1>2, <1>3, <1>4, <1>5
  DEF SessionInv, SessionWellFormed, PinSound, WorkIsSound, WorkIsCurrent,
      SessionsOrdered, KeystoreFirst, FullSessionIsSetUp, OutstandingPinIsClean

-----------------------------------------------------------------------------
(* The other handlers' copies stay sound when the row is left alone in all *)
(* that goes with the version, or the version grows.                       *)
LEMMA WorkKept ==
  ASSUME SessionInv, NEW w \in Worker, NEW duty \in Jobs,
         work' = [work EXCEPT ![w] = duty],
         user' \in Users, given \subseteq given',
         ~crossed' => /\ ~crossed
                      /\ \/ user'.version > user.version
                         \/ user'.version = user.version /\ SameAccount(user'),
         WorkSound(w)', ~crossed' => WorkCurrent(w)'
  PROVE  work' \in [Worker -> Jobs] /\ WorkIsSound' /\ WorkIsCurrent'
<1>1. work \in [Worker -> Jobs] /\ user \in Users
  BY DEF SessionInv, SessionWellFormed, SessionTypeOK
<1>2. work' \in [Worker -> Jobs] /\ \A v \in Worker \ {w} : work'[v] = work[v]
  BY <1>1
<1>3. WorkIsSound'
  <2> SUFFICES ASSUME NEW v \in Worker PROVE WorkSound(v)'
    BY DEF WorkIsSound
  <2>1. CASE v = w
    BY <2>1
  <2>2. CASE v # w
    <3>1. WorkSound(v) /\ work'[v] = work[v]
      BY <1>2, <2>2 DEF SessionInv, WorkIsSound
    <3>2. QED
      BY <3>1 DEF WorkSound
  <2>3. QED
    BY <2>1, <2>2
<1>4. WorkIsCurrent'
  <2> SUFFICES ASSUME ~crossed', NEW v \in Worker PROVE WorkCurrent(v)'
    BY DEF WorkIsCurrent
  <2>1. CASE v = w
    BY <2>1
  <2>2. CASE v # w
    <3>1. WorkCurrent(v) /\ work'[v] = work[v]
      BY <1>2, <2>2 DEF SessionInv, WorkIsCurrent
    <3>2. /\ work[v].read.version \in Nat /\ user.version \in Nat
          /\ user'.version \in Nat
      BY <1>1, VersionAssumption DEF Jobs, Users, Versions
    <3>3. CASE user'.version > user.version
      BY <3>1, <3>2, <3>3 DEF WorkCurrent, Reading, Enrolling
    <3>4. CASE user'.version = user.version /\ SameAccount(user')
      <4>1. SameAccount(work[v].read) => SameAccount(work[v].read)'
        BY <3>1, <3>4 DEF SameAccount
      <4>2. QED
        BY <3>1, <3>2, <3>4, <4>1 DEF WorkCurrent, Reading, Enrolling
    <3>5. QED
      BY <3>3, <3>4
  <2>3. QED
    BY <2>1, <2>2
<1>5. QED
  BY <1>2, <1>3, <1>4

(* A step that only changes what one handler is doing. *)
LEMMA QuietStep ==
  ASSUME SessionInv, NEW w \in Worker, NEW duty \in Jobs,
         work' = [work EXCEPT ![w] = duty],
         UNCHANGED <<user, passkey, issued, pins, ended, crossed>>,
         WorkSound(w)', ~crossed' => WorkCurrent(w)'
  PROVE  SessionInv'
<1>1. SessionTypeOK /\ user \in Users
  BY DEF SessionInv, SessionWellFormed, SessionTypeOK
<1>2. user'.version = user.version /\ SameAccount(user')
  BY DEF SameAccount
<1>3. work' \in [Worker -> Jobs] /\ WorkIsSound' /\ WorkIsCurrent'
  <2>1. user' \in Users /\ given \subseteq given' /\ (~crossed' => ~crossed)
    BY <1>1 DEF pins
  <2>2. QED
    BY <1>2, <2>1, WorkKept
<1>4. Issued' = Issued /\ \A s \in Session : Accepted(s)' <=> Accepted(s)
  BY DEF Issued, Accepted
<1>5. SessionWellFormed'
  BY <1>1, <1>3 DEF SessionInv, SessionWellFormed, SessionTypeOK, pins
<1>6. PinSound' /\ SessionsOrdered' /\ KeystoreFirst'
  BY <1>4 DEF SessionInv, PinSound, SessionsOrdered, KeystoreFirst, pins
<1>7. FullSessionIsSetUp' /\ OutstandingPinIsClean'
  BY <1>4 DEF SessionInv, FullSessionIsSetUp, OutstandingPinIsClean
<1>8. QED
  BY <1>3, <1>5, <1>6, <1>7 DEF SessionInv

(* A handler that leaves without a write. *)
LEMMA LeavingKeeps ==
  ASSUME SessionInv, NEW w \in Worker, Done(w),
         UNCHANGED <<user, passkey, issued, pins, ended, crossed>>
  PROVE  SessionInv'
<1>1. work' = [work EXCEPT ![w] = NoWork] /\ work'[w] = NoWork
  BY DEF Done, SessionInv, SessionWellFormed, SessionTypeOK
<1>2. WorkSound(w)' /\ WorkCurrent(w)'
  BY <1>1, JobTypes DEF WorkSound, WorkCurrent, Reading, Enrolling
<1>3. QED
  BY <1>1, <1>2, JobTypes, QuietStep

(* A handler that selects the row. *)
LEMMA ReadingKeeps ==
  ASSUME SessionInv, NEW w \in Worker, NEW op \in Handlings, ReadUser(w, op),
         op # "provision", op = "enrol" => user.secret, op = "setup" => ~user.totp,
         ~crossed /\ op \in {"signin", "enrol", "register", "complete"} =>
           user.wallet # NoPin
  PROVE  SessionInv'
<1> DEFINE duty == [op |-> op, read |-> user, pin |-> NoPin]
<1>1. /\ user \in Users /\ user.version \in Nat
      /\ work \in [Worker -> Jobs]
      /\ user.pin \in given \union {NoPin}
  BY VersionAssumption
  DEF SessionInv, SessionWellFormed, SessionTypeOK, PinSound, Users, Versions
<1>2. duty \in Jobs /\ duty.op = op /\ duty.read = user /\ duty.pin = NoPin
  BY <1>1, JobTypes
<1>3. work' = [work EXCEPT ![w] = duty]
      /\ UNCHANGED <<user, passkey, issued, pins, ended, crossed>>
  BY DEF ReadUser
<1> HIDE DEF duty
<1>4. work'[w] = duty
  BY <1>1, <1>3
<1>5. WorkSound(w)'
  BY <1>1, <1>2, <1>3, <1>4 DEF WorkSound, pins
<1>6. ~crossed' => WorkCurrent(w)'
  BY <1>1, <1>2, <1>3, <1>4 DEF WorkCurrent, SameAccount, Reading, Enrolling
<1>7. QED
  BY <1>2, <1>3, <1>5, <1>6, QuietStep

(* provision_wallet takes the PIN along, not the row. *)
LEMMA ReadForProvisionKeeps ==
  ASSUME SessionInv, NEW w \in Worker, NEW p \in Pin, ReadForProvision(w, p)
  PROVE  SessionInv'
<1> DEFINE duty == [NoWork EXCEPT !.op = "provision", !.pin = p]
<1>1. /\ duty \in Jobs /\ duty.op = "provision" /\ duty.pin = p
      /\ duty.read.pin = NoPin
  <2>1. PICK n \in Jobs : n = NoWork
    BY JobTypes
  <2>2. duty = [n EXCEPT !.op = "provision", !.pin = p] /\ n.read.pin = NoPin
    BY <2>1, JobTypes
  <2> HIDE DEF duty
  <2>3. QED
    BY <2>2 DEF Jobs, Handlings
<1>2. work' = [work EXCEPT ![w] = duty]
      /\ UNCHANGED <<user, passkey, issued, pins, ended, crossed>>
  BY DEF ReadForProvision
<1> HIDE DEF duty
<1>3. work'[w] = duty
  BY <1>2 DEF SessionInv, SessionWellFormed, SessionTypeOK
<1>4. WorkSound(w)' /\ WorkCurrent(w)'
  BY <1>1, <1>3 DEF WorkSound, WorkCurrent, Reading, Enrolling
<1>5. QED
  BY <1>1, <1>2, <1>4, QuietStep

(* A verified factor means that there is a keystore. *)
LEMMA ReadForSignInKeeps ==
  ASSUME SessionInv, NEW w \in Worker, ReadForSignIn(w)
  PROVE  SessionInv'
<1>1. ReadUser(w, "signin") /\ (user.totp \/ passkey)
  BY DEF ReadForSignIn
<1>2. ~crossed => user.wallet # NoPin
  BY <1>1 DEF SessionInv, KeystoreFirst
<1>3. QED
  BY <1>1, <1>2, ReadingKeeps DEF Handlings

(* So does a session, for the set-up steps. *)
LEMMA ReadForSetupKeeps ==
  ASSUME SessionInv, NEW w \in Worker, NEW s \in Session, NEW op \in Handlings,
         ReadForSetup(w, s, op)
  PROVE  SessionInv'
<1>1. /\ ReadUser(w, op) /\ op # "provision"
      /\ op = "enrol" => user.secret
      /\ op = "setup" => ~user.totp
  BY DEF ReadForSetup
<1>2. ~crossed => user.wallet # NoPin
  BY DEF SessionInv, KeystoreFirst, ReadForSetup
<1>3. QED
  BY <1>1, <1>2, ReadingKeeps

(* The requests whose handlers only end the sessions or ask for a reset. *)
LEMMA OtherReadsKeep ==
  ASSUME SessionInv, NEW w \in Worker, NEW op \in Handlings,
         \/ \E s \in Session : ReadForExpiry(w, s)
         \/ ReadForResetRequest(w) \/ ReadForApproval(w) \/ ReadForAdmin(w, op)
  PROVE  SessionInv'
<1>1. \E o \in {"expire", "request", "approve", "role", "revoke"} : ReadUser(w, o)
  BY DEF ReadForExpiry, ReadForResetRequest, ReadForApproval, ReadForAdmin
<1>2. QED
  BY <1>1, ReadingKeeps DEF Handlings

-----------------------------------------------------------------------------
(* A handler whose write crosses no other found the row as it still is. *)
LEMMA CopyIsCurrentRow ==
  ASSUME SessionInv, NEW w \in Worker, Reading(w), ~crossed, ~Stale(w)
  PROVE  LET r == work[w].read
         IN /\ r \in Users
            /\ r.version = user.version /\ r.secret = user.secret /\ r.totp = user.totp
            /\ r.pin = user.pin /\ r.pinUsed = user.pinUsed /\ r.wallet = user.wallet
            /\ r.pending = user.pending /\ r.active = user.active
            /\ Enrolling(w) => user.wallet # NoPin
<1>1. WorkCurrent(w) /\ work[w] \in Jobs
  BY DEF SessionInv, SessionWellFormed, SessionTypeOK, WorkIsCurrent
<1>2. /\ work[w].read.version = user.version /\ work[w].read.secret = user.secret
      /\ work[w].read.totp = user.totp
  BY DEF Stale
<1>3. SameAccount(work[w].read) /\ (Enrolling(w) => work[w].read.wallet # NoPin)
  BY <1>1, <1>2 DEF WorkCurrent
<1>4. QED
  BY <1>1, <1>2, <1>3 DEF SameAccount, Jobs

(* The end of all sessions issued so far ... *)
LEMMA SessionsEnd ==
  ASSUME SessionInv, user' \in Users, ended' = Issued, issued' = issued,
         ~crossed' => ~crossed /\ user'.version = user.version + 1
  PROVE  SessionsOrdered' /\ (~crossed' => \A s \in Session : ~Accepted(s)')
<1>1. /\ user.version \in Nat /\ user'.version \in Nat
      /\ \A s \in Session : issued[s].version \in Nat
  BY VersionAssumption
  DEF SessionInv, SessionWellFormed, SessionTypeOK, Users, Issues, Versions
<1>2. Issued' = Issued
  BY DEF Issued
<1>3. ~crossed' => \A s \in Issued : issued[s].version <= user.version
  BY DEF SessionInv, SessionsOrdered
<1>4. SessionsOrdered'
  BY <1>1, <1>2, <1>3 DEF SessionsOrdered, Issued
<1>5. ~crossed' => \A s \in Session : ~Accepted(s)'
  BY <1>1, <1>2, <1>3 DEF Accepted, Issued
<1>6. QED
  BY <1>4, <1>5

(* ... and the issue of the next one. *)
LEMMA SessionBegins ==
  ASSUME SessionInv, user' \in Users, ended' = Issued,
         NEW s \in Session \ Issued, NEW v \in Versions, NEW scope \in Scopes,
         issued' = [issued EXCEPT ![s] = [version |-> v, scope |-> scope]],
         ~crossed' => ~crossed /\ user'.version = user.version + 1
                      /\ v = user'.version
  PROVE  /\ issued' \in [Session -> Issues] /\ issued'[s].scope = scope
         /\ SessionsOrdered'
         /\ ~crossed' => \A t \in Session : Accepted(t)' => t = s
<1> DEFINE new == [version |-> v, scope |-> scope]
<1>1. /\ user.version \in Nat /\ user'.version \in Nat
      /\ issued \in [Session -> Issues]
      /\ \A t \in Session : issued[t].version \in Nat
  BY VersionAssumption
  DEF SessionInv, SessionWellFormed, SessionTypeOK, Users, Issues, Versions
<1>2. new \in Issues /\ new # NotIssued /\ new.version = v /\ new.scope = scope
  BY DEF Issues, NotIssued, Scopes
<1> HIDE DEF new
<1>3. /\ issued' \in [Session -> Issues] /\ issued'[s] = new
      /\ \A t \in Session \ {s} : issued'[t] = issued[t]
  BY <1>1, <1>2 DEF new
<1>4. Issued' = Issued \union {s}
  BY <1>2, <1>3 DEF Issued
<1>5. ~crossed' => \A t \in Issued : issued[t].version <= user.version
  BY DEF SessionInv, SessionsOrdered
<1>6. SessionsOrdered'
  <2>1. Issued \subseteq Session
    BY DEF Issued
  <2>2. ASSUME ~crossed', NEW t \in Issued'
        PROVE  /\ issued'[t].version <= user'.version
               /\ t \in Issued => issued'[t].version < user'.version
    <3>1. CASE t = s
      BY <1>1, <1>2, <1>3, <2>2, <3>1
    <3>2. CASE t # s
      BY <1>1, <1>3, <1>4, <1>5, <2>1, <2>2, <3>2
    <3>3. QED
      BY <3>1, <3>2
  <2>3. QED
    BY <1>4, <2>2 DEF SessionsOrdered
<1>7. ~crossed' => \A t \in Session : Accepted(t)' => t = s
  BY <1>1, <1>3, <1>4, <1>5 DEF Accepted
<1>8. QED
  BY <1>2, <1>3, <1>6, <1>7

(* A handler that commits and is done leaves the others as they were. *)
LEMMA DoneKeepsWork ==
  ASSUME SessionInv, NEW w \in Worker, Done(w), user' \in Users, given \subseteq given',
         ~crossed' => /\ ~crossed
                      /\ \/ user'.version > user.version
                         \/ user'.version = user.version /\ SameAccount(user')
  PROVE  work' \in [Worker -> Jobs] /\ WorkIsSound' /\ WorkIsCurrent'
<1>1. work' = [work EXCEPT ![w] = NoWork] /\ work'[w] = NoWork
  BY DEF Done, SessionInv, SessionWellFormed, SessionTypeOK
<1>2. WorkSound(w)' /\ WorkCurrent(w)'
  BY <1>1, JobTypes DEF WorkSound, WorkCurrent, Reading, Enrolling
<1>3. QED
  BY <1>1, <1>2, JobTypes, WorkKept

(* The PIN goes, the keystore comes, the one session is new. *)
LEMMA ProvisionWalletKeeps ==
  ASSUME SessionInv, NEW w \in Worker, ProvisionWallet(w)
  PROVE  SessionInv'
<1> USE PinAssumption
<1> DEFINE p == work[w].pin
           acct == [user EXCEPT !.pinUsed = TRUE, !.pin = NoPin]
           complete == Complete(acct)
           scope == IF complete THEN "full" ELSE "setup"
<1>1. SessionTypeOK /\ user \in Users /\ p \in Pin
  BY DEF SessionInv, SessionWellFormed, SessionTypeOK, WorkIsSound, WorkSound,
         ProvisionWallet, Serving
<1>2. PICK s \in Session \ Issued :
        /\ user' = [Bumped(acct) EXCEPT !.wallet = p, !.pending = ~complete]
        /\ issued' = [issued EXCEPT ![s] = [version |-> user.version + 1, scope |-> scope]]
        /\ ended' = Issued
  BY DEF ProvisionWallet
<1>3. /\ user.pin = p /\ CanBump(acct) /\ Done(w)
      /\ provisioned' = [provisioned EXCEPT ![p] = @ + 1]
      /\ UNCHANGED <<passkey, given, latest, crossed>>
  BY DEF ProvisionWallet, PinConsumable
<1>4. /\ acct \in Users /\ acct.version = user.version /\ acct.totp = user.totp
      /\ acct.secret = user.secret /\ acct.pin = NoPin /\ acct.active = user.active
  BY <1>1 DEF Users
<1>5. complete \in BOOLEAN /\ (complete <=> user.totp /\ passkey)
  BY <1>1, <1>4 DEF Complete, Users, SessionTypeOK
<1> HIDE DEF p, acct, complete
<1>6. PICK b \in Users : /\ b = Bumped(acct) /\ b.version = acct.version + 1
                         /\ b.totp = acct.totp /\ b.secret = acct.secret
                         /\ b.pin = acct.pin
  BY <1>3, <1>4, BumpedRow
<1>7. /\ user' \in Users /\ user'.version = user.version + 1
      /\ user'.totp = user.totp /\ user'.secret = user.secret
      /\ user'.pin = NoPin /\ user'.wallet = p /\ user'.pending = ~complete
  <2>1. PICK c \in BOOLEAN : c = ~complete
    BY <1>5
  <2>2. user' = [b EXCEPT !.wallet = p, !.pending = c]
    BY <1>2, <1>6, <2>1
  <2>3. /\ user' \in Users /\ user'.version = b.version /\ user'.totp = b.totp
        /\ user'.secret = b.secret /\ user'.pin = b.pin
        /\ user'.wallet = p /\ user'.pending = c
    BY <1>1, <2>2 DEF Users
  <2>4. QED
    BY <1>4, <1>6, <2>1, <2>3
<1>8. user.version \in Nat /\ user.version + 1 \in Versions
  BY <1>1, <1>7, VersionAssumption DEF Users, Versions
<1>9. work' \in [Worker -> Jobs] /\ WorkIsSound' /\ WorkIsCurrent'
  BY <1>3, <1>7, <1>8, DoneKeepsWork
<1>10. /\ issued' \in [Session -> Issues] /\ issued'[s].scope = scope
       /\ SessionsOrdered'
       /\ ~crossed' => \A t \in Session : Accepted(t)' => t = s
  <2>1. scope \in Scopes
    BY DEF Scopes
  <2> HIDE DEF scope
  <2>2. QED
    BY <1>2, <1>3, <1>7, <1>8, <2>1, SessionBegins
<1>11. SessionWellFormed'
  <2>1. ended' \in SUBSET Session /\ provisioned' \in [Pin -> Nat]
    BY <1>1, <1>2, <1>3 DEF Issued, SessionTypeOK
  <2>2. SessionTypeOK'
    BY <1>1, <1>3, <1>7, <1>9, <1>10, <2>1 DEF SessionTypeOK
  <2>3. QED
    BY <1>3, <1>7, <2>2 DEF SessionWellFormed, SessionInv
<1>12. PinSound'
  BY <1>1, <1>3, <1>7 DEF PinSound, SessionInv, SessionTypeOK
<1>13. KeystoreFirst' /\ OutstandingPinIsClean'
  BY <1>1, <1>7 DEF KeystoreFirst, OutstandingPinIsClean
<1>14. FullSessionIsSetUp'
  <2>1. ~crossed => (user.totp => user.secret)
    BY DEF SessionInv, SessionWellFormed
  <2>2. issued'[s].scope = "full" => complete
    BY <1>10
  <2>3. QED
    BY <1>1, <1>3, <1>5, <1>7, <1>10, <2>1, <2>2 DEF FullSessionIsSetUp
<1>15. QED
  BY <1>9, <1>10, <1>11, <1>12, <1>13, <1>14 DEF SessionInv

(* The new session is the only one, and full if the set-up is done. *)
LEMMA SignInKeeps ==
  ASSUME SessionInv, NEW w \in Worker, SignIn(w)
  PROVE  SessionInv'
<1> DEFINE r == work[w].read
           complete == Complete(r)
           new == [Bumped(r) EXCEPT !.pending = ~complete]
           scope == IF complete THEN "full" ELSE "setup"
<1>1. SessionTypeOK /\ user \in Users /\ r \in Users
  BY DEF SessionInv, SessionWellFormed, SessionTypeOK, Jobs
<1>2. PICK s \in Session \ Issued :
        /\ user' = Flushed(w, new)
        /\ issued' = [issued EXCEPT ![s] = [version |-> new.version, scope |-> scope]]
        /\ ended' = Issued
  BY DEF SignIn, Issue
<1>3. /\ Reading(w) /\ Enrolling(w) /\ CanBump(r) /\ Note(w) /\ Done(w)
      /\ UNCHANGED <<passkey, pins>>
  BY DEF SignIn, Issue, Serving, Reading, Enrolling
<1>4. complete \in BOOLEAN /\ (complete <=> r.totp /\ passkey)
  BY <1>1 DEF Complete, Users, SessionTypeOK
<1> HIDE DEF r, complete
<1>5. PICK b \in Users : /\ b = Bumped(r) /\ b.version = r.version + 1
                         /\ b.totp = r.totp /\ b.secret = r.secret /\ b.pin = r.pin
                         /\ b.wallet = r.wallet /\ b.pinUsed = r.pinUsed
                         /\ b.active = r.active /\ b.reset = r.reset
  BY <1>1, <1>3, BumpedRow
<1>6. /\ new \in Users /\ new.version = r.version + 1 /\ new.totp = r.totp
      /\ new.secret = r.secret /\ new.pin = r.pin /\ new.wallet = r.wallet
      /\ new.pinUsed = r.pinUsed /\ new.active = r.active /\ new.reset = r.reset
      /\ new.pending = ~complete
  <2>1. PICK c \in BOOLEAN : c = ~complete
    BY <1>4
  <2>2. new = [b EXCEPT !.pending = c]
    BY <1>5, <2>1
  <2> HIDE DEF new
  <2>3. QED
    BY <1>5, <2>1, <2>2 DEF Users
<1> HIDE DEF new
<1>7. /\ user' \in Users
      /\ user'.version = WrittenAttribute(w, new, "version")
      /\ user'.pending = WrittenAttribute(w, new, "pending")
      /\ user'.totp = user.totp /\ user'.secret = user.secret
      /\ user'.pin = user.pin /\ user'.wallet = user.wallet
      /\ user'.pinUsed = user.pinUsed /\ user'.active = user.active
  BY <1>1, <1>2, <1>6, FlushedRow DEF WrittenAttribute, r
<1>8. user.version \in Nat /\ r.version \in Nat /\ new.version \in Versions
  BY <1>1, <1>6, VersionAssumption DEF Users, Versions
<1>9. ~crossed' => /\ ~crossed /\ ~Stale(w)
                   /\ r.version = user.version /\ r.totp = user.totp
                   /\ r.pending = user.pending /\ user.wallet # NoPin
  BY <1>3, CopyIsCurrentRow DEF Note, r
<1>10. ~crossed' => /\ user'.version = user.version + 1 /\ new.version = user'.version
                    /\ user'.pending = ~complete
  BY <1>4, <1>6, <1>7, <1>8, <1>9 DEF WrittenAttribute, r
<1>11. work' \in [Worker -> Jobs] /\ WorkIsSound' /\ WorkIsCurrent'
  <2>1. given \subseteq given'
    BY <1>3 DEF pins
  <2>2. ~crossed' => ~crossed /\ user'.version > user.version
    BY <1>8, <1>9, <1>10
  <2>3. QED
    BY <1>3, <1>7, <2>1, <2>2, DoneKeepsWork
<1>12. /\ issued' \in [Session -> Issues] /\ issued'[s].scope = scope
       /\ SessionsOrdered'
       /\ ~crossed' => \A t \in Session : Accepted(t)' => t = s
  <2>1. scope \in Scopes
    BY DEF Scopes
  <2> HIDE DEF scope
  <2>2. QED
    BY <1>2, <1>7, <1>8, <1>9, <1>10, <2>1, SessionBegins
<1>13. SessionWellFormed'
  <2>1. ended' \in SUBSET Session /\ crossed' \in BOOLEAN
    BY <1>1, <1>2, <1>3 DEF Issued, SessionTypeOK, Note
  <2>2. SessionTypeOK'
    BY <1>1, <1>3, <1>7, <1>11, <1>12, <2>1 DEF SessionTypeOK, pins
  <2>3. QED
    BY <1>7, <1>9, <2>2 DEF SessionWellFormed, SessionInv
<1>14. PinSound'
  BY <1>3, <1>7 DEF PinSound, SessionInv, pins
<1>15. KeystoreFirst' /\ OutstandingPinIsClean'
  BY <1>7, <1>9 DEF KeystoreFirst, OutstandingPinIsClean, SessionInv
<1>16. FullSessionIsSetUp'
  <2>1. ~crossed => (user.totp => user.secret)
    BY DEF SessionInv, SessionWellFormed
  <2>2. issued'[s].scope = "full" => complete
    BY <1>12
  <2>3. QED
    BY <1>1, <1>3, <1>4, <1>7, <1>9, <1>10, <1>12, <2>1, <2>2 DEF FullSessionIsSetUp
<1>17. QED
  BY <1>11, <1>12, <1>13, <1>14, <1>15, <1>16 DEF SessionInv

(* A step of the login set-up: the sessions and the account stay, factors  *)
(* are added.                                                              *)
LEMMA SetupStep ==
  ASSUME SessionInv, user' \in Users, user'.version = user.version, SameAccount(user'),
         UNCHANGED <<issued, ended, pins>>, passkey' \in BOOLEAN, crossed' \in BOOLEAN,
         ~crossed' => /\ ~crossed
                      /\ user'.totp \/ passkey' => user.wallet # NoPin
                      /\ user'.totp => user'.secret
                      /\ user.totp => user'.totp
                      /\ passkey => passkey',
         work' \in [Worker -> Jobs], WorkIsSound', WorkIsCurrent'
  PROVE  SessionInv'
<1>1. /\ user'.pin = user.pin /\ user'.pinUsed = user.pinUsed
      /\ user'.wallet = user.wallet /\ user'.pending = user.pending
      /\ user'.active = user.active
  BY DEF SameAccount
<1>2. Issued' = Issued /\ \A s \in Session : Accepted(s)' <=> Accepted(s)
  BY <1>1 DEF Issued, Accepted
<1>3. SessionTypeOK /\ user \in Users
  BY DEF SessionInv, SessionWellFormed, SessionTypeOK
<1>4. SessionWellFormed'
  BY <1>3 DEF SessionTypeOK, SessionWellFormed, pins
<1>5. PinSound' /\ SessionsOrdered'
  BY <1>1, <1>2 DEF SessionInv, PinSound, SessionsOrdered, pins
<1>6. KeystoreFirst'
  BY <1>1, <1>2 DEF SessionInv, KeystoreFirst
<1>7. OutstandingPinIsClean'
  BY <1>1, <1>2 DEF SessionInv, OutstandingPinIsClean
<1>8. FullSessionIsSetUp'
  BY <1>1, <1>2 DEF SessionInv, FullSessionIsSetUp
<1>9. QED
  BY <1>4, <1>5, <1>6, <1>7, <1>8 DEF SessionInv

(* Going on to _issue_session with a row of the same version. *)
LEMMA GoingOn ==
  ASSUME SessionInv, NEW w \in Worker, Reading(w), Enrolling(w), NEW acct \in Users,
         acct.version = work[w].read.version, acct.pin = work[w].read.pin,
         acct.pinUsed = work[w].read.pinUsed, acct.wallet = work[w].read.wallet,
         acct.pending = work[w].read.pending, acct.active = work[w].read.active,
         NEW key, AndComplete(w, acct, key),
         user' \in Users, user'.version = user.version, SameAccount(user'),
         UNCHANGED pins, ~crossed' => ~crossed
  PROVE  work' \in [Worker -> Jobs] /\ WorkIsSound' /\ WorkIsCurrent'
<1>1. work \in [Worker -> Jobs] /\ given' = given
  BY DEF SessionInv, SessionWellFormed, SessionTypeOK, pins
<1>2. CASE Done(w)
  BY <1>1, <1>2, DoneKeepsWork
<1>3. CASE work' = [work EXCEPT ![w].op = "complete", ![w].read = acct]
  <2> DEFINE duty == [work[w] EXCEPT !.op = "complete", !.read = acct]
  <2>1. duty \in Jobs /\ duty.op = "complete" /\ duty.read = acct
    BY <1>1 DEF Jobs, Handlings
  <2>2. work' = [work EXCEPT ![w] = duty]
    BY <1>1, <1>3
  <2> HIDE DEF duty
  <2>3. work'[w] = duty
    BY <1>1, <2>2
  <2>4. WorkSound(w)'
    BY <1>1, <2>1, <2>3 DEF WorkSound, SessionInv, WorkIsSound
  <2>5. ASSUME ~crossed' PROVE WorkCurrent(w)'
    <3>1. WorkCurrent(w)
      BY <2>5 DEF SessionInv, WorkIsCurrent
    <3>2. /\ acct.version <= user'.version
          /\ acct.version = user'.version => SameAccount(work[w].read)
          /\ acct.wallet # NoPin
      BY <3>1 DEF WorkCurrent
    <3>3. SameAccount(work[w].read) => SameAccount(acct)'
      BY DEF SameAccount
    <3>4. QED
      BY <2>1, <2>3, <3>2, <3>3 DEF WorkCurrent, SameAccount
  <2>6. QED
    BY <1>1, <2>1, <2>2, <2>4, <2>5, WorkKept
<1>4. QED
  BY <1>2, <1>3 DEF AndComplete

(* The new secret is on the row before any enrolment. *)
LEMMA TotpSetupKeeps ==
  ASSUME SessionInv, NEW w \in Worker, TotpSetup(w)
  PROVE  SessionInv'
<1> DEFINE r == work[w].read
           new == [r EXCEPT !.totp = FALSE]
<1>1. /\ SessionTypeOK /\ user \in Users /\ r \in Users /\ ~r.totp
      /\ Reading(w) /\ Note(w) /\ Done(w)
      /\ UNCHANGED <<passkey, issued, pins, ended>>
  BY DEF SessionInv, SessionWellFormed, SessionTypeOK, Jobs, WorkIsSound, WorkSound,
         TotpSetup, Serving, Reading
<1>2. user' = [Flushed(w, new) EXCEPT !.secret = TRUE]
  BY DEF TotpSetup
<1> HIDE DEF r
<1>3. new = r
  BY <1>1 DEF Users
<1>4. PICK f \in Users :
        /\ f = Flushed(w, r) /\ f.version = user.version /\ f.totp = user.totp
        /\ f.pin = user.pin /\ f.pinUsed = user.pinUsed /\ f.wallet = user.wallet
        /\ f.pending = user.pending /\ f.active = user.active
  BY <1>1, FlushedRow DEF WrittenAttribute, r
<1>5. /\ user' \in Users /\ user'.version = user.version /\ SameAccount(user')
      /\ user'.totp = user.totp /\ user'.secret
  BY <1>2, <1>3, <1>4 DEF Users, SameAccount
<1>6. ~crossed' => /\ ~crossed
                   /\ user.totp \/ passkey => user.wallet # NoPin
  BY <1>1 DEF Note, SessionInv, KeystoreFirst
<1>7. work' \in [Worker -> Jobs] /\ WorkIsSound' /\ WorkIsCurrent'
  BY <1>1, <1>5, <1>6, DoneKeepsWork DEF pins
<1>8. crossed' \in BOOLEAN /\ passkey' \in BOOLEAN
  BY <1>1 DEF Note, SessionTypeOK
<1>9. QED
  BY <1>1, <1>5, <1>6, <1>7, <1>8, SetupStep

(* The enrolment writes over no reset of the secret, or crosses it. *)
LEMMA TotpVerifyKeeps ==
  ASSUME SessionInv, NEW w \in Worker, TotpVerify(w)
  PROVE  SessionInv'
<1> DEFINE r == work[w].read
           acct == [r EXCEPT !.totp = TRUE]
<1>1. /\ SessionTypeOK /\ user \in Users /\ r \in Users /\ r.secret
      /\ Reading(w) /\ Enrolling(w) /\ Note(w)
      /\ UNCHANGED <<passkey, issued, pins, ended>>
  BY DEF SessionInv, SessionWellFormed, SessionTypeOK, Jobs, WorkIsSound, WorkSound,
         TotpVerify, Serving, Reading, Enrolling
<1>2. user' = Flushed(w, acct) /\ AndComplete(w, acct, passkey)
  BY DEF TotpVerify
<1> HIDE DEF r
<1>3. /\ acct \in Users /\ acct.version = r.version /\ acct.secret = r.secret
      /\ acct.totp /\ acct.pin = r.pin /\ acct.pinUsed = r.pinUsed
      /\ acct.wallet = r.wallet /\ acct.pending = r.pending /\ acct.active = r.active
  BY <1>1 DEF Users
<1> HIDE DEF acct
<1>4. /\ user' \in Users /\ user'.version = user.version /\ user'.secret = user.secret
      /\ SameAccount(user') /\ user'.totp = WrittenAttribute(w, acct, "totp")
  <2>1. /\ user' \in Users
        /\ user'.version = WrittenAttribute(w, acct, "version")
        /\ user'.secret = WrittenAttribute(w, acct, "secret")
        /\ user'.totp = WrittenAttribute(w, acct, "totp")
        /\ user'.pin = WrittenAttribute(w, acct, "pin")
        /\ user'.pinUsed = WrittenAttribute(w, acct, "pinUsed")
        /\ user'.wallet = WrittenAttribute(w, acct, "wallet")
        /\ user'.pending = WrittenAttribute(w, acct, "pending")
        /\ user'.active = WrittenAttribute(w, acct, "active")
    BY <1>1, <1>2, <1>3, FlushedRow
  <2>2. QED
    BY <1>3, <2>1 DEF WrittenAttribute, SameAccount, r
<1>5. user.totp => user'.totp
  BY <1>3, <1>4 DEF WrittenAttribute
<1>6. ~crossed' => /\ ~crossed /\ user.wallet # NoPin /\ user'.secret
  BY <1>1, <1>4, CopyIsCurrentRow DEF Note, r
<1>7. work' \in [Worker -> Jobs] /\ WorkIsSound' /\ WorkIsCurrent'
  BY <1>1, <1>2, <1>3, <1>4, <1>6, GoingOn DEF r
<1>8. crossed' \in BOOLEAN /\ passkey' \in BOOLEAN
  BY <1>1 DEF Note, SessionTypeOK
<1>9. QED
  BY <1>1, <1>4, <1>5, <1>6, <1>7, <1>8, SetupStep

(* The passkey is another row: only its holder may have changed. *)
LEMMA RegisterPasskeyKeeps ==
  ASSUME SessionInv, NEW w \in Worker, RegisterPasskey(w)
  PROVE  SessionInv'
<1> DEFINE r == work[w].read
<1>1. /\ SessionTypeOK /\ user \in Users /\ r \in Users
      /\ Reading(w) /\ Enrolling(w) /\ Note(w) /\ AndComplete(w, r, TRUE)
      /\ passkey' = TRUE /\ UNCHANGED <<user, issued, pins, ended>>
  BY DEF SessionInv, SessionWellFormed, SessionTypeOK, Jobs, RegisterPasskey,
         Serving, Reading, Enrolling
<1>2. user' \in Users /\ user'.version = user.version /\ SameAccount(user')
  BY <1>1 DEF SameAccount
<1>3. ~crossed' => /\ ~crossed /\ user.wallet # NoPin
                   /\ user'.totp => user'.secret
  BY <1>1, CopyIsCurrentRow DEF Note, SessionInv, SessionWellFormed
<1>4. work' \in [Worker -> Jobs] /\ WorkIsSound' /\ WorkIsCurrent'
  BY <1>1, <1>2, <1>3, GoingOn
<1>5. crossed' \in BOOLEAN
  BY <1>1 DEF Note, SessionTypeOK
<1>6. QED
  BY <1>1, <1>2, <1>3, <1>4, <1>5, SetupStep

(* Asking for a reset writes no attribute the invariant is about. *)
LEMMA RequestResetKeeps ==
  ASSUME SessionInv, NEW w \in Worker, RequestReset(w)
  PROVE  SessionInv'
<1> DEFINE r == work[w].read
           new == [r EXCEPT !.reset = TRUE]
<1>1. /\ SessionTypeOK /\ user \in Users /\ r \in Users
      /\ user' = Flushed(w, new) /\ Done(w)
      /\ UNCHANGED <<passkey, issued, pins, ended, crossed>>
  BY DEF SessionInv, SessionWellFormed, SessionTypeOK, Jobs, RequestReset
<1> HIDE DEF r
<1>2. /\ new \in Users /\ new.version = r.version /\ new.secret = r.secret
      /\ new.totp = r.totp /\ new.pin = r.pin /\ new.pinUsed = r.pinUsed
      /\ new.wallet = r.wallet /\ new.pending = r.pending /\ new.active = r.active
  BY <1>1 DEF Users
<1> HIDE DEF new
<1>3. /\ user' \in Users /\ user'.version = user.version /\ user'.secret = user.secret
      /\ user'.totp = user.totp /\ SameAccount(user')
  BY <1>1, <1>2, FlushedRow DEF WrittenAttribute, SameAccount, r
<1>4. ~crossed => /\ user.totp \/ passkey => user.wallet # NoPin
                  /\ user.totp => user.secret
  BY DEF SessionInv, KeystoreFirst, SessionWellFormed
<1>5. work' \in [Worker -> Jobs] /\ WorkIsSound' /\ WorkIsCurrent'
  BY <1>1, <1>3, DoneKeepsWork DEF pins
<1>6. crossed' \in BOOLEAN /\ passkey' \in BOOLEAN
  BY <1>1 DEF SessionTypeOK
<1>7. QED
  BY <1>1, <1>3, <1>4, <1>5, <1>6, SetupStep

-----------------------------------------------------------------------------
(* Logout, EndSession, UpdateUserRole, RevokeIdentity: the version grows   *)
(* and nothing else is written but is_active.                              *)
LEMMA EndKeeps ==
  ASSUME SessionInv, NEW w \in Worker, Reading(w), NEW new \in Users,
         new.version = work[w].read.version + 1,
         new.secret = work[w].read.secret, new.totp = work[w].read.totp,
         new.pin = work[w].read.pin, new.pinUsed = work[w].read.pinUsed,
         new.wallet = work[w].read.wallet,
         End(w, new), Note(w), Done(w), UNCHANGED <<passkey, pins>>
  PROVE  SessionInv'
<1> DEFINE r == work[w].read
<1>1. /\ SessionTypeOK /\ user \in Users /\ r \in Users
      /\ user' = Flushed(w, new) /\ ended' = Issued /\ issued' = issued
  BY DEF SessionInv, SessionWellFormed, SessionTypeOK, Jobs, End
<1>2. /\ user' \in Users /\ user'.version = WrittenAttribute(w, new, "version")
      /\ user'.secret = user.secret /\ user'.totp = user.totp
      /\ user'.pin = user.pin /\ user'.pinUsed = user.pinUsed
      /\ user'.wallet = user.wallet
  <2>1. /\ user' \in Users
        /\ user'.version = WrittenAttribute(w, new, "version")
        /\ user'.secret = WrittenAttribute(w, new, "secret")
        /\ user'.totp = WrittenAttribute(w, new, "totp")
        /\ user'.pin = WrittenAttribute(w, new, "pin")
        /\ user'.pinUsed = WrittenAttribute(w, new, "pinUsed")
        /\ user'.wallet = WrittenAttribute(w, new, "wallet")
    BY <1>1, FlushedRow
  <2>2. QED
    BY <2>1 DEF WrittenAttribute
<1>3. user.version \in Nat /\ r.version \in Nat
  BY <1>1, VersionAssumption DEF Users, Versions
<1>4. ~crossed' => ~crossed /\ user'.version = user.version + 1
  <2>1. ~crossed' => ~crossed /\ r.version = user.version
    BY CopyIsCurrentRow DEF Note
  <2>2. QED
    BY <1>2, <1>3, <2>1 DEF WrittenAttribute
<1>5. work' \in [Worker -> Jobs] /\ WorkIsSound' /\ WorkIsCurrent'
  BY <1>2, <1>3, <1>4, DoneKeepsWork DEF pins
<1>6. SessionsOrdered' /\ (~crossed' => \A s \in Session : ~Accepted(s)')
  BY <1>1, <1>2, <1>4, SessionsEnd
<1>7. SessionWellFormed'
  <2>1. ended' \in SUBSET Session /\ crossed' \in BOOLEAN
    BY <1>1 DEF Issued, SessionTypeOK, Note
  <2>2. SessionTypeOK'
    BY <1>1, <1>2, <1>5, <2>1 DEF SessionTypeOK, pins
  <2>3. QED
    BY <1>2, <1>4, <2>2 DEF SessionWellFormed, SessionInv
<1>8. PinSound'
  BY <1>2 DEF PinSound, SessionInv, pins
<1>9. KeystoreFirst' /\ FullSessionIsSetUp' /\ OutstandingPinIsClean'
  BY <1>2, <1>4, <1>6
  DEF KeystoreFirst, FullSessionIsSetUp, OutstandingPinIsClean, SessionInv
<1>10. QED
  BY <1>5, <1>6, <1>7, <1>8, <1>9 DEF SessionInv

(* The four of them. *)
LEMMA SessionEndsKeep ==
  ASSUME SessionInv, NEW w \in Worker,
         \/ EndSession(w) \/ Logout(w) \/ UpdateUserRole(w) \/ RevokeIdentity(w)
  PROVE  SessionInv'
<1> DEFINE r == work[w].read
           b == Bumped(r)
<1>1. /\ SessionTypeOK /\ r \in Users /\ Reading(w) /\ CanBump(r)
      /\ Note(w) /\ Done(w) /\ UNCHANGED <<passkey, pins>>
      /\ End(w, b) \/ End(w, [b EXCEPT !.active = FALSE])
  BY DEF SessionInv, SessionWellFormed, SessionTypeOK, Jobs, Serving, Reading, End,
         EndSession, Logout, UpdateUserRole, RevokeIdentity
<1> HIDE DEF r
<1>2. /\ b \in Users /\ b.version = r.version + 1 /\ b.secret = r.secret
      /\ b.totp = r.totp /\ b.pin = r.pin /\ b.pinUsed = r.pinUsed
      /\ b.wallet = r.wallet
  BY <1>1, BumpedRow
<1> HIDE DEF b
<1>3. CASE End(w, b)
  BY <1>1, <1>2, <1>3, EndKeeps DEF r
<1>4. CASE End(w, [b EXCEPT !.active = FALSE])
  <2> DEFINE new == [b EXCEPT !.active = FALSE]
  <2>1. /\ new \in Users /\ new.version = b.version /\ new.secret = b.secret
        /\ new.totp = b.totp /\ new.pin = b.pin /\ new.pinUsed = b.pinUsed
        /\ new.wallet = b.wallet
    BY <1>2 DEF Users
  <2>2. End(w, new)
    BY <1>4
  <2> HIDE DEF new
  <2>3. QED
    BY <1>1, <1>2, <2>1, <2>2, EndKeeps DEF r
<1>5. QED
  BY <1>1, <1>3, <1>4

(* The reset ends everything at once and hands out a new PIN. *)
LEMMA ApproveResetKeeps ==
  ASSUME SessionInv, NEW w \in Worker, ApproveReset(w)
  PROVE  SessionInv'
<1> USE PinAssumption
<1> DEFINE r == work[w].read
<1>1. PICK p \in Pin \ given : /\ End(w, ResetRow(r, p))
                               /\ given' = given \union {p} /\ latest' = p
  BY DEF ApproveReset
<1> DEFINE new == ResetRow(r, p)
<1>2. /\ SessionTypeOK /\ user \in Users /\ r \in Users /\ CanBump(r)
      /\ user' = Flushed(w, new) /\ ended' = Issued /\ issued' = issued
      /\ Reading(w) /\ Note(w) /\ Done(w) /\ passkey' = FALSE
      /\ UNCHANGED provisioned
  BY <1>1 DEF SessionInv, SessionWellFormed, SessionTypeOK, Jobs, End, ApproveReset,
              Serving, Reading
<1>3. r.pin \in given \union {NoPin} /\ r.pin # p
  BY <1>1 DEF SessionInv, WorkIsSound, WorkSound
<1> HIDE DEF r
<1>4. /\ new \in Users /\ new.version = r.version + 1 /\ ~new.secret /\ ~new.totp
      /\ new.pin = p /\ ~new.pinUsed /\ new.wallet = NoPin
  BY <1>2, ResetRowFields
<1> HIDE DEF new
<1>5. /\ user' \in Users
      /\ user'.version = WrittenAttribute(w, new, "version")
      /\ user'.totp = WrittenAttribute(w, new, "totp")
      /\ user'.pinUsed = WrittenAttribute(w, new, "pinUsed")
      /\ user'.wallet = WrittenAttribute(w, new, "wallet")
      /\ user'.pin = p
  <2>1. /\ user' \in Users
        /\ user'.version = WrittenAttribute(w, new, "version")
        /\ user'.totp = WrittenAttribute(w, new, "totp")
        /\ user'.pinUsed = WrittenAttribute(w, new, "pinUsed")
        /\ user'.wallet = WrittenAttribute(w, new, "wallet")
        /\ user'.pin = WrittenAttribute(w, new, "pin")
    BY <1>2, <1>4, FlushedRow
  <2>2. QED
    BY <1>3, <1>4, <2>1 DEF WrittenAttribute, r
<1>6. user.version \in Nat /\ r.version \in Nat
  BY <1>2, VersionAssumption DEF Users, Versions
<1>7. ~crossed' => /\ ~crossed /\ user'.version = user.version + 1
                   /\ ~user'.totp /\ ~user'.pinUsed /\ user'.wallet = NoPin
  <2>1. ~crossed' => /\ ~crossed /\ r.version = user.version /\ r.totp = user.totp
                     /\ r.pinUsed = user.pinUsed /\ r.wallet = user.wallet
    BY <1>2, CopyIsCurrentRow DEF Note, r
  <2>2. /\ new.totp \in BOOLEAN /\ r.totp \in BOOLEAN
        /\ new.pinUsed \in BOOLEAN /\ r.pinUsed \in BOOLEAN
    BY <1>2, <1>4 DEF Users
  <2>3. QED
    BY <1>4, <1>5, <1>6, <2>1, <2>2 DEF WrittenAttribute, r
<1>8. work' \in [Worker -> Jobs] /\ WorkIsSound' /\ WorkIsCurrent'
  BY <1>1, <1>2, <1>5, <1>6, <1>7, DoneKeepsWork
<1>9. SessionsOrdered' /\ (~crossed' => \A s \in Session : ~Accepted(s)')
  BY <1>2, <1>5, <1>7, SessionsEnd
<1>10. SessionWellFormed'
  <2>1. /\ ended' \in SUBSET Session /\ crossed' \in BOOLEAN
        /\ given' \in SUBSET Pin /\ latest' \in Pin
    BY <1>1, <1>2 DEF Issued, SessionTypeOK, Note
  <2>2. SessionTypeOK'
    BY <1>2, <1>5, <1>8, <2>1 DEF SessionTypeOK
  <2>3. QED
    BY <1>7, <2>2 DEF SessionWellFormed
<1>11. PinSound'
  BY <1>1, <1>2, <1>5 DEF PinSound, SessionInv
<1>12. KeystoreFirst' /\ FullSessionIsSetUp' /\ OutstandingPinIsClean'
  BY <1>2, <1>7, <1>9 DEF KeystoreFirst, FullSessionIsSetUp, OutstandingPinIsClean
<1>13. QED
  BY <1>8, <1>9, <1>10, <1>11, <1>12 DEF SessionInv

-----------------------------------------------------------------------------
(* Nothing happens. *)
LEMMA SessionStutterKeeps ==
  SessionInv /\ UNCHANGED sessionVars => SessionInv'
<1> SUFFICES ASSUME SessionInv, UNCHANGED sessionVars PROVE SessionInv'
  OBVIOUS
<1>1. UNCHANGED <<user, passkey, issued, work, ended, given, latest, provisioned, crossed>>
  BY DEF sessionVars
<1>2. Issued' = Issued /\ \A s \in Session : Accepted(s)' <=> Accepted(s)
  BY <1>1 DEF Issued, Accepted
<1>3. SessionTypeOK'
  BY <1>1 DEF SessionInv, SessionWellFormed, SessionTypeOK
<1>4. WorkIsSound' /\ WorkIsCurrent'
  BY <1>1 DEF SessionInv, WorkIsSound, WorkIsCurrent, WorkSound, WorkCurrent,
              Reading, Enrolling, SameAccount
<1>5. PinSound' /\ SessionsOrdered' /\ KeystoreFirst'
  BY <1>1, <1>2 DEF SessionInv, PinSound, SessionsOrdered, KeystoreFirst
<1>6. FullSessionIsSetUp' /\ OutstandingPinIsClean'
  BY <1>1, <1>2 DEF SessionInv, FullSessionIsSetUp, OutstandingPinIsClean
<1>7. QED
  BY <1>1, <1>3, <1>4, <1>5, <1>6 DEF SessionInv, SessionWellFormed

(* Every step of a handler keeps the invariant. *)
LEMMA SessionNextKeeps == SessionInv /\ [SessionNext]_sessionVars => SessionInv'
<1> SUFFICES ASSUME SessionInv, [SessionNext]_sessionVars PROVE SessionInv'
  OBVIOUS
<1>1. CASE UNCHANGED sessionVars
  BY <1>1, SessionStutterKeeps
<1>2. ASSUME NEW w \in Worker, Handler(w) PROVE SessionInv'
  <2>1. CASE \E p \in Pin : ReadForProvision(w, p)
    BY <2>1, ReadForProvisionKeeps
  <2>2. CASE ProvisionWallet(w)
    BY <2>2, ProvisionWalletKeeps
  <2>3. CASE ProvisionWalletRefused(w) \/ Abort(w)
    BY <2>3, LeavingKeeps DEF ProvisionWalletRefused, Abort
  <2>4. CASE ReadForSignIn(w)
    BY <2>4, ReadForSignInKeeps
  <2>5. CASE SignIn(w)
    BY <2>5, SignInKeeps
  <2>6. CASE \E s \in Session, op \in Handlings : ReadForSetup(w, s, op)
    BY <2>6, ReadForSetupKeeps
  <2>7. CASE TotpSetup(w)
    BY <2>7, TotpSetupKeeps
  <2>8. CASE TotpVerify(w)
    BY <2>8, TotpVerifyKeeps
  <2>9. CASE RegisterPasskey(w)
    BY <2>9, RegisterPasskeyKeeps
  <2>10. CASE RequestReset(w)
    BY <2>10, RequestResetKeeps
  <2>11. CASE ApproveReset(w)
    BY <2>11, ApproveResetKeeps
  <2>12. CASE EndSession(w) \/ Logout(w) \/ UpdateUserRole(w) \/ RevokeIdentity(w)
    BY <2>12, SessionEndsKeep
  <2>13. CASE \/ \E s \in Session : ReadForExpiry(w, s)
              \/ ReadForResetRequest(w) \/ ReadForApproval(w)
              \/ \E op \in Handlings : ReadForAdmin(w, op)
    <3>1. "role" \in Handlings
      BY DEF Handlings
    <3>2. QED
      BY <2>13, <3>1, OtherReadsKeep
  <2>14. QED
    BY <1>2, <2>1, <2>2, <2>3, <2>4, <2>5, <2>6, <2>7, <2>8, <2>9, <2>10, <2>11,
       <2>12, <2>13 DEF Handler
<1>3. QED
  BY <1>1, <1>2 DEF SessionNext

(* The inductive invariant of the sessions holds in every reachable state. *)
THEOREM SessionInvariance == SessionSpec => []SessionInv
<1>1. SessionInit => SessionInv
  BY SessionInitInvariant
<1>2. SessionInv /\ [SessionNext]_sessionVars => SessionInv'
  BY SessionNextKeeps
<1>3. QED
  BY <1>1, <1>2, PTL DEF SessionSpec

(* The rows, copies and sessions have their types, and an enrolled         *)
(* authenticator has its secret while no handler overwrote a newer row.    *)
THEOREM SessionsWellFormed == SessionSpec => []SessionWellFormed
<1>1. SessionInv => SessionWellFormed
  BY DEF SessionInv
<1>2. QED
  BY <1>1, SessionInvariance, PTL

(* A session that a sign-in, sign-out, expiry, reset, role change or       *)
(* revocation ended is refused from then on (_authenticate).               *)
THEOREM EndedSessionsAreRefused == SessionSpec => []EndedSessionsStayEnded
<1>1. SessionInv => EndedSessionsStayEnded
  <2> SUFFICES ASSUME SessionInv, ~crossed, NEW s \in Session, Accepted(s), s \in ended
               PROVE  FALSE
    BY DEF EndedSessionsStayEnded
  <2>1. s \in Issued /\ issued[s].version < user.version /\ issued[s].version = user.version
    BY DEF SessionInv, SessionsOrdered, Accepted
  <2>2. user.version \in Nat
    BY VersionAssumption
    DEF SessionInv, SessionWellFormed, SessionTypeOK, Users, Versions
  <2>3. QED
    BY <2>1, <2>2
<1>2. QED
  BY <1>1, SessionInvariance, PTL

(* Whoever holds an accepted full session completed the login set-up.      *)
THEOREM FullSessionsAreSetUp == SessionSpec => []FullSessionIsSetUp
<1>1. SessionInv => FullSessionIsSetUp
  BY DEF SessionInv
<1>2. QED
  BY <1>1, SessionInvariance, PTL

(* An outstanding PIN is unused, and neither a session nor a keystore of   *)
(* the time before it is in force (reset_login_factors).                   *)
THEOREM OutstandingPinsAreClean == SessionSpec => []OutstandingPinIsClean
<1>1. SessionInv => OutstandingPinIsClean
  BY DEF SessionInv
<1>2. QED
  BY <1>1, SessionInvariance, PTL

(* Only provision_wallet counts a provisioning, and it finds the latest    *)
(* PIN, which has provisioned nothing yet.                                 *)
LEMMA ProvisionsOnlyOnce ==
  ASSUME SessionInv, [SessionNext]_sessionVars, NEW p \in given,
         provisioned'[p] # provisioned[p]
  PROVE  p = latest /\ provisioned[p] = 0 /\ provisioned'[p] = 1
<1>1. PICK w \in Worker : ProvisionWallet(w)
  <2>1. PICK w \in Worker : Handler(w)
    BY DEF SessionNext, sessionVars
  <2>2. ProvisionWallet(w)
    BY <2>1 DEF Handler, ReadForProvision, ProvisionWalletRefused, ReadForSignIn, SignIn,
         ReadForSetup, TotpSetup, TotpVerify, RegisterPasskey, ReadForExpiry,
         EndSession, Logout, ReadForResetRequest, RequestReset, ReadForApproval,
         ApproveReset, ReadForAdmin, UpdateUserRole, RevokeIdentity, Abort,
         ReadUser, pins
  <2>3. QED
    BY <2>2
<1>2. /\ provisioned' = [provisioned EXCEPT ![work[w].pin] = @ + 1]
      /\ user.pin = work[w].pin
      /\ work[w].pin \in Pin
  BY <1>1 DEF ProvisionWallet, PinConsumable, Serving, SessionInv, WorkIsSound, WorkSound
<1>3. provisioned \in [Pin -> Nat] /\ given \subseteq Pin
  BY DEF SessionInv, SessionWellFormed, SessionTypeOK
<1>4. p = work[w].pin /\ provisioned'[p] = provisioned[p] + 1
  BY <1>2, <1>3
<1>5. p = latest /\ provisioned[p] = 0
  BY <1>2, <1>4, PinAssumption DEF SessionInv, PinSound
<1>6. QED
  BY <1>4, <1>5

(* A PIN provisions a wallet at most once, and none that was replaced does *)
(* (provision_wallet's conditional UPDATE).                                *)
THEOREM PinsProvisionOnce == SessionSpec => PinProvisionsOnce
<1>1. SessionInv /\ [SessionNext]_sessionVars =>
        [\A p \in given : provisioned'[p] # provisioned[p] =>
           p = latest /\ provisioned[p] = 0 /\ provisioned'[p] = 1]_sessionVars
  BY ProvisionsOnlyOnce
<1>2. QED
  BY <1>1, SessionInvariance, PTL DEF SessionSpec, PinProvisionsOnce

-----------------------------------------------------------------------------
(* Factors (Factors.tla). *)

(* What was used as a proof is marked in its table. *)
UsedIsConsumed ==
  /\ \A g \in Grant : g \in used => grants[g].state = "consumed"
  /\ \A c \in Challenge : c \in used => challenges[c].state = "consumed"

(* A row of the passkeys keeps its purpose for good. *)
KeysHavePurpose ==
  \A k \in Key :
    /\ keys[k].active => keys[k].purpose # "none"
    /\ \A w \in Worker : ~Idle(w) /\ copy[w].keys[k].active => keys[k].purpose # "none"

(* The last accepted step of an authenticator covers every code used. *)
CodesCovered(r, codes) ==
  \A p \in Purposes, c \in Steps :
    <<p, c>> \in codes /\ r.totp[p] # "none" => c <= r.last[p]

Unstarted(r) == \A p \in Purposes : r.totp[p] # "on" => r.last[p] = 0

FactorInv ==
  /\ FactorTypeOK /\ UsedIsConsumed /\ KeysHavePurpose /\ TokenUsedOnce
  /\ ~crossed => /\ CodesCovered(row, used) /\ Unstarted(row)
                 /\ again \intersect Codes = {}
  /\ LoginPasskeyStays /\ LinkedHasNoOwnFactor

-----------------------------------------------------------------------------
(* RemovalIsProven, of one step. *)
RemovalProven ==
  ~crossed' =>
    /\ \A p \in Factor : row.totp[p] = "on" /\ row'.totp[p] # "on" => Proves(p)
    /\ \A k \in Key : keys[k].active /\ ~keys'[k].active => Proves(keys[k].purpose)
    /\ row.linked # row'.linked => Proves("login")

(* The attributes of a row, and the purpose whose factors count. *)
LEMMA RowFields ==
  ASSUME NEW r \in Rows
  PROVE  /\ r.totp \in [Purposes -> {"none", "pending", "on"}]
         /\ r.last \in [Purposes -> Steps \union {0}]
         /\ r.linked \in SUBSET Factor
         /\ r.version \in 0..MaxVersion
         /\ \A p \in Purposes : Source(r, p) \in Purposes
         /\ Source(r, "login") = "login"
         /\ r = [totp |-> r.totp, last |-> r.last, linked |-> r.linked, version |-> r.version]
<1>1. /\ r.totp \in [Purposes -> {"none", "pending", "on"}]
      /\ r.last \in [Purposes -> Steps \union {0}]
      /\ r.linked \in SUBSET Factor
      /\ r.version \in 0..MaxVersion
      /\ r = [totp |-> r.totp, last |-> r.last, linked |-> r.linked, version |-> r.version]
  BY DEF Rows
<1>2. /\ \A p \in Purposes : Source(r, p) \in Purposes
      /\ Source(r, "login") = "login"
  BY <1>1, PurposeAssumption DEF Source, Purposes
<1>3. QED
  BY <1>1, <1>2

(* A flush writes a row again ... *)
LEMMA MergedRow ==
  ASSUME NEW r \in Rows, NEW base \in Rows, NEW new \in Rows
  PROVE  Merge(r, base, new) \in Rows
<1> DEFINE totp == [p \in Purposes |-> IF new.totp[p] = base.totp[p]
                                       THEN r.totp[p] ELSE new.totp[p]]
           last == [p \in Purposes |-> IF new.last[p] = base.last[p]
                                       THEN r.last[p] ELSE new.last[p]]
           linked == {p \in Factor : IF (p \in new.linked) = (p \in base.linked)
                                     THEN p \in r.linked ELSE p \in new.linked}
           version == IF new.version = base.version THEN r.version ELSE new.version
<1>1. totp \in [Purposes -> {"none", "pending", "on"}]
  BY RowFields
<1>2. last \in [Purposes -> Steps \union {0}]
  BY RowFields
<1>3. linked \in SUBSET Factor /\ version \in 0..MaxVersion
  BY RowFields
<1>4. Merge(r, base, new) = [totp |-> totp, last |-> last, linked |-> linked,
                             version |-> version]
  BY DEF Merge
<1> HIDE DEF totp, last, linked, version
<1>5. QED
  BY <1>1, <1>2, <1>3, <1>4 DEF Rows

(* ... the new one, when the copy was up to date. *)
LEMMA MergedWithOwn ==
  ASSUME NEW r \in Rows, NEW new \in Rows
  PROVE  Merge(r, r, new) = new
<1> DEFINE totp == [p \in Purposes |-> IF new.totp[p] = r.totp[p]
                                       THEN r.totp[p] ELSE new.totp[p]]
           last == [p \in Purposes |-> IF new.last[p] = r.last[p]
                                       THEN r.last[p] ELSE new.last[p]]
           linked == {p \in Factor : IF (p \in new.linked) = (p \in r.linked)
                                     THEN p \in r.linked ELSE p \in new.linked}
           version == IF new.version = r.version THEN r.version ELSE new.version
<1>1. new.totp = totp
  BY RowFields
<1>2. new.last = last
  BY RowFields
<1>3. new.linked = linked
  <2>1. \A p \in Factor : p \in linked <=> p \in new.linked
    OBVIOUS
  <2>2. linked \subseteq Factor /\ new.linked \subseteq Factor
    BY RowFields
  <2> HIDE DEF linked
  <2>3. QED
    BY <2>1, <2>2
<1>4. new.version = version
  OBVIOUS
<1>5. Merge(r, r, new) = [totp |-> totp, last |-> last, linked |-> linked,
                          version |-> version]
  BY DEF Merge
<1> HIDE DEF totp, last, linked, version
<1>6. QED
  BY <1>1, <1>2, <1>3, <1>4, <1>5, RowFields

(* The rows the handlers make of their copy. *)
LEMMA CodeOnRow ==
  ASSUME NEW r \in Rows, NEW p \in Purposes, NEW c \in Steps
  PROVE  /\ WithCode(r, p, c) \in Rows
         /\ WithCode(r, p, c).totp = r.totp
         /\ WithCode(r, p, c).last = [r.last EXCEPT ![Source(r, p)] = c]
         /\ WithCode(r, p, c).linked = r.linked
         /\ WithCode(r, p, c).version = r.version
<1> DEFINE last == [r.last EXCEPT ![Source(r, p)] = c]
<1>1. last \in [Purposes -> Steps \union {0}]
  BY RowFields
<1>2. WithCode(r, p, c) = [r EXCEPT !.last = last]
  BY DEF WithCode
<1> HIDE DEF last
<1>3. WithCode(r, p, c) = [totp |-> r.totp, last |-> last, linked |-> r.linked,
                           version |-> r.version]
  BY <1>2, RowFields
<1>4. QED
  BY <1>1, <1>3, RowFields DEF Rows, last

(* set_totp_secret and its removal start the steps again. *)
LEMMA TotpOnRow ==
  ASSUME NEW r \in Rows, NEW p \in Purposes, NEW state \in {"none", "pending"}
  PROVE  /\ NewTotp(r, p, state) \in Rows
         /\ NewTotp(r, p, state).totp = [r.totp EXCEPT ![p] = state]
         /\ NewTotp(r, p, state).last = [r.last EXCEPT ![p] = 0]
         /\ NewTotp(r, p, state).linked = r.linked
         /\ NewTotp(r, p, state).version = r.version
<1> DEFINE totp == [r.totp EXCEPT ![p] = state]
           last == [r.last EXCEPT ![p] = 0]
<1>1. totp \in [Purposes -> {"none", "pending", "on"}]
  BY RowFields
<1>2. last \in [Purposes -> Steps \union {0}]
  BY RowFields
<1>3. NewTotp(r, p, state) = [r EXCEPT !.totp = totp, !.last = last]
  BY DEF NewTotp
<1> HIDE DEF totp, last
<1>4. NewTotp(r, p, state) = [totp |-> totp, last |-> last, linked |-> r.linked,
                              version |-> r.version]
  BY <1>3, RowFields
<1>5. QED
  BY <1>1, <1>2, <1>4, RowFields DEF Rows, totp, last

(* Every action has a purpose. *)
LEMMA ActionPurposes ==
  /\ \A a \in Actions : ActionPurpose(a) \in Purposes
  /\ \A p \in Factor : <<"use", p>> \in Actions /\ ActionPurpose(<<"use", p>>) = p
  /\ \A p \in Purposes : <<"manage", p>> \in Actions /\ ActionPurpose(<<"manage", p>>) = p
  /\ \A p \in Factor : <<"link", p>> \in Actions /\ ActionPurpose(<<"link", p>>) = "login"
BY DEF ActionPurpose, Actions, Protected, LoginAction, Purposes

-----------------------------------------------------------------------------
(* A person with the login factors only satisfies the invariant. *)
LEMMA FactorInitInvariant == FactorInit => FactorInv
<1> SUFFICES ASSUME FactorInit PROVE FactorInv
  OBVIOUS
<1> USE PurposeAssumption, StepAssumption, VersionAssumption
<1>1. PICK k \in Key :
        keys = [j \in Key |-> [purpose |-> IF j = k THEN "login" ELSE "none",
                               active  |-> j = k]]
  BY DEF FactorInit
<1>2. /\ challenges = [c \in Challenge |-> NoChallenge]
      /\ grants = [g \in Grant |-> NoGrant] /\ copy = [w \in Worker |-> NoCopy]
      /\ used = {} /\ again = {} /\ crossed = FALSE
  BY DEF FactorInit
<1> DEFINE totp == [p \in Purposes |-> IF p = "login" THEN "on" ELSE "none"]
           last == [p \in Purposes |-> 0]
<1>3. row = [totp |-> totp, last |-> last, linked |-> {}, version |-> 0]
  BY DEF FactorInit
<1>4. /\ totp \in [Purposes -> {"none", "pending", "on"}]
      /\ last \in [Purposes -> Steps \union {0}]
  OBVIOUS
<1>5. \A p \in Purposes : last[p] = 0
  OBVIOUS
<1> HIDE DEF totp, last
<1>6. row \in Rows
  BY <1>3, <1>4 DEF Rows
<1>7. /\ keys \in [Key -> Keys]
      /\ \A j \in Key : keys[j].active => keys[j].purpose # "none"
      /\ keys[k].active /\ keys[k].purpose = "login"
  BY <1>1 DEF Keys, Purposes
<1>8. "login" \in Purposes /\ NoAction \in Actions
  BY DEF Purposes, Actions, Protected, NoAction
<1>9. challenges \in [Challenge -> Challenges] /\ grants \in [Grant -> Grants]
  BY <1>2, <1>8 DEF NoChallenge, NoGrant, Challenges, Grants, Kinds
<1>10. FactorTypeOK
  BY <1>2, <1>6, <1>7, <1>9 DEF FactorTypeOK
<1>11. UsedIsConsumed /\ TokenUsedOnce /\ again \intersect Codes = {}
       /\ CodesCovered(row, used) /\ Unstarted(row)
  BY <1>2, <1>3, <1>5 DEF UsedIsConsumed, TokenUsedOnce, CodesCovered, Unstarted
<1>12. KeysHavePurpose
  BY <1>2, <1>7 DEF KeysHavePurpose, Idle
<1>13. LoginPasskeyStays /\ LinkedHasNoOwnFactor
  BY <1>3, <1>7 DEF LoginPasskeyStays, LinkedHasNoOwnFactor
<1>14. QED
  BY <1>10, <1>11, <1>12, <1>13 DEF FactorInv

-----------------------------------------------------------------------------
(* What a handler holds has the types of the tables. *)
LEMMA CopyTypes ==
  ASSUME FactorInv, NEW w \in Worker, ~Idle(w)
  PROVE  Row(w) \in Rows /\ copy[w].keys \in [Key -> Keys]
BY DEF FactorInv, FactorTypeOK, Idle, Row, Snapshots

(* A handler that crosses no other commits against what it read. *)
LEMMA Uncrossed ==
  ASSUME NEW w \in Worker, Finish(w), ~crossed'
  PROVE  ~crossed /\ Row(w) = row /\ copy[w].keys = keys
<1>1. ~(crossed \/ copy[w] # [row |-> row, keys |-> keys])
  BY DEF Finish
<1>2. QED
  BY <1>1 DEF Row

(* A code later than the last one was never used before. *)
LEMMA CodeAccepted ==
  ASSUME FactorInv, NEW w \in Worker, ~Idle(w), NEW p \in Purposes, NEW c \in Steps,
         CodeFits(w, p, c), Use(<<Source(Row(w), p), c>>)
  PROVE  /\ used' \in SUBSET (Codes \union Challenge \union Grant)
         /\ again' \in SUBSET (Codes \union Challenge \union Grant)
         /\ \A x \in Grant \union Challenge : x \in used' => x \in used
         /\ TokenUsedOnce'
         /\ ~crossed /\ Row(w) = row =>
              /\ CodesCovered(WithCode(row, p, c), used') /\ Unstarted(WithCode(row, p, c))
              /\ again' \intersect Codes = {}
              /\ <<Source(row, p), c>> \in used' \ used
<1> DEFINE src == Source(Row(w), p)
<1>1. Row(w) \in Rows /\ src \in Purposes /\ <<src, c>> \in Codes
  BY CopyTypes, RowFields DEF Codes
<1>2. /\ used' = used \union {<<src, c>>}
      /\ again' = again \union ({<<src, c>>} \intersect used)
  BY DEF Use
<1>3. /\ used \in SUBSET (Codes \union Challenge \union Grant)
      /\ again \in SUBSET (Codes \union Challenge \union Grant)
      /\ again \intersect (Grant \union Challenge) = {}
  BY DEF FactorInv, FactorTypeOK, TokenUsedOnce
<1>4. <<src, c>> \notin Grant \union Challenge
  BY <1>1, ProofsAssumption
<1> HIDE DEF src
<1>5. /\ used' \in SUBSET (Codes \union Challenge \union Grant)
      /\ again' \in SUBSET (Codes \union Challenge \union Grant)
      /\ \A x \in Grant \union Challenge : x \in used' => x \in used
      /\ TokenUsedOnce'
  BY <1>1, <1>2, <1>3, <1>4 DEF TokenUsedOnce
<1>6. ASSUME ~crossed, Row(w) = row
      PROVE  /\ CodesCovered(WithCode(row, p, c), used') /\ Unstarted(WithCode(row, p, c))
             /\ again' \intersect Codes = {}
             /\ <<Source(row, p), c>> \in used' \ used
  <2>1. /\ CodesCovered(row, used) /\ Unstarted(row) /\ again \intersect Codes = {}
        /\ row \in Rows
    BY <1>6 DEF FactorInv, FactorTypeOK
  <2>2. row.totp[src] = "on" /\ c > row.last[src] /\ src = Source(row, p)
    BY <1>6 DEF CodeFits, Accepts, src
  <2>3. \A x \in Purposes : row.last[x] \in Nat
    BY <2>1, RowFields DEF Steps
  <2>4. c \in Nat
    BY DEF Steps
  <2>5. <<src, c>> \notin used
    BY <1>1, <2>1, <2>2, <2>3, <2>4 DEF CodesCovered
  <2>6. PICK new \in Rows : /\ new = WithCode(row, p, c) /\ new.totp = row.totp
                            /\ new.last = [row.last EXCEPT ![src] = c]
    <3>1. /\ WithCode(row, p, c) \in Rows /\ WithCode(row, p, c).totp = row.totp
          /\ WithCode(row, p, c).last = [row.last EXCEPT ![Source(row, p)] = c]
      BY <2>1, CodeOnRow
    <3>2. QED
      BY <2>2, <3>1
  <2>7. /\ new.last[src] = c
        /\ \A x \in Purposes \ {src} : new.last[x] = row.last[x]
    BY <1>1, <2>1, <2>6, RowFields
  <2>8. CodesCovered(new, used')
    <3> SUFFICES ASSUME NEW x \in Purposes, NEW d \in Steps, <<x, d>> \in used',
                        new.totp[x] # "none"
                 PROVE  d <= new.last[x]
      BY DEF CodesCovered
    <3>1. CASE <<x, d>> \in used
      <4>1. d <= row.last[x] /\ d \in Nat
        BY <2>1, <2>6, <3>1 DEF CodesCovered, Steps
      <4>2. QED
        BY <2>2, <2>3, <2>4, <2>7, <4>1
    <3>2. CASE <<x, d>> = <<src, c>>
      <4>1. x = src /\ d = c
        BY <3>2
      <4>2. QED
        BY <2>4, <2>7, <4>1
    <3>3. QED
      BY <1>2, <3>1, <3>2
  <2>9. Unstarted(new)
    BY <2>1, <2>2, <2>6, <2>7 DEF Unstarted
  <2>10. again' \intersect Codes = {}
    BY <1>2, <2>1, <2>5
  <2>11. QED
    BY <1>2, <2>2, <2>5, <2>6, <2>8, <2>9, <2>10
<1>7. QED
  BY <1>5, <1>6

(* A token that is consumed was open, so it was never used before. *)
LEMMA TokenAccepted ==
  ASSUME FactorInv, NEW w \in Worker, NEW a, NEW g \in Grant, TokenFits(w, a, g),
         grants' = [grants EXCEPT ![g] = Consumed(g)],
         NEW old \in SUBSET Codes, used' = (used \ old) \union {g},
         again' = again \union ({g} \intersect used)
  PROVE  /\ grants' \in [Grant -> Grants]
         /\ used' \in SUBSET (Codes \union Challenge \union Grant)
         /\ again' = again
         /\ \A h \in Grant : h \in used' => grants'[h].state = "consumed"
         /\ \A c \in Challenge : c \in used' => c \in used
         /\ \A x \in Codes : x \in used' => x \in used \ old
         /\ Proves(ActionPurpose(a))
<1>1. /\ grants \in [Grant -> Grants] /\ grants[g].state = "open"
      /\ grants[g].action = a
      /\ used \in SUBSET (Codes \union Challenge \union Grant)
      /\ \A h \in Grant : h \in used => grants[h].state = "consumed"
  BY DEF FactorInv, FactorTypeOK, TokenFits, UsedIsConsumed
<1>2. NoAction \in Actions
  BY DEF NoAction, Actions, Protected, Purposes
<1>3. Consumed(g) \in Grants /\ Consumed(g).state = "consumed"
  BY <1>2, VersionAssumption DEF Consumed, NoGrant, Grants
<1>4. /\ grants' \in [Grant -> Grants] /\ grants'[g].state = "consumed"
      /\ \A h \in Grant \ {g} : grants'[h] = grants[h]
  BY <1>1, <1>3
<1>5. g \notin used
  BY <1>1
<1>6. Proves(ActionPurpose(a))
  BY <1>1, <1>4 DEF Proves
<1>7. QED
  BY <1>1, <1>4, <1>5, <1>6, ProofsAssumption

(* What require_factor does: one code or one token proves the action. *)
LEMMA Required ==
  ASSUME FactorInv, NEW w \in Worker, ~Idle(w), NEW a \in Actions, NEW q \in Proofs,
         Require(w, a, q)
  PROVE  /\ grants' \in [Grant -> Grants]
         /\ used' \in SUBSET (Codes \union Challenge \union Grant)
         /\ again' \in SUBSET (Codes \union Challenge \union Grant)
         /\ \A g \in Grant : g \in used' => grants'[g].state = "consumed"
         /\ \A c \in Challenge : c \in used' => c \in used
         /\ TokenUsedOnce'
         /\ After(w, a, q) \in Rows /\ After(w, a, q).totp = Row(w).totp
         /\ After(w, a, q).linked = Row(w).linked
         /\ After(w, a, q).version = Row(w).version
         /\ ~crossed /\ Row(w) = row =>
              /\ CodesCovered(After(w, a, q), used') /\ Unstarted(After(w, a, q))
              /\ again' \intersect Codes = {}
              /\ Proves(ActionPurpose(a))
<1> DEFINE p == ActionPurpose(a)
<1>1. p \in Purposes /\ Row(w) \in Rows /\ FactorTypeOK /\ UsedIsConsumed
  BY ActionPurposes, CopyTypes DEF FactorInv
<1>2. CASE q \in Grant
  <2>1. q \notin Steps
    BY <1>2, ProofsAssumption
  <2>2. /\ TokenFits(w, a, q) /\ grants' = [grants EXCEPT ![q] = Consumed(q)]
        /\ used' = used \union {q} /\ again' = again \union ({q} \intersect used)
    BY <1>2, <2>1 DEF Require, Proven, Use
  <2>3. After(w, a, q) = Row(w)
    BY <2>1 DEF After
  <2>4. used' = (used \ {}) \union {q} /\ {} \in SUBSET Codes
    BY <2>2
  <2>5. /\ grants' \in [Grant -> Grants]
        /\ used' \in SUBSET (Codes \union Challenge \union Grant)
        /\ again' = again
        /\ \A h \in Grant : h \in used' => grants'[h].state = "consumed"
        /\ \A c \in Challenge : c \in used' => c \in used
        /\ \A x \in Codes : x \in used' => x \in used
        /\ Proves(ActionPurpose(a))
    BY <1>2, <2>2, <2>4, TokenAccepted
  <2>6. TokenUsedOnce' /\ again' \in SUBSET (Codes \union Challenge \union Grant)
    BY <1>1, <2>5 DEF FactorInv, TokenUsedOnce, FactorTypeOK
  <2>7. ASSUME ~crossed PROVE CodesCovered(row, used') /\ Unstarted(row) /\ again' \intersect Codes = {}
    BY <2>5, <2>7 DEF FactorInv, CodesCovered, Codes
  <2>8. QED
    BY <1>1, <2>3, <2>5, <2>6, <2>7
<1>3. CASE q \in Steps
  <2>1. q \notin Grant
    BY <1>3, ProofsAssumption
  <2>2. /\ CodeFits(w, p, q) /\ grants' = grants /\ Use(<<Source(Row(w), p), q>>)
    BY <1>3, <2>1 DEF Require, Proven
  <2>3. After(w, a, q) = WithCode(Row(w), p, q)
    BY <1>3 DEF After
  <2>4. /\ used' \in SUBSET (Codes \union Challenge \union Grant)
        /\ again' \in SUBSET (Codes \union Challenge \union Grant)
        /\ \A x \in Grant \union Challenge : x \in used' => x \in used
        /\ TokenUsedOnce'
        /\ ~crossed /\ Row(w) = row =>
             /\ CodesCovered(WithCode(row, p, q), used') /\ Unstarted(WithCode(row, p, q))
             /\ again' \intersect Codes = {}
             /\ <<Source(row, p), q>> \in used' \ used
    BY <1>1, <1>3, <2>2, CodeAccepted
  <2>5. /\ After(w, a, q) \in Rows /\ After(w, a, q).totp = Row(w).totp
        /\ After(w, a, q).linked = Row(w).linked
        /\ After(w, a, q).version = Row(w).version
    <3> DEFINE r == Row(w)
    <3> HIDE DEF p, r
    <3>1. /\ WithCode(r, p, q) \in Rows /\ WithCode(r, p, q).totp = r.totp
          /\ WithCode(r, p, q).linked = r.linked
          /\ WithCode(r, p, q).version = r.version
      BY <1>1, <1>3, CodeOnRow DEF r
    <3>2. QED
      BY <2>3, <3>1 DEF r
  <2>6. ~crossed /\ Row(w) = row => Proves(p)
    BY <1>3, <2>4 DEF Proves
  <2>7. QED
    BY <1>1, <2>2, <2>3, <2>4, <2>5, <2>6 DEF FactorTypeOK, UsedIsConsumed
<1>4. QED
  BY <1>2, <1>3 DEF Proofs

(* What issue_step_up, create_challenge and consume_challenge leave of the *)
(* marks of the tokens and challenges used.                                *)
LEMMA GrantIssued ==
  ASSUME FactorInv, NEW w \in Worker, ~Idle(w), NEW a \in Actions, IssueGrant(w, a)
  PROVE  /\ grants' \in [Grant -> Grants]
         /\ \A g \in Grant : grants[g].state = "consumed" => grants'[g].state = "consumed"
<1>1. PICK g \in Grant :
        /\ grants[g].state = "free"
        /\ grants' = [grants EXCEPT ![g] =
             [state |-> "open", action |-> a, version |-> Row(w).version]]
  BY DEF IssueGrant
<1> DEFINE new == [state |-> "open", action |-> a, version |-> Row(w).version]
<1>2. Row(w).version \in 0..MaxVersion
  BY CopyTypes, RowFields
<1>3. new \in Grants
  BY <1>2 DEF Grants
<1> HIDE DEF new
<1>4. grants \in [Grant -> Grants]
  BY DEF FactorInv, FactorTypeOK
<1>5. QED
  BY <1>1, <1>3, <1>4 DEF new

(* The same for create_challenge ... *)
LEMMA ChallengeOpened ==
  ASSUME FactorInv, NEW kind \in Kinds, NEW a \in Actions, Open(kind, a)
  PROVE  /\ challenges' \in [Challenge -> Challenges]
         /\ \A c \in Challenge :
              challenges[c].state = "consumed" => challenges'[c].state = "consumed"
<1>1. PICK c \in Challenge :
        /\ challenges[c].state = "free"
        /\ challenges' = [challenges EXCEPT ![c] =
             [state |-> "open", kind |-> kind, action |-> a]]
  BY DEF Open
<1> DEFINE new == [state |-> "open", kind |-> kind, action |-> a]
<1>2. new \in Challenges
  BY DEF Challenges
<1> HIDE DEF new
<1>3. challenges \in [Challenge -> Challenges]
  BY DEF FactorInv, FactorTypeOK
<1>4. QED
  BY <1>1, <1>2, <1>3 DEF new

(* ... and for consume_challenge, which needs an open one. *)
LEMMA ChallengeAnswered ==
  ASSUME FactorInv, NEW c \in Challenge, NEW kind, Answer(c, kind)
  PROVE  /\ challenges' \in [Challenge -> Challenges]
         /\ c \notin used /\ challenges'[c].state = "consumed"
         /\ \A d \in Challenge :
              challenges[d].state = "consumed" => challenges'[d].state = "consumed"
<1>1. NoAction \in Actions
  BY DEF NoAction, Actions, Protected, Purposes
<1> DEFINE new == [NoChallenge EXCEPT !.state = "consumed"]
<1>2. new \in Challenges /\ new.state = "consumed"
  BY <1>1 DEF NoChallenge, Challenges, Kinds
<1> HIDE DEF new
<1>3. challenges \in [Challenge -> Challenges] /\ UsedIsConsumed
  BY DEF FactorInv, FactorTypeOK
<1>4. challenges' = [challenges EXCEPT ![c] = new] /\ challenges[c].state = "open"
  BY DEF Answer, new
<1>5. c \notin used
  BY <1>3, <1>4 DEF UsedIsConsumed
<1>6. QED
  BY <1>2, <1>3, <1>4, <1>5

-----------------------------------------------------------------------------
(* The invariant after a handler's commit, from what the commit did. *)
LEMMA HandleStep ==
  ASSUME FactorInv, NEW w \in Worker, ~Idle(w), Finish(w), row' \in Rows,
         keys' \in [Key -> Keys], challenges' \in [Challenge -> Challenges],
         grants' \in [Grant -> Grants],
         used' \in SUBSET (Codes \union Challenge \union Grant),
         again' \in SUBSET (Codes \union Challenge \union Grant),
         UsedIsConsumed', TokenUsedOnce',
         \A k \in Key : /\ keys[k].purpose # "none" => keys'[k].purpose # "none"
                        /\ keys'[k].active => keys'[k].purpose # "none",
         ~crossed' => /\ CodesCovered(row', used') /\ Unstarted(row')
                      /\ again' \intersect Codes = {},
         LoginPasskeyStays', LinkedHasNoOwnFactor'
  PROVE  FactorInv'
<1>1. /\ copy' = [copy EXCEPT ![w] = NoCopy] /\ copy \in [Worker -> Snapshots \union {NoCopy}]
      /\ crossed' \in BOOLEAN
  BY DEF Finish, FactorInv, FactorTypeOK
<1>2. copy' \in [Worker -> Snapshots \union {NoCopy}]
      /\ copy'[w] = NoCopy /\ \A v \in Worker \ {w} : copy'[v] = copy[v]
  BY <1>1
<1>3. FactorTypeOK'
  BY <1>1, <1>2 DEF FactorTypeOK
<1>4. KeysHavePurpose'
  <2>1. KeysHavePurpose
    BY DEF FactorInv
  <2>2. ASSUME NEW k \in Key, NEW v \in Worker, ~Idle(v)', copy'[v].keys[k].active
        PROVE  keys'[k].purpose # "none"
    <3>1. v # w /\ copy'[v] = copy[v] /\ ~Idle(v)
      BY <1>2, <2>2 DEF Idle
    <3>2. QED
      BY <2>1, <2>2, <3>1 DEF KeysHavePurpose
  <2>3. QED
    BY <2>2 DEF KeysHavePurpose
<1>5. ~crossed' => (CodesCovered(row, used) /\ Unstarted(row) /\ again \intersect Codes = {})'
  BY DEF CodesCovered, Unstarted
<1>6. QED
  BY <1>3, <1>4, <1>5 DEF FactorInv

(* ... and when the passkeys are left alone. *)
LEMMA RowStep ==
  ASSUME FactorInv, NEW w \in Worker, ~Idle(w), Finish(w), row' \in Rows,
         keys' = keys, challenges' \in [Challenge -> Challenges],
         grants' \in [Grant -> Grants],
         used' \in SUBSET (Codes \union Challenge \union Grant),
         again' \in SUBSET (Codes \union Challenge \union Grant),
         UsedIsConsumed', TokenUsedOnce',
         ~crossed' => /\ CodesCovered(row', used') /\ Unstarted(row')
                      /\ again' \intersect Codes = {}
                      /\ \A p \in row'.linked :
                           /\ row'.totp[p] # "on"
                           /\ \/ p \in row.linked
                              \/ \A k \in Key : keys[k].active => keys[k].purpose # p
  PROVE  FactorInv'
<1>1. keys \in [Key -> Keys] /\ KeysHavePurpose /\ LoginPasskeyStays /\ LinkedHasNoOwnFactor
  BY DEF FactorInv, FactorTypeOK
<1>2. ~crossed' => ~crossed
  BY Uncrossed
<1>3. LoginPasskeyStays'
  BY <1>1, <1>2 DEF LoginPasskeyStays
<1>4. LinkedHasNoOwnFactor'
  BY <1>1, <1>2 DEF LinkedHasNoOwnFactor
<1>5. \A k \in Key : /\ keys[k].purpose # "none" => keys'[k].purpose # "none"
                     /\ keys'[k].active => keys'[k].purpose # "none"
  BY <1>1 DEF KeysHavePurpose
<1>6. keys' \in [Key -> Keys]
  BY <1>1
<1>7. QED
  BY <1>3, <1>4, <1>5, <1>6, HandleStep

(* What holds of the row before the step, and of one with the same links   *)
(* and no authenticator more.                                              *)
LEMMA LinksKept ==
  ASSUME FactorInv, ~crossed, NEW r \in Rows, r.linked = row.linked,
         \A p \in row.linked : r.totp[p] = "on" => row.totp[p] = "on"
  PROVE  \A p \in r.linked : r.totp[p] # "on" /\ p \in row.linked
BY DEF FactorInv, LinkedHasNoOwnFactor

(* A flush of the copy that require_factor left. *)
LEMMA WrittenRow ==
  ASSUME FactorInv, NEW w \in Worker, ~Idle(w), NEW a, NEW q, NEW new \in Rows,
         After(w, a, q) \in Rows, Write(w, a, q, new)
  PROVE  row' \in Rows /\ (Row(w) = row => row' = new)
<1> DEFINE aft == After(w, a, q)
           mid == Merge(row, Row(w), aft)
<1>1. row \in Rows /\ Row(w) \in Rows /\ aft \in Rows
  BY CopyTypes DEF FactorInv, FactorTypeOK
<1>2. row' = Merge(mid, aft, new)
  BY DEF Write
<1> HIDE DEF aft
<1>3. mid \in Rows /\ (Row(w) = row => mid = aft)
  BY <1>1, MergedRow, MergedWithOwn
<1> HIDE DEF mid
<1>4. QED
  BY <1>1, <1>2, <1>3, MergedRow, MergedWithOwn

-----------------------------------------------------------------------------
(* Reading changes only the copy. *)
LEMMA ReadKeepsFactors ==
  ASSUME FactorInv, NEW w \in Worker, Read(w)
  PROVE  FactorInv' /\ RemovalProven
<1> DEFINE snapshot == [row |-> row, keys |-> keys]
<1>1. /\ copy' = [copy EXCEPT ![w] = snapshot]
      /\ UNCHANGED <<row, keys, challenges, grants, used, again, crossed>>
  BY DEF Read
<1>2. FactorTypeOK /\ snapshot \in Snapshots /\ snapshot.keys = keys
  BY DEF FactorInv, FactorTypeOK, Snapshots
<1> HIDE DEF snapshot
<1>3. /\ copy' \in [Worker -> Snapshots \union {NoCopy}]
      /\ copy'[w] = snapshot /\ \A v \in Worker \ {w} : copy'[v] = copy[v]
  BY <1>1, <1>2 DEF FactorTypeOK
<1>4. FactorTypeOK'
  BY <1>1, <1>2, <1>3 DEF FactorTypeOK
<1>5. KeysHavePurpose'
  BY <1>1, <1>2, <1>3 DEF FactorInv, KeysHavePurpose, Idle
<1>6. /\ UsedIsConsumed' /\ TokenUsedOnce'
      /\ ~crossed' => (CodesCovered(row, used) /\ Unstarted(row) /\ again \intersect Codes = {})'
  BY <1>1 DEF FactorInv, UsedIsConsumed, TokenUsedOnce, CodesCovered, Unstarted
<1>7. LoginPasskeyStays' /\ LinkedHasNoOwnFactor'
  BY <1>1 DEF FactorInv, LoginPasskeyStays, LinkedHasNoOwnFactor
<1>8. RemovalProven
  BY <1>1 DEF RemovalProven
<1>9. QED
  BY <1>4, <1>5, <1>6, <1>7, <1>8 DEF FactorInv

(* A code for the login, and a new version. *)
LEMMA SignInWithTotpKeeps ==
  ASSUME FactorInv, NEW w \in Worker, ~Idle(w), Finish(w), SignInWithTotp(w)
  PROVE  FactorInv' /\ RemovalProven
<1> DEFINE r == Row(w)
<1>1. PICK c \in Steps :
        /\ r.version < MaxVersion /\ CodeFits(w, "login", c)
        /\ row' = Merge(row, r, [WithCode(r, "login", c) EXCEPT !.version = @ + 1])
        /\ Use(<<"login", c>>) /\ UNCHANGED <<grants, keys, challenges>>
  BY DEF SignInWithTotp, NotProven
<1>2. row \in Rows /\ r \in Rows /\ "login" \in Purposes /\ Source(r, "login") = "login"
  BY CopyTypes, RowFields DEF FactorInv, FactorTypeOK, Purposes
<1>3. /\ used' \in SUBSET (Codes \union Challenge \union Grant)
      /\ again' \in SUBSET (Codes \union Challenge \union Grant)
      /\ \A x \in Grant \union Challenge : x \in used' => x \in used
      /\ TokenUsedOnce'
      /\ ~crossed /\ r = row =>
           /\ CodesCovered(WithCode(row, "login", c), used') /\ Unstarted(WithCode(row, "login", c))
           /\ again' \intersect Codes = {}
  BY <1>1, <1>2, CodeAccepted
<1>4. ~crossed' => ~crossed /\ r = row
  BY Uncrossed
<1> HIDE DEF r
<1> DEFINE mid == WithCode(r, "login", c)
           new == [mid EXCEPT !.version = @ + 1]
<1>5. /\ mid \in Rows /\ mid.totp = r.totp /\ mid.linked = r.linked
      /\ mid.version = r.version
  BY <1>2, CodeOnRow
<1>6. row' = Merge(row, r, new)
  BY <1>1
<1> HIDE DEF mid
<1>7. new = [totp |-> mid.totp, last |-> mid.last, linked |-> mid.linked,
             version |-> mid.version + 1]
  BY <1>5, RowFields
<1>8. mid.version + 1 \in 0..MaxVersion
  BY <1>1, <1>2, <1>5, RowFields, VersionAssumption
<1>9. /\ new \in Rows /\ new.totp = mid.totp /\ new.last = mid.last
      /\ new.linked = mid.linked
  BY <1>5, <1>7, <1>8, RowFields DEF Rows
<1> HIDE DEF new
<1>10. row' \in Rows /\ (r = row => row' = new)
  BY <1>2, <1>6, <1>9, MergedRow, MergedWithOwn
<1>11. UsedIsConsumed'
  BY <1>1, <1>3 DEF FactorInv, UsedIsConsumed
<1>12. ASSUME ~crossed'
       PROVE  /\ CodesCovered(row', used') /\ Unstarted(row') /\ again' \intersect Codes = {}
              /\ row'.totp = row.totp /\ row'.linked = row.linked
              /\ \A p \in row'.linked : row'.totp[p] # "on" /\ p \in row.linked
  <2>1. /\ row'.totp = row.totp /\ row'.linked = row.linked /\ row'.last = mid.last
        /\ mid.totp = row.totp
    BY <1>4, <1>5, <1>9, <1>10, <1>12
  <2>2. /\ CodesCovered(mid, used') /\ Unstarted(mid) /\ again' \intersect Codes = {}
    BY <1>3, <1>4, <1>12 DEF mid
  <2>3. QED
    BY <1>4, <1>10, <1>12, <2>1, <2>2, LinksKept DEF CodesCovered, Unstarted
<1>13. FactorInv'
  <2>1. challenges' \in [Challenge -> Challenges] /\ grants' \in [Grant -> Grants]
        /\ keys' = keys
    BY <1>1 DEF FactorInv, FactorTypeOK
  <2>2. QED
    BY <1>3, <1>10, <1>11, <1>12, <2>1, RowStep
<1>14. RemovalProven
  BY <1>1, <1>12 DEF RemovalProven
<1>15. QED
  BY <1>13, <1>14

(* A challenge for the login, and a new version. *)
LEMMA SignInWithPasskeyKeeps ==
  ASSUME FactorInv, NEW w \in Worker, ~Idle(w), Finish(w), NEW c \in Challenge,
         SignInWithPasskey(w, c)
  PROVE  FactorInv' /\ RemovalProven
<1> DEFINE r == Row(w)
           new == [r EXCEPT !.version = @ + 1]
<1>1. /\ r.version < MaxVersion /\ Answer(c, "WEBAUTHN_AUTH")
      /\ row' = Merge(row, r, new) /\ Use(c) /\ UNCHANGED <<grants, keys>>
  BY DEF SignInWithPasskey, NotProven
<1>2. row \in Rows /\ r \in Rows
  BY CopyTypes DEF FactorInv, FactorTypeOK
<1>3. /\ challenges' \in [Challenge -> Challenges]
      /\ c \notin used /\ challenges'[c].state = "consumed"
      /\ \A d \in Challenge :
           challenges[d].state = "consumed" => challenges'[d].state = "consumed"
  BY <1>1, ChallengeAnswered
<1>4. ~crossed' => ~crossed /\ r = row
  BY Uncrossed
<1>5. used' = used \union {c} /\ again' = again
  BY <1>1, <1>3 DEF Use
<1> HIDE DEF r
<1>6. new = [totp |-> r.totp, last |-> r.last, linked |-> r.linked,
             version |-> r.version + 1]
  BY <1>2, RowFields
<1>7. r.version + 1 \in 0..MaxVersion
  BY <1>1, <1>2, RowFields, VersionAssumption
<1>8. /\ new \in Rows /\ new.totp = r.totp /\ new.last = r.last
      /\ new.linked = r.linked
  BY <1>2, <1>6, <1>7, RowFields DEF Rows
<1> HIDE DEF new
<1>9. row' \in Rows /\ (r = row => row' = new)
  BY <1>1, <1>2, <1>8, MergedRow, MergedWithOwn
<1>10. UsedIsConsumed' /\ TokenUsedOnce'
  BY <1>1, <1>3, <1>5, ProofsAssumption DEF FactorInv, UsedIsConsumed, TokenUsedOnce
<1>11. ASSUME ~crossed'
       PROVE  /\ CodesCovered(row', used') /\ Unstarted(row') /\ again' \intersect Codes = {}
              /\ row'.totp = row.totp /\ row'.linked = row.linked
              /\ \A p \in row'.linked : row'.totp[p] # "on" /\ p \in row.linked
  <2>1. /\ row'.totp = row.totp /\ row'.linked = row.linked /\ row'.last = row.last
    BY <1>4, <1>8, <1>9, <1>11
  <2>2. CodesCovered(row, used) /\ Unstarted(row) /\ again \intersect Codes = {}
    BY <1>4, <1>11 DEF FactorInv
  <2>3. \A x \in Codes : x \in used' => x \in used
    BY <1>5, ProofsAssumption
  <2>4. CodesCovered(row', used') /\ Unstarted(row') /\ again' \intersect Codes = {}
    BY <1>5, <2>1, <2>2, <2>3 DEF CodesCovered, Unstarted, Codes
  <2>5. \A p \in row'.linked : row'.totp[p] # "on" /\ p \in row.linked
    BY <1>4, <1>9, <1>11, <2>1, LinksKept
  <2>6. QED
    BY <2>1, <2>4, <2>5
<1>12. /\ used' \in SUBSET (Codes \union Challenge \union Grant)
       /\ again' \in SUBSET (Codes \union Challenge \union Grant)
       /\ grants' \in [Grant -> Grants] /\ keys' = keys
  BY <1>1, <1>5 DEF FactorInv, FactorTypeOK
<1>13. FactorInv'
  BY <1>3, <1>9, <1>10, <1>11, <1>12, RowStep
<1>14. RemovalProven
  BY <1>1, <1>11 DEF RemovalProven
<1>15. QED
  BY <1>13, <1>14

(* A code for any purpose, and a token. *)
LEMMA StepUpTotpKeeps ==
  ASSUME FactorInv, NEW w \in Worker, ~Idle(w), Finish(w), NEW a \in Actions,
         StepUpTotp(w, a)
  PROVE  FactorInv' /\ RemovalProven
<1> DEFINE r == Row(w)
           p == ActionPurpose(a)
<1>1. PICK c \in Steps :
        /\ CodeFits(w, p, c) /\ row' = Merge(row, r, WithCode(r, p, c))
        /\ Use(<<Source(r, p), c>>) /\ IssueGrant(w, a) /\ UNCHANGED <<keys, challenges>>
  BY DEF StepUpTotp
<1>2. row \in Rows /\ r \in Rows /\ p \in Purposes
  BY CopyTypes, ActionPurposes DEF FactorInv, FactorTypeOK
<1>3. /\ used' \in SUBSET (Codes \union Challenge \union Grant)
      /\ again' \in SUBSET (Codes \union Challenge \union Grant)
      /\ \A x \in Grant \union Challenge : x \in used' => x \in used
      /\ TokenUsedOnce'
      /\ ~crossed /\ r = row =>
           /\ CodesCovered(WithCode(row, p, c), used') /\ Unstarted(WithCode(row, p, c))
           /\ again' \intersect Codes = {}
  BY <1>1, <1>2, CodeAccepted
<1>4. ~crossed' => ~crossed /\ r = row
  BY Uncrossed
<1>5. /\ grants' \in [Grant -> Grants]
      /\ \A g \in Grant : grants[g].state = "consumed" => grants'[g].state = "consumed"
  BY <1>1, GrantIssued
<1> HIDE DEF r, p
<1> DEFINE new == WithCode(r, p, c)
<1>6. new \in Rows /\ new.totp = r.totp /\ new.linked = r.linked
  BY <1>2, CodeOnRow
<1>7. row' = Merge(row, r, new)
  BY <1>1
<1> HIDE DEF new
<1>8. row' \in Rows /\ (r = row => row' = new)
  BY <1>2, <1>6, <1>7, MergedRow, MergedWithOwn
<1>9. UsedIsConsumed'
  BY <1>1, <1>3, <1>5 DEF FactorInv, UsedIsConsumed
<1>10. ASSUME ~crossed'
       PROVE  /\ CodesCovered(row', used') /\ Unstarted(row') /\ again' \intersect Codes = {}
              /\ row'.totp = row.totp /\ row'.linked = row.linked
              /\ \A x \in row'.linked : row'.totp[x] # "on" /\ x \in row.linked
  <2>1. row' = new /\ new.totp = row.totp /\ new.linked = row.linked
    BY <1>4, <1>6, <1>8, <1>10
  <2>2. CodesCovered(new, used') /\ Unstarted(new) /\ again' \intersect Codes = {}
    BY <1>3, <1>4, <1>10 DEF new
  <2>3. \A x \in new.linked : new.totp[x] # "on" /\ x \in row.linked
    BY <1>4, <1>6, <1>10, <2>1, LinksKept
  <2>4. QED
    BY <2>1, <2>2, <2>3
<1>11. FactorInv'
  <2>1. challenges' \in [Challenge -> Challenges] /\ keys' = keys
    BY <1>1 DEF FactorInv, FactorTypeOK
  <2>2. QED
    BY <1>3, <1>5, <1>8, <1>9, <1>10, <2>1, RowStep
<1>12. RemovalProven
  BY <1>1, <1>10 DEF RemovalProven
<1>13. QED
  BY <1>11, <1>12

(* Steps that leave the users row and the passkeys alone. *)
LEMMA TokenStep ==
  ASSUME FactorInv, NEW w \in Worker, ~Idle(w), Finish(w), UNCHANGED <<row, keys>>,
         challenges' \in [Challenge -> Challenges], grants' \in [Grant -> Grants],
         \A g \in Grant : grants[g].state = "consumed" => grants'[g].state = "consumed",
         \A c \in Challenge :
           challenges[c].state = "consumed" => challenges'[c].state = "consumed",
         NEW answered \in SUBSET Challenge,
         \A c \in answered : c \notin used /\ challenges'[c].state = "consumed",
         used' = used \union answered, again' = again
  PROVE  FactorInv' /\ RemovalProven
<1>1. FactorTypeOK /\ UsedIsConsumed /\ TokenUsedOnce
  BY DEF FactorInv
<1>2. /\ used' \in SUBSET (Codes \union Challenge \union Grant)
      /\ again' \in SUBSET (Codes \union Challenge \union Grant)
      /\ row' \in Rows
  BY <1>1 DEF FactorTypeOK
<1>3. UsedIsConsumed' /\ TokenUsedOnce'
  BY <1>1, ProofsAssumption DEF UsedIsConsumed, TokenUsedOnce
<1>4. ASSUME ~crossed
      PROVE  /\ CodesCovered(row', used') /\ Unstarted(row') /\ again' \intersect Codes = {}
             /\ \A p \in row'.linked : row'.totp[p] # "on" /\ p \in row.linked
  <2>1. \A x \in Codes : x \in used' => x \in used
    BY ProofsAssumption
  <2>2. CodesCovered(row, used) /\ Unstarted(row) /\ again \intersect Codes = {}
        /\ LinkedHasNoOwnFactor
    BY <1>4 DEF FactorInv
  <2>3. QED
    BY <1>4, <2>1, <2>2 DEF CodesCovered, Unstarted, Codes, LinkedHasNoOwnFactor
<1>5. ~crossed' => ~crossed
  BY Uncrossed
<1>6. FactorInv'
  BY <1>2, <1>3, <1>4, <1>5, RowStep
<1>7. RemovalProven
  BY DEF RemovalProven
<1>8. QED
  BY <1>6, <1>7

(* Challenges are opened. *)
LEMMA ChallengeStepsKeep ==
  ASSUME FactorInv, NEW w \in Worker, ~Idle(w), Finish(w), NEW a \in Actions,
         PasskeyOptions(w, a) \/ GetNonce(w)
  PROVE  FactorInv' /\ RemovalProven
<1>1. NoAction \in Actions /\ {"WEBAUTHN_AUTH", "SIWE"} \subseteq Kinds
  BY DEF NoAction, Actions, Protected, Purposes, Kinds
<1>2. /\ Open("WEBAUTHN_AUTH", a) \/ Open("SIWE", NoAction)
      /\ UNCHANGED <<row, keys, grants, used, again>>
  BY DEF PasskeyOptions, GetNonce, NotProven, NothingUsed
<1>3. /\ challenges' \in [Challenge -> Challenges]
      /\ \A c \in Challenge :
           challenges[c].state = "consumed" => challenges'[c].state = "consumed"
  BY <1>1, <1>2, ChallengeOpened
<1>4. grants' \in [Grant -> Grants] /\ {} \in SUBSET Challenge /\ used' = used \union {}
  BY <1>2 DEF FactorInv, FactorTypeOK
<1>5. QED
  BY <1>2, <1>3, <1>4, TokenStep

(* Challenges are answered, rightly or wrongly. *)
LEMMA AnswersKeep ==
  ASSUME FactorInv, NEW w \in Worker, ~Idle(w), Finish(w), NEW c \in Challenge,
         PasskeyVerify(w, c) \/ AnswerNonce(w, c) \/ AnswerWrongly(w, c)
  PROVE  FactorInv' /\ RemovalProven
<1>1. PICK kind : Answer(c, kind)
  BY DEF PasskeyVerify, AnswerNonce, AnswerWrongly
<1>2. /\ challenges' \in [Challenge -> Challenges]
      /\ c \notin used /\ challenges'[c].state = "consumed"
      /\ \A d \in Challenge :
           challenges[d].state = "consumed" => challenges'[d].state = "consumed"
  BY <1>1, ChallengeAnswered
<1>3. UNCHANGED <<row, keys>>
  BY DEF PasskeyVerify, AnswerNonce, AnswerWrongly
<1>4. grants \in [Grant -> Grants] /\ challenges[c].action \in Actions
  BY DEF FactorInv, FactorTypeOK, Challenges
<1>5. /\ grants' \in [Grant -> Grants]
      /\ \A g \in Grant : grants[g].state = "consumed" => grants'[g].state = "consumed"
  <2>1. CASE UNCHANGED grants
    BY <1>4, <2>1
  <2>2. CASE IssueGrant(w, challenges[c].action)
    BY <1>4, <2>2, GrantIssued
  <2>3. QED
    BY <2>1, <2>2 DEF PasskeyVerify, AnswerNonce, AnswerWrongly, NotProven
<1>6. PICK answered \in {{}, {c}} : used' = used \union answered /\ again' = again
  BY <1>2 DEF PasskeyVerify, AnswerNonce, AnswerWrongly, NothingUsed, Use
<1>7. answered \in SUBSET Challenge
  BY <1>6
<1>8. \A d \in answered : d \notin used /\ challenges'[d].state = "consumed"
  BY <1>2, <1>6
<1>9. QED
  BY <1>2, <1>3, <1>5, <1>6, <1>7, <1>8, TokenStep

-----------------------------------------------------------------------------
(* A handler that proves an action and writes new over what it read. *)
LEMMA ProvenStep ==
  ASSUME FactorInv, NEW w \in Worker, ~Idle(w), Finish(w), NEW a \in Actions,
         NEW q \in Proofs, Require(w, a, q), NEW new \in Rows, Write(w, a, q, new),
         keys' = keys, challenges' \in [Challenge -> Challenges],
         \A c \in Challenge :
           challenges[c].state = "consumed" => challenges'[c].state = "consumed",
         ~crossed /\ Row(w) = row /\ copy[w].keys = keys
           /\ CodesCovered(After(w, a, q), used') /\ Unstarted(After(w, a, q)) =>
             /\ CodesCovered(new, used') /\ Unstarted(new)
             /\ \A p \in new.linked :
                  /\ new.totp[p] # "on"
                  /\ \/ p \in row.linked
                     \/ \A k \in Key : keys[k].active => keys[k].purpose # p
  PROVE  /\ FactorInv'
         /\ ~crossed' => row' = new /\ Proves(ActionPurpose(a))
<1>1. /\ grants' \in [Grant -> Grants]
      /\ used' \in SUBSET (Codes \union Challenge \union Grant)
      /\ again' \in SUBSET (Codes \union Challenge \union Grant)
      /\ \A g \in Grant : g \in used' => grants'[g].state = "consumed"
      /\ \A c \in Challenge : c \in used' => c \in used
      /\ TokenUsedOnce'
      /\ After(w, a, q) \in Rows
      /\ ~crossed /\ Row(w) = row =>
           /\ CodesCovered(After(w, a, q), used') /\ Unstarted(After(w, a, q))
           /\ again' \intersect Codes = {}
           /\ Proves(ActionPurpose(a))
  BY Required
<1>2. row' \in Rows /\ (Row(w) = row => row' = new)
  BY <1>1, WrittenRow
<1>3. ~crossed' => ~crossed /\ Row(w) = row /\ copy[w].keys = keys
  BY Uncrossed
<1>4. UsedIsConsumed'
  BY <1>1 DEF FactorInv, UsedIsConsumed
<1>5. ASSUME ~crossed'
      PROVE  /\ CodesCovered(row', used') /\ Unstarted(row') /\ again' \intersect Codes = {}
             /\ \A p \in row'.linked :
                  /\ row'.totp[p] # "on"
                  /\ \/ p \in row.linked
                     \/ \A k \in Key : keys[k].active => keys[k].purpose # p
             /\ row' = new /\ Proves(ActionPurpose(a))
  <2>1. ~crossed /\ Row(w) = row /\ copy[w].keys = keys /\ row' = new
    BY <1>2, <1>3, <1>5
  <2>2. /\ CodesCovered(new, used') /\ Unstarted(new)
        /\ \A p \in new.linked :
             /\ new.totp[p] # "on"
             /\ \/ p \in row.linked
                \/ \A k \in Key : keys[k].active => keys[k].purpose # p
    BY <1>1, <2>1
  <2>3. again' \intersect Codes = {} /\ Proves(ActionPurpose(a))
    BY <1>1, <2>1
  <2>4. QED
    BY <2>1, <2>2, <2>3
<1>6. FactorInv'
  BY <1>1, <1>2, <1>4, <1>5, RowStep
<1>7. QED
  BY <1>5, <1>6

(* What require_factor leaves of the copy has the copy's links and         *)
(* authenticators.                                                         *)
LEMMA AfterRow ==
  ASSUME FactorInv, NEW w \in Worker, ~Idle(w), NEW a \in Actions, NEW q \in Proofs
  PROVE  /\ After(w, a, q) \in Rows /\ After(w, a, q).totp = Row(w).totp
         /\ After(w, a, q).linked = Row(w).linked
         /\ After(w, a, q).version = Row(w).version
<1> DEFINE r == Row(w)
           p == ActionPurpose(a)
<1>1. r \in Rows /\ p \in Purposes
  BY CopyTypes, ActionPurposes
<1>2. After(w, a, q) = IF q \in Steps THEN WithCode(r, p, q) ELSE r
  BY DEF After
<1> HIDE DEF r, p
<1>3. CASE q \in Steps
  <2>1. /\ WithCode(r, p, q) \in Rows /\ WithCode(r, p, q).totp = r.totp
        /\ WithCode(r, p, q).linked = r.linked /\ WithCode(r, p, q).version = r.version
    BY <1>1, <1>3, CodeOnRow
  <2>2. QED
    BY <1>2, <1>3, <2>1 DEF r
<1>4. CASE q \notin Steps
  BY <1>1, <1>2, <1>4 DEF r
<1>5. QED
  BY <1>3, <1>4

(* use_factor and the protected registration write nothing of their own. *)
LEMMA PlainStep ==
  ASSUME FactorInv, NEW w \in Worker, ~Idle(w), Finish(w), NEW a \in Actions,
         NEW q \in Proofs, Require(w, a, q), Write(w, a, q, After(w, a, q)),
         keys' = keys, challenges' \in [Challenge -> Challenges],
         \A c \in Challenge :
           challenges[c].state = "consumed" => challenges'[c].state = "consumed"
  PROVE  FactorInv' /\ RemovalProven
<1> DEFINE new == After(w, a, q)
<1>1. new \in Rows /\ new.totp = Row(w).totp /\ new.linked = Row(w).linked
  BY AfterRow
<1>2. Write(w, a, q, new)
  OBVIOUS
<1>3. ASSUME ~crossed, Row(w) = row
      PROVE  \A p \in new.linked : new.totp[p] # "on" /\ p \in row.linked
  BY <1>1, <1>3, LinksKept
<1> HIDE DEF new
<1>4. /\ FactorInv'
      /\ ~crossed' => row' = new /\ Proves(ActionPurpose(a))
  BY <1>1, <1>2, <1>3, ProvenStep DEF new
<1>5. RemovalProven
  BY <1>1, <1>4, Uncrossed DEF RemovalProven
<1>6. QED
  BY <1>4, <1>5

(* require_factor, for an action of a higher purpose. *)
LEMMA UseFactorKeeps ==
  ASSUME FactorInv, NEW w \in Worker, ~Idle(w), Finish(w), NEW p \in Factor,
         UseFactor(w, p)
  PROVE  FactorInv' /\ RemovalProven
<1>1. PICK q \in Proofs :
        /\ Require(w, <<"use", p>>, q) /\ Write(w, <<"use", p>>, q, After(w, <<"use", p>>, q))
        /\ UNCHANGED <<keys, challenges>>
  BY DEF UseFactor
<1>2. challenges' \in [Challenge -> Challenges] /\ <<"use", p>> \in Actions
  BY <1>1, ActionPurposes DEF FactorInv, FactorTypeOK
<1>3. QED
  BY <1>1, <1>2, PlainStep

(* A registration begins, proven or for an unprotected purpose. *)
LEMMA RegisterOptionsKeeps ==
  ASSUME FactorInv, NEW w \in Worker, ~Idle(w), Finish(w), NEW p \in Purposes,
         RegisterOptions(w, p)
  PROVE  FactorInv' /\ RemovalProven
<1> DEFINE a == <<"manage", p>>
<1>1. /\ Open("WEBAUTHN_REG", a) /\ keys' = keys
      /\ \/ \E q \in Proofs : Require(w, a, q) /\ Write(w, a, q, After(w, a, q))
         \/ UNCHANGED <<row, grants, used, again>>
  BY DEF RegisterOptions, NotProven, NothingUsed
<1>2. a \in Actions /\ "WEBAUTHN_REG" \in Kinds
  BY ActionPurposes DEF Kinds
<1>3. /\ challenges' \in [Challenge -> Challenges]
      /\ \A c \in Challenge :
           challenges[c].state = "consumed" => challenges'[c].state = "consumed"
  BY <1>1, <1>2, ChallengeOpened
<1> HIDE DEF a
<1>4. CASE \E q \in Proofs : Require(w, a, q) /\ Write(w, a, q, After(w, a, q))
  BY <1>1, <1>2, <1>3, <1>4, PlainStep
<1>5. CASE UNCHANGED <<row, grants, used, again>>
  <2>1. grants' \in [Grant -> Grants] /\ {} \in SUBSET Challenge /\ used' = used \union {}
    BY <1>5 DEF FactorInv, FactorTypeOK
  <2>2. QED
    BY <1>1, <1>3, <1>5, <2>1, TokenStep
<1>6. QED
  BY <1>1, <1>4, <1>5

(* The authenticator goes, and the codes of its secret with it. *)
LEMMA ResetTotpKeeps ==
  ASSUME FactorInv, NEW w \in Worker, ~Idle(w), Finish(w), NEW p \in Factor,
         ResetTotp(w, p)
  PROVE  FactorInv' /\ RemovalProven
<1> DEFINE a == <<"manage", p>>
<1>1. PICK q \in Proofs :
        /\ Require(w, a, q) /\ Write(w, a, q, NewTotp(After(w, a, q), p, "none"))
        /\ UNCHANGED <<keys, challenges>>
  BY DEF ResetTotp
<1>2. /\ a \in Actions /\ ActionPurpose(a) = p /\ p \in Purposes
      /\ challenges' \in [Challenge -> Challenges]
  BY <1>1, ActionPurposes DEF FactorInv, FactorTypeOK, Purposes
<1> HIDE DEF a
<1> DEFINE aft == After(w, a, q)
           new == NewTotp(aft, p, "none")
<1>3. aft \in Rows /\ aft.totp = Row(w).totp /\ aft.linked = Row(w).linked
  BY <1>2, AfterRow
<1> HIDE DEF aft
<1>4. /\ new \in Rows /\ new.totp = [aft.totp EXCEPT ![p] = "none"]
      /\ new.last = [aft.last EXCEPT ![p] = 0] /\ new.linked = aft.linked
  BY <1>2, <1>3, TotpOnRow
<1> HIDE DEF new
<1>5. /\ new.totp[p] = "none" /\ new.last[p] = 0
      /\ \A x \in Purposes \ {p} : new.totp[x] = aft.totp[x] /\ new.last[x] = aft.last[x]
  BY <1>2, <1>3, <1>4, RowFields
<1>6. ASSUME ~crossed, Row(w) = row, CodesCovered(aft, used'), Unstarted(aft)
      PROVE  /\ CodesCovered(new, used') /\ Unstarted(new)
             /\ \A x \in new.linked : new.totp[x] # "on" /\ x \in row.linked
  <2>1. CodesCovered(new, used') /\ Unstarted(new)
    BY <1>5, <1>6 DEF CodesCovered, Unstarted
  <2>2. \A x \in row.linked : new.totp[x] = "on" => row.totp[x] = "on"
    <3>1. row.linked \subseteq Purposes
      BY RowFields DEF FactorInv, FactorTypeOK, Purposes
    <3>2. QED
      BY <1>3, <1>5, <1>6, <3>1
  <2>3. new.linked = row.linked
    BY <1>3, <1>4, <1>6
  <2>4. QED
    BY <1>4, <1>6, <2>1, <2>2, <2>3, LinksKept
<1>7. Write(w, a, q, new)
  BY <1>1 DEF new, aft
<1>8. /\ FactorInv'
      /\ ~crossed' => row' = new /\ Proves(p)
  BY <1>1, <1>2, <1>4, <1>6, <1>7, ProvenStep DEF aft
<1>9. RemovalProven
  <2> SUFFICES ASSUME ~crossed'
               PROVE  /\ \A x \in Factor : row.totp[x] = "on" /\ row'.totp[x] # "on" => Proves(x)
                      /\ row'.linked = row.linked
    BY <1>1 DEF RemovalProven
  <2>1. Row(w) = row /\ row' = new /\ Proves(p)
    BY <1>8, Uncrossed
  <2>2. \A x \in Factor : x # p => row'.totp[x] = row.totp[x]
    BY <1>3, <1>5, <2>1 DEF Purposes
  <2>3. QED
    BY <1>3, <1>4, <2>1, <2>2
<1>10. QED
  BY <1>8, <1>9

(* use_login_factors and use_separate_factors *)
LEMMA LinkStepsKeep ==
  ASSUME FactorInv, NEW w \in Worker, ~Idle(w), Finish(w), NEW p \in Factor,
         UseLogin(w, p) \/ UseSeparate(w, p)
  PROVE  FactorInv' /\ RemovalProven
<1> DEFINE a == <<"link", p>>
           r == Row(w)
<1>1. PICK q \in Proofs, joined \in BOOLEAN :
        /\ Require(w, a, q)
        /\ \/ /\ joined /\ Linkable(w, p)
              /\ Write(w, a, q, [After(w, a, q) EXCEPT !.linked = @ \union {p}])
           \/ /\ ~joined
              /\ Write(w, a, q, [After(w, a, q) EXCEPT !.linked = @ \ {p}])
        /\ UNCHANGED <<keys, challenges>>
  BY DEF UseLogin, UseSeparate
<1>2. /\ a \in Actions /\ ActionPurpose(a) = "login"
      /\ challenges' \in [Challenge -> Challenges]
  BY <1>1, ActionPurposes DEF FactorInv, FactorTypeOK
<1> HIDE DEF a
<1> DEFINE aft == After(w, a, q)
           links == IF joined THEN aft.linked \union {p} ELSE aft.linked \ {p}
           new == [aft EXCEPT !.linked = links]
<1>3. aft \in Rows /\ aft.totp = r.totp /\ aft.linked = r.linked
  BY <1>2, AfterRow
<1>4. Write(w, a, q, new)
  <2>1. CASE joined
    BY <1>1, <2>1
  <2>2. CASE ~joined
    BY <1>1, <2>2
  <2>3. QED
    BY <2>1, <2>2
<1> HIDE DEF aft
<1>5. links \in SUBSET Factor
  BY <1>3, RowFields
<1> HIDE DEF links
<1>6. new = [totp |-> aft.totp, last |-> aft.last, linked |-> links,
             version |-> aft.version]
  BY <1>3, RowFields
<1>7. /\ new \in Rows /\ new.totp = aft.totp /\ new.last = aft.last /\ new.linked = links
  BY <1>3, <1>5, <1>6, RowFields DEF Rows
<1> HIDE DEF new
<1>8. ASSUME ~crossed, Row(w) = row, copy[w].keys = keys,
             CodesCovered(aft, used'), Unstarted(aft)
      PROVE  /\ CodesCovered(new, used') /\ Unstarted(new)
             /\ \A x \in new.linked :
                  /\ new.totp[x] # "on"
                  /\ \/ x \in row.linked
                     \/ \A k \in Key : keys[k].active => keys[k].purpose # x
  <2>1. CodesCovered(new, used') /\ Unstarted(new)
    BY <1>7, <1>8 DEF CodesCovered, Unstarted
  <2>2. \A x \in row.linked : row.totp[x] # "on"
    BY <1>8 DEF FactorInv, LinkedHasNoOwnFactor
  <2>3. joined => /\ row.totp[p] # "on"
                  /\ \A k \in Key : keys[k].active => keys[k].purpose # p
    BY <1>1, <1>8 DEF Linkable, Enabled, Scoped, Source
  <2>4. \A x \in new.linked : x \in row.linked \/ (joined /\ x = p)
    BY <1>3, <1>7, <1>8 DEF links
  <2>5. new.totp = row.totp
    BY <1>3, <1>7, <1>8
  <2>6. QED
    BY <2>1, <2>2, <2>3, <2>4, <2>5
<1>9. /\ FactorInv'
      /\ ~crossed' => row' = new /\ Proves("login")
  BY <1>1, <1>2, <1>4, <1>7, <1>8, ProvenStep DEF aft
<1>10. RemovalProven
  BY <1>1, <1>3, <1>7, <1>9, Uncrossed DEF RemovalProven
<1>11. QED
  BY <1>9, <1>10

-----------------------------------------------------------------------------
(* setup_totp_factor: a new secret, whose codes are all unused. *)
LEMMA SetUpTotpKeeps ==
  ASSUME FactorInv, NEW w \in Worker, ~Idle(w), Finish(w), NEW p \in Factor,
         SetUpTotp(w, p)
  PROVE  FactorInv' /\ RemovalProven
<1> DEFINE r == Row(w)
           old == {p} \X Steps
           new == NewTotp(r, p, "pending")
<1>1. /\ p \notin r.linked /\ ~Enabled(r, p) /\ row' = Merge(row, r, new)
      /\ UNCHANGED <<keys, challenges>>
      /\ \/ \E g \in Grant :
              /\ TokenFits(w, <<"manage", p>>, g)
              /\ grants' = [grants EXCEPT ![g] = Consumed(g)]
              /\ used' = (used \ old) \union {g}
              /\ again' = again \union ({g} \intersect used)
         \/ used' = used \ old /\ UNCHANGED <<again, grants>>
  BY DEF SetUpTotp, NotProven
<1>2. /\ row \in Rows /\ r \in Rows /\ p \in Purposes
      /\ FactorTypeOK /\ UsedIsConsumed /\ TokenUsedOnce
      /\ challenges' \in [Challenge -> Challenges] /\ keys' = keys
  BY <1>1, CopyTypes DEF FactorInv, FactorTypeOK, Purposes
<1>3. old \in SUBSET Codes
  BY <1>2 DEF Codes
<1>4. /\ grants' \in [Grant -> Grants]
      /\ used' \in SUBSET (Codes \union Challenge \union Grant)
      /\ again' = again
      /\ \A g \in Grant : g \in used' => grants'[g].state = "consumed"
      /\ \A c \in Challenge : c \in used' => c \in used
      /\ \A x \in Codes : x \in used' => x \in used \ old
  <2> HIDE DEF old
  <2>1. CASE \E g \in Grant :
               /\ TokenFits(w, <<"manage", p>>, g)
               /\ grants' = [grants EXCEPT ![g] = Consumed(g)]
               /\ used' = (used \ old) \union {g}
               /\ again' = again \union ({g} \intersect used)
    BY <1>3, <2>1, TokenAccepted
  <2>2. CASE used' = used \ old /\ UNCHANGED <<again, grants>>
    BY <1>2, <2>2 DEF FactorTypeOK, UsedIsConsumed
  <2>3. QED
    BY <1>1, <2>1, <2>2
<1>5. UsedIsConsumed' /\ TokenUsedOnce'
      /\ again' \in SUBSET (Codes \union Challenge \union Grant)
  BY <1>1, <1>2, <1>4 DEF UsedIsConsumed, TokenUsedOnce, FactorTypeOK
<1> HIDE DEF r
<1>6. /\ new \in Rows /\ new.totp = [r.totp EXCEPT ![p] = "pending"]
      /\ new.last = [r.last EXCEPT ![p] = 0] /\ new.linked = r.linked
  BY <1>2, TotpOnRow
<1> HIDE DEF new
<1>7. /\ new.totp[p] = "pending" /\ new.last[p] = 0
      /\ \A x \in Purposes \ {p} : new.totp[x] = r.totp[x] /\ new.last[x] = r.last[x]
  BY <1>2, <1>6, RowFields
<1>8. row' \in Rows /\ (r = row => row' = new)
  BY <1>1, <1>2, <1>6, MergedRow, MergedWithOwn
<1>9. ASSUME ~crossed'
      PROVE  /\ row' = new /\ r = row /\ CodesCovered(new, used') /\ Unstarted(new)
             /\ again' \intersect Codes = {}
             /\ \A x \in new.linked : new.totp[x] # "on" /\ x \in row.linked
             /\ row.totp[p] # "on"
  <2>1. ~crossed /\ r = row /\ row' = new
    BY <1>8, <1>9, Uncrossed DEF r
  <2>2. /\ CodesCovered(row, used) /\ Unstarted(row) /\ again \intersect Codes = {}
    BY <2>1 DEF FactorInv
  <2>3. CodesCovered(new, used')
    <3> SUFFICES ASSUME NEW x \in Purposes, NEW d \in Steps, <<x, d>> \in used',
                        new.totp[x] # "none"
                 PROVE  d <= new.last[x]
      BY DEF CodesCovered
    <3>1. <<x, d>> \in used /\ <<x, d>> \notin old
      BY <1>4 DEF Codes
    <3>2. x # p
      BY <3>1
    <3>3. QED
      BY <1>7, <2>1, <2>2, <3>1, <3>2 DEF CodesCovered
  <2>4. Unstarted(new)
    BY <1>7, <2>1, <2>2 DEF Unstarted
  <2>5. \A x \in row.linked : new.totp[x] = "on" => row.totp[x] = "on"
    <3>1. row.linked \subseteq Purposes
      BY <1>2, RowFields DEF Purposes
    <3>2. QED
      BY <1>7, <2>1, <3>1
  <2>6. \A x \in new.linked : new.totp[x] # "on" /\ x \in row.linked
    BY <1>6, <2>1, <2>5, LinksKept
  <2>7. row.totp[p] # "on"
    BY <1>1, <2>1 DEF Enabled, Source
  <2>8. QED
    BY <1>4, <2>1, <2>2, <2>3, <2>4, <2>6, <2>7
<1>10. FactorInv'
  <2>1. ~crossed' => /\ CodesCovered(row', used') /\ Unstarted(row')
                     /\ again' \intersect Codes = {}
                     /\ \A x \in row'.linked : row'.totp[x] # "on" /\ x \in row.linked
    BY <1>9
  <2>2. QED
    BY <1>2, <1>4, <1>5, <1>8, <2>1, RowStep
<1>11. RemovalProven
  <2> SUFFICES ASSUME ~crossed'
               PROVE  /\ \A x \in Factor : row.totp[x] = "on" => row'.totp[x] = "on"
                      /\ row'.linked = row.linked
    BY <1>2 DEF RemovalProven
  <2>1. row' = new /\ r = row /\ row.totp[p] # "on"
    BY <1>9
  <2>2. QED
    BY <1>6, <1>7, <2>1 DEF Purposes
<1>12. QED
  BY <1>10, <1>11

(* The first code of the new secret. *)
LEMMA EnrolTotpKeeps ==
  ASSUME FactorInv, NEW w \in Worker, ~Idle(w), Finish(w), NEW p \in Factor,
         EnrolTotp(w, p)
  PROVE  FactorInv' /\ RemovalProven
<1> DEFINE r == Row(w)
<1>1. PICK c \in Steps :
        /\ Enrolable(w, p) /\ Accepts(r, p, c) /\ Use(<<p, c>>)
        /\ row' = Merge(row, r, [r EXCEPT !.last[p] = c, !.totp[p] = "on"])
        /\ UNCHANGED <<keys, challenges, grants>>
  BY DEF EnrolTotp, NotProven
<1>2. /\ row \in Rows /\ r \in Rows /\ p \in Purposes /\ <<p, c>> \in Codes
      /\ FactorTypeOK /\ UsedIsConsumed /\ TokenUsedOnce
      /\ challenges' \in [Challenge -> Challenges] /\ grants' \in [Grant -> Grants]
  BY <1>1, CopyTypes DEF FactorInv, FactorTypeOK, Purposes, Codes
<1>3. p \notin r.linked /\ r.totp[p] = "pending" /\ c > r.last[p]
  BY <1>1 DEF Enrolable, Accepts
<1> HIDE DEF r
<1> DEFINE last == [r.last EXCEPT ![p] = c]
           totp == [r.totp EXCEPT ![p] = "on"]
           new == [r EXCEPT !.last = last, !.totp = totp]
<1>4. last \in [Purposes -> Steps \union {0}] /\ totp \in [Purposes -> {"none", "pending", "on"}]
  BY <1>2, RowFields
<1>5. /\ totp[p] = "on" /\ last[p] = c
      /\ \A x \in Purposes \ {p} : totp[x] = r.totp[x] /\ last[x] = r.last[x]
  BY <1>2, RowFields
<1>6. row' = Merge(row, r, new)
  BY <1>1
<1> HIDE DEF last, totp
<1>7. new = [totp |-> totp, last |-> last, linked |-> r.linked, version |-> r.version]
  <2>1. PICK s \in Rows : s = r
    BY <1>2
  <2>2. new = [s EXCEPT !.last = last, !.totp = totp]
    BY <2>1
  <2> HIDE DEF new
  <2>3. new = [totp |-> totp, last |-> last, linked |-> s.linked, version |-> s.version]
    BY <2>2 DEF Rows
  <2>4. QED
    BY <2>1, <2>3
<1>8. new \in Rows /\ new.totp = totp /\ new.last = last /\ new.linked = r.linked
  BY <1>2, <1>4, <1>7, RowFields DEF Rows
<1> HIDE DEF new
<1>9. row' \in Rows /\ (r = row => row' = new)
  BY <1>2, <1>6, <1>8, MergedRow, MergedWithOwn
<1>10. used' = used \union {<<p, c>>} /\ again' = again \union ({<<p, c>>} \intersect used)
  BY <1>1 DEF Use
<1>11. /\ used' \in SUBSET (Codes \union Challenge \union Grant)
       /\ again' \in SUBSET (Codes \union Challenge \union Grant)
       /\ UsedIsConsumed' /\ TokenUsedOnce'
  <2>1. <<p, c>> \notin Grant \union Challenge
    BY <1>2, ProofsAssumption
  <2>2. QED
    BY <1>1, <1>2, <1>10, <2>1 DEF FactorTypeOK, UsedIsConsumed, TokenUsedOnce
<1>12. ASSUME ~crossed'
       PROVE  /\ row' = new /\ r = row /\ CodesCovered(new, used') /\ Unstarted(new)
              /\ again' \intersect Codes = {}
              /\ \A x \in new.linked : new.totp[x] # "on" /\ x \in row.linked
  <2>1. ~crossed /\ r = row /\ row' = new
    BY <1>9, <1>12, Uncrossed DEF r
  <2>2. /\ CodesCovered(row, used) /\ Unstarted(row) /\ again \intersect Codes = {}
    BY <2>1 DEF FactorInv
  <2>3. c \in Nat /\ \A x \in Purposes : row.last[x] \in Nat
    BY <1>2, RowFields DEF Steps
  <2>4. <<p, c>> \notin used
    BY <1>2, <1>3, <2>1, <2>2, <2>3 DEF CodesCovered
  <2>5. CodesCovered(new, used')
    <3> SUFFICES ASSUME NEW x \in Purposes, NEW d \in Steps, <<x, d>> \in used',
                        new.totp[x] # "none"
                 PROVE  d <= new.last[x]
      BY DEF CodesCovered
    <3>1. CASE x # p
      <4>1. <<x, d>> \in used
        BY <1>10, <3>1
      <4>2. QED
        BY <1>5, <1>8, <2>1, <2>2, <3>1, <4>1 DEF CodesCovered
    <3>2. CASE x = p /\ d = c
      BY <1>5, <1>8, <2>3, <3>2
    <3>3. CASE x = p /\ d # c
      <4>1. <<p, d>> \in used
        BY <1>10, <3>3
      <4>2. d <= row.last[p] /\ d \in Nat
        BY <1>2, <1>3, <2>1, <2>2, <4>1 DEF CodesCovered, Steps
      <4>3. QED
        BY <1>2, <1>3, <1>5, <1>8, <2>1, <2>3, <3>3, <4>2
    <3>4. QED
      BY <3>1, <3>2, <3>3
  <2>6. Unstarted(new)
    BY <1>5, <1>8, <2>1, <2>2 DEF Unstarted
  <2>7. \A x \in new.linked : new.totp[x] # "on" /\ x \in row.linked
    <3>1. row.linked \subseteq Purposes /\ p \notin row.linked
      BY <1>2, <1>3, <2>1, RowFields DEF Purposes
    <3>2. \A x \in row.linked : new.totp[x] = "on" => row.totp[x] = "on"
      BY <1>5, <1>8, <2>1, <3>1
    <3>3. QED
      BY <1>8, <2>1, <3>2, LinksKept
  <2>8. QED
    BY <1>10, <2>1, <2>2, <2>4, <2>5, <2>6, <2>7
<1>13. FactorInv'
  <2>1. ~crossed' => /\ CodesCovered(row', used') /\ Unstarted(row')
                     /\ again' \intersect Codes = {}
                     /\ \A x \in row'.linked : row'.totp[x] # "on" /\ x \in row.linked
    BY <1>12
  <2>2. QED
    BY <1>1, <1>2, <1>9, <1>11, <2>1, RowStep
<1>14. RemovalProven
  <2> SUFFICES ASSUME ~crossed'
               PROVE  /\ \A x \in Factor : row.totp[x] = "on" => row'.totp[x] = "on"
                      /\ row'.linked = row.linked
    BY <1>1 DEF RemovalProven
  <2>1. row' = new /\ r = row
    BY <1>12
  <2>2. QED
    BY <1>5, <1>8, <2>1 DEF Purposes
<1>15. QED
  BY <1>13, <1>14

-----------------------------------------------------------------------------
(* The new passkey has a purpose that is not linked. *)
LEMMA RegisterVerifyKeeps ==
  ASSUME FactorInv, NEW w \in Worker, ~Idle(w), Finish(w), NEW c \in Challenge,
         RegisterVerify(w, c)
  PROVE  FactorInv' /\ RemovalProven
<1> DEFINE p == ActionPurpose(challenges[c].action)
           registered == [purpose |-> p, active |-> TRUE]
<1>1. PICK k \in Key :
        /\ keys[k].purpose = "none" /\ keys' = [keys EXCEPT ![k] = registered]
        /\ p \notin Row(w).linked /\ Answer(c, "WEBAUTHN_REG") /\ Use(c)
        /\ UNCHANGED <<row, grants>>
  BY DEF RegisterVerify, NotProven
<1>2. /\ row \in Rows /\ FactorTypeOK /\ UsedIsConsumed /\ TokenUsedOnce
      /\ KeysHavePurpose /\ LoginPasskeyStays /\ LinkedHasNoOwnFactor
      /\ keys \in [Key -> Keys] /\ grants' \in [Grant -> Grants]
      /\ challenges[c].action \in Actions
  BY <1>1 DEF FactorInv, FactorTypeOK, Challenges
<1>3. p \in Purposes /\ p # "none"
  BY <1>2, ActionPurposes, PurposeAssumption DEF Purposes
<1> HIDE DEF p
<1>4. registered \in Keys /\ registered.purpose = p /\ registered.active
  BY <1>3 DEF Keys
<1> HIDE DEF registered
<1>5. /\ keys' \in [Key -> Keys] /\ keys'[k] = registered
      /\ \A j \in Key \ {k} : keys'[j] = keys[j]
  BY <1>1, <1>2, <1>4
<1>6. /\ challenges' \in [Challenge -> Challenges]
      /\ c \notin used /\ challenges'[c].state = "consumed"
      /\ \A d \in Challenge :
           challenges[d].state = "consumed" => challenges'[d].state = "consumed"
  BY <1>1, ChallengeAnswered
<1>7. used' = used \union {c} /\ again' = again
  BY <1>1, <1>6 DEF Use
<1>8. /\ used' \in SUBSET (Codes \union Challenge \union Grant)
      /\ again' \in SUBSET (Codes \union Challenge \union Grant)
      /\ UsedIsConsumed' /\ TokenUsedOnce'
  BY <1>1, <1>2, <1>6, <1>7, ProofsAssumption DEF FactorTypeOK, UsedIsConsumed, TokenUsedOnce
<1>9. ~crossed' => ~crossed /\ Row(w) = row
  BY Uncrossed
<1>10. \A j \in Key : /\ keys[j].purpose # "none" => keys'[j].purpose # "none"
                      /\ keys'[j].active => keys'[j].purpose # "none"
  BY <1>2, <1>3, <1>4, <1>5 DEF KeysHavePurpose
<1>11. ASSUME ~crossed'
       PROVE  /\ CodesCovered(row', used') /\ Unstarted(row') /\ again' \intersect Codes = {}
  <2>1. CodesCovered(row, used) /\ Unstarted(row) /\ again \intersect Codes = {}
    BY <1>9, <1>11 DEF FactorInv
  <2>2. \A x \in Codes : x \in used' => x \in used
    BY <1>7, ProofsAssumption
  <2>3. QED
    BY <1>1, <1>7, <2>1, <2>2 DEF CodesCovered, Unstarted, Codes
<1>12. LoginPasskeyStays'
  <2> SUFFICES ASSUME ~crossed' PROVE \E j \in Key : keys'[j].active /\ keys'[j].purpose = "login"
    BY DEF LoginPasskeyStays
  <2>1. PICK j \in Key : keys[j].active /\ keys[j].purpose = "login"
    BY <1>2, <1>9 DEF LoginPasskeyStays
  <2>2. j # k
    BY <1>1, <2>1
  <2>3. QED
    BY <1>5, <2>1, <2>2
<1>13. LinkedHasNoOwnFactor'
  <2> SUFFICES ASSUME ~crossed', NEW x \in row.linked
               PROVE  row.totp[x] # "on" /\ \A j \in Key : keys'[j].active => keys'[j].purpose # x
    BY <1>1 DEF LinkedHasNoOwnFactor
  <2>1. row.totp[x] # "on" /\ (\A j \in Key : keys[j].active => keys[j].purpose # x) /\ x # p
    BY <1>1, <1>2, <1>9 DEF LinkedHasNoOwnFactor
  <2>2. QED
    BY <1>4, <1>5, <2>1
<1>14. FactorInv'
  <2>1. row' \in Rows
    BY <1>1, <1>2
  <2>2. QED
    BY <1>2, <1>5, <1>6, <1>8, <1>10, <1>11, <1>12, <1>13, <2>1, HandleStep
<1>15. RemovalProven
  BY <1>1, <1>4, <1>5 DEF RemovalProven
<1>16. QED
  BY <1>14, <1>15

(* Another login passkey is left, as the handler saw it. *)
LEMMA DisablePasskeyKeeps ==
  ASSUME FactorInv, NEW w \in Worker, ~Idle(w), Finish(w), NEW k \in Key,
         DisablePasskey(w, k)
  PROVE  FactorInv' /\ RemovalProven
<1> DEFINE p == keys[k].purpose
           a == <<"manage", p>>
<1>1. PICK q \in Proofs :
        /\ Require(w, a, q) /\ Write(w, a, q, After(w, a, q))
        /\ copy[w].keys[k].active /\ Removable(w, k)
        /\ keys' = [keys EXCEPT ![k].active = FALSE] /\ UNCHANGED challenges
  BY DEF DisablePasskey
<1>2. /\ row \in Rows /\ Row(w) \in Rows /\ FactorTypeOK /\ UsedIsConsumed
      /\ KeysHavePurpose /\ LoginPasskeyStays /\ LinkedHasNoOwnFactor
      /\ keys \in [Key -> Keys] /\ challenges' \in [Challenge -> Challenges]
  BY <1>1, CopyTypes DEF FactorInv, FactorTypeOK
<1>3. p \in Purposes
  BY <1>1, <1>2 DEF KeysHavePurpose, Keys
<1> HIDE DEF p
<1>4. a \in Actions /\ ActionPurpose(a) = p
  BY <1>3, ActionPurposes
<1> HIDE DEF a
<1>5. /\ grants' \in [Grant -> Grants]
      /\ used' \in SUBSET (Codes \union Challenge \union Grant)
      /\ again' \in SUBSET (Codes \union Challenge \union Grant)
      /\ \A g \in Grant : g \in used' => grants'[g].state = "consumed"
      /\ \A c \in Challenge : c \in used' => c \in used
      /\ TokenUsedOnce'
      /\ ~crossed /\ Row(w) = row =>
           /\ CodesCovered(After(w, a, q), used') /\ Unstarted(After(w, a, q))
           /\ again' \intersect Codes = {}
           /\ Proves(ActionPurpose(a))
  BY <1>1, <1>4, Required
<1> DEFINE aft == After(w, a, q)
<1>6. aft \in Rows /\ aft.totp = Row(w).totp /\ aft.linked = Row(w).linked
  BY <1>4, AfterRow
<1>7. row' \in Rows /\ (Row(w) = row => row' = aft)
  BY <1>1, <1>6, WrittenRow
<1> HIDE DEF aft
<1>8. /\ keys' \in [Key -> Keys] /\ \A j \in Key : keys'[j].purpose = keys[j].purpose
      /\ ~keys'[k].active /\ \A j \in Key \ {k} : keys'[j] = keys[j]
  <2>1. keys[k] \in Keys
    BY <1>2
  <2>2. [keys[k] EXCEPT !.active = FALSE] \in Keys
        /\ [keys[k] EXCEPT !.active = FALSE].purpose = keys[k].purpose
        /\ ~[keys[k] EXCEPT !.active = FALSE].active
    BY <2>1 DEF Keys
  <2>3. QED
    BY <1>1, <1>2, <2>2
<1>9. ~crossed' => ~crossed /\ Row(w) = row /\ copy[w].keys = keys
  BY Uncrossed
<1>10. UsedIsConsumed'
  BY <1>1, <1>2, <1>5 DEF UsedIsConsumed
<1>11. \A j \in Key : /\ keys[j].purpose # "none" => keys'[j].purpose # "none"
                      /\ keys'[j].active => keys'[j].purpose # "none"
  BY <1>2, <1>8 DEF KeysHavePurpose
<1>12. ASSUME ~crossed'
       PROVE  /\ CodesCovered(row', used') /\ Unstarted(row') /\ again' \intersect Codes = {}
              /\ row'.totp = row.totp /\ row'.linked = row.linked /\ Proves(p)
  <2>1. row' = aft /\ Row(w) = row /\ ~crossed
    BY <1>7, <1>9, <1>12
  <2>2. /\ CodesCovered(aft, used') /\ Unstarted(aft) /\ again' \intersect Codes = {}
        /\ Proves(p)
    BY <1>4, <1>5, <2>1 DEF aft
  <2>3. QED
    BY <1>6, <2>1, <2>2
<1>13. LoginPasskeyStays'
  <2> SUFFICES ASSUME ~crossed' PROVE \E j \in Key : keys'[j].active /\ keys'[j].purpose = "login"
    BY DEF LoginPasskeyStays
  <2>1. CASE keys[k].purpose = "login"
    <3>1. PICK j \in Scoped(Row(w), copy[w].keys, "login") : j # k
      BY <1>1, <2>1 DEF Removable
    <3>2. j \in Key /\ keys[j].active /\ keys[j].purpose = "login"
      BY <1>2, <1>9, <3>1, RowFields DEF Scoped
    <3>3. QED
      BY <1>8, <3>1, <3>2
  <2>2. CASE keys[k].purpose # "login"
    BY <1>2, <1>8, <1>9, <2>2 DEF LoginPasskeyStays
  <2>3. QED
    BY <2>1, <2>2
<1>14. LinkedHasNoOwnFactor'
  <2> SUFFICES ASSUME ~crossed', NEW x \in row'.linked
               PROVE  row'.totp[x] # "on" /\ \A j \in Key : keys'[j].active => keys'[j].purpose # x
    BY DEF LinkedHasNoOwnFactor
  <2>1. /\ row.totp[x] # "on" /\ \A j \in Key : keys[j].active => keys[j].purpose # x
        /\ row'.totp = row.totp
    BY <1>2, <1>9, <1>12 DEF LinkedHasNoOwnFactor
  <2>2. QED
    BY <1>8, <2>1
<1>15. FactorInv'
  BY <1>2, <1>5, <1>7, <1>8, <1>10, <1>11, <1>12, <1>13, <1>14, HandleStep
<1>16. RemovalProven
  BY <1>8, <1>12 DEF RemovalProven, p
<1>17. QED
  BY <1>15, <1>16

-----------------------------------------------------------------------------
(* Nothing happens. *)
LEMMA FactorStutterKeeps ==
  FactorInv /\ UNCHANGED factorVars => FactorInv' /\ RemovalProven
<1> SUFFICES ASSUME FactorInv, UNCHANGED factorVars PROVE FactorInv' /\ RemovalProven
  OBVIOUS
<1>1. UNCHANGED <<row, keys, challenges, grants, copy, used, again, crossed>>
  BY DEF factorVars
<1>2. FactorTypeOK' /\ UsedIsConsumed' /\ TokenUsedOnce'
  BY <1>1 DEF FactorInv, FactorTypeOK, UsedIsConsumed, TokenUsedOnce
<1>3. KeysHavePurpose'
  BY <1>1 DEF FactorInv, KeysHavePurpose, Idle
<1>4. ~crossed' => (CodesCovered(row, used) /\ Unstarted(row) /\ again \intersect Codes = {})'
  BY <1>1 DEF FactorInv, CodesCovered, Unstarted
<1>5. LoginPasskeyStays' /\ LinkedHasNoOwnFactor'
  BY <1>1 DEF FactorInv, LoginPasskeyStays, LinkedHasNoOwnFactor
<1>6. RemovalProven
  BY <1>1 DEF RemovalProven
<1>7. QED
  BY <1>2, <1>3, <1>4, <1>5, <1>6 DEF FactorInv

(* Every commit keeps the invariant and proves what it removes. *)
LEMMA FactorNextKeeps ==
  FactorInv /\ [FactorNext]_factorVars => FactorInv' /\ RemovalProven
<1> SUFFICES ASSUME FactorInv, [FactorNext]_factorVars PROVE FactorInv' /\ RemovalProven
  OBVIOUS
<1>1. CASE UNCHANGED factorVars
  BY <1>1, FactorStutterKeeps
<1>2. ASSUME NEW w \in Worker, Read(w) PROVE FactorInv' /\ RemovalProven
  BY <1>2, ReadKeepsFactors
<1>3. ASSUME NEW w \in Worker, Handle(w) PROVE FactorInv' /\ RemovalProven
  <2>1. Finish(w) /\ ~Idle(w) /\ Commit(w)
    BY <1>3 DEF Handle, Finish
  <2>2. CASE SignInWithTotp(w)
    BY <2>1, <2>2, SignInWithTotpKeeps
  <2>3. CASE \E a \in Protected : StepUpTotp(w, a)
    BY <2>1, <2>3, StepUpTotpKeeps DEF Actions
  <2>4. CASE GetNonce(w) \/ \E a \in Actions : PasskeyOptions(w, a)
    <3>1. NoAction \in Actions
      BY DEF NoAction, Actions, Protected, Purposes
    <3>2. QED
      BY <2>1, <2>4, <3>1, ChallengeStepsKeep
  <2>5. CASE \E c \in Challenge : PasskeyVerify(w, c) \/ AnswerNonce(w, c) \/ AnswerWrongly(w, c)
    BY <2>1, <2>5, AnswersKeep
  <2>6. CASE \E p \in Factor : UseFactor(w, p)
    BY <2>1, <2>6, UseFactorKeeps
  <2>7. CASE \E p \in Factor : SetUpTotp(w, p)
    BY <2>1, <2>7, SetUpTotpKeeps
  <2>8. CASE \E p \in Factor : EnrolTotp(w, p)
    BY <2>1, <2>8, EnrolTotpKeeps
  <2>9. CASE \E p \in Factor : ResetTotp(w, p)
    BY <2>1, <2>9, ResetTotpKeeps
  <2>10. CASE \E p \in Factor : UseLogin(w, p) \/ UseSeparate(w, p)
    BY <2>1, <2>10, LinkStepsKeep
  <2>11. CASE \E p \in Purposes : RegisterOptions(w, p)
    BY <2>1, <2>11, RegisterOptionsKeeps
  <2>12. CASE \E c \in Challenge : RegisterVerify(w, c)
    BY <2>1, <2>12, RegisterVerifyKeeps
  <2>13. CASE \E k \in Key : DisablePasskey(w, k)
    BY <2>1, <2>13, DisablePasskeyKeeps
  <2>14. CASE \E c \in Challenge : SignInWithPasskey(w, c)
    BY <2>1, <2>14, SignInWithPasskeyKeeps
  <2>15. QED
    BY <2>1, <2>2, <2>3, <2>4, <2>5, <2>6, <2>7, <2>8, <2>9, <2>10, <2>11, <2>12,
       <2>13, <2>14 DEF Commit
<1>4. QED
  BY <1>1, <1>2, <1>3 DEF FactorNext

(* The inductive invariant of the factors holds in every reachable state. *)
THEOREM FactorInvariance == FactorSpec => []FactorInv
<1>1. FactorInit => FactorInv
  BY FactorInitInvariant
<1>2. FactorInv /\ [FactorNext]_factorVars => FactorInv'
  BY FactorNextKeeps
<1>3. QED
  BY <1>1, <1>2, PTL DEF FactorSpec

(* The rows, tokens and copies have their types, and an authenticator that *)
(* is not in use has accepted no code (set_totp_secret).                   *)
THEOREM FactorsWellFormed == FactorSpec => []FactorWellFormed
<1>1. FactorInv => FactorWellFormed
  BY DEF FactorInv, FactorWellFormed, Unstarted
<1>2. QED
  BY <1>1, FactorInvariance, PTL

(* A step-up token and a challenge are accepted once, however the handlers *)
(* overlap (consume_step_up, consume_challenge).                           *)
THEOREM TokensUsedOnce == FactorSpec => []TokenUsedOnce
<1>1. FactorInv => TokenUsedOnce
  BY DEF FactorInv
<1>2. QED
  BY <1>1, FactorInvariance, PTL

(* A code of one authenticator is accepted once, unless two handlers       *)
(* crossed (verify_totp_code).                                             *)
THEOREM CodesUsedOnce == FactorSpec => []CodeUsedOnce
<1>1. FactorInv => CodeUsedOnce
  BY DEF FactorInv, CodeUsedOnce
<1>2. QED
  BY <1>1, FactorInvariance, PTL

(* The last passkey for the login is never disabled                        *)
(* (disable_webauthn_credential).                                          *)
THEOREM LoginPasskeysStay == FactorSpec => []LoginPasskeyStays
<1>1. FactorInv => LoginPasskeyStays
  BY DEF FactorInv
<1>2. QED
  BY <1>1, FactorInvariance, PTL

(* A purpose linked to the login factors has no factor of its own          *)
(* (use_login_factors, setup_totp_factor).                                 *)
THEOREM LinkedPurposesHaveNone == FactorSpec => []LinkedHasNoOwnFactor
<1>1. FactorInv => LinkedHasNoOwnFactor
  BY DEF FactorInv
<1>2. QED
  BY <1>1, FactorInvariance, PTL

(* Whoever removes, links or separates a factor proves the purpose in the  *)
(* same step (require_factor).                                             *)
THEOREM RemovalsAreProven == FactorSpec => RemovalIsProven
<1>1. FactorInv /\ [FactorNext]_factorVars => RemovalProven
  BY FactorNextKeeps
<1>2. FactorInv /\ [FactorNext]_factorVars =>
        [~crossed' =>
           /\ \A p \in Factor : row.totp[p] = "on" /\ row'.totp[p] # "on" => Proves(p)
           /\ \A k \in Key : keys[k].active /\ ~keys'[k].active => Proves(keys[k].purpose)
           /\ row.linked # row'.linked => Proves("login")]_factorVars
  BY <1>1 DEF RemovalProven
<1>3. QED
  BY <1>2, FactorInvariance, PTL DEF FactorSpec, RemovalIsProven

-----------------------------------------------------------------------------
(* Roles on the chain (Identities.tla). *)

(* Every synchronisation wants what one kind of people has. *)
WantsUnmixed == \A p \in Process : Syncing(p) => Unmixed(sync[p].want)

Planning(p) == Syncing(p) /\ sync[p].read

(* A worker that serves a request does not synchronise yet. *)
AskedOnce == \A h \in Requester : job[h] # NoRequest => ~Syncing(h)

(* The transaction that p waits for is the next of its plan.               *)
Sent(p, t) ==
  /\ Planning(p) /\ t.of = sync[p].of
  /\ t.role = NextRole(sync[p]) /\ t.role \in Unsent(sync[p])
  /\ t.grant <=> t.role \notin sync[p].revoke

Awaited ==
  /\ \A i \in DOMAIN pool : pool[i].by # None => Sent(pool[i].by, pool[i])
  /\ \A i, j \in DOMAIN pool : pool[i].by = pool[j].by => i = j \/ pool[i].by = None

(* On a wallet that is not contested one synchronisation plans, or one     *)
(* transaction is on its way, or it is the transaction of that             *)
(* synchronisation.                                                        *)
AloneOn(w) ==
  /\ \A p, q \in Process :
       Planning(p) /\ Planning(q) /\ sync[p].of = w /\ sync[q].of = w => p = q
  /\ \A i, j \in DOMAIN pool : pool[i].of = w /\ pool[j].of = w => i = j
  /\ \A p \in Process, i \in DOMAIN pool :
       Planning(p) /\ sync[p].of = w /\ pool[i].of = w => pool[i].by = p

Alone == \A w \in Wallet \ contested : AloneOn(w)

(* What such a wallet keeps and is still to get is wanted. *)
PlannedBy(p) ==
  /\ roles[sync[p].of] \ sync[p].revoke \subseteq sync[p].want
  /\ sync[p].grant \subseteq sync[p].want

Planned ==
  \A p \in Process : Planning(p) /\ sync[p].of \notin contested => PlannedBy(p)

(* What is granted to such a wallet goes with what it has, however late    *)
(* the transaction is mined.                                               *)
Harmless(t) == t.grant => Unmixed(roles[t.of] \union {t.role})

GrantsAreHarmless ==
  \A i \in DOMAIN pool : pool[i].of \notin contested => Harmless(pool[i])

SyncInv == WantsUnmixed /\ Awaited /\ Alone /\ Planned /\ GrantsAreHarmless /\ NoMixedPower

(* The identity whose role changes is registered. *)
TargetsRegistered ==
  \A h \in Requester : job[h] # NoRequest /\ job[h].op = "role" => Registered(job[h].of)

(* The inductive invariant.  NoMixedPower needs the parts about sync and   *)
(* pool: while something is left to revoke the roles only shrink, then     *)
(* they are a part of what is wanted; and nobody else sends transactions   *)
(* to a wallet that is not contested.                                      *)
IInv == TypeOK /\ TargetsRegistered /\ AskedOnce /\ SyncInv /\ AnAdminRemains

USE BoundAssumption, AdminAssumption, NameAssumption

-----------------------------------------------------------------------------
(* What the operators return. *)

(* The levels of the four roles. *)
LEMMA LevelFacts ==
  /\ Roles = {"ADMIN", "MANAGER", "AUDITOR", "USER"}
  /\ Level["ADMIN"] = 3 /\ Level["MANAGER"] = 2
  /\ Level["AUDITOR"] = 1 /\ Level["USER"] = 0
BY DEF Roles, Level

(* No identity is entitled to the roles of two kinds of people. *)
LEMMA DesiredFacts ==
  ASSUME NEW id \in Identity \union {Unregistered}
  PROVE  Desired(id) \in SUBSET Operational /\ Unmixed(Desired(id))
<1>1. CASE id.state # "active"
  BY <1>1 DEF Desired, Unmixed
<1>2. CASE id.state = "active"
  <2>1. id.role \in {"ADMIN", "MANAGER", "AUDITOR", "USER"}
    BY <1>2, LevelFacts DEF Identity, Unregistered
  <2>2. Desired(id) \in {WriterRole, {AuditorRole}, {}}
    BY <1>2, <2>1 DEF Desired
  <2> QED
    BY <2>2 DEF Unmixed, Operational
<1> QED
  BY <1>1, <1>2

(* The role sent next is one of those to revoke, if there is one. *)
LEMMA NextRoleFacts ==
  ASSUME NEW s, Unsent(s) # {}
  PROVE  /\ s.revoke # {} => NextRole(s) \in s.revoke
         /\ s.revoke = {} => NextRole(s) \in s.grant
         /\ NextRole(s) \in Unsent(s)
BY DEF NextRole, Unsent

(* A new synchronisation is one, and so is the one that was compared. *)
LEMMA AskedFacts ==
  ASSUME TypeOK, NEW w \in Wallet, NEW id \in Identity \union {Unregistered}
  PROVE  /\ Asked(w, id) \in Syncs /\ Asked(w, id).of = w
         /\ ~Asked(w, id).read /\ Unmixed(Asked(w, id).want)
BY DesiredFacts DEF Asked, Syncs

(* A compared synchronisation revokes what is too much. *)
LEMMA ComparedFacts ==
  ASSUME TypeOK, NEW s \in Syncs
  PROVE  /\ Compared(s) \in Syncs /\ Compared(s).read
         /\ Compared(s).of = s.of /\ Compared(s).want = s.want
         /\ Compared(s).revoke = roles[s.of] \ s.want
         /\ Compared(s).grant = s.want \ roles[s.of]
<1>1. roles[s.of] \in SUBSET Operational
  BY DEF TypeOK, Syncs
<1> QED
  BY <1>1 DEF Compared, Syncs

-----------------------------------------------------------------------------
(* Each step keeps the invariant. *)

(* The initial state satisfies it. *)
LEMMA InitInvariant == Init => IInv
<1> SUFFICES ASSUME Init PROVE IInv
  OBVIOUS
<1>1. PICK admins \in SUBSET Wallet, old \in {{}, WriterRole} :
        \E past \in SUBSET (Wallet \ admins) :
          /\ Admin \subseteq admins
          /\ identity = [w \in Wallet |-> IF w \in admins
               THEN [role |-> "ADMIN", state |-> "active"] ELSE Unregistered]
          /\ holders = admins \union past
          /\ roles = [w \in Wallet |-> IF w \in admins THEN WriterRole
                                       ELSE IF w \in past THEN old ELSE {}]
  BY DEF Init
<1>2. identity \in Registry
  BY <1>1, LevelFacts DEF Registry, Identity
<1>3. roles \in [Wallet -> SUBSET Operational]
  BY <1>1 DEF Operational
<1>4. TypeOK
  <2>1. events \in 0..MaxEvents /\ outranked \in BOOLEAN /\ contested \in SUBSET Wallet
    <3>1. events = 0 /\ outranked = FALSE /\ contested = {}
      BY DEF Init
    <3>2. events \in 0..MaxEvents
      BY <3>1
    <3> QED
      BY <3>1, <3>2
  <2>2. /\ job \in [Requester -> Request \union {NoRequest}]
        /\ sync \in [Process -> Syncs \union {NoSync}]
        /\ pass \in [Reconciler -> Passes \union {NoPass}]
    BY DEF Init
  <2>3. holders \in SUBSET Wallet /\ pool \in Seq(Transactions)
    BY <1>1 DEF Init
  <2> QED
    BY <1>2, <1>3, <2>1, <2>2, <2>3 DEF TypeOK
<1>5. NoMixedPower
  BY <1>1 DEF NoMixedPower, Unmixed
<1>6. AnAdminRemains
  BY <1>1 DEF AnAdminRemains
<1>7. TargetsRegistered /\ AskedOnce /\ WantsUnmixed /\ Planned
  BY DEF Init, TargetsRegistered, AskedOnce, WantsUnmixed, Planned, Planning, Syncing
<1>8. Awaited /\ Alone /\ GrantsAreHarmless
  <2>1. DOMAIN pool = {} /\ \A p \in Process : ~Syncing(p)
    BY DEF Init, Syncing
  <2> QED
    BY <2>1 DEF Awaited, Alone, AloneOn, GrantsAreHarmless, Planning
<1> QED
  BY <1>4, <1>5, <1>6, <1>7, <1>8 DEF IInv, SyncInv

(* What leaves synchronisations, transactions and roles alone keeps their  *)
(* invariants, and what leaves the registry alone keeps an Admin.          *)
LEMMA SyncUntouched ==
  ASSUME IInv, UNCHANGED <<sync, roles, pool, contested>>
  PROVE  SyncInv'
<1>1. /\ sync' = sync /\ roles' = roles /\ pool' = pool /\ contested' = contested
      /\ SyncInv
  BY DEF IInv
<1>2. WantsUnmixed' /\ Awaited' /\ Alone'
  BY <1>1 DEF SyncInv, WantsUnmixed, Awaited, Sent, Alone, AloneOn, Planning, Syncing, Unmixed
<1>3. Planned' /\ GrantsAreHarmless' /\ NoMixedPower'
  BY <1>1 DEF SyncInv, Planned, PlannedBy, GrantsAreHarmless, Harmless, NoMixedPower,
     Planning, Syncing, Unmixed
<1> QED
  BY <1>2, <1>3 DEF SyncInv

(* The same for the registry and the requests, if none is taken up. *)
LEMMA RegistryUntouched ==
  ASSUME IInv, UNCHANGED <<identity, outranked>>
  PROVE  /\ AnAdminRemains'
         /\ (\A h \in Requester : job'[h] = job[h] \/ job'[h] = NoRequest) => TargetsRegistered'
BY DEF IInv, AnAdminRemains, TargetsRegistered, Registered

(* No new request and no new synchronisation. *)
LEMMA StillAskedOnce ==
  ASSUME IInv,
         \A h \in Requester : job'[h] # NoRequest => job[h] # NoRequest,
         \A h \in Requester : Syncing(h)' => Syncing(h)
  PROVE  AskedOnce'
BY DEF IInv, AskedOnce

(* A transaction and its fields. *)
LEMMA PoolFacts ==
  ASSUME TypeOK, NEW i \in DOMAIN pool
  PROVE  /\ pool[i] \in Transactions /\ pool[i].of \in Wallet
         /\ pool[i].role \in Operational /\ pool[i].by \in Process \union {None}
<1>1. pool[i] \in Transactions
  BY DEF TypeOK
<1> QED
  BY <1>1 DEF Transactions

(* A synchronisation that reads its roles for the first time waits for no  *)
(* transaction.                                                            *)
LEMMA NotWaiting ==
  ASSUME IInv, NEW p \in Process, ~Planning(p) \/ Unsent(sync[p]) = {}, NEW i \in DOMAIN pool
  PROVE  pool[i].by # p
BY DEF IInv, SyncInv, Awaited, Sent, Process

(* Giving up changes who waits for a transaction. *)
LEMMA AbandonedFacts ==
  ASSUME TypeOK, NEW gone \in SUBSET Process
  PROVE  /\ Abandoned(gone) \in Seq(Transactions) /\ DOMAIN Abandoned(gone) = DOMAIN pool
         /\ \A i \in DOMAIN pool :
              /\ Abandoned(gone)[i].of = pool[i].of /\ Abandoned(gone)[i].role = pool[i].role
              /\ Abandoned(gone)[i].grant = pool[i].grant
              /\ Abandoned(gone)[i].by = IF pool[i].by \in gone THEN None ELSE pool[i].by
<1>1. \A i \in DOMAIN pool : pool[i] \in Transactions
  BY PoolFacts
<1>2. PICK n \in Nat : DOMAIN pool = 1..n
  BY DEF TypeOK
<1>3. \A i \in DOMAIN pool : Abandoned(gone)[i] \in Transactions
  BY <1>1 DEF Abandoned, Transactions
<1>4. Abandoned(gone) \in [1..n -> Transactions]
  BY <1>2, <1>3 DEF Abandoned
<1>5. Abandoned(gone) \in Seq(Transactions)
  BY <1>4
<1> QED
  BY <1>1, <1>5 DEF Abandoned, Transactions

(* A synchronisation that ends, or is not compared yet, changes nothing    *)
(* for the others; its last transaction may still be mined, and a wallet   *)
(* that nobody else is at work on is left in order.                        *)
LEMMA OneSyncEnds ==
  ASSUME IInv, NEW p \in Process,
         NEW new, new = NoSync \/ (new \in Syncs /\ ~new.read /\ Unmixed(new.want)),
         sync' = [sync EXCEPT ![p] = new], UNCHANGED roles,
         DOMAIN pool' = DOMAIN pool,
         \A i \in DOMAIN pool :
           /\ pool'[i].of = pool[i].of /\ pool'[i].role = pool[i].role
           /\ pool'[i].grant = pool[i].grant
           /\ pool'[i].by = IF pool[i].by = p THEN None ELSE pool[i].by,
         \A w \in contested \ contested' : Unmixed(roles[w]) /\ ~Contest(p, w)
  PROVE  SyncInv'
<1>1. \A q \in Process : sync'[q] = IF q = p THEN new ELSE sync[q]
  BY DEF IInv, TypeOK
<1>2. \A q \in Process : Planning(q)' => q # p /\ Planning(q) /\ sync'[q] = sync[q]
  BY <1>1 DEF Planning, Syncing
<1>3. WantsUnmixed'
  BY <1>1 DEF IInv, SyncInv, WantsUnmixed, Syncing, Unmixed
<1>4. \A q \in Process \ {p} : Planning(q) => Planning(q)' /\ sync'[q] = sync[q]
  BY <1>1 DEF Planning, Syncing
<1>5. p # None
  BY DEF Process
<1>6. Awaited'
  <2>1. \A i \in DOMAIN pool : pool'[i].by # None =>
          pool[i].by = pool'[i].by /\ pool[i].by \in Process \ {p}
    BY <1>5, PoolFacts DEF IInv
  <2>2. ASSUME NEW i \in DOMAIN pool', pool'[i].by # None PROVE Sent(pool[i].by, pool[i])'
    <3>1. Sent(pool[i].by, pool[i]) /\ pool[i].by = pool'[i].by /\ pool[i].by \in Process \ {p}
      BY <2>1, <2>2 DEF IInv, SyncInv, Awaited
    <3>2. Planning(pool[i].by)' /\ sync'[pool[i].by] = sync[pool[i].by]
      BY <1>4, <3>1 DEF Sent
    <3> QED
      BY <3>1, <3>2 DEF Sent
  <2>3. ASSUME NEW i \in DOMAIN pool', NEW j \in DOMAIN pool', pool'[i].by = pool'[j].by,
               pool'[i].by # None
        PROVE  i = j
    BY <2>1, <2>3 DEF IInv, SyncInv, Awaited
  <2> QED
    BY <2>2, <2>3 DEF Awaited
<1>7. ASSUME NEW w \in contested \ contested'
      PROVE  /\ \A q \in Process \ {p} : ~(Planning(q) /\ sync[q].of = w)
             /\ \A i \in DOMAIN pool : pool[i].of # w
  BY <1>7 DEF Contest, Planning
<1>8. Alone'
  <2> SUFFICES ASSUME NEW w \in Wallet \ contested' PROVE AloneOn(w)'
    BY DEF Alone
  <2>1. CASE w \in contested
    BY <1>2, <1>7, <2>1 DEF AloneOn
  <2>2. CASE w \notin contested
    <3>1. AloneOn(w)
      BY <2>2 DEF IInv, SyncInv, Alone
    <3> QED
      BY <1>2, <3>1 DEF AloneOn
  <2> QED
    BY <2>1, <2>2
<1>9. Planned'
  <2> SUFFICES ASSUME NEW q \in Process, Planning(q)', sync'[q].of \notin contested'
               PROVE  PlannedBy(q)'
    BY DEF Planned
  <2>1. q # p /\ Planning(q) /\ sync'[q] = sync[q]
    BY <1>2
  <2>2. sync[q].of \notin contested
    BY <1>7, <2>1
  <2> QED
    BY <2>1, <2>2 DEF IInv, SyncInv, Planned, PlannedBy
<1>10. GrantsAreHarmless'
  BY <1>7 DEF IInv, SyncInv, GrantsAreHarmless, Harmless, Unmixed
<1>11. NoMixedPower'
  BY DEF IInv, SyncInv, NoMixedPower, Unmixed
<1> QED
  BY <1>3, <1>6, <1>8, <1>9, <1>10, <1>11 DEF SyncInv

(* The roles are compared. *)
LEMMA ReadsKeeps ==
  ASSUME IInv, NEW p \in Process, ~Planning(p), NEW s \in Syncs, Unmixed(s.want),
         Reads(p, s), UNCHANGED <<roles, pool>>
  PROVE  /\ SyncInv' /\ contested' \in SUBSET Wallet
         /\ sync' \in [Process -> Syncs \union {NoSync}]
         /\ \A q \in Process \ {p} : sync'[q] = sync[q]
<1> DEFINE new == Compared(s)
<1>1. /\ new \in Syncs /\ new.read /\ new.of = s.of /\ new.want = s.want
      /\ new.revoke = roles[s.of] \ s.want /\ new.grant = s.want \ roles[s.of]
  BY ComparedFacts DEF IInv
<1>2. /\ sync' = [sync EXCEPT ![p] = new] /\ s.of \in Wallet
      /\ contested' = IF Contest(p, s.of) THEN contested \union {s.of} ELSE contested
  BY DEF Reads, Syncs
<1> HIDE DEF new
<1>3. sync' \in [Process -> Syncs \union {NoSync}] /\ contested' \in SUBSET Wallet
  BY <1>1, <1>2 DEF IInv, TypeOK
<1>4. \A q \in Process : sync'[q] = IF q = p THEN new ELSE sync[q]
  BY <1>2 DEF IInv, TypeOK
<1>5. WantsUnmixed'
  BY <1>1, <1>4 DEF IInv, SyncInv, WantsUnmixed, Syncing, Unmixed
<1>6. \A w \in Wallet : w \notin contested' => w \notin contested
  BY <1>2
<1>7. s.of \notin contested' =>
        /\ \A q \in Process \ {p} : Planning(q) => sync[q].of # s.of
        /\ \A i \in DOMAIN pool : pool[i].of # s.of
  BY <1>2 DEF Contest, Planning
<1>8. \A q \in Process \ {p} : (Planning(q)' <=> Planning(q)) /\ sync'[q] = sync[q]
  BY <1>4 DEF Planning, Syncing
<1>9. Awaited'
  <2>1. \A i \in DOMAIN pool : pool[i].by # p
    BY NotWaiting
  <2>2. ASSUME NEW i \in DOMAIN pool, pool[i].by # None PROVE Sent(pool[i].by, pool[i])'
    <3>1. Sent(pool[i].by, pool[i]) /\ pool[i].by \in Process \ {p}
      BY <2>1, <2>2, PoolFacts DEF IInv, SyncInv, Awaited
    <3> QED
      BY <1>8, <3>1 DEF Sent
  <2> QED
    BY <2>2 DEF IInv, SyncInv, Awaited
<1>10. Alone'
  <2> SUFFICES ASSUME NEW w \in Wallet \ contested' PROVE AloneOn(w)'
    BY DEF Alone
  <2>1. AloneOn(w)
    BY <1>6 DEF IInv, SyncInv, Alone
  <2>2. CASE w = s.of
    BY <1>1, <1>4, <1>7, <1>8, <2>1, <2>2 DEF AloneOn
  <2>3. CASE w # s.of
    <3>1. \A q \in Process : Planning(q)' /\ sync'[q].of = w => q # p
      BY <1>1, <1>4, <2>3
    <3> QED
      BY <1>8, <2>1, <3>1 DEF AloneOn
  <2> QED
    BY <2>2, <2>3
<1>11. Planned'
  <2> SUFFICES ASSUME NEW q \in Process, Planning(q)', sync'[q].of \notin contested'
               PROVE  PlannedBy(q)'
    BY DEF Planned
  <2>1. CASE q = p
    BY <1>1, <1>4, <2>1 DEF PlannedBy
  <2>2. CASE q # p
    <3>1. Planning(q) /\ sync'[q] = sync[q] /\ sync[q].of \in Wallet
      BY <1>8, <2>2 DEF IInv, TypeOK, Planning, Syncing, Syncs
    <3> QED
      BY <1>6, <3>1 DEF IInv, SyncInv, Planned, PlannedBy
  <2> QED
    BY <2>1, <2>2
<1>12. GrantsAreHarmless' /\ NoMixedPower'
  BY <1>6, PoolFacts DEF IInv, SyncInv, GrantsAreHarmless, Harmless, NoMixedPower, Unmixed
<1> QED
  BY <1>3, <1>5, <1>8, <1>9, <1>10, <1>11, <1>12 DEF SyncInv

(* The same for a request's synchronisation. *)
LEMMA ReadRolesKeeps ==
  ASSUME IInv, NEW p \in Process, ReadRoles(p)
  PROVE  IInv'
<1>1. sync[p] \in Syncs /\ Unmixed(sync[p].want) /\ ~Planning(p) /\ Syncing(p)
  BY DEF ReadRoles, IInv, SyncInv, TypeOK, Syncing, WantsUnmixed, Planning
<1>2. Reads(p, sync[p]) /\ UNCHANGED <<identity, roles, holders, pool, job, pass, events, outranked>>
  BY DEF ReadRoles, chain
<1>3. /\ SyncInv' /\ contested' \in SUBSET Wallet
      /\ sync' \in [Process -> Syncs \union {NoSync}]
      /\ \A q \in Process \ {p} : sync'[q] = sync[q]
  BY <1>1, <1>2, ReadsKeeps
<1>4. AskedOnce'
  <2>1. \A h \in Requester : Syncing(h)' => Syncing(h)
    BY <1>1, <1>3 DEF Syncing, Process
  <2> QED
    BY <1>2, <2>1, StillAskedOnce
<1>5. TypeOK'
  BY <1>2, <1>3 DEF IInv, TypeOK
<1> QED
  BY <1>2, <1>3, <1>4, <1>5, RegistryUntouched DEF IInv

(* The next transaction of a plan: a role that is not wanted is taken      *)
(* away, or, once there is none, one that is wanted is given.              *)
LEMMA SendKeeps ==
  ASSUME IInv, NEW p \in Process, Send(p)
  PROVE  IInv'
<1> DEFINE s == sync[p]
           r == NextRole(s)
           t == [of |-> s.of, role |-> r, grant |-> r \notin s.revoke, by |-> p]
<1>1. /\ Planning(p) /\ Unsent(s) # {} /\ pool' = Append(pool, t)
      /\ \A i \in DOMAIN pool : pool[i].by # p
      /\ UNCHANGED <<identity, roles, holders, job, sync, pass, events, outranked, contested>>
  BY DEF Send, Planning, Waiting
<1>2. s \in Syncs /\ s.of \in Wallet
  BY <1>1 DEF IInv, TypeOK, Planning, Syncing, Syncs
<1>3. /\ s.revoke # {} => r \in s.revoke
      /\ s.revoke = {} => r \in s.grant
      /\ r \in Unsent(s) /\ r \in Operational
  BY <1>1, <1>2, NextRoleFacts DEF Unsent, Syncs
<1>4. /\ t \in Transactions /\ t.of = s.of /\ t.role = r /\ t.by = p
      /\ t.grant <=> r \notin s.revoke
  BY <1>2, <1>3 DEF Transactions
<1>5. Sent(p, t)
  BY <1>1, <1>3, <1>4 DEF Sent
<1> HIDE DEF t
<1>6. /\ pool' \in Seq(Transactions)
      /\ \A i \in DOMAIN pool' : \/ i \in DOMAIN pool /\ pool'[i] = pool[i]
                                 \/ i = Len(pool) + 1 /\ pool'[i] = t
  BY <1>1, <1>4 DEF IInv, TypeOK
<1>7. TypeOK'
  BY <1>1, <1>6 DEF IInv, TypeOK
<1>8. /\ \A q \in Process : Planning(q)' <=> Planning(q)
      /\ \A q \in Process : Syncing(q)' <=> Syncing(q)
  BY <1>1 DEF Planning, Syncing
<1>9. Awaited'
  <2>1. ASSUME NEW i \in DOMAIN pool', pool'[i].by # None PROVE Sent(pool[i].by, pool[i])'
    <3>1. Sent(pool'[i].by, pool'[i])
      BY <1>4, <1>5, <1>6, <2>1 DEF IInv, SyncInv, Awaited
    <3> QED
      BY <1>1, <3>1 DEF Sent, Planning, Syncing
  <2>2. ASSUME NEW i \in DOMAIN pool', NEW j \in DOMAIN pool', pool'[i].by = pool'[j].by,
               pool'[i].by # None
        PROVE  i = j
    BY <1>1, <1>4, <1>6, <2>2 DEF IInv, SyncInv, Awaited
  <2> QED
    BY <2>1, <2>2 DEF Awaited
<1>10. Alone'
  <2> SUFFICES ASSUME NEW w \in Wallet \ contested PROVE AloneOn(w)'
    BY <1>1 DEF Alone
  <2>1. AloneOn(w)
    BY DEF IInv, SyncInv, Alone
  <2>2. s.of = w => \A i \in DOMAIN pool : pool[i].of # w
    BY <1>1, <2>1 DEF AloneOn
  <2> QED
    BY <1>1, <1>4, <1>6, <1>8, <2>1, <2>2 DEF AloneOn
<1>11. WantsUnmixed' /\ Planned' /\ NoMixedPower'
  BY <1>1, <1>8 DEF IInv, SyncInv, WantsUnmixed, Planned, PlannedBy, NoMixedPower, Unmixed
<1>12. GrantsAreHarmless'
  <2>1. s.of \notin contested => Harmless(t)
    <3> SUFFICES ASSUME s.of \notin contested, t.grant
                 PROVE  Unmixed(roles[s.of] \union {r})
      BY <1>4 DEF Harmless
    <3>1. s.revoke = {} /\ r \in s.grant
      BY <1>3, <1>4
    <3>2. roles[s.of] \ s.revoke \subseteq s.want /\ s.grant \subseteq s.want /\ Unmixed(s.want)
      BY <1>1 DEF IInv, SyncInv, Planned, PlannedBy, WantsUnmixed, Planning
    <3>3. roles[s.of] \union {r} \subseteq s.want
      BY <3>1, <3>2
    <3> QED
      BY <3>2, <3>3 DEF Unmixed
  <2> QED
    BY <1>1, <1>4, <1>6, <2>1 DEF IInv, SyncInv, GrantsAreHarmless, Harmless, Unmixed
<1>13. AnAdminRemains' /\ TargetsRegistered' /\ AskedOnce'
  <2>1. \A h \in Requester : h \in Process
    BY DEF Process
  <2> QED
    BY <1>1, <1>8, <2>1, RegistryUntouched, StillAskedOnce
<1> QED
  BY <1>7, <1>9, <1>10, <1>11, <1>12, <1>13 DEF IInv, SyncInv

(* A transaction is mined, in time or late. *)
LEMMA MineKeeps ==
  ASSUME IInv, Mine
  PROVE  IInv'
<1> DEFINE t == pool[1]
           w == t.of
<1>1. /\ pool # <<>> /\ Mined(t) /\ Received(t) /\ pool' = Tail(pool)
      /\ holders' = IF t.grant THEN holders \union {t.of} ELSE holders
      /\ UNCHANGED <<identity, job, pass, events, outranked, contested>>
  <2>1. Head(pool) = t
    BY DEF IInv, TypeOK, Mine
  <2> QED
    BY <2>1 DEF Mine
<1>2. /\ 1 \in DOMAIN pool /\ pool' \in Seq(Transactions)
      /\ \A i \in DOMAIN pool' :
           i \in Nat /\ i + 1 \in DOMAIN pool /\ i + 1 # 1 /\ pool'[i] = pool[i + 1]
  BY <1>1 DEF IInv, TypeOK
<1>3. /\ t \in Transactions /\ w \in Wallet /\ t.role \in Operational
      /\ t.by \in Process \union {None} /\ None \notin Process
  BY <1>2, PoolFacts DEF IInv, Process
<1>4. /\ roles' \in [Wallet -> SUBSET Operational]
      /\ \A v \in Wallet : v # w => roles'[v] = roles[v]
      /\ roles'[w] = IF t.grant THEN roles[w] \union {t.role} ELSE roles[w] \ {t.role}
  BY <1>1, <1>3 DEF Mined, IInv, TypeOK
<1>5. t.by # None => Sent(t.by, t) /\ sync[t.by] \in Syncs
  BY <1>2, <1>3 DEF IInv, SyncInv, Awaited, Sent, Planning, Syncing, TypeOK
<1>6. /\ sync' \in [Process -> Syncs \union {NoSync}]
      /\ \A q \in Process : q # t.by => sync'[q] = sync[q]
      /\ t.by # None => sync'[t.by] = [sync[t.by] EXCEPT !.revoke = @ \ {t.role},
                                                         !.grant = @ \ {t.role}]
  <2>1. CASE t.by = None
    BY <1>1, <2>1 DEF Received, IInv, TypeOK
  <2>2. CASE t.by # None
    <3> DEFINE new == [sync[t.by] EXCEPT !.revoke = @ \ {t.role}, !.grant = @ \ {t.role}]
    <3>1. new \in Syncs
      BY <1>5, <2>2 DEF Syncs
    <3>2. sync' = [sync EXCEPT ![t.by] = new]
      BY <1>1, <1>3, <1>5, <2>2 DEF Received, IInv, TypeOK, Syncs
    <3> QED
      BY <1>3, <2>2, <3>1, <3>2 DEF IInv, TypeOK
  <2> QED
    BY <2>1, <2>2
<1>7. \A q \in Process :
        /\ Planning(q)' <=> Planning(q)
        /\ Syncing(q)' <=> Syncing(q)
        /\ Syncing(q) => /\ sync'[q].of = sync[q].of /\ sync'[q].want = sync[q].want
                         /\ q = t.by => /\ sync'[q].revoke = sync[q].revoke \ {t.role}
                                        /\ sync'[q].grant = sync[q].grant \ {t.role}
  <2> SUFFICES ASSUME NEW q \in Process
               PROVE  /\ Planning(q)' <=> Planning(q)
                      /\ Syncing(q)' <=> Syncing(q)
                      /\ Syncing(q) => /\ sync'[q].of = sync[q].of /\ sync'[q].want = sync[q].want
                                       /\ q = t.by => /\ sync'[q].revoke = sync[q].revoke \ {t.role}
                                                      /\ sync'[q].grant = sync[q].grant \ {t.role}
    OBVIOUS
  <2>1. CASE q # t.by
    BY <1>6, <2>1 DEF Planning, Syncing
  <2>2. CASE q = t.by
    <3>1. t.by # None /\ Planning(q) /\ sync[q] \in Syncs
      BY <1>3, <1>5, <2>2 DEF Sent
    <3>2. sync'[q] = [sync[q] EXCEPT !.revoke = @ \ {t.role}, !.grant = @ \ {t.role}]
      BY <1>6, <2>2, <3>1
    <3>3. /\ sync'[q].of = sync[q].of /\ sync'[q].want = sync[q].want
          /\ sync'[q].read = sync[q].read
          /\ sync'[q].revoke = sync[q].revoke \ {t.role}
          /\ sync'[q].grant = sync[q].grant \ {t.role}
      BY <3>1, <3>2 DEF Syncs
    <3>4. sync'[q] # NoSync
      BY <3>1, <3>2 DEF Syncs, NoSync
    <3> QED
      BY <3>1, <3>3, <3>4 DEF Planning, Syncing
  <2> QED
    BY <2>1, <2>2
<1> HIDE DEF t, w
<1>8. TypeOK'
  BY <1>1, <1>2, <1>3, <1>4, <1>6 DEF IInv, TypeOK, w
<1>9. WantsUnmixed'
  BY <1>7 DEF IInv, SyncInv, WantsUnmixed, Unmixed
<1>10. Awaited'
  <2>1. ASSUME NEW i \in DOMAIN pool', pool'[i].by # None PROVE Sent(pool[i].by, pool[i])'
    <3>1. i + 1 \in DOMAIN pool /\ i + 1 # 1 /\ pool'[i] = pool[i + 1]
      BY <1>2
    <3>2. PICK q \in Process : q = pool[i + 1].by /\ q # None /\ Sent(q, pool[i + 1])
      BY <2>1, <3>1, PoolFacts DEF IInv, SyncInv, Awaited
    <3>3. q # t.by
      BY <1>2, <3>1, <3>2 DEF IInv, SyncInv, Awaited, t
    <3>4. sync'[q] = sync[q] /\ (Planning(q)' <=> Planning(q))
      BY <1>6, <1>7, <3>2, <3>3
    <3> QED
      BY <3>1, <3>2, <3>4 DEF Sent
  <2>2. ASSUME NEW i \in DOMAIN pool', NEW j \in DOMAIN pool', pool'[i].by = pool'[j].by,
               pool'[i].by # None
        PROVE  i = j
    <3>1. i + 1 = j + 1
      BY <1>2, <2>2 DEF IInv, SyncInv, Awaited
    <3> QED
      BY <1>2, <3>1
  <2> QED
    BY <2>1, <2>2 DEF Awaited
<1>11. Alone'
  <2> SUFFICES ASSUME NEW v \in Wallet \ contested PROVE AloneOn(v)'
    BY <1>1 DEF Alone
  <2>1. AloneOn(v)
    BY DEF IInv, SyncInv, Alone
  <2>2. \A p, q \in Process :
          Planning(p)' /\ Planning(q)' /\ sync'[p].of = v /\ sync'[q].of = v => p = q
    BY <1>7, <2>1 DEF AloneOn, Planning
  <2>3. ASSUME NEW i \in DOMAIN pool', NEW j \in DOMAIN pool', pool'[i].of = v, pool'[j].of = v
        PROVE  i = j
    <3>1. i + 1 = j + 1
      BY <1>2, <2>1, <2>3 DEF AloneOn
    <3> QED
      BY <1>2, <3>1
  <2>4. \A p \in Process, i \in DOMAIN pool' :
          Planning(p)' /\ sync'[p].of = v /\ pool'[i].of = v => pool'[i].by = p
    BY <1>2, <1>7, <2>1 DEF AloneOn, Planning
  <2> QED
    BY <2>2, <2>3, <2>4 DEF AloneOn
<1>12. Planned'
  <2> SUFFICES ASSUME NEW q \in Process, Planning(q)', sync'[q].of \notin contested
               PROVE  PlannedBy(q)'
    BY <1>1 DEF Planned
  <2>1. /\ Planning(q) /\ Syncing(q) /\ sync'[q].of = sync[q].of /\ sync'[q].want = sync[q].want
        /\ sync[q].of \in Wallet
    BY <1>7 DEF Planning, Syncing, IInv, TypeOK, Syncs
  <2>2. /\ roles[sync[q].of] \ sync[q].revoke \subseteq sync[q].want
        /\ sync[q].grant \subseteq sync[q].want
    BY <2>1 DEF IInv, SyncInv, Planned, PlannedBy
  <2>3. CASE sync[q].of # w
    <3>1. q # t.by
      BY <1>3, <1>5, <2>3 DEF Sent, w, Process
    <3> QED
      BY <1>4, <1>6, <2>1, <2>2, <2>3, <3>1 DEF PlannedBy
  <2>4. CASE sync[q].of = w
    <3>1. q = t.by
      BY <1>2, <2>1, <2>4 DEF IInv, SyncInv, Alone, AloneOn, t, w
    <3>2. /\ t.role = NextRole(sync[q]) /\ Unsent(sync[q]) # {}
          /\ t.grant <=> t.role \notin sync[q].revoke
      BY <1>3, <1>5, <3>1 DEF Sent, Process
    <3>3. t.grant => sync[q].revoke = {} /\ t.role \in sync[q].grant
      BY <3>2, NextRoleFacts
    <3>4. sync'[q].revoke = sync[q].revoke \ {t.role} /\ sync'[q].grant = sync[q].grant \ {t.role}
      BY <1>7, <2>1, <3>1
    <3>5. CASE t.grant
      <4>1. roles'[w] \subseteq sync[q].want
        BY <1>4, <2>2, <2>4, <3>3, <3>5
      <4> QED
        BY <2>1, <2>2, <2>4, <3>4, <4>1 DEF PlannedBy
    <3>6. CASE ~t.grant
      <4>1. t.role \in sync[q].revoke /\ roles'[w] = roles[w] \ {t.role}
        BY <1>4, <3>2, <3>6
      <4> QED
        BY <2>1, <2>2, <2>4, <3>4, <4>1 DEF PlannedBy
    <3> QED
      BY <3>5, <3>6
  <2> QED
    BY <2>3, <2>4
<1>13. GrantsAreHarmless'
  <2> SUFFICES ASSUME NEW i \in DOMAIN pool', pool'[i].of \notin contested
               PROVE  Harmless(pool[i])'
    BY <1>1 DEF GrantsAreHarmless
  <2>1. i + 1 \in DOMAIN pool /\ i + 1 # 1 /\ pool'[i] = pool[i + 1]
    BY <1>2
  <2>2. pool[i + 1].of \in Wallet /\ pool[i + 1].of # w /\ Harmless(pool[i + 1])
    BY <1>2, <2>1, PoolFacts DEF IInv, SyncInv, Alone, AloneOn, GrantsAreHarmless, t, w
  <2> QED
    BY <1>4, <2>1, <2>2 DEF Harmless
<1>14. NoMixedPower'
  <2>1. w \notin contested => Unmixed(roles'[w])
    <3> SUFFICES ASSUME w \notin contested PROVE Unmixed(roles'[w])
      OBVIOUS
    <3>1. Harmless(t) /\ Unmixed(roles[w])
      BY <1>2, <1>3 DEF IInv, SyncInv, GrantsAreHarmless, NoMixedPower, t, w
    <3> QED
      BY <1>4, <3>1 DEF Harmless, Unmixed, w
  <2> QED
    BY <1>1, <1>4, <2>1 DEF IInv, SyncInv, NoMixedPower, Unmixed
<1>15. AnAdminRemains' /\ TargetsRegistered' /\ AskedOnce'
  <2>1. \A h \in Requester : h \in Process
    BY DEF Process
  <2> QED
    BY <1>1, <1>7, <2>1, RegistryUntouched, StillAskedOnce
<1> QED
  BY <1>8, <1>9, <1>10, <1>11, <1>12, <1>13, <1>14, <1>15 DEF IInv, SyncInv

(* A pass goes on or ends. *)
LEMMA PassAfterKeeps ==
  ASSUME TypeOK, NEW p \in Process, NEW ok, PassAfter(p, ok)
  PROVE  pass' \in [Reconciler -> Passes \union {NoPass}]
BY DEF PassAfter, TypeOK

(* A wallet that is verified alone is not contested any more. *)
LEMMA VerifyKeeps ==
  ASSUME IInv, NEW p \in Process, Verify(p)
  PROVE  IInv'
<1> DEFINE w == sync[p].of
           ok == roles[w] = sync[p].want
<1>1. /\ Syncing(p) /\ Unsent(sync[p]) = {}
      /\ sync' = [sync EXCEPT ![p] = NoSync] /\ PassAfter(p, ok)
      /\ contested' = IF ok /\ ~Contest(p, w) THEN contested \ {w} ELSE contested
      /\ UNCHANGED <<identity, roles, holders, pool, job, events, outranked>>
  BY DEF Verify, chain
<1>2. Unmixed(sync[p].want)
  BY <1>1 DEF IInv, SyncInv, WantsUnmixed
<1>3. \A v \in contested \ contested' : Unmixed(roles[v]) /\ ~Contest(p, v)
  BY <1>1, <1>2
<1>4. \A i \in DOMAIN pool : pool[i].by # p
  BY <1>1, NotWaiting
<1>5. pass' \in [Reconciler -> Passes \union {NoPass}]
  BY <1>1, PassAfterKeeps DEF IInv
<1> HIDE DEF w, ok
<1>6. TypeOK'
  BY <1>1, <1>5 DEF IInv, TypeOK
<1>7. SyncInv'
  BY <1>1, <1>3, <1>4, OneSyncEnds
<1>8. AskedOnce'
  <2>1. \A h \in Requester : Syncing(h)' => Syncing(h)
    BY <1>1 DEF IInv, TypeOK, Syncing, Process
  <2> QED
    BY <1>1, <2>1, StillAskedOnce
<1> QED
  BY <1>1, <1>6, <1>7, <1>8, RegistryUntouched DEF IInv

(* A failed synchronisation leaves its last transaction behind. *)
LEMMA SyncFailsKeeps ==
  ASSUME IInv, NEW p \in Process, SyncFails(p)
  PROVE  IInv'
<1>1. /\ sync' = [sync EXCEPT ![p] = NoSync] /\ PassAfter(p, FALSE)
      /\ pool' = Abandoned({p})
      /\ events < MaxEvents /\ events' = events + 1
      /\ UNCHANGED <<identity, roles, holders, job, outranked, contested>>
  BY DEF SyncFails
<1>2. events' \in 0..MaxEvents
  BY <1>1 DEF IInv, TypeOK
<1>3. pass' \in [Reconciler -> Passes \union {NoPass}]
  BY <1>1, PassAfterKeeps DEF IInv
<1>4. /\ pool' \in Seq(Transactions) /\ DOMAIN pool' = DOMAIN pool
      /\ \A i \in DOMAIN pool :
           /\ pool'[i].of = pool[i].of /\ pool'[i].role = pool[i].role
           /\ pool'[i].grant = pool[i].grant
           /\ pool'[i].by = IF pool[i].by = p THEN None ELSE pool[i].by
  BY <1>1, AbandonedFacts DEF IInv
<1>5. TypeOK'
  BY <1>1, <1>2, <1>3, <1>4 DEF IInv, TypeOK
<1>6. SyncInv'
  BY <1>1, <1>4, OneSyncEnds
<1>7. AskedOnce'
  <2>1. \A h \in Requester : Syncing(h)' => Syncing(h)
    BY <1>1 DEF IInv, TypeOK, Syncing, Process
  <2> QED
    BY <1>1, <2>1, StillAskedOnce
<1> QED
  BY <1>1, <1>5, <1>6, <1>7, RegistryUntouched DEF IInv

-----------------------------------------------------------------------------
(* Requests. *)

(* Only an authorised request is taken up. *)
LEMMA AuthoriseKeeps ==
  ASSUME IInv, NEW h \in Requester, NEW op \in Ops, NEW by \in Wallet, NEW of \in Wallet,
         NEW new \in Roles, Authorise(h, op, by, of, new)
  PROVE  IInv'
<1> DEFINE j == [op |-> op, by |-> by, of |-> of, new |-> new,
                 saw |-> identity[of].role, written |-> FALSE]
<1>1. /\ job' = [job EXCEPT ![h] = j]
      /\ events < MaxEvents /\ events' = events + 1 /\ ~Syncing(h)
      /\ UNCHANGED <<identity, roles, holders, pool, sync, pass, outranked, contested>>
  BY DEF Authorise, Free, chain
<1>2. identity[of].role \in Roles
  BY LevelFacts DEF IInv, TypeOK, Registry, Identity, Unregistered
<1>3. j \in Request
  BY <1>2 DEF Request
<1> HIDE DEF j
<1>4. events' \in 0..MaxEvents
  BY <1>1 DEF IInv, TypeOK
<1>5. TypeOK'
  BY <1>1, <1>3, <1>4 DEF IInv, TypeOK
<1>6. op = "role" => Registered(of)
  BY DEF Authorise, Allowed, MayChangeRole
<1>7. TargetsRegistered'
  <2>1. j.op = op /\ j.of = of
    BY DEF j
  <2>2. \A g \in Requester : job'[g] = IF g = h THEN j ELSE job[g]
    BY <1>1 DEF IInv, TypeOK
  <2> QED
    BY <1>1, <1>6, <2>1, <2>2 DEF IInv, TargetsRegistered, Registered
<1>8. AskedOnce'
  BY <1>1 DEF IInv, TypeOK, AskedOnce, Syncing
<1> QED
  BY <1>1, <1>5, <1>7, <1>8, SyncUntouched, RegistryUntouched DEF IInv

(* The same for each of the requests. *)
LEMMA BeginKeeps ==
  ASSUME IInv, NEW h \in Requester, Begin(h)
  PROVE  IInv'
<1>1. PICK by \in Wallet, of \in Wallet :
        \/ \E new \in Given, op \in {"provision", "role"} : Authorise(h, op, by, of, new)
        \/ Authorise(h, "revoke", by, of, "USER")
  BY DEF Begin
<1>2. Given \in SUBSET Roles /\ "USER" \in Roles /\ {"provision", "role", "revoke"} \subseteq Ops
  BY LevelFacts DEF Ops
<1>3. ASSUME NEW new \in Given, NEW op \in {"provision", "role"},
             Authorise(h, op, by, of, new)
      PROVE  IInv'
  BY <1>2, <1>3, AuthoriseKeeps
<1>4. ASSUME Authorise(h, "revoke", by, of, "USER") PROVE IInv'
  BY <1>2, <1>4, AuthoriseKeeps
<1> QED
  BY <1>1, <1>3, <1>4

(* A commit keeps the types; an Admin has to be shown to remain.           *)
LEMMA WrittenKeeps ==
  ASSUME IInv, NEW h \in Requester, job[h] # NoRequest,
         NEW id \in Identity, Written(h, id),
         AnAdminRemains'
  PROVE  IInv'
<1>1. /\ identity' = [identity EXCEPT ![job[h].of] = id]
      /\ job' = [job EXCEPT ![h].written = TRUE]
      /\ outranked' = (outranked \/ ~Allowed(job[h]))
      /\ UNCHANGED <<roles, holders, pool, sync, pass, events, contested>>
  BY DEF Written, chain
<1>2. job[h] \in Request
  BY DEF IInv, TypeOK
<1>3. job' \in [Requester -> Request \union {NoRequest}]
  BY <1>1, <1>2 DEF IInv, TypeOK, Request
<1>4. identity' \in Registry
  BY <1>1 DEF IInv, TypeOK, Registry
<1>5. outranked' \in BOOLEAN
  BY <1>1 DEF IInv, TypeOK
<1>6. TypeOK'
  BY <1>1, <1>3, <1>4, <1>5 DEF IInv, TypeOK
<1>7. TargetsRegistered'
  <2>1. \A w \in Wallet : Registered(w) => Registered(w)'
    BY <1>1 DEF IInv, TypeOK, Registry, Registered, Identity, Unregistered
  <2>2. \A g \in Requester : job'[g] # NoRequest =>
          job[g] # NoRequest /\ job'[g].op = job[g].op /\ job'[g].of = job[g].of
    BY <1>1, <1>2 DEF IInv, TypeOK, Request
  <2>3. \A g \in Requester : job[g] # NoRequest => job[g].of \in Wallet
    BY DEF IInv, TypeOK, Request
  <2> QED
    BY <2>1, <2>2, <2>3 DEF IInv, TargetsRegistered
<1>8. AskedOnce'
  BY <1>1, StillAskedOnce DEF IInv, TypeOK, Syncing
<1> QED
  BY <1>1, <1>6, <1>7, <1>8, SyncUntouched DEF IInv

(* An Admin other than the identity that is written remains. *)
LEMMA AnotherAdmin ==
  ASSUME IInv, NEW h \in Requester, job[h] # NoRequest,
         NEW id \in Identity, Written(h, id),
         ~outranked' =>
           \E w \in Wallet : /\ identity[w] = [role |-> "ADMIN", state |-> "active"]
                             /\ w # job[h].of \/ id = identity[w]
  PROVE  IInv'
<1>1. identity' = [identity EXCEPT ![job[h].of] = id]
  BY DEF Written
<1>2. \A w \in Wallet : identity'[w] = IF w = job[h].of THEN id ELSE identity[w]
  BY <1>1 DEF IInv, TypeOK, Registry
<1>3. ASSUME ~outranked'
      PROVE  \E w \in Wallet : identity'[w] = [role |-> "ADMIN", state |-> "active"]
  <2>1. PICK w \in Wallet : /\ identity[w] = [role |-> "ADMIN", state |-> "active"]
                            /\ w # job[h].of \/ id = identity[w]
    BY <1>3
  <2>2. identity'[w] = identity[w]
    BY <1>2, <2>1
  <2> QED
    BY <2>1, <2>2
<1>4. AnAdminRemains'
  BY <1>3 DEF AnAdminRemains
<1> QED
  BY <1>4, WrittenKeeps

(* A request that may still be made on an Admin is made by another one.    *)
LEMMA AllowedFacts ==
  ASSUME IInv, NEW h \in Requester, job[h] # NoRequest, ~job[h].written,
         job[h].op \in {"role", "revoke"}, NEW id, Written(h, id)
  PROVE  ~outranked' =>
           \E w \in Wallet : /\ identity[w] = [role |-> "ADMIN", state |-> "active"]
                             /\ w # job[h].of
<1> DEFINE j == job[h]
<1> SUFFICES ASSUME ~outranked'
             PROVE  \E w \in Wallet : /\ identity[w] = [role |-> "ADMIN", state |-> "active"]
                                      /\ w # j.of
  OBVIOUS
<1>1. ~outranked /\ Allowed(j)
  BY DEF Written, IInv, TypeOK
<1>2. j \in Request
  BY DEF IInv, TypeOK
<1>3. PICK a \in Wallet : identity[a] = [role |-> "ADMIN", state |-> "active"]
  BY <1>1 DEF IInv, AnAdminRemains
<1>4. j.op = "role" \/ j.op = "revoke"
  OBVIOUS
<1>5. /\ Active(j.by)
      /\ j.of # j.by /\ Outranks(j.by, j.of)
      /\ identity[j.by].role \in {"ADMIN", "MANAGER"}
  BY <1>1, <1>4 DEF Allowed, MayChangeRole, MayRevoke
<1>6. j.by \in Wallet /\ j.of \in Wallet
  BY <1>2 DEF Request
<1>7. CASE a # j.of
  BY <1>3, <1>7
<1>8. CASE a = j.of
  <2>1. Rank(j.of) = 3
    BY <1>3, <1>8, LevelFacts DEF Rank
  <2>2. identity[j.by].role = "ADMIN"
    <3>1. identity[j.by].role = "MANAGER" => Rank(j.by) = 2
      BY LevelFacts DEF Rank
    <3> QED
      BY <1>5, <2>1, <3>1 DEF Outranks
  <2>3. identity[j.by] = [role |-> "ADMIN", state |-> "active"]
    BY <1>5, <1>6, <2>2 DEF IInv, TypeOK, Registry, Identity, Unregistered, Active
  <2> QED
    BY <1>5, <1>6, <2>3
<1> QED
  BY <1>7, <1>8

(* Nobody is an Admin before being provisioned. *)
LEMMA ProvisionKeeps ==
  ASSUME IInv, NEW h \in Requester, Provision(h)
  PROVE  IInv'
<1> DEFINE id == [role |-> job[h].new, state |-> "active"]
<1>1. /\ job[h] # NoRequest /\ Written(h, id) /\ ~Registered(job[h].of)
  BY DEF Provision, Writing
<1>2. id \in Identity
  BY <1>1 DEF IInv, TypeOK, Request, Identity
<1>3. ~outranked' => ~outranked
  BY <1>1 DEF Written, IInv, TypeOK
<1>4. identity[job[h].of].state # "active"
  BY <1>1 DEF Registered, Unregistered
<1>5. ~outranked' =>
        \E w \in Wallet : /\ identity[w] = [role |-> "ADMIN", state |-> "active"]
                          /\ w # job[h].of
  BY <1>3, <1>4 DEF IInv, AnAdminRemains
<1> QED
  BY <1>1, <1>2, <1>5, AnotherAdmin

(* A wallet that is registered meanwhile is left alone. *)
LEMMA ProvisionRefusedKeeps ==
  ASSUME IInv, NEW h \in Requester, ProvisionRefused(h)
  PROVE  IInv'
<1>1. /\ job' = [job EXCEPT ![h] = NoRequest]
      /\ UNCHANGED <<identity, roles, holders, pool, sync, pass, events, outranked, contested>>
  BY DEF ProvisionRefused, chain
<1>2. TypeOK' /\ AskedOnce'
  BY <1>1, StillAskedOnce DEF IInv, TypeOK, Syncing
<1> QED
  BY <1>1, <1>2, SyncUntouched, RegistryUntouched DEF IInv

(* The role that is written is that of another identity. *)
LEMMA ChangeRoleKeeps ==
  ASSUME IInv, NEW h \in Requester, ChangeRole(h)
  PROVE  IInv'
<1> DEFINE old == identity[job[h].of]
           id == IF job[h].new = job[h].saw THEN old ELSE [old EXCEPT !.role = job[h].new]
<1>1. /\ job[h] # NoRequest /\ ~job[h].written /\ job[h].op = "role" /\ Written(h, id)
  BY DEF ChangeRole, Writing
<1>2. ~outranked' =>
        \E w \in Wallet : /\ identity[w] = [role |-> "ADMIN", state |-> "active"]
                          /\ w # job[h].of
  BY <1>1, AllowedFacts
<1>3. job[h] \in Request /\ Registered(job[h].of)
  BY <1>1 DEF IInv, TypeOK, TargetsRegistered
<1>4. old \in Identity
  BY <1>3 DEF IInv, TypeOK, Registry, Request, Registered
<1>5. id \in Identity
  BY <1>3, <1>4 DEF Request, Identity
<1> QED
  BY <1>1, <1>2, <1>5, AnotherAdmin

(* So is the identity that is revoked. *)
LEMMA RevokeKeeps ==
  ASSUME IInv, NEW h \in Requester, Revoke(h)
  PROVE  IInv'
<1> DEFINE old == identity[job[h].of]
           id == [old EXCEPT !.state = "revoked"]
<1>1. /\ job[h] # NoRequest /\ ~job[h].written /\ job[h].op = "revoke" /\ Written(h, id)
  BY DEF Revoke, Writing
<1>2. ~outranked' =>
        \E w \in Wallet : /\ identity[w] = [role |-> "ADMIN", state |-> "active"]
                          /\ w # job[h].of
  BY <1>1, AllowedFacts
<1>3. old \in Identity \union {Unregistered}
  BY <1>1 DEF IInv, TypeOK, Registry, Request
<1>4. id \in Identity
  BY <1>3, LevelFacts DEF Identity, Unregistered
<1> QED
  BY <1>1, <1>2, <1>4, AnotherAdmin

(* The identity is refreshed for the synchronisation. *)
LEMMA AskSyncKeeps ==
  ASSUME IInv, NEW h \in Requester, AskSync(h)
  PROVE  IInv'
<1> DEFINE new == Asked(job[h].of, identity[job[h].of])
<1>1. /\ job[h] # NoRequest
      /\ sync' = [sync EXCEPT ![h] = new] /\ job' = [job EXCEPT ![h] = NoRequest]
      /\ UNCHANGED <<identity, roles, holders, pool, pass, events, outranked, contested>>
  BY DEF AskSync, chain
<1>2. job[h].of \in Wallet
  BY <1>1 DEF IInv, TypeOK, Request
<1>3. identity[job[h].of] \in Identity \union {Unregistered}
  BY <1>2 DEF IInv, TypeOK, Registry
<1>4. new \in Syncs /\ ~new.read /\ Unmixed(new.want)
  BY <1>2, <1>3, AskedFacts DEF IInv
<1>5. h \in Process
  BY DEF Process
<1> HIDE DEF new
<1>6. TypeOK'
  BY <1>1, <1>4 DEF IInv, TypeOK
<1>7. SyncInv'
  <2>1. ~Planning(h)
    BY <1>1 DEF IInv, AskedOnce, Planning
  <2>2. \A i \in DOMAIN pool : pool[i].by # h
    BY <1>5, <2>1, NotWaiting
  <2> QED
    BY <1>1, <1>4, <1>5, <2>2, OneSyncEnds
<1>8. TargetsRegistered' /\ AnAdminRemains' /\ AskedOnce'
  <2>1. \A g \in Requester : job'[g] = IF g = h THEN NoRequest ELSE job[g]
    BY <1>1 DEF IInv, TypeOK
  <2>2. \A g \in Requester : g # h => sync'[g] = sync[g]
    BY <1>1 DEF IInv, TypeOK, Process
  <2>3. AskedOnce'
    BY <2>1, <2>2 DEF IInv, AskedOnce, Syncing
  <2> QED
    BY <1>1, <2>1, <2>3, RegistryUntouched
<1> QED
  BY <1>6, <1>7, <1>8 DEF IInv

(* A step of a request that was taken up. *)
LEMMA ServeKeeps ==
  ASSUME IInv, NEW h \in Requester, Serve(h)
  PROVE  IInv'
BY ProvisionKeeps, ProvisionRefusedKeeps, ChangeRoleKeeps, RevokeKeeps, AskSyncKeeps
   DEF Serve

-----------------------------------------------------------------------------
(* The reconciler. *)

(* A pass starts from a copy of the registry. *)
LEMMA StartPassKeeps ==
  ASSUME IInv, NEW r \in Reconciler, StartPass(r)
  PROVE  IInv'
<1> DEFINE new == [known |-> identity, stage |-> "users",
                   left |-> {w \in Wallet : Registered(w)}]
<1>1. /\ pass' = [pass EXCEPT ![r] = new]
      /\ UNCHANGED <<identity, roles, holders, pool, job, sync, events, outranked, contested>>
  BY DEF StartPass, chain
<1>2. new \in Passes
  BY DEF IInv, TypeOK, Passes
<1> HIDE DEF new
<1>3. TypeOK' /\ AskedOnce'
  BY <1>1, <1>2, StillAskedOnce DEF IInv, TypeOK, Syncing
<1> QED
  BY <1>1, <1>3, SyncUntouched, RegistryUntouched DEF IInv

(* The sweep is about wallets. *)
LEMMA StartSweepKeeps ==
  ASSUME IInv, NEW r \in Reconciler, StartSweep(r)
  PROVE  IInv'
<1>1. /\ pass[r].stage = "users"
      /\ pass' = [pass EXCEPT ![r] = IF Orphans(r) = {} THEN NoPass
                   ELSE [@ EXCEPT !.left = Orphans(r), !.stage = "orphans"]]
      /\ UNCHANGED <<identity, roles, holders, pool, job, sync, events, outranked, contested>>
  BY DEF StartSweep, Passing, chain
<1>2. pass[r] \in Passes
  BY <1>1 DEF IInv, TypeOK, NoPass
<1>3. [pass[r] EXCEPT !.left = Orphans(r), !.stage = "orphans"] \in Passes
  BY <1>2 DEF Passes, Orphans, IInv, TypeOK
<1>4. TypeOK' /\ AskedOnce'
  BY <1>1, <1>3, StillAskedOnce DEF IInv, TypeOK, Syncing
<1> QED
  BY <1>1, <1>4, SyncUntouched, RegistryUntouched DEF IInv

(* The wallet chosen is registered in the copy, or an orphan.              *)
LEMMA SyncNextKeeps ==
  ASSUME IInv, NEW r \in Reconciler, pass[r] \in Passes, pass[r].left # {},
         ~Syncing(r), NEW id \in Identity \union {Unregistered}, SyncNext(r, id)
  PROVE  IInv'
<1> DEFINE s == Asked(Chosen(r), id)
<1>1. /\ Reads(r, s)
      /\ pass' = [pass EXCEPT ![r].left = @ \ {Chosen(r)}]
      /\ UNCHANGED <<identity, roles, holders, pool, job, events, outranked>>
  BY DEF SyncNext, chain
<1>2. Chosen(r) \in Wallet
  BY DEF Chosen, Passes
<1>3. s \in Syncs /\ Unmixed(s.want)
  BY <1>2, AskedFacts DEF IInv
<1>4. r \in Process /\ r \notin Requester /\ Requester \subseteq Process /\ ~Planning(r)
  BY DEF Process, Planning
<1> HIDE DEF s
<1>5. /\ SyncInv' /\ contested' \in SUBSET Wallet
      /\ sync' \in [Process -> Syncs \union {NoSync}]
      /\ \A q \in Process \ {r} : sync'[q] = sync[q]
  BY <1>1, <1>3, <1>4, ReadsKeeps
<1>6. pass' \in [Reconciler -> Passes \union {NoPass}]
  BY <1>1 DEF IInv, TypeOK, Passes
<1>7. TypeOK'
  BY <1>1, <1>5, <1>6 DEF IInv, TypeOK
<1>8. AskedOnce'
  BY <1>1, <1>4, <1>5, StillAskedOnce DEF Syncing
<1> QED
  BY <1>1, <1>5, <1>7, <1>8, RegistryUntouched DEF IInv

(* A step of the reconciler. *)
LEMMA ReconcileKeeps ==
  ASSUME IInv, NEW r \in Reconciler, Reconcile(r)
  PROVE  IInv'
<1>1. CASE NextUser(r)
  <2>1. /\ pass[r].stage = "users" /\ pass[r].left # {} /\ ~Syncing(r)
        /\ SyncNext(r, pass[r].known[Chosen(r)])
    BY <1>1 DEF NextUser, Passing
  <2>2. pass[r] \in Passes
    BY <2>1 DEF IInv, TypeOK, NoPass
  <2>3. Chosen(r) \in Wallet
    BY <2>1, <2>2 DEF Chosen, Passes
  <2>4. pass[r].known[Chosen(r)] \in Identity \union {Unregistered}
    BY <2>2, <2>3 DEF Passes, Registry
  <2> QED
    BY <2>1, <2>2, <2>4, SyncNextKeeps
<1>2. CASE NextOrphan(r)
  <2>1. /\ pass[r].stage = "orphans" /\ pass[r].left # {} /\ ~Syncing(r)
        /\ SyncNext(r, Unregistered)
    BY <1>2 DEF NextOrphan, Passing
  <2>2. pass[r] \in Passes
    BY <2>1 DEF IInv, TypeOK, NoPass
  <2> QED
    BY <2>1, <2>2, SyncNextKeeps
<1> QED
  BY <1>1, <1>2, StartPassKeeps, StartSweepKeeps DEF Reconcile

(* A crash forgets what was being done, and leaves the transactions. *)
LEMMA CrashKeeps ==
  ASSUME IInv, Crash
  PROVE  IInv'
<1>1. /\ events < MaxEvents /\ events' = events + 1
      /\ job' = [h \in Requester |-> NoRequest] /\ sync' = [p \in Process |-> NoSync]
      /\ pass' = [r \in Reconciler |-> NoPass] /\ pool' = Abandoned(Process)
      /\ UNCHANGED <<identity, roles, holders, outranked, contested>>
  BY DEF Crash
<1>2. events' \in 0..MaxEvents
  BY <1>1 DEF IInv, TypeOK
<1>3. /\ pool' \in Seq(Transactions) /\ DOMAIN pool' = DOMAIN pool
      /\ \A i \in DOMAIN pool :
           /\ pool'[i].of = pool[i].of /\ pool'[i].role = pool[i].role
           /\ pool'[i].grant = pool[i].grant /\ pool'[i].by = None
  BY <1>1, AbandonedFacts, PoolFacts DEF IInv
<1>4. TypeOK'
  BY <1>1, <1>2, <1>3 DEF IInv, TypeOK
<1>5. \A p \in Process : ~Syncing(p)' /\ ~Planning(p)'
  BY <1>1 DEF Planning, Syncing
<1>6. WantsUnmixed' /\ Awaited' /\ Planned'
  BY <1>3, <1>5 DEF WantsUnmixed, Awaited, Planned
<1>7. Alone'
  BY <1>1, <1>3, <1>5 DEF IInv, SyncInv, Alone, AloneOn
<1>8. GrantsAreHarmless' /\ NoMixedPower'
  BY <1>1, <1>3 DEF IInv, SyncInv, GrantsAreHarmless, Harmless, NoMixedPower, Unmixed
<1>9. AnAdminRemains' /\ TargetsRegistered' /\ AskedOnce'
  BY <1>1, RegistryUntouched DEF AskedOnce
<1> QED
  BY <1>4, <1>6, <1>7, <1>8, <1>9 DEF IInv, SyncInv

-----------------------------------------------------------------------------
(* The theorems. *)

(* The invariant is inductive: requests, synchronisations, the reconciler, *)
(* failed calls, late transactions and crashes all keep it.                *)
LEMMA StepInvariant == IInv /\ [Next]_vars => IInv'
<1> SUFFICES ASSUME IInv, [Next]_vars PROVE IInv'
  OBVIOUS
<1>1. ASSUME NEW h \in Requester, Begin(h) \/ Serve(h) PROVE IInv'
  BY <1>1, BeginKeeps, ServeKeeps
<1>2. ASSUME NEW r \in Reconciler, Reconcile(r) PROVE IInv'
  BY <1>2, ReconcileKeeps
<1>3. ASSUME NEW p \in Process, Sync(p) \/ SyncFails(p) PROVE IInv'
  BY <1>3, ReadRolesKeeps, SendKeeps, VerifyKeeps, SyncFailsKeeps DEF Sync
<1>4. CASE UNCHANGED vars
  <2>1. TypeOK' /\ AskedOnce'
    BY <1>4, StillAskedOnce DEF vars, chain, IInv, TypeOK, Syncing
  <2> QED
    BY <1>4, <2>1, SyncUntouched, RegistryUntouched DEF vars, chain, IInv
<1> QED
  BY <1>1, <1>2, <1>3, <1>4, MineKeeps, CrashKeeps DEF Next

(* The registry, the requests and the synchronisations keep their types    *)
(* and the parts of the inductive invariant.                               *)
THEOREM InvariantHolds == Spec => []IInv
<1> QED
  BY InitInvariant, StepInvariant, PTL DEF Spec

(* Revoking before granting (chain.py, RoleSync.sync) keeps the roles of   *)
(* two kinds of people apart on every wallet that is not contested, at     *)
(* every moment of a change, though its last transaction be mined after    *)
(* the wait for it failed.                                                 *)
THEOREM NoWindowOfExtraPower == Spec => []NoMixedPower
<1>1. IInv => NoMixedPower
  BY DEF IInv, SyncInv
<1> QED
  BY InvariantHolds, <1>1, PTL

(* The hierarchy of update_user_role and revoke_identity leaves an active  *)
(* Admin whatever Admins and Managers do to each other, one after another. *)
THEOREM RegistryStaysAdministered == Spec => []AnAdminRemains
<1>1. IInv => AnAdminRemains
  BY DEF IInv
<1> QED
  BY InvariantHolds, <1>1, PTL
=============================================================================
