------------------------------ MODULE Sessions ------------------------------
(***************************************************************************)
(* The sessions of one account: provisioning with a wallet signature and a *)
(* one-time PIN, sign-in, the mandatory login set-up, the checks made on   *)
(* every request, sign-out and the administrator's login reset             *)
(* (src/backend/app/api/auth.py, api/dependencies.py, services/mfa.py,     *)
(* services/identity.py, api/users.py).                                    *)
(*                                                                         *)
(* A session carries the session_version it was issued with and is valid   *)
(* while that is the account's.  A handler selects the users row once and  *)
(* works on that copy; SQLAlchemy then writes, by primary key, only the    *)
(* attributes whose value differs from the one it read.                    *)
(***************************************************************************)
EXTENDS AccountRequests

CONSTANTS
  Session,       \* sessions that can be issued
  Pin,           \* provisioning PINs
  NoPin

ASSUME PinAssumption == NoPin \notin Pin

VARIABLES
  user,          \* the account's users row, as committed
  passkey,       \* an active login passkey exists
  issued,        \* the sessions handed out: version and scope of each
  work,          \* what each worker is doing and the row it read
  ended,         \* history: sessions issued before the last sign-in or end
  given, latest, \* history: PINs handed out, the last of them
  provisioned    \* history: how often each PIN provisioned a wallet

sessionVars == <<user, passkey, issued, work, ended, given, latest, provisioned,
                 crossed>>
pins == <<given, latest, provisioned>>

-----------------------------------------------------------------------------
(* Types and derived state. *)

Versions == 0..MaxVersion
Scopes == {"setup", "full"}

Users == [version  : Versions,         \* session_version
          secret   : BOOLEAN,          \* totp_secret is set
          totp     : BOOLEAN,          \* is_totp_enabled
          pin      : Pin \union {NoPin},   \* pin_hash
          pinUsed  : BOOLEAN,
          wallet   : Pin \union {NoPin},   \* wallet_wrap_secret: set with a PIN
          pending  : BOOLEAN,          \* onboarding_pending
          reset    : BOOLEAN,          \* reset_requested
          active   : BOOLEAN]          \* is_active, not revoked

NotIssued == [version |-> 0, scope |-> "none"]
Issues == [version : Versions, scope : Scopes \union {"none"}]

Handlings == {"idle", "provision", "signin", "setup", "enrol", "register", "complete",
        "expire", "logout", "request", "approve", "role", "revoke"}
Jobs == [op : Handlings, read : Users, pin : Pin \union {NoPin}]

(* A new person as the administrator provisions one, with an open PIN. *)
NewUser(p) ==
  [version |-> 0, secret |-> FALSE, totp |-> FALSE, pin |-> p,
   pinUsed |-> FALSE, wallet |-> NoPin, pending |-> TRUE,
   reset |-> FALSE, active |-> TRUE]

(* A person whose login set-up is complete, signed out. *)
OnboardedUser(p) ==
  [NewUser(NoPin) EXCEPT !.secret = TRUE, !.totp = TRUE, !.pinUsed = TRUE,
                         !.wallet = p, !.pending = FALSE]

NoWork == [op |-> "idle", read |-> NewUser(NoPin), pin |-> NoPin]

SessionTypeOK ==
  /\ user \in Users
  /\ passkey \in BOOLEAN
  /\ issued \in [Session -> Issues]
  /\ work \in [Worker -> Jobs]
  /\ ended \in SUBSET Session
  /\ given \in SUBSET Pin /\ latest \in Pin
  /\ provisioned \in [Pin -> Nat]
  /\ crossed \in BOOLEAN

Issued == {s \in Session : issued[s] # NotIssued}

(* The session cookies _authenticate accepts. *)
Accepted(s) ==
  /\ s \in Issued
  /\ user.active
  /\ issued[s].version = user.version

SessionInit ==
  \E p \in Pin :
    /\ \/ user = NewUser(p) /\ passkey = FALSE /\ provisioned = [q \in Pin |-> 0]
       \/ /\ user = OnboardedUser(p) /\ passkey = TRUE
          /\ provisioned = [q \in Pin |-> IF q = p THEN 1 ELSE 0]
    /\ issued = [s \in Session |-> NotIssued]
    /\ work = [w \in Worker |-> NoWork]
    /\ ended = {}
    /\ given = {p} /\ latest = p
    /\ crossed = FALSE

-----------------------------------------------------------------------------
(* Handlers: the row is selected in one step and written in another. *)

Serving(w, op) == work[w].op = op
Done(w) == work' = [work EXCEPT ![w] = NoWork]

ReadUser(w, op) ==
  /\ Serving(w, "idle")
  /\ crossed => AfterCrossing
  /\ work' = [work EXCEPT ![w] = [op |-> op, read |-> user, pin |-> NoPin]]
  /\ UNCHANGED <<user, passkey, issued, pins, ended, crossed>>

(* The row after a flush of new: attributes the handler left as it read    *)
(* them are not in the UPDATE.                                             *)
Flushed(w, new) ==
  [f \in DOMAIN user |-> IF new[f] = work[w].read[f] THEN user[f] ELSE new[f]]

Bumped(row) == [row EXCEPT !.version = @ + 1]
CanBump(row) == row.version < MaxVersion

(* Another handler ended the sessions, or changed the login authenticator, *)
(* since this one read the row.                                            *)
Stale(w) ==
  \E f \in {"version", "secret", "totp"} : work[w].read[f] # user[f]
Note(w) == crossed' = (crossed \/ Stale(w))

(* A mistake: the passkey is forgotten. *)
CompleteWithTotp(row) == row.totp

(* login_setup_complete, on the handler's copy of the row. *)
Complete(row) == row.totp /\ passkey

(* _issue_session: the new session replaces every one issued before. *)
Issue(w, row) ==
  \E s \in Session \ Issued :
    LET complete == Complete(row)
        new == [Bumped(row) EXCEPT !.pending = ~complete]
    IN /\ CanBump(row)
       /\ user' = Flushed(w, new)
       /\ issued' = [issued EXCEPT ![s] =
            [version |-> new.version, scope |-> IF complete THEN "full" ELSE "setup"]]
       /\ ended' = Issued

(* A commit that ends the sessions of the account. *)
End(w, new) ==
  /\ CanBump(work[w].read)
  /\ user' = Flushed(w, new)
  /\ ended' = Issued
  /\ UNCHANGED issued

-----------------------------------------------------------------------------
(* Provisioning. *)

(* provision_wallet up to the PIN checks; its expiry only refuses. *)
ReadForProvision(w, p) ==
  /\ Serving(w, "idle")
  /\ crossed => AfterCrossing
  /\ user.active
  /\ user.pin = p /\ ~user.pinUsed
  /\ work' = [work EXCEPT ![w] = [NoWork EXCEPT !.op = "provision", !.pin = p]]
  /\ UNCHANGED <<user, passkey, issued, pins, ended, crossed>>

(* A mistake: the PIN as it was read decides. *)
PinAsRead(w) == TRUE

(* The single-use consumption: one UPDATE of the row as it is now. *)
PinConsumable(w) == ~user.pinUsed /\ user.pin = work[w].pin

(* provision_wallet: the UPDATE locks the row, which is read again. *)
ProvisionWallet(w) ==
  LET p == work[w].pin
      row == [user EXCEPT !.pinUsed = TRUE, !.pin = NoPin]
      complete == Complete(row)
  IN /\ Serving(w, "provision")
     /\ PinConsumable(w)
     /\ CanBump(row)
     /\ \E s \in Session \ Issued :
          /\ user' = [Bumped(row) EXCEPT !.wallet = p, !.pending = ~complete]
          /\ issued' = [issued EXCEPT ![s] =
               [version |-> user.version + 1,
                scope |-> IF complete THEN "full" ELSE "setup"]]
          /\ ended' = Issued
     /\ provisioned' = [provisioned EXCEPT ![p] = @ + 1]
     /\ Done(w)
     /\ UNCHANGED <<passkey, given, latest, crossed>>

ProvisionWalletRefused(w) ==
  /\ Serving(w, "provision")
  /\ ~PinConsumable(w)
  /\ Done(w)
  /\ UNCHANGED <<user, passkey, issued, pins, ended, crossed>>

-----------------------------------------------------------------------------
(* Sign-in and the login set-up. *)

(* login_with_totp, login_with_passkey: the factor is verified. *)
ReadForSignIn(w) ==
  /\ user.active
  /\ (user.totp /\ user.secret) \/ passkey
  /\ ReadUser(w, "signin")

SignIn(w) ==
  /\ Serving(w, "signin") \/ Serving(w, "complete")
  /\ Issue(w, work[w].read)
  /\ Note(w)
  /\ Done(w)
  /\ UNCHANGED <<passkey, pins>>

(* _authenticate, get_setup_user: requests that a set-up session may make. *)
ReadForSetup(w, s, op) ==
  /\ Accepted(s)
  /\ \/ op = "setup" /\ ~user.totp
     \/ op = "enrol" /\ user.secret /\ ~user.totp
     \/ op = "register" /\ ~(user.pending /\ passkey)
     \/ op = "logout"
  /\ ReadUser(w, op)

(* _totp_setup *)
TotpSetup(w) ==
  /\ Serving(w, "setup")
  /\ user' = [Flushed(w, [work[w].read EXCEPT !.totp = FALSE]) EXCEPT !.secret = TRUE]
  /\ Note(w)
  /\ Done(w)
  /\ UNCHANGED <<passkey, issued, pins, ended>>

(* After its own commit, the handler goes on to _issue_session when the    *)
(* set-up was pending and is now complete.                                 *)
AndComplete(w, row, key) ==
  IF row.pending /\ row.totp /\ key
  THEN work' = [work EXCEPT ![w].op = "complete", ![w].read = row]
  ELSE Done(w)

(* _totp_verify *)
TotpVerify(w) ==
  LET row == [work[w].read EXCEPT !.totp = TRUE]
  IN /\ Serving(w, "enrol")
     /\ user' = Flushed(w, row)
     /\ AndComplete(w, row, passkey)
     /\ Note(w)
     /\ UNCHANGED <<passkey, issued, pins, ended>>

(* verify_webauthn_registration for the login scope *)
RegisterPasskey(w) ==
  /\ Serving(w, "register")
  /\ passkey' = TRUE
  /\ AndComplete(w, work[w].read, TRUE)
  /\ Note(w)
  /\ UNCHANGED <<user, issued, pins, ended>>

-----------------------------------------------------------------------------
(* The ends of a session. *)

(* _authenticate: the client address changed, or the session idled. *)
ReadForExpiry(w, s) ==
  /\ Accepted(s)
  /\ ReadUser(w, "expire")

EndSession(w) ==
  /\ Serving(w, "expire")
  /\ End(w, Bumped(work[w].read))
  /\ Note(w)
  /\ Done(w)
  /\ UNCHANGED <<passkey, pins>>

(* A mistake: signing out leaves the session_version alone. *)
LogoutByCookie(w) ==
  /\ Serving(w, "logout")
  /\ ended' = Issued
  /\ Done(w)
  /\ UNCHANGED <<user, issued, crossed, passkey, pins>>

Logout(w) ==
  /\ Serving(w, "logout")
  /\ End(w, Bumped(work[w].read))
  /\ Note(w)
  /\ Done(w)
  /\ UNCHANGED <<passkey, pins>>

(* request_admin_reset, request_admin_reset_with_wallet *)
ReadForResetRequest(w) ==
  /\ user.active
  /\ ReadUser(w, "request")

RequestReset(w) ==
  /\ Serving(w, "request")
  /\ user' = Flushed(w, [work[w].read EXCEPT !.reset = TRUE])
  /\ Done(w)
  /\ UNCHANGED <<passkey, issued, pins, ended, crossed>>

(* approve_user_reset, by another administrator *)
ReadForApproval(w) ==
  /\ user.reset
  /\ ReadUser(w, "approve")

(* A mistake: the new PIN keeps the mark of the old one. *)
ResetKeepsUsed(row, p) ==
  [Bumped(row) EXCEPT !.secret = FALSE, !.totp = FALSE, !.wallet = NoPin,
                      !.pin = p, !.pending = TRUE, !.reset = FALSE]

(* A mistake: the secret goes, the authenticator counts as enrolled. *)
ResetKeepsEnrolment(row, p) ==
  [Bumped(row) EXCEPT !.secret = FALSE, !.wallet = NoPin, !.pin = p,
                      !.pinUsed = FALSE, !.pending = TRUE, !.reset = FALSE]

ResetRow(row, p) ==
  [Bumped(row) EXCEPT !.secret = FALSE, !.totp = FALSE, !.wallet = NoPin,
                      !.pin = p, !.pinUsed = FALSE, !.pending = TRUE,
                      !.reset = FALSE]

(* reset_login_factors *)
ApproveReset(w) ==
  /\ Serving(w, "approve")
  /\ \E p \in Pin \ given :
       /\ End(w, ResetRow(work[w].read, p))
       /\ given' = given \union {p} /\ latest' = p
  /\ passkey' = FALSE
  /\ Note(w)
  /\ Done(w)
  /\ UNCHANGED provisioned

(* update_user_role and revoke_identity, which both end the sessions. *)
ReadForAdmin(w, op) ==
  /\ op \in {"role", "revoke"}
  /\ user.active
  /\ ReadUser(w, op)

UpdateUserRole(w) ==
  /\ Serving(w, "role")
  /\ End(w, Bumped(work[w].read))
  /\ Note(w)
  /\ Done(w)
  /\ UNCHANGED <<passkey, pins>>

RevokeIdentity(w) ==
  /\ Serving(w, "revoke")
  /\ End(w, [Bumped(work[w].read) EXCEPT !.active = FALSE])
  /\ Note(w)
  /\ Done(w)
  /\ UNCHANGED <<passkey, pins>>

(* The request fails: a wrong code, a refused factor, a lost connection. *)
Abort(w) ==
  /\ ~Serving(w, "idle")
  /\ Done(w)
  /\ UNCHANGED <<user, passkey, issued, pins, ended, crossed>>

Handler(w) ==
  \/ \E p \in Pin : ReadForProvision(w, p)
  \/ ProvisionWallet(w) \/ ProvisionWalletRefused(w)
  \/ ReadForSignIn(w) \/ SignIn(w)
  \/ \E s \in Session, op \in Handlings : ReadForSetup(w, s, op)
  \/ TotpSetup(w) \/ TotpVerify(w) \/ RegisterPasskey(w)
  \/ \E s \in Session : ReadForExpiry(w, s)
  \/ EndSession(w) \/ Logout(w)
  \/ ReadForResetRequest(w) \/ RequestReset(w)
  \/ ReadForApproval(w) \/ ApproveReset(w)
  \/ \E op \in Handlings : ReadForAdmin(w, op)
  \/ UpdateUserRole(w) \/ RevokeIdentity(w)
  \/ Abort(w)

SessionNext == \E w \in Worker : Handler(w)

SessionSpec == SessionInit /\ [][SessionNext]_sessionVars

-----------------------------------------------------------------------------
(* Properties. *)

(* Besides the types: an authenticator that is enrolled has its secret, so *)
(* the set-up can always go on; unless a reset and an enrolment crossed.   *)
SessionWellFormed == SessionTypeOK /\ (~crossed => (user.totp => user.secret))

(* A session that a sign-in, sign-out, inactivity, reset, role change or   *)
(* revocation ended is never accepted again, so that at most one session   *)
(* is; unless a handler wrote over a newer row than the one it read.       *)
EndedSessionsStayEnded ==
  ~crossed => \A s \in Session : Accepted(s) => s \notin ended

(* An accepted full session means that the login set-up is complete:       *)
(* authenticator, passkey, keystore and no onboarding pending.             *)
FullSessionIsSetUp ==
  ~crossed =>
    \A s \in Session :
      Accepted(s) /\ issued[s].scope = "full" =>
        /\ user.totp /\ user.secret /\ passkey
        /\ ~user.pending /\ user.wallet # NoPin

(* While a PIN is outstanding it can be used, nobody is signed in and no   *)
(* old keystore can be unlocked.                                           *)
OutstandingPinIsClean ==
  ~crossed /\ user.pin # NoPin =>
    ~user.pinUsed /\ user.wallet = NoPin /\ ~\E s \in Session : Accepted(s)

(* A PIN provisions a wallet at most once, however many requests carry it, *)
(* and never once a newer PIN was handed out.                              *)
PinProvisionsOnce ==
  [][\A p \in given : provisioned'[p] # provisioned[p] =>
       p = latest /\ provisioned[p] = 0 /\ provisioned'[p] = 1]_sessionVars
=============================================================================
