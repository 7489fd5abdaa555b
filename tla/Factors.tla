------------------------------ MODULE Factors -------------------------------
(***************************************************************************)
(* The factors of one signed-in person: authenticator codes, passkeys,     *)
(* challenges and step-up tokens for the login purpose and the higher      *)
(* purposes (src/backend/app/services/mfa.py, api/auth.py).                *)
(*                                                                         *)
(* A handler selects the users row, and the passkeys it asks for, and      *)
(* decides on that copy.  Its transaction later marks the challenge or the *)
(* token as consumed with a conditional UPDATE and writes what changed.    *)
(***************************************************************************)
EXTENDS AccountRequests

CONSTANTS
  Factor,        \* the higher purposes: factor2, factor3
  Key,           \* webauthn_credentials rows
  Challenge,     \* auth_challenges rows
  Grant,         \* step_up_grants rows
  MaxStep        \* bound on the 30-second time steps of codes

ASSUME StepAssumption == MaxStep \in Nat \ {0}
ASSUME PurposeAssumption == "login" \notin Factor /\ "none" \notin Factor

Purposes == {"login"} \union Factor

(* The protected actions: one that needs the purpose, the management of    *)
(* its factors, and the choice to reuse the login factors for it.          *)
Protected == ({"use"} \X Factor) \union ({"manage"} \X Purposes) \union ({"link"} \X Factor)

(* "session.login", which no step-up token is issued for                   *)
LoginAction == <<"signin", "login">>
Actions == Protected \union {LoginAction}

ActionPurpose(a) == IF a[1] = "link" THEN "login" ELSE a[2]

VARIABLES
  row,           \* the users row: authenticators, links, session_version
  keys,          \* the passkeys: purpose, and whether active
  challenges,    \* WebAuthn and wallet challenges
  grants,        \* step-up tokens
  copy,          \* the row and passkeys each worker read
  used,          \* history: codes, challenges and tokens accepted
  again          \* history: those accepted a second time

factorVars == <<row, keys, challenges, grants, copy, used, again, crossed>>

-----------------------------------------------------------------------------
(* Types and derived state. *)

Steps == 1..MaxStep
Rows == [totp    : [Purposes -> {"none", "pending", "on"}],
         last    : [Purposes -> Steps \union {0}],   \* last accepted step; 0: None
         linked  : SUBSET Factor,                    \* factor_uses_login
         version : 0..MaxVersion]
Keys == [purpose : Purposes \union {"none"}, active : BOOLEAN]
Kinds == {"WEBAUTHN_AUTH", "WEBAUTHN_REG", "SIWE"}
Challenges == [state : {"free", "open", "consumed"}, kind : Kinds,
               action : Actions]
Grants == [state : {"free", "open", "consumed"}, action : Actions,
           version : 0..MaxVersion]

(* A free row; a consumed one keeps nothing that anything reads. *)
NoAction == <<"manage", "login">>
NoChallenge == [state |-> "free", kind |-> "SIWE", action |-> NoAction]
NoGrant == [state |-> "free", action |-> NoAction, version |-> 0]

Codes == Purposes \X Steps

(* Rows of different tables and codes of an authenticator are different.   *)
ASSUME ProofsAssumption ==
  /\ Grant \intersect Challenge = {} /\ Grant \intersect Steps = {}
  /\ Codes \intersect (Grant \union Challenge) = {}

Snapshots == [row : Rows, keys : [Key -> Keys]]
NoCopy == [row |-> "none"]

FactorTypeOK ==
  /\ row \in Rows
  /\ keys \in [Key -> Keys]
  /\ challenges \in [Challenge -> Challenges]
  /\ grants \in [Grant -> Grants]
  /\ copy \in [Worker -> Snapshots \union {NoCopy}]
  /\ used \in SUBSET (Codes \union Challenge \union Grant)
  /\ again \in SUBSET (Codes \union Challenge \union Grant)
  /\ crossed \in BOOLEAN

(* uses_login, source_purpose *)
Source(r, p) == IF p \in r.linked THEN "login" ELSE p

(* scoped_credentials *)
Scoped(r, ks, p) == {k \in Key : ks[k].active /\ ks[k].purpose = Source(r, p)}

(* totp_enabled *)
Enabled(r, p) == r.totp[Source(r, p)] = "on"

FactorInit ==
  /\ row = [totp    |-> [p \in Purposes |-> IF p = "login" THEN "on" ELSE "none"],
            last    |-> [p \in Purposes |-> 0],
            linked  |-> {},
            version |-> 0]
  /\ \E k \in Key :
       keys = [j \in Key |-> [purpose |-> IF j = k THEN "login" ELSE "none",
                              active  |-> j = k]]
  /\ challenges = [c \in Challenge |-> NoChallenge]
  /\ grants = [g \in Grant |-> NoGrant]
  /\ copy = [w \in Worker |-> NoCopy]
  /\ used = {} /\ again = {}
  /\ crossed = FALSE

-----------------------------------------------------------------------------
(* A handler: one step reads, one step commits. *)

Idle(w) == copy[w] = NoCopy
Row(w) == copy[w].row                  \* the handler's copy

(* _authenticate and the handler's own reads *)
Read(w) ==
  /\ Idle(w)
  /\ crossed => AfterCrossing
  /\ copy' = [copy EXCEPT ![w] = [row |-> row, keys |-> keys]]
  /\ UNCHANGED <<row, keys, challenges, grants, used, again, crossed>>

Finish(w) ==
  /\ ~Idle(w)
  /\ copy' = [copy EXCEPT ![w] = NoCopy]
  /\ crossed' = (crossed \/ copy[w] # [row |-> row, keys |-> keys])

(* A flush: of the copy base changed to new, only what differs is written. *)
Merge(r, base, new) ==
  [totp    |-> [p \in Purposes |-> IF new.totp[p] = base.totp[p]
                                   THEN r.totp[p] ELSE new.totp[p]],
   last    |-> [p \in Purposes |-> IF new.last[p] = base.last[p]
                                   THEN r.last[p] ELSE new.last[p]],
   linked  |-> {p \in Factor : IF (p \in new.linked) = (p \in base.linked)
                               THEN p \in r.linked ELSE p \in new.linked},
   version |-> IF new.version = base.version THEN r.version ELSE new.version]

(* A mistake: the last accepted step is not looked at. *)
AcceptsAny(r, p, c) == TRUE

(* verify_totp_code: a code of a step later than the last accepted.  The   *)
(* tolerance of one step around now only refuses more of them.             *)
Accepts(r, p, c) == c > r.last[p]

CodeFits(w, p, c) ==
  LET src == Source(Row(w), p)
  IN Row(w).totp[src] = "on" /\ Accepts(Row(w), src, c)

WithCode(r, p, c) == [r EXCEPT !.last[Source(r, p)] = c]

(* consume_step_up: the conditional UPDATE, as of the commit. *)
TokenFits(w, a, g) ==
  /\ grants[g].state = "open"
  /\ grants[g].action = a
  /\ grants[g].version = Row(w).version

(* require_factor: q is the token or the code that proves the action. *)
Proofs == Grant \union Steps

Proven(w, a, q) ==
  \/ q \in Grant /\ TokenFits(w, a, q)
  \/ q \in Steps /\ CodeFits(w, ActionPurpose(a), q)

Consumed(g) == [NoGrant EXCEPT !.state = "consumed"]

Use(x) == used' = used \union {x} /\ again' = again \union ({x} \intersect used)

(* A mistake: nothing is asked for. *)
RequireNothing(w, a, q) == UNCHANGED <<grants, used, again>>

Require(w, a, q) ==
  LET src == Source(Row(w), ActionPurpose(a))
  IN /\ Proven(w, a, q)
     /\ grants' = IF q \in Grant THEN [grants EXCEPT ![q] = Consumed(q)] ELSE grants
     /\ Use(IF q \in Grant THEN q ELSE <<src, q>>)

(* The copy of the row that require_factor flushes. *)
After(w, a, q) ==
  IF q \in Steps THEN WithCode(Row(w), ActionPurpose(a), q) ELSE Row(w)

(* ... and what the handler writes after that. *)
Write(w, a, q, new) ==
  row' = Merge(Merge(row, Row(w), After(w, a, q)), After(w, a, q), new)

NotProven == UNCHANGED grants
NothingUsed == UNCHANGED <<used, again>>

(* issue_step_up *)
IssueGrant(w, a) ==
  \E g \in Grant :
    /\ grants[g].state = "free"
    /\ grants' = [grants EXCEPT ![g] =
         [state |-> "open", action |-> a, version |-> Row(w).version]]

(* create_challenge *)
Open(kind, a) ==
  \E c \in Challenge :
    /\ challenges[c].state = "free"
    /\ challenges' = [challenges EXCEPT ![c] =
         [state |-> "open", kind |-> kind, action |-> a]]

(* A mistake: the challenge is looked up and not marked. *)
AnswerUnmarked(c, kind) ==
  /\ challenges[c].state = "open" /\ challenges[c].kind = kind
  /\ UNCHANGED challenges

(* consume_challenge: the conditional UPDATE, as of the commit. *)
Answer(c, kind) ==
  /\ challenges[c].state = "open" /\ challenges[c].kind = kind
  /\ challenges' = [challenges EXCEPT ![c] = [NoChallenge EXCEPT !.state = "consumed"]]

-----------------------------------------------------------------------------
(* Sign-in and step-up. *)

(* login_with_totp, _issue_session: a code starts a new session. *)
SignInWithTotp(w) ==
  \E c \in Steps :
    /\ Row(w).version < MaxVersion
    /\ CodeFits(w, "login", c)
    /\ row' = Merge(row, Row(w), [WithCode(Row(w), "login", c) EXCEPT !.version = @ + 1])
    /\ Use(<<"login", c>>)
    /\ NotProven
    /\ UNCHANGED <<keys, challenges>>

(* login_with_passkey: any challenge for the login purpose will do. *)
SignInWithPasskey(w, c) ==
  /\ Row(w).version < MaxVersion
  /\ Answer(c, "WEBAUTHN_AUTH")
  /\ ActionPurpose(challenges[c].action) = "login"
  /\ Scoped(Row(w), keys, "login") # {}
  /\ row' = Merge(row, Row(w), [Row(w) EXCEPT !.version = @ + 1])
  /\ Use(c)
  /\ NotProven
  /\ UNCHANGED keys

(* step_up_with_totp *)
StepUpTotp(w, a) ==
  LET p == ActionPurpose(a)
  IN \E c \in Steps :
       /\ CodeFits(w, p, c)
       /\ row' = Merge(row, Row(w), WithCode(Row(w), p, c))
       /\ Use(<<Source(Row(w), p), c>>)
       /\ IssueGrant(w, a)
       /\ UNCHANGED <<keys, challenges>>

(* step_up_passkey_options, get_passkey_login_options, passkey_options *)
PasskeyOptions(w, a) ==
  /\ Scoped(Row(w), copy[w].keys, ActionPurpose(a)) # {}
  /\ Open("WEBAUTHN_AUTH", a)
  /\ NotProven /\ NothingUsed
  /\ UNCHANGED <<row, keys>>

(* step_up_passkey_verify, verify_passkey_assertion *)
PasskeyVerify(w, c) ==
  /\ Answer(c, "WEBAUTHN_AUTH")
  /\ challenges[c].action \in Protected
  /\ Scoped(Row(w), keys, ActionPurpose(challenges[c].action)) # {}
  /\ IssueGrant(w, challenges[c].action)
  /\ Use(c)
  /\ UNCHANGED <<row, keys>>

(* get_nonce: a challenge for the wallet's signature. *)
GetNonce(w) ==
  /\ Open("SIWE", NoAction)
  /\ NotProven /\ NothingUsed
  /\ UNCHANGED <<row, keys>>

(* _consume_siwe, for provisioning or a reset request *)
AnswerNonce(w, c) ==
  /\ Answer(c, "SIWE")
  /\ Use(c)
  /\ NotProven
  /\ UNCHANGED <<row, keys>>

(* A failed answer is committed too: the challenge is gone. *)
AnswerWrongly(w, c) ==
  /\ Answer(c, challenges[c].kind)
  /\ NotProven /\ NothingUsed
  /\ UNCHANGED <<row, keys>>

(* Any other handler that calls require_factor and commits. *)
UseFactor(w, p) ==
  \E q \in Proofs :
    /\ Require(w, <<"use", p>>, q)
    /\ Write(w, <<"use", p>>, q, After(w, <<"use", p>>, q))
    /\ UNCHANGED <<keys, challenges>>

-----------------------------------------------------------------------------
(* Authenticators of the higher purposes. *)

(* A mistake: the last accepted step of the old secret stays. *)
NewTotpKeepsStep(r, p, state) == [r EXCEPT !.totp[p] = state]

NewTotp(r, p, state) == [r EXCEPT !.totp[p] = state, !.last[p] = 0]   \* set_totp_secret

(* setup_totp_factor: a purpose with a passkey needs a token of its own    *)
(* first.  The new secret has new codes.                                   *)
SetUpTotp(w, p) ==
  LET a == <<"manage", p>>
      news == NewTotp(Row(w), p, "pending")
  IN /\ p \notin Row(w).linked /\ ~Enabled(Row(w), p)
     /\ row' = Merge(row, Row(w), news)
     /\ IF Scoped(Row(w), copy[w].keys, p) # {}
        THEN \E g \in Grant :
               /\ TokenFits(w, a, g)
               /\ grants' = [grants EXCEPT ![g] = Consumed(g)]
               /\ used' = (used \ ({p} \X Steps)) \union {g}
               /\ again' = again \union ({g} \intersect used)
        ELSE /\ used' = used \ ({p} \X Steps)
             /\ UNCHANGED again
             /\ NotProven
     /\ UNCHANGED <<keys, challenges>>

(* A mistake: the enrolment does not look at the link. *)
EnrolableAlways(w, p) == Row(w).totp[p] = "pending"

Enrolable(w, p) == p \notin Row(w).linked /\ Row(w).totp[p] = "pending"

(* verify_totp_factor, _totp_verify: the code of the new authenticator. *)
EnrolTotp(w, p) ==
  /\ Enrolable(w, p)
  /\ \E c \in Steps :
       /\ Accepts(Row(w), p, c)
       /\ row' = Merge(row, Row(w), [Row(w) EXCEPT !.last[p] = c, !.totp[p] = "on"])
       /\ Use(<<p, c>>)
  /\ NotProven
  /\ UNCHANGED <<keys, challenges>>

(* reset_totp_factor: the codes used so far were those of the old secret. *)
ResetTotp(w, p) ==
  LET a == <<"manage", p>>
  IN /\ p \notin Row(w).linked
     /\ \E q \in Proofs :
          Require(w, a, q) /\ Write(w, a, q, NewTotp(After(w, a, q), p, "none"))
     /\ UNCHANGED <<keys, challenges>>

-----------------------------------------------------------------------------
(* Passkeys. *)

(* get_webauthn_registration_options: proof for a protected purpose.  Only *)
(* the passkeys of the address that the request comes from count; which    *)
(* address a passkey belongs to is left open, so they are any of them.     *)
RegisterOptions(w, p) ==
  LET a == <<"manage", p>>
  IN /\ p \notin Row(w).linked
     /\ \E existing \in SUBSET Scoped(Row(w), copy[w].keys, p) :
          IF p = "login" \/ Enabled(Row(w), p) \/ existing # {}
          THEN \E q \in Proofs : Require(w, a, q) /\ Write(w, a, q, After(w, a, q))
          ELSE UNCHANGED row /\ NotProven /\ NothingUsed
     /\ Open("WEBAUTHN_REG", a)
     /\ UNCHANGED keys

(* verify_webauthn_registration *)
RegisterVerify(w, c) ==
  LET p == ActionPurpose(challenges[c].action)
  IN /\ p \notin Row(w).linked
     /\ Answer(c, "WEBAUTHN_REG")
     /\ \E k \in Key :
          /\ keys[k].purpose = "none"
          /\ keys' = [keys EXCEPT ![k] = [purpose |-> p, active |-> TRUE]]
     /\ Use(c)
     /\ NotProven
     /\ UNCHANGED row

(* A mistake: any passkey may go. *)
AnyRemovable(w, k) == TRUE

(* The last login passkey stays. *)
Removable(w, k) ==
  keys[k].purpose = "login" => \E j \in Scoped(Row(w), copy[w].keys, "login") : j # k

(* disable_webauthn_credential *)
DisablePasskey(w, k) ==
  LET a == <<"manage", keys[k].purpose>>
  IN /\ copy[w].keys[k].active
     /\ Removable(w, k)
     /\ \E q \in Proofs : Require(w, a, q) /\ Write(w, a, q, After(w, a, q))
     /\ keys' = [keys EXCEPT ![k].active = FALSE]
     /\ UNCHANGED challenges

-----------------------------------------------------------------------------
(* Reusing the login factors. *)

Linkable(w, p) ==
  /\ p \notin Row(w).linked
  /\ ~Enabled(Row(w), p) /\ Scoped(Row(w), copy[w].keys, p) = {}

(* use_login_factors *)
UseLogin(w, p) ==
  LET a == <<"link", p>>
  IN /\ Linkable(w, p)
     /\ \E q \in Proofs :
          /\ Require(w, a, q)
          /\ Write(w, a, q, [After(w, a, q) EXCEPT !.linked = @ \union {p}])
     /\ UNCHANGED <<keys, challenges>>

(* use_separate_factors *)
UseSeparate(w, p) ==
  LET a == <<"link", p>>
  IN /\ p \in Row(w).linked
     /\ \E q \in Proofs :
          /\ Require(w, a, q)
          /\ Write(w, a, q, [After(w, a, q) EXCEPT !.linked = @ \ {p}])
     /\ UNCHANGED <<keys, challenges>>

-----------------------------------------------------------------------------
Commit(w) ==
  \/ SignInWithTotp(w)
  \/ \E a \in Protected : StepUpTotp(w, a)
  \/ \E a \in Actions : PasskeyOptions(w, a)
  \/ \E c \in Challenge : SignInWithPasskey(w, c)
  \/ \E c \in Challenge : PasskeyVerify(w, c) \/ AnswerNonce(w, c) \/ AnswerWrongly(w, c)
  \/ GetNonce(w)
  \/ \E p \in Factor : UseFactor(w, p) \/ SetUpTotp(w, p) \/ EnrolTotp(w, p)
                       \/ ResetTotp(w, p) \/ UseLogin(w, p) \/ UseSeparate(w, p)
  \/ \E p \in Purposes : RegisterOptions(w, p)
  \/ \E c \in Challenge : RegisterVerify(w, c)
  \/ \E k \in Key : DisablePasskey(w, k)

Handle(w) == Finish(w) /\ Commit(w)

FactorNext == \E w \in Worker : Read(w) \/ Handle(w)

FactorSpec == FactorInit /\ [][FactorNext]_factorVars

-----------------------------------------------------------------------------
(* Properties. *)

(* Besides the types: an authenticator that is not in use has accepted no  *)
(* code, so the first code of a new secret is never taken for a repeat.    *)
FactorWellFormed ==
  /\ FactorTypeOK
  /\ ~crossed => \A p \in Purposes : row.totp[p] # "on" => row.last[p] = 0

(* A step-up token proves one action and a challenge is answered once,     *)
(* however the handlers overlap.                                           *)
TokenUsedOnce == again \intersect (Grant \union Challenge) = {}

(* A code of one authenticator is accepted once, whatever it was given     *)
(* for: signing in, stepping up or a linked purpose.                       *)
CodeUsedOnce == ~crossed => again \intersect Codes = {}

(* The last login passkey cannot be removed. *)
LoginPasskeyStays == ~crossed => \E k \in Key : keys[k].active /\ keys[k].purpose = "login"

(* A purpose that reuses the login factors has none of its own that would  *)
(* be in force again when the person separates them.                       *)
LinkedHasNoOwnFactor ==
  ~crossed =>
    \A p \in row.linked :
      /\ row.totp[p] # "on"
      /\ \A k \in Key : keys[k].active => keys[k].purpose # p

(* What proves purpose p in a step: a token for an action of p is consumed *)
(* or a code of the authenticator that stands for p is accepted.           *)
Proves(p) ==
  \/ \E g \in Grant :
       /\ grants[g].state = "open" /\ grants'[g].state = "consumed"
       /\ ActionPurpose(grants[g].action) = p
  \/ \E c \in Steps : <<Source(row, p), c>> \in used' \ used

(* A purpose loses an authenticator or a passkey only in a step that       *)
(* proves that purpose, and is linked to the login factors or separated    *)
(* from them only in one that proves the login.                            *)
RemovalIsProven ==
  [][~crossed' =>
       /\ \A p \in Factor : row.totp[p] = "on" /\ row'.totp[p] # "on" => Proves(p)
       /\ \A k \in Key : keys[k].active /\ ~keys'[k].active => Proves(keys[k].purpose)
       /\ row.linked # row'.linked => Proves("login")]_factorVars
=============================================================================
