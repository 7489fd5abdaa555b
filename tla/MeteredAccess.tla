---------------------------- MODULE MeteredAccess ---------------------------
(***************************************************************************)
(* What delegated access promises of each grant, without users, requests   *)
(* or transactions: copies are shown only while the grant is open, at most *)
(* limit of them, and a withdrawn grant shows nothing ever again.          *)
(***************************************************************************)
EXTENDS Naturals

CONSTANTS Grant, NoLimit

VARIABLES
  phase,     \* "unissued", "open" or "withdrawn"
  limit,     \* copies each grant may show, or NoLimit
  shown      \* copies it has shown

vars == <<phase, limit, shown>>

Init ==
  /\ phase = [g \in Grant |-> "unissued"]
  /\ limit = [g \in Grant |-> NoLimit]
  /\ shown = [g \in Grant |-> 0]

\* One decision issues grants for several versions at once.
Issue(G) ==
  /\ \A g \in G : phase[g] = "unissued"
  /\ phase' = [g \in Grant |-> IF g \in G THEN "open" ELSE phase[g]]
  /\ limit' \in [Grant -> Nat \union {NoLimit}]
  /\ \A g \in Grant \ G : limit'[g] = limit[g]
  /\ UNCHANGED shown

Show(g) ==
  /\ phase[g] = "open"
  /\ limit[g] # NoLimit => shown[g] < limit[g]
  /\ shown' = [shown EXCEPT ![g] = @ + 1]
  /\ UNCHANGED <<phase, limit>>

Withdraw(g) ==
  /\ phase[g] = "open"
  /\ phase' = [phase EXCEPT ![g] = "withdrawn"]
  /\ UNCHANGED <<limit, shown>>

Next == \/ \E G \in SUBSET Grant : Issue(G)
        \/ \E g \in Grant : Show(g) \/ Withdraw(g)
Spec == Init /\ [][Next]_vars
=============================================================================
