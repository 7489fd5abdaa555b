---------------------------- MODULE CopyRelease -----------------------------
(***************************************************************************)
(* What the controlled download promises, without requests, owners,        *)
(* approvers or transactions: a copy leaves only while a request is open   *)
(* for it, and taking the copy closes the request.                         *)
(*                                                                         *)
(* The documents promise that a request is opened once; under concurrency *)
(* the handlers keep this weaker promise: every copy uses up a release of  *)
(* its own.                                                                *)
(***************************************************************************)
EXTENDS Naturals

CONSTANT Request

VARIABLES
  open,        \* requests whose copy may be taken now
  releases,    \* how often each request was opened
  copies       \* how many copies were taken on it

vars == <<open, releases, copies>>

Init ==
  /\ open = {}
  /\ releases = [r \in Request |-> 0]
  /\ copies = [r \in Request |-> 0]

Release(r) ==
  /\ open' = open \union {r}
  /\ releases' = [releases EXCEPT ![r] = @ + 1]
  /\ UNCHANGED copies

Take(r) ==
  /\ r \in open
  /\ open' = open \ {r}
  /\ copies' = [copies EXCEPT ![r] = @ + 1]
  /\ UNCHANGED releases

\* A decision the other way closes a request that was open.
Withdraw(r) ==
  /\ r \in open
  /\ open' = open \ {r}
  /\ UNCHANGED <<releases, copies>>

\* The owner's own copy is released and taken in one step.
TakeOwn(r) ==
  /\ releases[r] = 0
  /\ releases' = [releases EXCEPT ![r] = 1]
  /\ copies' = [copies EXCEPT ![r] = 1]
  /\ UNCHANGED open

Next == \E r \in Request : Release(r) \/ Take(r) \/ Withdraw(r) \/ TakeOwn(r)
Spec == Init /\ [][Next]_vars
=============================================================================
