--------------------------- MODULE AccountRequests --------------------------
(***************************************************************************)
(* What the request handlers of one account share: each has a database     *)
(* session of its own (src/backend/app/core/database.py, get_db), works on *)
(* a copy of the users row that it selected earlier, and may overwrite     *)
(* what another handler committed since.                                   *)
(***************************************************************************)
EXTENDS Naturals

CONSTANTS
  Worker,        \* concurrently running request handlers
  MaxVersion,    \* bound on users.session_version
  AfterCrossing  \* bound: whether requests still come after a crossed write

ASSUME VersionAssumption == MaxVersion \in Nat /\ AfterCrossing \in BOOLEAN

VARIABLE crossed \* history: a handler wrote over newer data than it read
=============================================================================
