--------------------------- MODULE MCEventIndexer ---------------------------
(* A token that moves between two identities. *)
EXTENDS EventIndexer
=============================================================================
