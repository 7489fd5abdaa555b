-------------------------- MODULE MCSecurityAlerts --------------------------
(* The alerts about a Manager; another Manager, an Auditor and an           *)
(* Administrator review them.                                               *)
EXTENDS SecurityAlerts_proofs, TLC

CONSTANTS aud, mgr, sub, adm

MCUser == {aud, mgr, sub, adm}
MCRole == aud :> "AUDITOR" @@ mgr :> "MANAGER" @@ sub :> "MANAGER" @@ adm :> "ADMIN"

Symmetry == Permutations(Worker)
=============================================================================
