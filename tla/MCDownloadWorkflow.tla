------------------------- MODULE MCDownloadWorkflow -------------------------
(* Small instances of DownloadWorkflow: four identities, one per role that *)
(* may act on the document, and a few concurrent handlers.                 *)
EXTENDS DownloadWorkflow_proofs, TLC

CONSTANTS own, del, mgr, adm

MCUser == {own, del, mgr, adm}
MCRole == own :> "USER" @@ del :> "USER" @@ mgr :> "MANAGER" @@ adm :> "ADMIN"
MCScope == {mgr}
=============================================================================
