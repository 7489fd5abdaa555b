------------------------- MODULE MCDocumentLineage --------------------------
(* A small instance of DocumentLineage: an owner without privileges, the    *)
(* Manager in scope and an Administrator.                                   *)
EXTENDS DocumentLineage_proofs, TLC

CONSTANTS own, mgr, adm

MCUser == {own, mgr, adm}
MCRole == own :> "USER" @@ mgr :> "MANAGER" @@ adm :> "ADMIN"
MCScope == {mgr}

Symmetry == Permutations(Worker) \union Permutations(Copy) \union Permutations(Asset)
=============================================================================
