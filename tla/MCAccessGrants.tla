--------------------------- MODULE MCAccessGrants ---------------------------
(* A small instance of AccessGrants: the owner, the Manager in scope and    *)
(* one delegate.                                                            *)
EXTENDS AccessGrants_proofs, TLC

CONSTANTS own, mgr, del

MCUser == {own, mgr, del}
MCRole == own :> "USER" @@ mgr :> "MANAGER" @@ del :> "USER"
MCScope == {mgr}

Symmetry == Permutations(Worker) \union Permutations(Grant)
=============================================================================
