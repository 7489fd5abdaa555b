----------------------------- MODULE MCSessions -----------------------------
(* One account with three sessions and two PINs. *)
EXTENDS Sessions, TLC

Symmetry == Permutations(Worker) \union Permutations(Session) \union Permutations(Pin)
=============================================================================
