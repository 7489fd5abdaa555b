----------------------------- MODULE MCFactors ------------------------------
(* One person with a login purpose and one higher purpose. *)
EXTENDS Factors, TLC

Symmetry == Permutations(Worker) \union Permutations(Key)
            \union Permutations(Grant)
=============================================================================
