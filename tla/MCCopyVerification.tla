------------------------- MODULE MCCopyVerification -------------------------
(* Small instances of CopyVerification.                                     *)
EXTENDS CopyVerification, TLC

Symmetry == Permutations(Ref) \union Permutations(Version)
            \union Permutations(Copy) \union Permutations(Worker)
            \union Permutations(Reviewer) \union Permutations(Alert)
=============================================================================
