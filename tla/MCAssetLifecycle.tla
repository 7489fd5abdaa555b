--------------------------- MODULE MCAssetLifecycle ---------------------------
(* Two people, two serial numbers of which one is written in two ways.       *)
EXTENDS AssetLifecycle_proofs, TLC

CONSTANTS s1, S1, s2, x1, x2

MCNorm == [i \in {s1, S1, s2, x1, x2} |-> IF i = S1 THEN s1 ELSE i]

(* The second collides with the first and with the third, which do not.      *)
MCAsked == {<<s1, x1>>, <<S1, x2>>, <<s2, x2>>}

Symmetry == Permutations(Worker) \union Permutations(User)
=============================================================================
