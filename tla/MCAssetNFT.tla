----------------------------- MODULE MCAssetNFT -----------------------------
(* A small instance of AssetNFT: one account that is deployed as governance *)
(* key and registrar, one other account, two tokens, serial numbers and     *)
(* identities.                                                              *)
EXTENDS AssetNFT, TLC

CONSTANTS gov, op

Symmetry == Permutations(Token) \union Permutations(Serial) \union Permutations(Did)
=============================================================================
