---------------------------- MODULE MCIdentities ----------------------------
(* Two wallets: one is an Admin's, the other another Admin's or nobody's,  *)
(* with or without roles that an earlier registry left.  No symmetry, as   *)
(* the run checks a liveness property.                                     *)
EXTENDS Identities
=============================================================================
