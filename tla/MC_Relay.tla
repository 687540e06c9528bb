------------------------------ MODULE MC_Relay ------------------------------
(***************************************************************************)
(* Instances of Relay for TLC.                                             *)
(***************************************************************************)
EXTENDS Relay, TLC

Symmetry == Permutations(Handlers) \cup Permutations(Versions) \cup Permutations(Signers \ {Root})
=============================================================================
