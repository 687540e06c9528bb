--------------------------- MODULE MC_ChainAccess ---------------------------
(***************************************************************************)
(* Instances of ChainAccess for TLC.                                       *)
(***************************************************************************)
EXTENDS ChainAccess

MCBundles == {<<Neighbour, Own>>, <<Other>>}
MCPublic == <<"e1", "e2">>

Symmetry == Permutations(Txs) \cup Permutations(Handlers)
=============================================================================
