------------------------- MODULE MC_OperationRunner -------------------------
(* Small instances of OperationRunner for TLC. *)
EXTENDS OperationRunner, TLC

CONSTANTS a, b, c, r1, r2

\* a and b compete for sequence 0, c is the next operation of the lane.
MCNonce == (a :> 0) @@ (b :> 0) @@ (c :> 1)

MCNonce2 == (a :> 0) @@ (b :> 0)

MCNonce1 == a :> 0

MCAllMethods == Modes

\* A client that never reuses a terminal record or resumes a prepared one.
MCAbandoningMethods == {"start", "observe", "abandon"}

\* Bound: once the last block is used, one call at a time.
LastBlockAlone == blocks = MaxBlocks => \E r \in Runners : run[r].pc = "idle"

\* Sound where a and b have the same sequence and c is not used.
MCSymmetry == Permutations({r1, r2}) \cup Permutations({a, b})
=============================================================================
