------------------------------ MODULE MC_Provider ------------------------------
EXTENDS Provider, TLC
CONSTANTS b1, b2, k1, k2, p1, p2
\* The second bundle asks for the calls of the first, or for others.
MixedCalls == [b \in Ids |-> IF b = b1 THEN {k1} ELSE {k1, k2}]
SameCalls == [b \in Ids |-> {k1}]
\* Bound: with different calls, until the nonce is used, and one status request
\* at a time.
DifferentCallsBound ==
    contexts[b2] # Absent /\ contexts[b2].op[1] = k2 =>
        nonce = 0 /\ \E p \in Callers : call[p].kind # "status"

Symmetry == Permutations(Callers)
=============================================================================
