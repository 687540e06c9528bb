------------------------------ MODULE MC_Records ------------------------------
EXTENDS Records, TLC

\* Operations and block hashes are only ever compared.
Symmetry == Permutations(Ops) \cup Permutations(Hashes)
=============================================================================
