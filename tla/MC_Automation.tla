--------------------------- MODULE MC_Automation ---------------------------
(* Small instances of the automation server for TLC. *)
EXTENDS AutomationExecutor, TLC

CONSTANTS w1, w2

MCSymmetry == Permutations({w1, w2})
=============================================================================
