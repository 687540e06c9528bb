---------------------------- MODULE MC_GrantHandle ----------------------------
(***************************************************************************)
(* Two handles of one Grant, for TLC.                                      *)
(***************************************************************************)
EXTENDS GrantHandle, TLC

AllConfigured == [h \in Handles |-> Chains]
Symmetry == Permutations(Ops) \cup Permutations(Uninstalls) \cup Permutations(Handles)

\* A bound: one complication at a time.  A second session operation (in the
\* other lane), a nonce lost to another producer, and the end of the Grant's
\* term (before any owner operation) are each followed through every
\* interleaving of the rest, but not combined.
OneComplication ==
  LET begun  == {id \in Ops : journal[id].status # "new"}
      second == \E i, j \in begun : i # j
      ended  == now > 0
      others == foreign > 0
  IN /\ ~(second /\ ended) /\ ~(second /\ others) /\ ~(ended /\ others)
     /\ second => \E i, j \in begun : journal[i].lane # journal[j].lane
     /\ ended => \A c \in Chains : latest[c] = NoOp
=============================================================================
