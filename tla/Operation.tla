------------------------------ MODULE Operation ------------------------------
(***************************************************************************)
(* The durable Operation aggregate of packages/protocol/src/operation.ts:  *)
(* one user operation of a Grant, from its preparation to the evidence     *)
(* that concludes it.  An identity is its userOperationHash, a member of   *)
(* Ids.  Times, addresses and the wording of reasons are abstracted; every *)
(* state and every transition guard is kept.                               *)
(***************************************************************************)
EXTENDS Naturals

CONSTANTS Ids,   \* the user operation hashes
          NoId   \* "no identity": an absent record, a foreign operation

ASSUME NoIdAssumption == NoId \notin Ids

OpenStates == {"prepared", "submission_attempted", "submitted", "included"}
TerminalStates == {"abandoned", "finalized", "dropped", "superseded"}

(***************************************************************************)
(* A stored record.  rev is storeRevision + 1, so that 0 is "no record";   *)
(* submission says whether acknowledgement evidence is retained;           *)
(* inclusion is the block of the recorded occurrence (0: none), which a    *)
(* dropped operation keeps as its priorInclusion.                          *)
(***************************************************************************)
Records == [rev : Nat,
            id : Ids \cup {NoId},
            state : OpenStates \cup TerminalStates \cup {"absent"},
            submission : BOOLEAN,
            inclusion : Nat,
            observation : {"none", "pending", "unreadable"}]

NoRecord == [rev |-> 0, id |-> NoId, state |-> "absent", submission |-> FALSE,
             inclusion |-> 0, observation |-> "none"]

createOperation(id) == [NoRecord EXCEPT !.id = id, !.state = "prepared"]

operationOccupiesLane(o) == o.state \in OpenStates

(***************************************************************************)
(* advanceParsedOperation, one operator per transition: MayX is the guard  *)
(* whose failure the code reports as forbidden, X the successor value.     *)
(***************************************************************************)
\* Mutant: the reason does not bind the state.
MayAbandonMutant(o, reason) == o.state \in {"prepared", "submission_attempted"}

MayAbandon(o, reason) ==
  o.state = IF reason = "submission_not_attempted"
            THEN "prepared" ELSE "submission_attempted"

MarkAbandoned(o) ==
  [o EXCEPT !.state = "abandoned", !.submission = FALSE, !.observation = "none"]

MarkSubmissionAttempted(o) ==
  [o EXCEPT !.state = "submission_attempted", !.observation = "none"]

MarkSubmitted(o) ==
  [o EXCEPT !.state = "submitted", !.submission = TRUE, !.observation = "none"]

RecordWeak(o, w) ==
  IF o.state \in TerminalStates THEN o ELSE [o EXCEPT !.observation = w]

RecordIncluded(o, block) ==
  [o EXCEPT !.state = "included", !.inclusion = block, !.observation = "none"]

RecordFinalized(o) ==
  [o EXCEPT !.state = "finalized", !.observation = "none"]

RecordDropped(o) ==
  [o EXCEPT !.state = "dropped", !.observation = "none"]

MaySupersede(o) == o.state \in {"submission_attempted", "submitted"}

RecordSuperseded(o) ==
  [o EXCEPT !.state = "superseded", !.observation = "none"]
=============================================================================
