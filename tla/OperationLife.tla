----------------------------- MODULE OperationLife -----------------------------
(***************************************************************************)
(* The life of one stored Operation record: any sequence of transitions    *)
(* that parseTransition lets through, from the submitter (advanceOperation)*)
(* and from observers (applyVerifiedOperationObservation) in any order, as *)
(* parallel handles, restarts and reorganisations produce them.            *)
(***************************************************************************)
EXTENDS OperationRecord

CONSTANTS MaxTime,       \* bound: times of transitions are 0..MaxTime
          MaxRevision,   \* bound: no transition from this revision on
          Lanes,         \* lane keys, DefaultLane included
          Blocks,        \* heights of evidence
          Nonces         \* nonces of identities and of nonce reads

VARIABLE operation

OpTimes == 0..MaxTime
Inclusions == [tx : Txs, block : Blocks, hash : Hashes, outcome : Outcomes, at : OpTimes]
Finalities == [block : Blocks, hash : Hashes, at : OpTimes]
Drops == [scope : Scopes, nonce : Nonces, hash : Ops, inclusion : Inclusions, finality : Finalities]

\* What the submitter writes (advanceOperation).
SubmissionTransitions ==
  [type : {"mark_abandoned"}, reason : Reasons, at : OpTimes]
    \cup [type : {"mark_submission_attempted"}, at : OpTimes]
    \cup [type : {"mark_submitted"}, submission : Routes, at : OpTimes]

\* What observers write (applyVerifiedOperationObservation).
ObservationTransitions ==
  [type : {"record_pending", "record_unreadable"}, at : OpTimes]
    \cup [type : {"record_included"}, inclusion : Inclusions]
    \cup [type : {"record_finalized"}, finality : Finalities]
    \cup [type : {"record_superseded"}, supersession : [nonce : Nonces, at : OpTimes]]
    \cup [type : {"record_dropped"}, drop : Drops]

Transitions == SubmissionTransitions \cup ObservationTransitions

\* Before the record is created.
NoOperation == [state |-> "none"]

\* An execution on the default lane or on a reserved one.
Init ==
  \E scope \in Scopes, hash \in Ops, lane \in Lanes :
    operation = createOperation([kind |-> "execution", scope |-> scope, nonce |-> 0,
                                 hash |-> hash], lane, 0)

\* The store takes the successor only if it parses.
Next ==
  /\ operation.revision < MaxRevision
  /\ \E t \in Transitions : /\ MayAdvance(operation, t)
                            /\ parseOperation(Apply(operation, t))
                            /\ operation' = Apply(operation, t)

-----------------------------------------------------------------------------
\* The reject of a send the observer has already seen something of is the one
\* transition whose guards hold and whose result does not parse.
RejectedAfterObservation(o, t) ==
  /\ t.type = "mark_abandoned" /\ t.reason = "submission_rejected"
  /\ o.revision > 1

\* Every other transition whose guards hold yields a record that parses.
OperationGuardsImplyParse ==
  \A t \in Transitions :
    MayAdvance(operation, t) /\ ~RejectedAfterObservation(operation, t)
      => parseOperation(Apply(operation, t))

\* What a step may not change: see Records.
Ended(o) == o.state \in TerminalStates \ {"superseded"}

KeepsFate(o, n) ==
  /\ ~Ended(o)
  /\ o.state = "superseded" => n.state = "dropped"
  /\ o.state = "included" => /\ n.state \in {"included", "finalized", "dropped"}
                             /\ inclusionOccurrenceEqual(o.inclusion, n.inclusion)
                             /\ o.inclusion.outcome = n.inclusion.outcome
  /\ o.submittedAt # NoTime => n.submittedAt = o.submittedAt /\ n.submission = o.submission
=============================================================================
