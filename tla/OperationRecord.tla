---------------------------- MODULE OperationRecord ----------------------------
(***************************************************************************)
(* The stored form of the Operation aggregate (protocol/src/operation.ts): *)
(* every field the parser relates to another one.  parseOperation is what  *)
(* a store reads back at all, MayAdvance and Apply are the guards and the  *)
(* successor of advanceParsedOperation.  Module Operation is the view the  *)
(* runner needs of it.  A scope stands for the Grant, chain, entry point   *)
(* and account of an identity; a nonce is key * NonceSpan + sequence.      *)
(***************************************************************************)
EXTENDS Integers

CONSTANTS Scopes,     \* Grant, chain, entry point and account
          Ops,        \* user operation hashes
          Txs,        \* transaction hashes
          Hashes,     \* block hashes
          NonceSpan   \* sequences per nonce key (2^64)

NoTime == -1
DefaultLane == 0      \* lane: null

Kinds == {"execution", "revocation"}
Outcomes == {"success", "reverted"}
Routes == {"none", "erc4337-bundler", "erc4337-handleops"}
Reasons == {"submission_not_attempted", "submission_rejected"}

Identities == [kind : Kinds, scope : Scopes, nonce : Nat, hash : Ops]

OperationStates == {"prepared", "abandoned", "submission_attempted", "submitted",
                    "included", "finalized", "dropped", "superseded"}
TerminalStates == {"abandoned", "finalized", "dropped", "superseded"}

\* Evidence that is null.
NoObservation == [status |-> "none", at |-> NoTime]
NoInclusion == [tx |-> "no_tx", block |-> 0, hash |-> "no_hash", outcome |-> "none", at |-> NoTime]
NoFinality == [block |-> 0, hash |-> "no_hash", at |-> NoTime]
NoDrop == [scope |-> "no_scope", nonce |-> 0, hash |-> "no_op", inclusion |-> NoInclusion,
           finality |-> NoFinality]
NoSupersession == [nonce |-> 0, at |-> NoTime]

\* A fresh identity on a lane: every field a later state adds is null.
createOperation(identity, lane, at) ==
  [identity |-> identity, lane |-> lane, state |-> "prepared", revision |-> 0,
   submission |-> "none", preparedAt |-> at, updatedAt |-> at, observation |-> NoObservation,
   abandonedAt |-> NoTime, reason |-> "none", attemptedAt |-> NoTime, submittedAt |-> NoTime,
   inclusion |-> NoInclusion, finality |-> NoFinality, drop |-> NoDrop,
   supersession |-> NoSupersession]

-----------------------------------------------------------------------------
(* parseOperation: which records are read back at all. *)

\* Only executions name a lane, and its key is positive.
parseLane(o) == o.lane # DefaultLane => o.identity.kind = "execution" /\ o.lane > 0

inclusionOccurrenceEqual(i, j) == i.tx = j.tx /\ i.block = j.block /\ i.hash = j.hash

\* A final block is not below the inclusion, and is the same at its height.
Confirms(f, i) ==
  /\ f.at >= i.at
  /\ f.block >= i.block
  /\ f.block = i.block => f.hash = i.hash

\* The nonce read is of the operation's own key and past its sequence.
requireNonceAdvance(observed, own) ==
  /\ observed \div NonceSpan = own \div NonceSpan
  /\ observed % NonceSpan > own % NonceSpan

parseSupersession(s, identity) == requireNonceAdvance(s.nonce, identity.nonce)

\* The replacement is another operation at the same nonce, included and final.
parseDrop(d, identity) ==
  /\ d.scope = identity.scope /\ d.nonce = identity.nonce /\ d.hash # identity.hash
  /\ Confirms(d.finality, d.inclusion)

\* How many transitions a record must have behind it.
Acknowledged(o) == IF o.submittedAt = NoTime THEN 0 ELSE 1
Observed(o) == IF o.observation = NoObservation THEN 0 ELSE 1
Included(o) == IF o.inclusion = NoInclusion THEN 0 ELSE 1

\* Attempt and acknowledgement follow the preparation in order.
SentInOrder(o) ==
  /\ o.attemptedAt >= o.preparedAt
  /\ o.submittedAt # NoTime => o.submittedAt >= o.attemptedAt

\* submittedAt ?? attemptedAt
SentAt(o) == IF o.submittedAt = NoTime THEN o.attemptedAt ELSE o.submittedAt

\* The last update is the weak observation, or without one the given time.
UpdatedAt(o, at) ==
  IF o.observation = NoObservation THEN o.updatedAt = at
  ELSE o.observation.at = o.updatedAt /\ o.observation.at >= at

parsePrepared(o) ==
  o.revision = 0 /\ o.updatedAt = o.preparedAt /\ o.observation = NoObservation

\* A rejected send passed through submission_attempted first.
parseAbandoned(o) ==
  /\ o.reason \in Reasons
  /\ o.revision = IF o.reason = "submission_rejected" THEN 2 ELSE 1
  /\ o.abandonedAt >= o.preparedAt /\ o.updatedAt = o.abandonedAt
  /\ o.observation = NoObservation

parseAttempted(o) ==
  /\ SentInOrder(o)
  /\ IF o.observation = NoObservation THEN o.revision = 1 ELSE o.revision >= 2
  /\ UpdatedAt(o, o.attemptedAt)

parseSubmitted(o) ==
  /\ SentInOrder(o) /\ o.submittedAt # NoTime
  /\ o.revision >= 2 + Observed(o)
  /\ UpdatedAt(o, o.submittedAt)

parseIncluded(o) ==
  /\ SentInOrder(o)
  /\ o.revision >= 2 + Acknowledged(o) + Observed(o)
  /\ o.inclusion.at >= SentAt(o)
  /\ UpdatedAt(o, o.inclusion.at)

parseFinalized(o) ==
  /\ SentInOrder(o)
  /\ o.revision >= 3 + Acknowledged(o)
  /\ o.inclusion.at >= SentAt(o)
  /\ Confirms(o.finality, o.inclusion)
  /\ o.updatedAt = o.finality.at
  /\ o.observation = NoObservation

\* priorInclusion is what the record holds as inclusion.
parseDropped(o) ==
  /\ SentInOrder(o) /\ parseDrop(o.drop, o.identity)
  /\ o.inclusion # NoInclusion => /\ ~inclusionOccurrenceEqual(o.inclusion, o.drop.inclusion)
                                  /\ o.inclusion.at >= SentAt(o)
                                  /\ o.drop.finality.at >= o.inclusion.at
  /\ o.revision >= 2 + Acknowledged(o) + Included(o)
  /\ o.drop.finality.at >= SentAt(o)
  /\ o.updatedAt = o.drop.finality.at
  /\ o.observation = NoObservation

parseSuperseded(o) ==
  /\ SentInOrder(o) /\ parseSupersession(o.supersession, o.identity)
  /\ o.revision >= 2 + Acknowledged(o)
  /\ o.supersession.at >= SentAt(o)
  /\ o.updatedAt = o.supersession.at
  /\ o.observation = NoObservation

\* No acknowledgement is kept before one was received.
parseOperation(o) ==
  /\ parseLane(o)
  /\ (o.state \in {"prepared", "abandoned", "submission_attempted"} \/ o.submittedAt = NoTime)
       => o.submission = "none"
  /\ CASE o.state = "prepared" -> parsePrepared(o)
       [] o.state = "abandoned" -> parseAbandoned(o)
       [] o.state = "submission_attempted" -> parseAttempted(o)
       [] o.state = "submitted" -> parseSubmitted(o)
       [] o.state = "included" -> parseIncluded(o)
       [] o.state = "finalized" -> parseFinalized(o)
       [] o.state = "dropped" -> parseDropped(o)
       [] o.state = "superseded" -> parseSuperseded(o)

operationOccupiesLane(o) == o.state \notin TerminalStates

-----------------------------------------------------------------------------
(* advanceParsedOperation. *)

\* The time a transition carries.
TimeOf(t) ==
  CASE t.type = "record_included" -> t.inclusion.at
    [] t.type = "record_finalized" -> t.finality.at
    [] t.type = "record_dropped" -> t.drop.finality.at
    [] t.type = "record_superseded" -> t.supersession.at
    [] OTHER -> t.at

\* parseTransition: evidence that contradicts itself or the identity the
\* transition names is refused before the record is looked at.
parseTransition(t, identity) ==
  /\ t.type = "record_dropped" => parseDrop(t.drop, identity)
  /\ t.type = "record_superseded" => parseSupersession(t.supersession, identity)

\* Weak results leave a terminal record as it is, whatever their time.
Ignored(o, t) == t.type \in {"record_pending", "record_unreadable"} /\ o.state \in TerminalStates

\* A bug in which a second inclusion replaces the first.
mayIncludeMutant(o, i) == o.state \in {"submission_attempted", "submitted", "included"}

\* An inclusion may be observed again, but not contradicted.
mayInclude(o, i) ==
  /\ o.state \in {"submission_attempted", "submitted", "included"}
  /\ o.state = "included" => inclusionOccurrenceEqual(o.inclusion, i) /\ o.inclusion.outcome = i.outcome

mayFinalize(o, f) ==
  /\ o.state = "included"
  /\ f.block >= o.inclusion.block
  /\ f.block = o.inclusion.block => f.hash = o.inclusion.hash

mayDrop(o, d) ==
  /\ o.state \notin {"prepared", "abandoned", "finalized", "dropped"}
  /\ o.state = "included" => ~inclusionOccurrenceEqual(o.inclusion, d.inclusion)

\* The states a transition may leave, and what it may not contradict.
Allowed(o, t) ==
  CASE t.type = "mark_abandoned" ->
         o.state = IF t.reason = "submission_not_attempted" THEN "prepared" ELSE "submission_attempted"
    [] t.type = "mark_submission_attempted" -> o.state = "prepared"
    [] t.type = "mark_submitted" -> o.state = "submission_attempted"
    [] t.type \in {"record_pending", "record_unreadable"} -> o.state # "prepared"
    [] t.type = "record_included" -> mayInclude(o, t.inclusion)
    [] t.type = "record_finalized" -> mayFinalize(o, t.finality)
    [] t.type = "record_dropped" -> mayDrop(o, t.drop)
    [] t.type = "record_superseded" -> o.state \in {"submission_attempted", "submitted"}

\* A transition of another identity, or earlier than the record, is refused.
MayAdvance(o, t) ==
  /\ parseTransition(t, o.identity)
  /\ Allowed(o, t)
  /\ Ignored(o, t) \/ TimeOf(t) >= o.updatedAt

\* nextRevision and the fields every transition writes.
Advanced(o, t, state) ==
  [o EXCEPT !.revision = @ + 1, !.state = state, !.updatedAt = TimeOf(t), !.observation = NoObservation]

Apply(o, t) ==
  IF Ignored(o, t) THEN o ELSE
  CASE t.type = "mark_abandoned" ->
         [Advanced(o, t, "abandoned") EXCEPT !.abandonedAt = t.at, !.reason = t.reason,
                                             !.submission = "none", !.attemptedAt = NoTime]
    [] t.type = "mark_submission_attempted" ->
         [Advanced(o, t, "submission_attempted") EXCEPT !.attemptedAt = t.at]
    [] t.type = "mark_submitted" ->
         [Advanced(o, t, "submitted") EXCEPT !.submittedAt = t.at, !.submission = t.submission]
    [] t.type \in {"record_pending", "record_unreadable"} ->
         [Advanced(o, t, o.state) EXCEPT
            !.observation = [status |-> IF t.type = "record_pending" THEN "pending" ELSE "unreadable",
                             at |-> t.at]]
    [] t.type = "record_included" -> [Advanced(o, t, "included") EXCEPT !.inclusion = t.inclusion]
    [] t.type = "record_finalized" -> [Advanced(o, t, "finalized") EXCEPT !.finality = t.finality]
    [] t.type = "record_dropped" ->
         [Advanced(o, t, "dropped") EXCEPT !.drop = t.drop, !.supersession = NoSupersession]
    [] t.type = "record_superseded" ->
         [Advanced(o, t, "superseded") EXCEPT !.supersession = t.supersession]
=============================================================================
