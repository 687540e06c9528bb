-------------------------------- MODULE Records --------------------------------
(***************************************************************************)
(* The records the SDK keeps, side by side: the life of a Grant            *)
(* (GrantLife), the life of an Operation (OperationLife) and one lane of   *)
(* the store that holds them (AggregateStore).  A behaviour is about one of*)
(* them, `subject`: they share no state, and what relates them is checked  *)
(* where they meet (OperationRunner, GrantHandle).                         *)
(***************************************************************************)
EXTENDS GrantLife

CONSTANTS Scopes, Txs, Lanes,          \* of OperationLife
          OpMaxTime, OpMaxRevision,
          Clients, Failures,           \* of AggregateStore
          MaxStoreRevision, MaxAdvance

VARIABLES subject, operation, lane, archive, client

O == INSTANCE OperationLife WITH MaxTime <- OpMaxTime, MaxRevision <- OpMaxRevision

S == INSTANCE AggregateStore WITH Hashes <- Ops, MaxRevision <- MaxStoreRevision

store == <<lane, archive, client>>

RecordsInit ==
  /\ subject \in {"grant", "operation", "lane"}
  /\ Init
  /\ IF subject = "operation" THEN O!Init ELSE operation = O!NoOperation
  /\ S!Init

RecordsNext ==
  /\ UNCHANGED subject
  /\ \/ subject = "grant" /\ Next /\ UNCHANGED <<operation, store>>
     \/ subject = "operation" /\ O!Next /\ UNCHANGED <<grant, store>>
     \/ subject = "lane" /\ S!Next /\ UNCHANGED <<grant, operation>>

RecordsSpec == RecordsInit /\ [][RecordsNext]_<<subject, grant, operation, store>>

-----------------------------------------------------------------------------
\* The guards of advanceGrant and of advanceParsedOperation imply what the
\* parsers of the two records require of the successor.  The parsers and the
\* guards are written apart, and a pair that disagrees makes a legal
\* transition fail when it is stored, or worse when it is next read.
RecordsParse ==
  /\ subject = "grant" => GuardsImplyParse
  /\ subject = "operation" => O!OperationGuardsImplyParse

\* The fate an Operation record states is final: of the ended records only a
\* superseded one may still learn which operation took its nonce, an inclusion
\* is only ever confirmed or displaced by another occurrence, and an
\* acknowledgement is kept to the end.
OperationFateKept ==
  [][operation' # operation => O!KeepsFate(operation, operation')]_operation

\* The archive of a lane holds only ended Operations, each older than the
\* lane's record and none of its hash, whatever the clients write and however
\* their swaps fail: a reader that is not overtaken is never refused.
\* getExact is not one read, and its answer is right all the same (see
\* AggregateStore).
LaneReadsAreTrue == S!HistoryIsReadable /\ S!ExactReadIsTrue
=============================================================================
