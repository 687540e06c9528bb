--------------------------- MODULE OperationRunner ---------------------------
(***************************************************************************)
(* One journal lane - one (Grant, chain, kind, lane key) - and everything  *)
(* that works on it concurrently: runners (packages/sdk/src/               *)
(* operation-runner.ts) that prepare, publish, send and observe, the       *)
(* OperationStore compare-and-swap they share (store.ts), the verified     *)
(* observer (operation-observer.ts), and as environment the bundler and a  *)
(* chain that can reorganise until a block is finalized.                   *)
(*                                                                         *)
(* A runner is one call of one runner method.  Each awaited effect is a    *)
(* step of its own, so calls interleave at exactly the points where the    *)
(* code awaits; purely local work is folded into the neighbouring step.    *)
(* The rejection of an await that has no effect, a timeout, and the death  *)
(* of the process are all the step Stop: the call ends, what is durable    *)
(* and what is on the wire stays.                                          *)
(***************************************************************************)
EXTENDS Operation, Sequences

CONSTANTS Runners,      \* concurrent calls, of any number of processes
          Nonce,        \* the EntryPoint sequence an identity is bound to
          Methods,      \* the runner methods the client calls
          MaxRevision,  \* bound: sends start, and weak observations are kept,
                        \* only below this store revision
          MaxBlocks     \* blocks that ever include an operation of the lane

Modes == {"start", "run_replace", "run_reuse", "resume", "abandon", "observe"}

ASSUME NonceAssumption == Nonce \in [Ids -> Nat]
ASSUME MethodsAssumption == Methods \subseteq Modes
ASSUME BoundAssumption == MaxRevision \in Nat /\ MaxBlocks \in Nat

VARIABLES current,   \* the lane's current journal record
          archive,   \* its archived records, by identity
          run,       \* the calls
          sends,     \* submit requests made for an identity
          gateway,   \* what became of the last one at the submission session
          chain,     \* canonical operations of this nonce key, in sequence order
          finalized, \* how many of them are final
          blocks     \* blocks produced, also the name of the latest one

journal == <<current, archive>>
network == <<sends, gateway>>
ledger == <<chain, finalized, blocks>>
vars == <<current, archive, run, sends, gateway, chain, finalized, blocks>>

(***************************************************************************)
(* The locals of a call: want is expectedUserOperationHash, rec the record *)
(* it last read or committed, next the value it is committing, cont what   *)
(* the commit is for, tries the attempt counter of the loop it is in.      *)
(***************************************************************************)
RunStates == [pc : {"idle", "read", "archive", "prepare", "commit", "verify",
                    "authorize", "open", "answer", "observe"},
              mode : Modes,
              want : Ids \cup {NoId},
              rec : Records,
              next : Records,
              cont : {"publish", "attempt", "abandon", "reject", "ack", "observe"},
              tries : 0..3]

Idle == [pc |-> "idle", mode |-> "start", want |-> NoId, rec |-> NoRecord,
         next |-> NoRecord, cont |-> "publish", tries |-> 0]

Slots == [id : Ids \cup {NoId}, block : Nat]

\* Every record, archived record and local of a call keeps to the shape of
\* operation.ts, and no loop of a call exceeds its attempts.
TypeOK ==
  /\ current \in Records
  /\ archive \in [Ids -> Records]
  /\ run \in [Runners -> RunStates]
  /\ sends \in [Ids -> Nat]
  /\ gateway \in [Ids -> {"unsent", "wire", "accepted", "refused"}]
  /\ chain \in Seq(Slots)
  /\ finalized \in Nat
  /\ blocks \in Nat

Init ==
  /\ current = NoRecord
  /\ archive = [id \in Ids |-> NoRecord]
  /\ run = [r \in Runners |-> Idle]
  /\ sends = [id \in Ids |-> 0]
  /\ gateway = [id \in Ids |-> "unsent"]
  /\ chain = <<>>
  /\ finalized = 0
  /\ blocks = 0

-----------------------------------------------------------------------------
(***************************************************************************)
(* Where a call goes next.  Each operator maps the locals of a call to its *)
(* locals after a local decision of the code.                              *)
(***************************************************************************)
GoingTo(s, pc, rec) ==
  [s EXCEPT !.pc = pc, !.rec = rec, !.next = NoRecord, !.cont = "publish"]

Observing(s, rec) ==
  IF operationOccupiesLane(rec) /\ rec.state # "prepared"
  THEN GoingTo(s, "observe", rec)
  ELSE Idle       \* a terminal record is echoed, a prepared one refused

Committing(s, next, cont) ==
  [s EXCEPT !.pc = "commit", !.next = next, !.cont = cont]

\* The end of start and resume; run goes on to observe the record.
Started(s, rec) ==
  IF s.mode \in {"run_replace", "run_reuse"}
  THEN Observing([s EXCEPT !.tries = 0], rec) ELSE Idle

\* executeOperation once a record is published or found: only prepared goes on.
Published(s, rec) ==
  IF rec.state = "prepared" THEN GoingTo(s, "authorize", rec)
  ELSE IF s.mode = "start" THEN Idle ELSE Started(s, rec)

\* mark_submitted is retried against what a concurrent observation retained.
Acknowledging(s, rec) ==
  IF rec.state = "submission_attempted" /\ s.tries < 3
  THEN Committing([s EXCEPT !.rec = rec], MarkSubmitted(rec), "ack")
  ELSE Started(s, rec)

ConflictOnPublish(s, cur) ==
  CASE s.mode = "start" -> Idle
    [] s.mode # "start" /\ cur.id = s.next.id -> Published(s, cur)
    [] s.mode # "start" /\ cur.id # s.next.id
         /\ s.tries = 0 /\ ~operationOccupiesLane(cur) ->
         [s EXCEPT !.rec = cur, !.tries = 1]
    [] OTHER -> Idle

\* Mutant: losing the swap to another runner still opens a submission.
ConflictOnAttemptMutant(s, cur) ==
  IF cur.id = s.rec.id THEN GoingTo(s, "open", cur) ELSE Idle

ConflictOnAttempt(s, cur) ==
  IF cur.id = s.rec.id THEN Started(s, cur) ELSE Idle

ConflictOnAck(s, cur) ==
  IF cur.id = s.rec.id
  THEN Acknowledging([s EXCEPT !.tries = @ + 1], cur) ELSE Idle

\* An equal value ends the call, but values carry times: it may look again.
ConflictOnObserve(s, cur) ==
  IF cur.id = s.rec.id /\ s.tries < 2
  THEN Observing([s EXCEPT !.tries = @ + 1], cur) ELSE Idle

OnConflict(s, cur) ==
  CASE s.cont = "publish" -> ConflictOnPublish(s, cur)
    [] s.cont = "attempt" -> ConflictOnAttempt(s, cur)
    [] s.cont = "ack" -> ConflictOnAck(s, cur)
    [] s.cont = "observe" -> ConflictOnObserve(s, cur)
    [] s.cont \in {"abandon", "reject"} -> Idle

OnCommitted(s) ==
  CASE s.cont = "publish" -> Published(s, s.next)
    [] s.cont = "attempt" -> GoingTo(s, "open", s.next)
    [] s.cont = "ack" -> Started(s, s.next)
    [] s.cont \in {"abandon", "reject", "observe"} -> Idle

-----------------------------------------------------------------------------
(***************************************************************************)
(* The OperationStore.                                                     *)
(***************************************************************************)
\* validateNext: acknowledged evidence is kept, an occupied lane is not reused.
ValidNext(cur, next) ==
  /\ (cur.id = next.id /\ cur.submission) => next.submission
  /\ cur.id # next.id => ~operationOccupiesLane(cur)

Retained(id) == archive[id] # NoRecord

\* A refusal: the hash is archived history, or validateNext throws.
CommitRefused(r) ==
  /\ run[r].pc = "commit"
  /\ \/ Retained(run[r].next.id)
     \/ current.rev = run[r].rec.rev /\ ~ValidNext(current, run[r].next)
  /\ run' = [run EXCEPT ![r] = Idle]
  /\ UNCHANGED <<journal, network, ledger>>

CommitConflict(r) ==
  /\ run[r].pc = "commit"
  /\ ~Retained(run[r].next.id)
  /\ current.rev # run[r].rec.rev
  /\ run' = [run EXCEPT ![r] = OnConflict(@, current)]
  /\ UNCHANGED <<journal, network, ledger>>

\* Mutant: the replaced record is not archived.
CommitSwapMutant(r) ==
  LET next == [run[r].next EXCEPT !.rev = current.rev + 1] IN
  /\ run[r].pc = "commit"
  /\ ~Retained(next.id)
  /\ current.rev = run[r].rec.rev
  /\ ValidNext(current, next)
  /\ current' = next
  /\ \/ run' = [run EXCEPT ![r] = [@ EXCEPT !.pc = "verify", !.next = next]]
     \/ run' = [run EXCEPT ![r] = Idle]
  /\ UNCHANGED <<archive, network, ledger>>

\* The adapter's transaction; its answer may be lost although it applied.
CommitSwap(r) ==
  LET next == [run[r].next EXCEPT !.rev = current.rev + 1] IN
  /\ run[r].pc = "commit"
  /\ ~Retained(next.id)
  /\ current.rev = run[r].rec.rev
  /\ ValidNext(current, next)
  /\ current' = next
  /\ archive' = IF current.id \in Ids \ {next.id}
                THEN [archive EXCEPT ![current.id] = current] ELSE archive
  /\ \/ run' = [run EXCEPT ![r] = [@ EXCEPT !.pc = "verify", !.next = next]]
     \/ run' = [run EXCEPT ![r] = Idle]
  /\ UNCHANGED <<network, ledger>>

\* The re-read after the swap: only an unchanged record counts as committed.
ReadBack(r) ==
  /\ run[r].pc = "verify"
  /\ run' = [run EXCEPT ![r] = IF current = @.next THEN OnCommitted(@) ELSE Idle]
  /\ UNCHANGED <<journal, network, ledger>>

-----------------------------------------------------------------------------
(***************************************************************************)
(* The runner.                                                             *)
(***************************************************************************)
Invoke(r, mode, want) ==
  /\ run[r].pc = "idle"
  /\ want \in Ids <=> mode \in {"resume", "abandon", "observe"}
  /\ mode \in {"abandon", "observe"} \/ current.rev < MaxRevision
  /\ run' = [run EXCEPT ![r] = [@ EXCEPT !.pc = "read", !.mode = mode, !.want = want]]
  /\ UNCHANGED <<journal, network, ledger>>

\* The first read of every method, and what it decides at once.
AfterRead(s, rec) ==
  LET read == [s EXCEPT !.rec = rec] IN
  CASE s.mode = "start" /\ operationOccupiesLane(rec) -> Idle
    [] s.mode = "run_reuse" /\ rec.state \in TerminalStates -> Idle
    [] s.mode \in {"run_replace", "run_reuse"}
         /\ operationOccupiesLane(rec) /\ rec.state # "prepared" ->
         Observing(read, rec)
    [] s.mode = "abandon" ->
         IF rec.id = s.want /\ MayAbandon(rec, "submission_not_attempted")
         THEN Committing(read, MarkAbandoned(rec), "abandon") ELSE Idle
    [] s.mode = "observe" -> [read EXCEPT !.pc = "archive"]
    [] OTHER -> [read EXCEPT !.pc = "prepare"]

Read(r) ==
  /\ run[r].pc = "read"
  /\ run' = [run EXCEPT ![r] = AfterRead(@, current)]
  /\ UNCHANGED <<journal, network, ledger>>

\* getExact reads the archive after the current record, not with it.
ReadArchive(r) ==
  LET s == run[r] IN
  /\ s.pc = "archive"
  /\ run' = [run EXCEPT ![r] =
       IF s.rec.id = s.want /\ ~Retained(s.want) THEN Observing(s, s.rec) ELSE Idle]
  /\ UNCHANGED <<journal, network, ledger>>

\* A quote binds a fresh operation to the sequence at the head of the chain;
\* a resumed or retained one was bound when it was first prepared.
Quotes(s) ==
  IF s.mode = "resume" THEN {s.want}
  ELSE {id \in Ids : \/ Nonce[id] = Len(chain)
                     \/ s.rec.state = "prepared" /\ s.rec.id = id}

AfterPrepare(s, id) ==
  CASE operationOccupiesLane(s.rec) ->
         IF s.rec.id = id THEN Published(s, s.rec) ELSE Idle
    [] ~operationOccupiesLane(s.rec) /\ s.rec.id = id -> Idle
    [] OTHER -> Committing(s, createOperation(id), "publish")

Prepare(r) ==
  /\ run[r].pc = "prepare"
  /\ \E id \in Quotes(run[r]) :
       run' = [run EXCEPT ![r] = AfterPrepare(@, id)]
  /\ UNCHANGED <<journal, network, ledger>>

\* Mutant: the submission opens before the attempt is journaled.
AuthorizeMutant(r) ==
  /\ run[r].pc = "authorize"
  /\ run' = [run EXCEPT ![r] = GoingTo(@, "open", @.rec)]
  /\ UNCHANGED <<journal, network, ledger>>

\* authorizeOperation and confirmOperationPublished: admitted or refused.
Authorize(r) ==
  LET s == run[r] IN
  /\ s.pc = "authorize"
  /\ \/ run' = [run EXCEPT ![r] =
                  Committing(s, MarkSubmissionAttempted(s.rec), "attempt")]
     \/ /\ MayAbandon(s.rec, "submission_not_attempted")
        /\ run' = [run EXCEPT ![r] = Committing(s, MarkAbandoned(s.rec), "abandon")]
  /\ UNCHANGED <<journal, network, ledger>>

Submit(r) ==
  LET id == run[r].rec.id IN
  /\ run[r].pc = "open"
  /\ sends' = [sends EXCEPT ![id] = @ + 1]
  /\ gateway' = [gateway EXCEPT ![id] = "wire"]
  /\ run' = [run EXCEPT ![r].pc = "answer"]
  /\ UNCHANGED <<journal, ledger>>

Answer(r) ==
  LET s == run[r] IN
  /\ s.pc = "answer"
  /\ \/ /\ gateway[s.rec.id] = "accepted"
        /\ run' = [run EXCEPT ![r] = Acknowledging([s EXCEPT !.tries = 0], s.rec)]
     \/ /\ gateway[s.rec.id] = "refused"
        /\ MayAbandon(s.rec, "submission_rejected")
        /\ run' = [run EXCEPT ![r] = Committing(s, MarkAbandoned(s.rec), "reject")]
  /\ UNCHANGED <<journal, network, ledger>>

Stop(r) ==
  /\ run[r].pc # "idle"
  /\ run' = [run EXCEPT ![r] = Idle]
  /\ UNCHANGED <<journal, network, ledger>>

-----------------------------------------------------------------------------
(***************************************************************************)
(* The observer: what one verified observation of operation o may return.  *)
(* Every read can fail, time out or lag, so the weak results and a missing *)
(* receipt are possible at any time; a strong result is not.               *)
(***************************************************************************)
Included(o, i) ==
  IF o.state = "included" THEN o ELSE RecordIncluded(o, chain[i].block)

\* Mutant: inclusion is taken for finality.
WithReceiptMutant(o, i) ==
  {RecordWeak(Included(o, i), "unreadable"), RecordFinalized(Included(o, i))}

WithReceipt(o, i) ==
  IF o.state = "included" /\ o.inclusion # chain[i].block
  THEN {RecordWeak(o, "unreadable")}
  ELSE {RecordWeak(Included(o, i), "unreadable")}
         \cup (IF i <= finalized THEN {RecordFinalized(Included(o, i))} ELSE {})

\* Mutant: a consumed sequence is never looked at.
WithoutReceiptMutant(o) == {RecordWeak(o, w) : w \in {"pending", "unreadable"}}

\* Mutant: supersession is concluded from the head of the chain, before the
\* block that consumed the sequence is final.
WithoutReceiptAtHead(o) ==
  {RecordWeak(o, w) : w \in {"pending", "unreadable"}}
    \cup (IF Nonce[o.id] < finalized /\ chain[Nonce[o.id] + 1].id # o.id
          THEN {RecordDropped(o)} ELSE {})
    \cup (IF Nonce[o.id] < Len(chain) /\ MaySupersede(o)
          THEN {RecordSuperseded(o)} ELSE {})

WithoutReceipt(o) ==
  {RecordWeak(o, w) : w \in {"pending", "unreadable"}}
    \cup (IF Nonce[o.id] < finalized /\ chain[Nonce[o.id] + 1].id # o.id
          THEN {RecordDropped(o)} ELSE {})
    \cup (IF Nonce[o.id] < finalized /\ MaySupersede(o)
          THEN {RecordSuperseded(o)} ELSE {})

Observations(o) ==
  WithoutReceipt(o)
    \cup UNION {WithReceipt(o, i) : i \in {j \in DOMAIN chain : chain[j].id = o.id}}

Observe(r) ==
  /\ run[r].pc = "observe"
  /\ \E o \in Observations(run[r].rec) :
       /\ o.state \in TerminalStates \/ run[r].rec.rev < MaxRevision
       /\ run' = [run EXCEPT ![r] = Committing(@, o, "observe")]
  /\ UNCHANGED <<journal, network, ledger>>

-----------------------------------------------------------------------------
(***************************************************************************)
(* The environment: the submission session, the EntryPoint and the chain.  *)
(***************************************************************************)
Accept(id) ==
  /\ gateway[id] = "wire"
  /\ gateway' = [gateway EXCEPT ![id] = "accepted"]
  /\ UNCHANGED <<journal, run, sends, ledger>>

Refuse(id) ==
  /\ gateway[id] = "wire"
  /\ gateway' = [gateway EXCEPT ![id] = "refused"]
  /\ UNCHANGED <<journal, run, sends, ledger>>

\* The EntryPoint admits the next sequence only; NoId is an operation this
\* journal never prepared.
Include(id) ==
  /\ blocks < MaxBlocks
  /\ id \in Ids => gateway[id] = "accepted" /\ Nonce[id] = Len(chain)
  /\ blocks' = blocks + 1
  /\ chain' = Append(chain, [id |-> id, block |-> blocks + 1])
  /\ UNCHANGED <<journal, run, network, finalized>>

Finalize ==
  /\ finalized < Len(chain)
  /\ finalized' = finalized + 1
  /\ UNCHANGED <<journal, run, network, chain, blocks>>

Reorg ==
  /\ finalized < Len(chain)
  /\ blocks < MaxBlocks
  /\ chain' = SubSeq(chain, 1, Len(chain) - 1)
  /\ UNCHANGED <<journal, run, network, finalized, blocks>>

RunStep(r) ==
  \/ CommitRefused(r) \/ CommitConflict(r) \/ CommitSwap(r) \/ ReadBack(r)
  \/ Read(r) \/ ReadArchive(r) \/ Prepare(r) \/ Authorize(r)
  \/ Submit(r) \/ Answer(r) \/ Observe(r)

Next ==
  \/ \E r \in Runners :
       \/ \E mode \in Methods, want \in Ids \cup {NoId} : Invoke(r, mode, want)
       \/ RunStep(r)
       \/ Stop(r)
  \/ \E id \in Ids : Accept(id) \/ Refuse(id)
  \/ \E id \in Ids \cup {NoId} : Include(id)
  \/ Finalize
  \/ Reorg

Spec == Init /\ [][Next]_vars

(***************************************************************************)
(* Fairness.  OperationHandle.wait polls observeOperation until an outcome, *)
(* and a client that uses abandonPreparedOperation keeps offering it; no  *)
(* call hangs for ever (it returns, times out or dies with its process),   *)
(* not every call dies, and not every verified read fails for ever.        *)
(* Nothing is assumed of the bundler or of the chain.                      *)
(***************************************************************************)
ReadAs(r, mode) == Read(r) /\ run[r].mode = mode
ObserveConclusively(r) == Observe(r) /\ run'[r].next.state \in TerminalStates
SwapConclusion(r) == CommitSwap(r) /\ run[r].next.state \in TerminalStates

Fairness ==
  \A r \in Runners :
    /\ \A mode \in Methods \cap {"abandon", "observe"} :
         /\ \A want \in Ids : SF_vars(Invoke(r, mode, want))
         /\ SF_vars(ReadAs(r, mode))
    /\ SF_vars(ReadArchive(r))
    /\ SF_vars(ObserveConclusively(r))
    /\ SF_vars(SwapConclusion(r))
    /\ WF_vars(RunStep(r) \/ Stop(r))

FairSpec == Spec /\ Fairness

-----------------------------------------------------------------------------
(***************************************************************************)
(* Properties.                                                             *)
(***************************************************************************)
\* The journal's record of an identity: the current one or the archived one.
Held(id) == IF current.id = id THEN current ELSE archive[id]

Rank(state) ==
  CASE state = "absent" -> 0
    [] state = "prepared" -> 1
    [] state = "submission_attempted" -> 2
    [] state = "submitted" -> 3
    [] state = "included" -> 4
    [] state \in TerminalStates -> 5

\* No identity is handed to the submission session twice, whatever runners,
\* crashes, lost commits, resumptions and reused identities do ("never
\* resubmits an operation it cannot observe"; openSubmission follows only a
\* committed mark_submission_attempted).
AtMostOneSend == \A id \in Ids : sends[id] <= 1

\* Nothing reaches the bundler before the durable journal says that a send
\* may have happened: a crash at any point leaves the evidence.
SentIsJournaled ==
  \A id \in Ids : sends[id] > 0 => Rank(Held(id).state) >= 2

\* An identity whose record released the lane can never execute afterwards:
\* it is not at the bundler, or its sequence is consumed by a final block.
\* This is what lets the next operation take the lane (operationOccupiesLane,
\* "the lane is conclusively free", operation-handle.ts).
FreedLaneIsConclusive ==
  \A id \in Ids :
    Held(id).state \in TerminalStates /\ gateway[id] \in {"wire", "accepted"}
      => Nonce[id] < finalized

\* A recorded conclusion is true of the final chain: finalized names a final
\* inclusion of this identity, dropped a final block of another operation at
\* its sequence, abandoned an identity the chain never carries.
ConclusionIsTrue ==
  \A id \in Ids :
    LET o == Held(id) IN
    /\ o.state = "finalized" =>
         /\ Nonce[id] < finalized
         /\ chain[Nonce[id] + 1] = [id |-> id, block |-> o.inclusion]
    /\ o.state = "dropped" =>
         /\ Nonce[id] < finalized
         /\ chain[Nonce[id] + 1].id # id
    /\ o.state = "abandoned" => \A i \in DOMAIN chain : chain[i].id # id

\* A step never moves an identity's record backwards, forgets acknowledged
\* submission evidence, or touches a terminal record again - across the
\* current record and its archived copy (validateNext, archiveFor, CAS).
Monotone(id) ==
  /\ Rank(Held(id)'.state) >= Rank(Held(id).state)
  /\ Held(id).submission => Held(id)'.submission
  /\ Held(id).state \in TerminalStates => Held(id)' = Held(id)

JournalMonotone == [][\A id \in Ids : Monotone(id)]_vars

\* Once an identity's sequence is consumed by a final block, observation (and
\* abandonment, for a client that uses it) eventually releases its lane: "An
\* unresolved operation occupies one account/chain slot ... until observation
\* resolves it" (packages/sdk/README.md).
LaneResolved ==
  \A id \in Ids :
    (Held(id).state \in OpenStates /\ Nonce[id] < finalized)
      ~> Held(id).state \in TerminalStates

(***************************************************************************)
(* The lane as its callers see it.                                         *)
(***************************************************************************)
LaneHolder == IF operationOccupiesLane(current) THEN current.id ELSE NoId

LaneStatus ==
  [id \in Ids |->
     CASE Held(id).state = "absent" -> "new"
       [] Held(id).state \in {"submission_attempted", "submitted", "included"} ->
            "attempted"
       [] OTHER -> Held(id).state]

LaneSent == {id \in Ids : sends[id] > 0}

LaneExecuted == {chain[i].id : i \in 1..finalized} \cap Ids

Lane == INSTANCE OperationLane WITH holder <- LaneHolder, status <- LaneStatus,
                                    sent <- LaneSent, executed <- LaneExecuted

\* Runners, journal, bundler and chain together keep the lane's promise: with
\* crashes, lost commit answers, late sends and reorganisations anywhere, an
\* identity takes the lane once, is sent at most once, becomes final only while
\* it holds the lane, and releases it with a conclusion that is true.
LaneSpec == Lane!Spec
=============================================================================
