------------------------------- MODULE Provider -------------------------------
(***************************************************************************)
(* wallet_sendCalls, wallet_getCallsStatus (provider/eip5792.ts) and the   *)
(* prepared calls of ERC-7836 (provider/erc7836.ts) over three stores: the *)
(* bundle store, the prepared-call store and the operation journal.  The   *)
(* runner calls back into the provider (reserve, confirm, abandon) between *)
(* its own journal commits; each commit, each callback and each status     *)
(* read is a step.  Callers are pages or requests of one wallet and may    *)
(* stop anywhere.                                                          *)
(*                                                                         *)
(* The clock does not go back.  A journal record is what OperationRunner   *)
(* models, with `submitted' and `included' folded into attempted; chain    *)
(* reorganisations are modelled there.  A status request that answers      *)
(* pending, or fails, without changing anything is not a step.             *)
(***************************************************************************)
EXTENDS BundleStore

CONSTANTS
    Callers,      \* concurrent requests
    Senders,      \* the callers that may send; all of them ask for a status
    Contexts,     \* the bundle ids that belong to prepared-call contexts
    CallsOf,      \* [Ids -> the calls it may be requested with]
    Confirmer,    \* whether the wallet was built with confirmCalls
    ContextLife   \* OAATH_PREPARED_CALL_CONTEXT_LIFETIME_SECONDS

ASSUME ProviderAssumption ==
    Senders \subseteq Callers /\ Contexts \subseteq Ids /\ CallsOf \in [Ids -> SUBSET Calls] /\ Confirmer \in BOOLEAN /\ ContextLife \in Nat \ {0}

VARIABLES
    bundles,    \* the bundle store
    contexts,   \* the prepared-call store, keyed by the context's bundle id
    journal,    \* [Hashes -> record of the operation store, by its hash]
    lane,       \* the hash of the lane's current record
    nonce,      \* the account's nonce sequence on the chain
    sent,       \* hashes that reached the bundler
    executed,   \* hashes executed on the chain
    now,        \* the clock
    call,       \* [Callers -> the request being served]
    answer,     \* [Ids -> the final status a caller was given]
    returned    \* ids that wallet_sendCalls or wallet_sendPreparedCalls returned

stores == <<bundles, contexts, journal, lane>>
chain == <<nonce, sent, executed>>
vars == <<bundles, contexts, journal, lane, nonce, sent, executed, now, call, answer, returned>>

SendIds == Ids \ Contexts

JournalStates == {"absent", "prepared", "attempted", "abandoned", "finalized", "superseded", "dropped"}

Idle == [pc |-> "idle", kind |-> "none", id |-> None, calls |-> None, hash |-> None, rec |-> Absent,
         lane |-> Absent, ctx |-> Absent, at |-> 0, found |-> "none", retried |-> FALSE]

Init ==
    /\ bundles = [b \in Ids |-> Absent]
    /\ contexts = [c \in Contexts |-> Absent]
    /\ journal = [h \in Hashes |-> [state |-> "absent", owner |-> None]]
    /\ lane = None
    /\ nonce = 0
    /\ sent = {}
    /\ executed = {}
    /\ now = 0
    /\ call = [p \in Callers |-> Idle]
    /\ answer = [b \in Ids |-> "none"]
    /\ returned = {}

-----------------------------------------------------------------------------
Goto(p, c) == call' = [call EXCEPT ![p] = c]
At(p, pc) == call[p].pc = pc
Stop(p) == Goto(p, Idle)
Bundle(b, r) == bundles' = [bundles EXCEPT ![b] = r]
Journal(h, state, owner) == journal' = [journal EXCEPT ![h] = [state |-> state, owner |-> owner]]

\* The record of the lane, which is also the revision a commit expects: no
\* record comes back once it was replaced.
LaneNow ==
    IF lane = None THEN [hash |-> None, state |-> "absent", owner |-> None]
    ELSE [hash |-> lane, state |-> journal[lane].state, owner |-> journal[lane].owner]

Occupied(l) == l.state \in {"prepared", "attempted"}
Mine(c, l) == l.hash = c.hash /\ l.owner = c.id

\* Where a request goes on once its operation is started.
Started(c) == IF c.kind = "start" THEN "finish" ELSE "converge"

\* terminalize, and every markTerminal of a callback: the record becomes
\* terminal if it is still the one that was seen.
Terminalized(b, seen) ==
    IF Fenced(bundles[b], seen, OpenStates)
    THEN [bundles EXCEPT ![b] = markTerminal(bundles[b])]
    ELSE bundles

\* recoverOperation: what the journal says of the exact operation of a bundle.
Recovered(h, b) ==
    LET j == journal[h]
    IN  IF j.state = "absent" THEN "absent"
        ELSE IF j.owner # b THEN "request_conflict"
        ELSE IF j.state \in {"abandoned", "prepared"} THEN j.state
        ELSE "observable"

-----------------------------------------------------------------------------
(* wallet_sendCalls: reservation and confirmation.                         *)

SendCalls(p, b) ==
    /\ At(p, "idle")
    /\ p \in Senders /\ b \in SendIds
    /\ bundles[b] = Absent
    /\ now + Lease + Lifetime <= MaxNow
    /\ \E k \in CallsOf[b] :
          LET r == IF Confirmer THEN reservePendingConfirmation(now)
                   ELSE reserveAccepted(now + Lease)
          IN  /\ Bundle(b, r)
              /\ Goto(p, [Idle EXCEPT !.pc = IF Confirmer THEN "confirm" ELSE "lane",
                                      !.kind = "start", !.id = b, !.calls = k, !.rec = r])
    /\ UNCHANGED <<contexts, journal, lane, chain, now, answer, returned>>

\* The user approves in time; an approval that is late, or that a status
\* request has overtaken, ends the bundle.
Approve(p) ==
    /\ At(p, "confirm")
    /\ LET c == call[p]
           r == approveConfirmation(bundles[c.id], now)
       IN  IF mayApprove(bundles[c.id], c.rec, now)
           THEN /\ now + Lease <= MaxNow
                /\ Bundle(c.id, r)
                /\ Goto(p, [c EXCEPT !.pc = "lane", !.rec = r])
           ELSE bundles' = Terminalized(c.id, c.rec) /\ Stop(p)
    /\ UNCHANGED <<contexts, journal, lane, chain, now, answer, returned>>

\* The user rejects, or a send fails before its operation was reserved.
GiveUp(p) ==
    /\ call[p].pc \in {"confirm", "undo"}
    /\ bundles' = Terminalized(call[p].id, call[p].rec)
    /\ Stop(p)
    /\ UNCHANGED <<contexts, journal, lane, chain, now, answer, returned>>

-----------------------------------------------------------------------------
(* The runner's start (a new operation) and resume (the exact prepared one) *)
(* with the callbacks of the provider.                                      *)

ReadLane(p) ==
    /\ At(p, "lane")
    /\ LET c == call[p]
           l == LaneNow
       IN  IF ~Occupied(l) \/ (c.kind = "resume" /\ Mine(c, l) /\ l.state = "prepared")
           THEN Goto(p, [c EXCEPT !.pc = "prepare", !.lane = l])
           ELSE IF c.kind = "start" THEN Goto(p, [c EXCEPT !.pc = "undo"])
           ELSE IF Mine(c, l) THEN Goto(p, [c EXCEPT !.pc = "converge"])
           ELSE Stop(p)
    /\ UNCHANGED <<stores, chain, now, answer, returned>>

\* prepare and the reserve callback.  A start reserves against the record it
\* created; a resume accepts a bundle that already names its operation.
ReserveForStart(p) ==
    /\ At(p, "prepare") /\ call[p].kind = "start" /\ nonce <= MaxSeq
    /\ LET c == call[p]
           h == <<c.calls, nonce>>
           r == reserveOperation(bundles[c.id], h)
       IN  IF Fenced(bundles[c.id], c.rec, {"accepted"})
           THEN /\ Bundle(c.id, r)
                /\ Goto(p, [c EXCEPT !.pc = "publish", !.hash = h, !.rec = r])
           ELSE UNCHANGED bundles /\ Stop(p)
    /\ UNCHANGED <<contexts, journal, lane, chain, now, answer, returned>>

\* The quote, the sponsorship or the preparation of a start fails.
PreparationFails(p) ==
    /\ At(p, "prepare") /\ call[p].kind = "start"
    /\ Goto(p, [call[p] EXCEPT !.pc = "undo"])
    /\ UNCHANGED <<stores, chain, now, answer, returned>>

ReserveForResume(p) ==
    /\ At(p, "prepare") /\ call[p].kind = "resume"
    /\ LET c == call[p]
           r == bundles[c.id]
           on == [c EXCEPT !.pc = IF Occupied(c.lane) THEN "authorize" ELSE "publish"]
       IN  IF r.op # None THEN UNCHANGED bundles /\ Goto(p, on)
           ELSE IF Fenced(r, r, {"accepted"})
           THEN Bundle(c.id, reserveOperation(r, c.hash)) /\ Goto(p, on)
           ELSE UNCHANGED bundles /\ Stop(p)
    /\ UNCHANGED <<contexts, journal, lane, chain, now, answer, returned>>

\* publishPrepared: the commit of the prepared operation at the lane's revision.
Publish(p) ==
    /\ At(p, "publish")
    /\ LET c == call[p]
           l == LaneNow
           release == [c EXCEPT !.pc = "release"]
           prepared == [hash |-> c.hash, state |-> "prepared", owner |-> c.id]
       IN  IF l = c.lane
           THEN IF l.hash = c.hash THEN Goto(p, release) /\ UNCHANGED <<journal, lane>>
                ELSE IF journal[c.hash].state # "absent" THEN Stop(p) /\ UNCHANGED <<journal, lane>>
                ELSE /\ Journal(c.hash, "prepared", c.id)
                     /\ lane' = c.hash
                     /\ Goto(p, [c EXCEPT !.pc = "authorize", !.lane = prepared])
           ELSE /\ UNCHANGED <<journal, lane>>
                /\ IF c.kind = "resume" /\ Mine(c, l)
                   THEN Goto(p, [c EXCEPT !.pc = IF l = prepared THEN "authorize" ELSE "converge",
                                          !.lane = l])
                   ELSE IF c.kind = "resume" /\ ~c.retried /\ ~Occupied(l)
                   THEN Goto(p, [c EXCEPT !.lane = l, !.retried = TRUE])
                   ELSE Goto(p, release)
    /\ UNCHANGED <<bundles, contexts, chain, now, answer, returned>>

\* authorizeOperation: the Grant admits the execution or it does not.
Authorize(p) ==
    /\ At(p, "authorize")
    /\ \E admitted \in BOOLEAN :
          Goto(p, [call[p] EXCEPT !.pc = IF admitted THEN "bind" ELSE "abandon"])
    /\ UNCHANGED <<stores, chain, now, answer, returned>>

\* The record the confirm callback expects: the one this start reserved, or
\* the one a resume has just read.
SeenReserved(c) == IF c.kind = "start" THEN c.rec ELSE bundles[c.id]

\* A bug in which a start attempts the submission without the confirmation.
ConfirmPublicationMutant(p) ==
    /\ At(p, "bind")
    /\ Goto(p, [call[p] EXCEPT !.pc = "attempt"])
    /\ UNCHANGED <<stores, chain, now, answer, returned>>

ConfirmPublication(p) ==
    /\ At(p, "bind")
    /\ LET c == call[p]
           r == bundles[c.id]
           next == confirmOperationPublished(r)
       IN  IF Fenced(r, SeenReserved(c), {"operation_reserved"})
           THEN \/ Bundle(c.id, next) /\ Goto(p, [c EXCEPT !.pc = "attempt", !.rec = next])
                \/ /\ Bundle(c.id, next) \/ UNCHANGED bundles    \* the answer was lost
                   /\ Goto(p, [c EXCEPT !.pc = "abandon"])
           ELSE /\ UNCHANGED bundles
                /\ Goto(p, [c EXCEPT !.pc = IF c.kind = "resume" /\ r.state = "operation_bound"
                                            THEN "attempt" ELSE "abandon"])
    /\ UNCHANGED <<contexts, journal, lane, chain, now, answer, returned>>

\* abandonBeforeSubmission (of a prepared record) and rejectSubmission (of an
\* attempted one): the commit, then the abandon callback.
Abandon(p) ==
    /\ call[p].pc \in {"abandon", "reject"}
    /\ LET c == call[p]
           l == LaneNow
       IN  IF l = c.lane
           THEN Journal(c.hash, "abandoned", c.id) /\ Goto(p, [c EXCEPT !.pc = "release"])
           ELSE /\ UNCHANGED journal
                /\ IF Mine(c, l) /\ l.state = "abandoned" THEN Goto(p, [c EXCEPT !.pc = "release"])
                   ELSE IF Mine(c, l) /\ c.pc = "reject" THEN Goto(p, [c EXCEPT !.pc = Started(c)])
                   ELSE Stop(p)
    /\ UNCHANGED <<bundles, contexts, lane, chain, now, answer, returned>>

\* The abandon callback, also as the release of a reservation that lost.
ReleaseReservation(p) ==
    /\ At(p, "release")
    /\ LET c == call[p] IN bundles' = Terminalized(c.id, SeenReserved(c))
    /\ Stop(p)
    /\ UNCHANGED <<contexts, journal, lane, chain, now, answer, returned>>

Attempt(p) ==
    /\ At(p, "attempt")
    /\ LET c == call[p]
           l == LaneNow
       IN  IF l = c.lane
           THEN /\ Journal(c.hash, "attempted", c.id)
                /\ Goto(p, [c EXCEPT !.pc = "send", !.lane.state = "attempted"])
           ELSE /\ UNCHANGED journal
                /\ IF c.kind = "resume" /\ Mine(c, l) /\ l.state # "prepared"
                   THEN Goto(p, [c EXCEPT !.pc = "converge"])
                   ELSE Stop(p)
    /\ UNCHANGED <<bundles, contexts, lane, chain, now, answer, returned>>

\* The submission reaches the bundler, is lost, or is rejected by it.
Send(p) ==
    /\ At(p, "send")
    /\ LET c == call[p]
       IN  \/ sent' = sent \cup {c.hash} /\ Goto(p, [c EXCEPT !.pc = Started(c)])
           \/ UNCHANGED sent /\ Goto(p, [c EXCEPT !.pc = Started(c)])
           \/ UNCHANGED sent /\ Goto(p, [c EXCEPT !.pc = "reject"])
    /\ UNCHANGED <<stores, nonce, executed, now, answer, returned>>

\* A resume brings the bundle to bound whoever advanced the operation.
Converge(p) ==
    /\ At(p, "converge")
    /\ LET c == call[p]
           r == bundles[c.id]
       IN  IF r.op = None /\ Fenced(r, r, {"accepted"})
           THEN Bundle(c.id, reserveOperation(r, c.hash)) /\ UNCHANGED call
           ELSE IF Fenced(r, r, {"operation_reserved"})
           THEN /\ Bundle(c.id, confirmOperationPublished(r))
                /\ Goto(p, [c EXCEPT !.pc = "finish"])
           ELSE /\ UNCHANGED bundles
                /\ IF r.state = "operation_bound" THEN Goto(p, [c EXCEPT !.pc = "finish"]) ELSE Stop(p)
    /\ UNCHANGED <<contexts, journal, lane, chain, now, answer, returned>>

Return(b) == returned' = returned \cup {b}

\* releaseOperationPublication, after which the id is returned: by a start whose
\* bundle is bound, by a resume also when another one has released it.
FinishSend(p) ==
    /\ At(p, "finish") /\ call[p].kind = "start"
    /\ LET b == call[p].id
           r == bundles[b]
       IN  IF Fenced(r, r, {"operation_bound"})
           THEN Bundle(b, releaseOperationPublication(r)) /\ Return(b)
           ELSE UNCHANGED <<bundles, returned>>
    /\ Stop(p)
    /\ UNCHANGED <<contexts, journal, lane, chain, now, answer>>

ReleasePublication(p) ==
    /\ At(p, "finish") /\ call[p].kind = "resume"
    /\ LET b == call[p].id
           r == bundles[b]
       IN  IF r.released THEN UNCHANGED bundles /\ Return(b)
           ELSE IF Fenced(r, r, {"operation_bound"})
           THEN Bundle(b, releaseOperationPublication(r)) /\ Return(b)
           ELSE UNCHANGED <<bundles, returned>>
    /\ Stop(p)
    /\ UNCHANGED <<contexts, journal, lane, chain, now, answer>>

-----------------------------------------------------------------------------
(* wallet_prepareCalls and wallet_sendPreparedCalls.                       *)

PrepareCalls(c) ==
    /\ contexts[c] = Absent
    /\ nonce <= MaxSeq
    /\ \E k \in CallsOf[c] :
          contexts' = [contexts EXCEPT ![c] = reservePrepared(<<k, nonce>>, now, now + ContextLife)]
    /\ UNCHANGED <<bundles, journal, lane, chain, now, call, answer, returned>>

SendPreparedCalls(p, c) ==
    /\ At(p, "idle")
    /\ p \in Senders /\ contexts[c] # Absent
    /\ LET x == contexts[c]
       IN  /\ x.state \in {"prepared", "consumed"}
           /\ IF x.state = "prepared" /\ now >= x.expiresAt
              THEN contexts' = [contexts EXCEPT ![c] = markExpired(x, now)] /\ UNCHANGED call
              ELSE /\ UNCHANGED contexts
                   /\ now + Lease <= MaxNow
                   /\ Goto(p, [Idle EXCEPT !.pc = IF x.state = "consumed" THEN "recall" ELSE "validate",
                                           !.kind = "resume", !.id = c, !.hash = x.op,
                                           !.ctx = x, !.at = now])
    /\ UNCHANGED <<bundles, journal, lane, chain, now, answer, returned>>

\* A consumed context: its operation may already be on its way.
Recall(p) ==
    /\ At(p, "recall")
    /\ LET c == call[p]
           found == Recovered(c.hash, c.id)
       IN  CASE found = "observable" -> Goto(p, [c EXCEPT !.pc = "bundle", !.found = found])
             [] found \in {"absent", "prepared"} -> Goto(p, [c EXCEPT !.pc = "validate"])
             [] found \in {"abandoned", "request_conflict"} -> Stop(p)
    /\ UNCHANGED <<stores, chain, now, answer, returned>>

\* validatePreparedCalls: the plan must still be what would be prepared now.
Validate(p) ==
    /\ At(p, "validate")
    /\ call[p].hash[2] = nonce
    /\ Goto(p, [call[p] EXCEPT !.pc = IF call[p].ctx.state = "prepared" THEN "consume" ELSE "bundle"])
    /\ UNCHANGED <<stores, chain, now, answer, returned>>

\* The nonce, the route, the gas or the grant have changed.
Invalidate(p) ==
    /\ At(p, "validate")
    /\ LET c == call[p]
           x == contexts[c.id]
       IN  contexts' = IF ContextFenced(x, c.ctx)
                       THEN [contexts EXCEPT ![c.id] = markStale(x, c.at)] ELSE contexts
    /\ Stop(p)
    /\ UNCHANGED <<bundles, journal, lane, chain, now, answer, returned>>

\* A bug in which a request that lost the context goes on with it.
ConsumeMutant(p) ==
    /\ At(p, "consume")
    /\ LET c == call[p]
           x == contexts[c.id]
           used == consume(x, c.at)
       IN  /\ contexts' = IF ContextFenced(x, c.ctx) THEN [contexts EXCEPT ![c.id] = used] ELSE contexts
           /\ Goto(p, [c EXCEPT !.pc = "bundle", !.ctx = used])
    /\ UNCHANGED <<bundles, journal, lane, chain, now, answer, returned>>

Consume(p) ==
    /\ At(p, "consume")
    /\ LET c == call[p]
           x == contexts[c.id]
           used == consume(x, c.at)
       IN  IF ContextFenced(x, c.ctx) /\ mayConsume(x, c.at)
           THEN /\ contexts' = [contexts EXCEPT ![c.id] = used]
                /\ Goto(p, [c EXCEPT !.pc = "bundle", !.ctx = used])
           ELSE /\ UNCHANGED contexts
                /\ IF x.state = "consumed" THEN Goto(p, [c EXCEPT !.pc = "bundle", !.ctx = x]) ELSE Stop(p)
    /\ UNCHANGED <<bundles, journal, lane, chain, now, answer, returned>>

\* reserveBundle: the context's bundle, created under the lease it was consumed with.
ReserveBundle(p) ==
    /\ At(p, "bundle")
    /\ LET c == call[p]
       IN  /\ IF bundles[c.id] = Absent THEN Bundle(c.id, reserveAccepted(c.ctx.lease))
              ELSE UNCHANGED bundles
           /\ Goto(p, [c EXCEPT !.pc = IF c.found = "observable" THEN "finish" ELSE "lane",
                                !.ctx = Absent, !.at = 0, !.found = "none"])
    /\ UNCHANGED <<contexts, journal, lane, chain, now, answer, returned>>

-----------------------------------------------------------------------------
(* wallet_getCallsStatus.                                                  *)

Answer(b, status) == answer' = [answer EXCEPT ![b] = status]

\* A caller knows an id it chose itself, or one that was returned to it.
Known(b) == b \in SendIds \cup returned

\* The bundle ran out before it had an operation.
StatusOfExpired(p, b) ==
    /\ At(p, "idle") /\ Known(b)
    /\ LET r == bundles[b]
       IN  /\ r # Absent
           /\ \/ r.state = "confirmation_pending" /\ now >= r.confirmBy
              \/ r.state = "accepted" /\ now >= r.lease
              \/ r.state = "terminal" /\ r.op = None
           /\ bundles' = Terminalized(b, r)
    /\ Answer(b, "failed")
    /\ UNCHANGED <<contexts, journal, lane, chain, now, call, returned>>

\* The lease of an unreleased bundle keeps its status pending.
StatusOfBound(p, b) ==
    /\ At(p, "idle") /\ Known(b)
    /\ LET r == bundles[b]
       IN  /\ r # Absent /\ r.op # None
           /\ (r.state = "terminal" \/ r.released \/ now >= r.lease)
           /\ Goto(p, [Idle EXCEPT !.pc = "recover", !.kind = "status", !.id = b,
                                   !.hash = r.op, !.rec = r])
    /\ UNCHANGED <<stores, chain, now, answer, returned>>

Recover(p) ==
    /\ call[p].pc \in {"recover", "recheck"}
    /\ LET c == call[p]
           found == Recovered(c.hash, c.id)
       IN  Goto(p, [c EXCEPT !.found = found,
                    !.pc = IF c.pc = "recover" /\ found = "prepared" /\ now >= c.rec.lease
                           THEN "abandonPrepared" ELSE "conclude"])
    /\ UNCHANGED <<stores, chain, now, answer, returned>>

\* A bug in which an abandoned reservation of the lane is left alone.
AbandonPreparedMutant(p) ==
    /\ At(p, "abandonPrepared")
    /\ Goto(p, [call[p] EXCEPT !.pc = "recheck"])
    /\ UNCHANGED <<stores, chain, now, answer, returned>>

\* abandonPreparedOperation, for a producer whose lease has run out.
AbandonPrepared(p) ==
    /\ At(p, "abandonPrepared")
    /\ LET c == call[p]
       IN  /\ IF LaneNow.hash = c.hash /\ LaneNow.state = "prepared"
              THEN Journal(c.hash, "abandoned", LaneNow.owner) ELSE UNCHANGED journal
           /\ Goto(p, [c EXCEPT !.pc = "recheck"])
    /\ UNCHANGED <<bundles, contexts, lane, chain, now, answer, returned>>

\* The states in which a bundle without an executable operation may be failed.
FailedFrom(found) ==
    IF found = "abandoned" THEN {"operation_reserved", "operation_bound"} ELSE {"operation_reserved"}

\* A bug in which a bundle is failed for want of a journal record although
\* another request has moved it on in the meantime.
FailsMutant(c) == Origin(c.rec) \in FailedFrom(c.found)

\* The bundle has failed: it is terminal, from the state this request saw.
Fails(c) ==
    LET r == Terminalized(c.id, c.rec)[c.id]
    IN  /\ Origin(c.rec) \in FailedFrom(c.found)
        /\ r.state = "terminal" /\ r.terminalFrom = Origin(c.rec)

Conclude(p) ==
    /\ At(p, "conclude")
    /\ LET c == call[p]
           dead == \/ c.found \in {"abandoned", "request_conflict"}
                   \/ c.found = "absent" /\ (c.rec.state = "terminal" \/ now >= c.rec.lease)
           on == c.found = "observable" /\ Origin(c.rec) # "operation_reserved"
       IN  /\ bundles' = IF dead /\ Origin(c.rec) \in FailedFrom(c.found)
                         THEN Terminalized(c.id, c.rec) ELSE bundles
           /\ IF dead /\ Fails(c) THEN Answer(c.id, "failed") ELSE UNCHANGED answer
           /\ Goto(p, IF on THEN [c EXCEPT !.pc = "observe"] ELSE Idle)
    /\ UNCHANGED <<contexts, journal, lane, chain, now, returned>>

\* One observation: the receipt, or a consumed nonce without one.
Observe(p) ==
    /\ At(p, "observe")
    /\ LET h == call[p].hash
       IN  IF journal[h].state # "attempted" THEN UNCHANGED journal
           ELSE \/ h \in executed /\ Journal(h, "finalized", call[p].id)
                \/ /\ h \notin executed /\ h[2] < nonce
                   /\ \E verdict \in {"superseded", "dropped"} : Journal(h, verdict, call[p].id)
                \/ h \notin executed /\ h[2] >= nonce /\ UNCHANGED journal
    /\ Goto(p, [call[p] EXCEPT !.pc = "settle", !.found = journal'[call[p].hash].state])
    /\ UNCHANGED <<bundles, contexts, lane, chain, now, answer, returned>>

\* A superseded operation may have run before its nonce was used up.
projectEip5792Status(state) ==
    CASE state = "finalized" -> "done"
      [] state \in {"dropped", "abandoned"} -> "failed"
      [] OTHER -> "pending"

\* The status of the observed outcome, and the end of the bundle.
Settle(p) ==
    /\ At(p, "settle")
    /\ LET c == call[p]
           status == projectEip5792Status(c.found)
           after == Terminalized(c.id, c.rec)
       IN  IF status = "pending" THEN UNCHANGED <<bundles, answer>>
           ELSE /\ bundles' = after
                /\ IF after[c.id].state = "terminal" THEN Answer(c.id, status) ELSE UNCHANGED answer
    /\ Stop(p)
    /\ UNCHANGED <<contexts, journal, lane, chain, now, returned>>

-----------------------------------------------------------------------------
(* Crashes, the clock and the chain.                                       *)

\* A send stops between two steps and its caller comes back with a new request.
\* A status request that stops is one that takes no further step.
Crash(p) ==
    /\ call[p].kind \in {"start", "resume"}
    /\ Stop(p)
    /\ UNCHANGED <<stores, chain, now, answer, returned>>

Tick ==
    /\ now < MaxNow
    /\ now' = now + 1
    /\ UNCHANGED <<stores, chain, call, answer, returned>>

Execute(h) ==
    /\ h \in sent /\ h[2] = nonce
    /\ executed' = executed \cup {h}
    /\ nonce' = nonce + 1
    /\ UNCHANGED <<stores, sent, now, call, answer, returned>>

\* The lane's nonce is used from elsewhere.
Foreign ==
    /\ nonce <= MaxSeq
    /\ nonce' = nonce + 1
    /\ UNCHANGED <<stores, sent, executed, now, call, answer, returned>>

RunnerStep(p) ==
    \/ ReadLane(p) \/ ReserveForStart(p) \/ PreparationFails(p) \/ ReserveForResume(p)
    \/ Publish(p) \/ Authorize(p) \/ ConfirmPublication(p) \/ Abandon(p)
    \/ ReleaseReservation(p) \/ Attempt(p) \/ Send(p) \/ Converge(p)
    \/ FinishSend(p) \/ ReleasePublication(p)

SendStep(p) ==
    \/ \E b \in Ids : SendCalls(p, b)
    \/ Approve(p) \/ GiveUp(p)
    \/ \E c \in Contexts : SendPreparedCalls(p, c)
    \/ Recall(p) \/ Validate(p) \/ Invalidate(p) \/ Consume(p) \/ ReserveBundle(p)

StatusStep(p) ==
    \/ \E b \in Ids : StatusOfExpired(p, b) \/ StatusOfBound(p, b)
    \/ Recover(p) \/ AbandonPrepared(p) \/ Conclude(p) \/ Observe(p) \/ Settle(p)

World == (\E c \in Contexts : PrepareCalls(c)) \/ Tick \/ (\E h \in Hashes : Execute(h)) \/ Foreign

Next ==
    \/ \E p \in Callers : RunnerStep(p) \/ SendStep(p) \/ StatusStep(p) \/ Crash(p)
    \/ World

Spec == Init /\ [][Next]_vars

\* Time passes, and a wallet that only asks for statuses asks for each of them
\* again and again; a send may stop anywhere.
FairSpec ==
    /\ Spec
    /\ WF_vars(Tick)
    /\ \A p \in Callers \ Senders :
          /\ WF_vars(Recover(p) \/ AbandonPrepared(p) \/ Conclude(p) \/ Observe(p) \/ Settle(p))
          /\ \A b \in Ids : SF_vars(StatusOfExpired(p, b) \/ StatusOfBound(p, b))

-----------------------------------------------------------------------------
TypeOK ==
    /\ bundles \in [Ids -> BundleRecords \cup {Absent}]
    /\ contexts \in [Contexts -> ContextRecords \cup {Absent}]
    /\ journal \in [Hashes -> [state : JournalStates, owner : Ids \cup {None}]]
    /\ lane \in Hashes \cup {None}
    /\ nonce \in 0 .. MaxSeq + 1
    /\ sent \subseteq Hashes /\ executed \subseteq sent
    /\ now \in 0 .. MaxNow
    /\ answer \in [Ids -> {"none", "failed", "done"}]
    /\ returned \subseteq Ids

\* Every record the two stores hold passes the checks of the next read
\* (requiredStoreRevision in parseRead, requiredRevision in the prepared-call
\* store): no sequence of calls, overtaken or not, writes a record that later
\* requests can only refuse.
StoredIsReadable ==
    /\ \A b \in Ids : bundles[b] # Absent => Readable(bundles[b])
    /\ \A c \in Contexts : contexts[c] # Absent => ContextReadable(contexts[c])

\* A step that leaves every bundle with a record its history allows.
HistoryAdvances ==
    \A b \in Ids : bundles[b] # Absent =>
        /\ bundles'[b] # Absent
        /\ requireCompatibleHistory(bundles[b], bundles'[b])

\* A bundle's record only moves on: whatever a writer finds instead of the
\* record it expected passes requireCompatibleHistory, so a lost race is a
\* conflict and never a corrupt store.
HistoryIsCompatible == [][HistoryAdvances]_vars

\* An operation reaches the bundler only when its own bundle is durably bound
\* to it, so that the status of the bundle can always be recovered.
SentIsBound ==
    \A h \in sent :
        LET r == bundles[journal[h].owner]
        IN  r # Absent /\ r.op = h /\ Origin(r) = "operation_bound"

\* A final status is true for ever: calls reported as failed are never executed
\* as the operation of that bundle, calls reported as done were.
AnswerIsTrue ==
    \A b \in Ids :
        LET ran == \E h \in executed : journal[h].owner = b
        IN  (answer[b] = "failed" => ~ran) /\ (answer[b] = "done" => ran)

\* A prepared-call context is used only while it is valid: an operation is
\* journaled for it only once it was consumed in time, and an expired or stale
\* context never has one.  A returned id stands for an operation whose
\* submission was attempted (sendPreparedCalls, sendCalls).
SentWasAdmitted ==
    /\ \A c \in Contexts, h \in Hashes :
         journal[h].owner = c => contexts[c].state = "consumed" /\ contexts[c].op = h
    /\ \A b \in returned :
         /\ bundles[b].released
         /\ journal[bundles[b].op].owner = b
         /\ journal[bundles[b].op].state \notin {"absent", "prepared"}

\* No bundle is pending for ever because its send died: once the lease and the
\* confirmation have run out, a status request finds its operation attempted
\* or ends the bundle, whatever the send had written before it stopped.
BundleSettles ==
    \A b \in SendIds :
        bundles[b] # Absent ~>
            \/ answer[b] # "none"
            \/ bundles[b] # Absent /\ bundles[b].op # None
               /\ journal[bundles[b].op].state \notin {"absent", "prepared"}
=============================================================================
