----------------------- MODULE OperationRunner_proofs -----------------------
(***************************************************************************)
(* Proofs about the journal lane, for every set of runners and identities, *)
(* every nonce assignment, every set of methods and every bound.           *)
(*                                                                         *)
(* The argument: a send needs a token, a token is made only by swapping a  *)
(* record that is still prepared, and a record leaves prepared for good.   *)
(***************************************************************************)
EXTENDS OperationRunner, TLAPS


SentStates == {"submission_attempted", "submitted", "included"}

\* An absent record is NoRecord, and an archived one is filed under its id.
RecordsOK ==
  /\ current.rev = 0 => current = NoRecord
  /\ current.id \in Ids <=> current.state # "absent"
  /\ \A id \in Ids : archive[id] = NoRecord \/ archive[id].id = id

\* What a call last read is the current record, or an older one.
SnapshotOK(rec) ==
  /\ rec \in Records
  /\ rec.rev <= current.rev
  /\ rec.rev = current.rev => rec = current
  /\ rec.id \in Ids <=> rec.state # "absent"

\* The value a call is committing follows from the record it read.
NextOK(s) ==
  /\ s.next.id \in Ids
  /\ s.next.state # "absent"
  /\ s.cont = "publish" => s.next.state = "prepared" /\ s.next.id # s.rec.id
  /\ s.cont = "attempt" =>
       s.rec.state = "prepared" /\ s.next.state = "submission_attempted"
  /\ s.cont = "abandon" =>
       s.rec.state = "prepared" /\ s.next.state = "abandoned"
  /\ s.cont = "reject" =>
       s.rec.state = "submission_attempted" /\ s.next.state = "abandoned"
  /\ s.cont = "ack" =>
       /\ s.rec.state = "submission_attempted"
       /\ s.next.state = "submitted"
       /\ s.tries < 3
  /\ s.cont = "observe" =>
       /\ s.rec.state \in SentStates
       /\ s.next.state \in SentStates \cup TerminalStates
       /\ Rank(s.next.state) >= Rank(s.rec.state)
  /\ s.cont # "publish" => s.next.id = s.rec.id

CallOK(s) ==
  /\ SnapshotOK(s.rec)
  /\ s.pc \in {"commit", "verify"} => NextOK(s)
  /\ s.pc = "authorize" => s.rec.state = "prepared"
  /\ s.pc \in {"open", "answer"} => s.rec.state = "submission_attempted"
  /\ s.pc = "observe" => s.rec.state \in SentStates
  /\ s.mode = "resume" => s.want \in Ids

\* The right to send: the swap to submission_attempted was this call's own.
Token(s, id) ==
  \/ s.pc = "verify" /\ s.cont = "attempt" /\ s.next.id = id
  \/ s.pc = "open" /\ s.rec.id = id

TokensOK ==
  /\ \A r \in Runners, id \in Ids :
       Token(run[r], id) => sends[id] = 0 /\ Rank(Held(id).state) >= 2
  /\ \A r, q \in Runners, id \in Ids :
       Token(run[r], id) /\ Token(run[q], id) => r = q

IInv ==
  /\ TypeOK
  /\ RecordsOK
  /\ \A r \in Runners : CallOK(run[r])
  /\ TokensOK
  /\ AtMostOneSend
  /\ SentIsJournaled
-----------------------------------------------------------------------------
(***************************************************************************)
(* Steps that only move one call.                                          *)
(***************************************************************************)
\* A call state that is sound and cannot send.
Harmless(s) == s \in RunStates /\ CallOK(s) /\ \A id \in Ids : ~Token(s, id)

\* Moving one call to a sound state with no more tokens than it had keeps
\* the invariant: nothing durable and nothing on the wire changes.
LEMMA LocalStep ==
  ASSUME IInv, NEW r \in Runners, NEW s \in RunStates, CallOK(s),
         \A id \in Ids : Token(s, id) => Token(run[r], id),
         run' = [run EXCEPT ![r] = s],
         UNCHANGED <<journal, network, ledger>>
  PROVE  IInv'
<1> USE DEF journal, network, ledger
<1>1. TypeOK'
  BY Zenon DEF IInv, TypeOK
<1>2. RecordsOK' /\ AtMostOneSend' /\ SentIsJournaled'
  BY Zenon DEF IInv, RecordsOK, AtMostOneSend, SentIsJournaled, Held
<1>3. \A q \in Runners : run'[q] = IF q = r THEN s ELSE run[q]
  BY Zenon DEF IInv, TypeOK
<1>4. ASSUME NEW q \in Runners PROVE CallOK(run[q])'
  <2>1. CASE q = r
    <3>1. run'[q] = s /\ current' = current
      BY Zenon, <1>3, <2>1
    <3> QED BY Zenon, <3>1 DEF CallOK, SnapshotOK, NextOK
  <2>2. CASE q # r
    <3>1. run'[q] = run[q] /\ current' = current /\ CallOK(run[q])
      BY Zenon, <1>3, <2>2 DEF IInv
    <3> QED BY Zenon, <3>1 DEF CallOK, SnapshotOK, NextOK
  <2> QED BY Zenon, <2>1, <2>2
<1>5. \A q \in Runners, id \in Ids : Token(run[q], id)' => Token(run[q], id)
  BY <1>3 DEF Token
<1>6. TokensOK'
  BY Zenon, <1>5 DEF IInv, TokensOK, Held
<1> QED BY Zenon, <1>1, <1>2, <1>4, <1>6 DEF IInv

LEMMA NoRecordType == NoRecord \in Records
BY Zenon DEF NoRecord, Records

LEMMA IdleSound ==
  ASSUME current \in Records, current.rev = 0 => current = NoRecord
  PROVE  Harmless(Idle)
BY NoIdAssumption DEF Harmless, Idle, NoRecord, RunStates, Records, OpenStates,
   TerminalStates, Modes, CallOK, SnapshotOK, NextOK, Token

LEMMA IdleHarmless == ASSUME IInv PROVE Harmless(Idle)
BY Zenon, IdleSound DEF IInv, TypeOK, RecordsOK

\* The end of a call, by any route, keeps the invariant.
LEMMA EndStep ==
  ASSUME IInv, NEW r \in Runners, run' = [run EXCEPT ![r] = Idle],
         UNCHANGED <<journal, network, ledger>>
  PROVE  IInv'
BY Zenon, IdleHarmless, LocalStep DEF Harmless

LEMMA ObservingHarmless ==
  ASSUME IInv, NEW s \in RunStates, s.mode = "resume" => s.want \in Ids,
         NEW rec, SnapshotOK(rec)
  PROVE  Harmless(Observing(s, rec))
<1>1. CASE operationOccupiesLane(rec) /\ rec.state # "prepared"
  <2> DEFINE t == GoingTo(s, "observe", rec)
  <2>1. t \in RunStates
    BY Zenon, NoRecordType DEF GoingTo, RunStates, SnapshotOK
  <2>2. t.pc = "observe" /\ t.rec = rec /\ t.mode = s.mode /\ t.want = s.want
    BY Zenon DEF GoingTo, RunStates
  <2>3. rec.state \in SentStates
    BY Zenon, <1>1 DEF operationOccupiesLane, OpenStates, SentStates
  <2>4. Harmless(t)
    BY Zenon, <2>1, <2>2, <2>3 DEF Harmless, CallOK, Token
  <2> QED BY Zenon, <1>1, <2>4 DEF Observing
<1>2. CASE ~(operationOccupiesLane(rec) /\ rec.state # "prepared")
  BY Zenon, <1>2, IdleHarmless DEF Observing
<1> QED BY Zenon, <1>1, <1>2

\* What the transitions of a call that is not observing do to a record.
LEMMA Transitions ==
  ASSUME NEW o \in Records
  PROVE  /\ MarkAbandoned(o) \in Records
         /\ MarkAbandoned(o).id = o.id
         /\ MarkAbandoned(o).state = "abandoned"
         /\ MarkSubmissionAttempted(o) \in Records
         /\ MarkSubmissionAttempted(o).id = o.id
         /\ MarkSubmissionAttempted(o).state = "submission_attempted"
         /\ MarkSubmitted(o) \in Records
         /\ MarkSubmitted(o).id = o.id
         /\ MarkSubmitted(o).state = "submitted"
BY Zenon DEF Records, MarkAbandoned, MarkSubmissionAttempted, MarkSubmitted, OpenStates,
   TerminalStates

LEMMA CommittingFields ==
  ASSUME NEW s \in RunStates, NEW next, NEW cont
  PROVE  /\ Committing(s, next, cont).pc = "commit"
         /\ Committing(s, next, cont).mode = s.mode
         /\ Committing(s, next, cont).want = s.want
         /\ Committing(s, next, cont).rec = s.rec
         /\ Committing(s, next, cont).next = next
         /\ Committing(s, next, cont).cont = cont
         /\ Committing(s, next, cont).tries = s.tries
BY Zenon DEF Committing, RunStates

\* A commit of an advanced record follows from the record that was read.
LEMMA CommittingNext ==
  ASSUME NEW s \in RunStates, NEW next, NEW cont,
         s.rec.id \in Ids, next.id = s.rec.id, next.state # "absent",
         \/ /\ cont = "attempt"
            /\ s.rec.state = "prepared" /\ next.state = "submission_attempted"
         \/ /\ cont = "abandon"
            /\ s.rec.state = "prepared" /\ next.state = "abandoned"
         \/ /\ cont = "reject"
            /\ s.rec.state = "submission_attempted" /\ next.state = "abandoned"
         \/ /\ cont = "observe"
            /\ s.rec.state \in SentStates
            /\ next.state \in SentStates \cup TerminalStates
            /\ Rank(next.state) >= Rank(s.rec.state)
  PROVE  NextOK(Committing(s, next, cont))
<1>1. PICK u : u = Committing(s, next, cont)
  BY Zenon
<1>2. u.rec = s.rec /\ u.next = next /\ u.cont = cont
  <2>1. /\ Committing(s, next, cont).rec = s.rec
        /\ Committing(s, next, cont).next = next
        /\ Committing(s, next, cont).cont = cont
    BY CommittingFields
  <2> QED BY Zenon, <1>1, <2>1
<1>3. NextOK(u)
  BY Zenon, <1>2 DEF NextOK
<1> QED BY Zenon, <1>1, <1>3

LEMMA CommittingHarmless ==
  ASSUME NEW s \in RunStates, s.mode = "resume" => s.want \in Ids,
         SnapshotOK(s.rec), NEW next \in Records,
         NEW cont \in {"publish", "attempt", "abandon", "reject", "ack", "observe"},
         NextOK(Committing(s, next, cont))
  PROVE  Harmless(Committing(s, next, cont))
<1>1. Committing(s, next, cont) \in RunStates
  BY Zenon DEF Committing, RunStates
<1> QED BY <1>1, CommittingFields DEF Harmless, CallOK, Token

LEMMA StartedHarmless ==
  ASSUME IInv, NEW s \in RunStates, s.mode = "resume" => s.want \in Ids,
         NEW rec, SnapshotOK(rec)
  PROVE  Harmless(Started(s, rec))
<1>1. /\ [s EXCEPT !.tries = 0] \in RunStates
      /\ [s EXCEPT !.tries = 0].mode = s.mode
      /\ [s EXCEPT !.tries = 0].want = s.want
  BY DEF RunStates
<1> QED BY Zenon, <1>1, ObservingHarmless, IdleHarmless DEF Started

LEMMA PublishedHarmless ==
  ASSUME IInv, NEW s \in RunStates, s.mode = "resume" => s.want \in Ids,
         NEW rec, SnapshotOK(rec)
  PROVE  Harmless(Published(s, rec))
<1>1. CASE rec.state = "prepared"
  <2> DEFINE t == GoingTo(s, "authorize", rec)
  <2>1. t \in RunStates
    BY Zenon, NoRecordType DEF GoingTo, RunStates, SnapshotOK
  <2>2. t.pc = "authorize" /\ t.rec = rec /\ t.mode = s.mode /\ t.want = s.want
    BY Zenon DEF GoingTo, RunStates
  <2>3. Harmless(t)
    BY Zenon, <1>1, <2>1, <2>2 DEF Harmless, CallOK, Token
  <2> QED BY Zenon, <1>1, <2>3 DEF Published
<1>2. CASE rec.state # "prepared"
  BY Zenon, <1>2, IdleHarmless, StartedHarmless DEF Published
<1> QED BY Zenon, <1>1, <1>2

LEMMA AcknowledgingHarmless ==
  ASSUME IInv, NEW s \in RunStates, s.mode = "resume" => s.want \in Ids,
         NEW rec, SnapshotOK(rec)
  PROVE  Harmless(Acknowledging(s, rec))
<1>1. CASE rec.state = "submission_attempted" /\ s.tries < 3
  <2> DEFINE u == [s EXCEPT !.rec = rec]
  <2>1. /\ u \in RunStates
        /\ u.rec = rec /\ u.mode = s.mode /\ u.want = s.want /\ u.tries = s.tries
    BY Zenon DEF RunStates, SnapshotOK
  <2> HIDE DEF u
  <2>2. NextOK(Committing(u, MarkSubmitted(rec), "ack"))
    BY <1>1, <2>1, CommittingFields, Transitions DEF NextOK, SnapshotOK
  <2>3. MarkSubmitted(rec) \in Records
    BY Zenon, Transitions DEF SnapshotOK
  <2>4. Harmless(Committing(u, MarkSubmitted(rec), "ack"))
    BY Zenon, <2>1, <2>2, <2>3, CommittingHarmless
  <2> QED BY Zenon, <1>1, <2>4 DEF Acknowledging, u
<1>2. CASE ~(rec.state = "submission_attempted" /\ s.tries < 3)
  BY Zenon, <1>2, StartedHarmless DEF Acknowledging
<1> QED BY Zenon, <1>1, <1>2

LEMMA CurrentSnapshot == ASSUME IInv PROVE SnapshotOK(current)
BY DEF IInv, TypeOK, RecordsOK, SnapshotOK, Records

\* Whatever a call does about a lost swap, it cannot send.
LEMMA OnConflictHarmless ==
  ASSUME IInv, NEW s \in RunStates, CallOK(s), s.pc = "commit"
  PROVE  Harmless(OnConflict(s, current))
<1>0. NextOK(s) /\ SnapshotOK(s.rec) /\ (s.mode = "resume" => s.want \in Ids)
  BY Zenon DEF CallOK
<1>i. SnapshotOK(current) /\ Harmless(Idle)
  BY Zenon, CurrentSnapshot, IdleHarmless
<1>1. CASE s.cont = "publish"
  <2> DEFINE u == [s EXCEPT !.rec = current, !.tries = 1]
  <2>1. u \in RunStates
    <3>1. current \in Records /\ 1 \in 0..3
      BY <1>i DEF SnapshotOK
    <3> QED BY Zenon, <3>1 DEF RunStates
  <2>2. /\ u.pc = "commit" /\ u.mode = s.mode /\ u.want = s.want
        /\ u.rec = current /\ u.next = s.next /\ u.cont = s.cont
    BY Zenon DEF RunStates
  <2> HIDE DEF u
  <2>3. ASSUME current.id # s.next.id PROVE Harmless(u)
    BY <1>0, <1>1, <1>i, <2>1, <2>2, <2>3 DEF Harmless, CallOK, NextOK, Token
  <2>4. Harmless(Published(s, current))
    BY Zenon, <1>0, <1>i, PublishedHarmless
  <2>5. \/ ConflictOnPublish(s, current) = Idle
        \/ ConflictOnPublish(s, current) = Published(s, current)
        \/ current.id # s.next.id /\ ConflictOnPublish(s, current) = u
    BY Zenon DEF ConflictOnPublish, u
  <2> QED BY Zenon, <1>1, <1>i, <2>3, <2>4, <2>5 DEF OnConflict
<1>2. CASE s.cont = "attempt"
  BY Zenon, <1>0, <1>2, <1>i, StartedHarmless DEF OnConflict, ConflictOnAttempt
<1>3. CASE s.cont = "ack"
  <2> DEFINE u == [s EXCEPT !.tries = @ + 1]
  <2>1. u \in RunStates /\ u.mode = s.mode /\ u.want = s.want
    BY <1>0, <1>3 DEF RunStates, NextOK
  <2> HIDE DEF u
  <2>2. Harmless(Acknowledging(u, current))
    BY Zenon, <1>0, <1>i, <2>1, AcknowledgingHarmless
  <2> QED BY Zenon, <1>3, <1>i, <2>2 DEF OnConflict, ConflictOnAck, u
<1>4. CASE s.cont = "observe"
  <2>1. CASE s.tries < 2
    <3> DEFINE u == [s EXCEPT !.tries = @ + 1]
    <3>1. u \in RunStates /\ u.mode = s.mode /\ u.want = s.want
      BY <2>1 DEF RunStates
    <3> HIDE DEF u
    <3>2. Harmless(Observing(u, current))
      BY Zenon, <1>0, <1>i, <3>1, ObservingHarmless
    <3> QED BY Zenon, <1>4, <1>i, <3>2 DEF OnConflict, ConflictOnObserve, u
  <2>2. CASE ~(s.tries < 2)
    BY Zenon, <1>4, <1>i, <2>2 DEF OnConflict, ConflictOnObserve
  <2> QED BY Zenon, <2>1, <2>2
<1>5. CASE s.cont \in {"abandon", "reject"}
  BY Zenon, <1>5, <1>i DEF OnConflict
<1> QED BY Zenon, <1>1, <1>2, <1>3, <1>4, <1>5 DEF RunStates

LEMMA AfterReadHarmless ==
  ASSUME IInv, NEW s \in RunStates, s.mode = "resume" => s.want \in Ids
  PROVE  Harmless(AfterRead(s, current))
<1>i. SnapshotOK(current) /\ Harmless(Idle)
  BY Zenon, CurrentSnapshot, IdleHarmless
<1> DEFINE u == [s EXCEPT !.rec = current]
<1>1. /\ u \in RunStates
      /\ u.rec = current /\ u.mode = s.mode /\ u.want = s.want
  BY Zenon, <1>i DEF RunStates, SnapshotOK
<1> DEFINE at(pc) == [u EXCEPT !.pc = pc]
           a == Committing(u, MarkAbandoned(current), "abandon")
<1>2. \A pc \in {"archive", "prepare"} :
        /\ at(pc) \in RunStates /\ at(pc).pc = pc
        /\ at(pc).rec = current /\ at(pc).mode = s.mode /\ at(pc).want = s.want
  BY Zenon, <1>1 DEF RunStates
<1>3. \A pc \in {"archive", "prepare"} : Harmless(at(pc))
  BY Zenon, <1>i, <1>2 DEF Harmless, CallOK, Token
<1>4. Harmless(Observing(u, current))
  BY Zenon, <1>i, <1>1, ObservingHarmless
<1>5. ASSUME current.state = "prepared" PROVE Harmless(a)
  <2>1. MarkAbandoned(current) \in Records
    BY Zenon, <1>i, Transitions DEF SnapshotOK
  <2> HIDE DEF u
  <2>2. NextOK(a)
    BY <1>i, <1>1, <1>5, CommittingFields, Transitions DEF NextOK, SnapshotOK
  <2> QED BY Zenon, <1>i, <1>1, <2>1, <2>2, CommittingHarmless
<1>6. \/ AfterRead(s, current) \in {Idle, Observing(u, current), at("archive"), at("prepare")}
      \/ current.state = "prepared" /\ AfterRead(s, current) = a
  <2> HIDE DEF at
  <2> QED BY Zenon DEF AfterRead, MayAbandon, u, at
<1> QED BY Zenon, <1>i, <1>3, <1>4, <1>5, <1>6

LEMMA AfterPrepareHarmless ==
  ASSUME IInv, NEW s \in RunStates, CallOK(s), NEW id \in Ids
  PROVE  Harmless(AfterPrepare(s, id))
<1>0. SnapshotOK(s.rec) /\ (s.mode = "resume" => s.want \in Ids)
  BY Zenon DEF CallOK
<1>1. Harmless(Idle) /\ Harmless(Published(s, s.rec))
  BY Zenon, <1>0, IdleHarmless, PublishedHarmless
<1>2. ASSUME s.rec.id # id PROVE Harmless(Committing(s, createOperation(id), "publish"))
  <2>1. /\ createOperation(id) \in Records
        /\ createOperation(id).id = id /\ createOperation(id).state = "prepared"
    BY Zenon DEF createOperation, NoRecord, Records, OpenStates
  <2>2. NextOK(Committing(s, createOperation(id), "publish"))
    BY <1>2, <2>1, CommittingFields DEF NextOK
  <2> QED BY Zenon, <1>0, <2>1, <2>2, CommittingHarmless
<1>3. \/ AfterPrepare(s, id) \in {Idle, Published(s, s.rec)}
      \/ /\ s.rec.id # id
         /\ AfterPrepare(s, id) = Committing(s, createOperation(id), "publish")
  BY Zenon DEF AfterPrepare
<1> QED BY Zenon, <1>1, <1>2, <1>3

\* A verified observation keeps the identity and never goes back.
LEMMA ObservationsOK ==
  ASSUME TypeOK, NEW o \in Records, o.state \in SentStates, o.id \in Ids,
         NEW next \in Observations(o)
  PROVE  /\ next \in Records
         /\ next.id = o.id
         /\ next.state \in SentStates \cup TerminalStates
         /\ Rank(next.state) >= Rank(o.state)
<1> USE DEF SentStates
<1>1. ASSUME NEW p \in Records, p.id = o.id, p.state \in SentStates,
             Rank(p.state) >= Rank(o.state), NEW w \in {"pending", "unreadable"}
      PROVE  /\ RecordWeak(p, w) \in Records
             /\ RecordWeak(p, w).id = o.id
             /\ RecordWeak(p, w).state = p.state
  BY Zenon, <1>1 DEF RecordWeak, Records, OpenStates, TerminalStates
<1>2. ASSUME NEW p \in Records, p.id = o.id,
             NEW q \in {RecordFinalized(p), RecordDropped(p), RecordSuperseded(p)}
      PROVE  /\ q \in Records
             /\ q.id = o.id
             /\ q.state \in TerminalStates
             /\ Rank(q.state) >= Rank(o.state)
  <2>1. q \in Records /\ q.id = o.id /\ q.state \in TerminalStates
    <3>1. CASE q = RecordFinalized(p)
      BY Zenon, <1>2, <3>1 DEF RecordFinalized, Records, TerminalStates
    <3>2. CASE q = RecordDropped(p)
      BY Zenon, <1>2, <3>2 DEF RecordDropped, Records, TerminalStates
    <3>3. CASE q = RecordSuperseded(p)
      BY Zenon, <1>2, <3>3 DEF RecordSuperseded, Records, TerminalStates
    <3> QED BY Zenon, <1>2, <3>1, <3>2, <3>3
  <2> QED BY <2>1 DEF Rank, TerminalStates
<1>3. ASSUME NEW i \in DOMAIN chain
      PROVE  /\ Included(o, i) \in Records
             /\ Included(o, i).id = o.id
             /\ Included(o, i).state = "included"
             /\ Rank(Included(o, i).state) >= Rank(o.state)
  <2>1. chain[i].block \in Nat
    <3>1. chain \in Seq(Slots)
      BY Zenon DEF TypeOK
    <3>2. chain[i] \in Slots
      BY <1>3, <3>1
    <3> QED BY Zenon, <3>2 DEF Slots
  <2>2. /\ Included(o, i) \in Records /\ Included(o, i).id = o.id
        /\ Included(o, i).state = "included"
    <3>1. CASE o.state = "included"
      BY Zenon, <3>1 DEF Included
    <3>2. CASE o.state # "included"
      BY Zenon, <2>1, <3>2 DEF Included, RecordIncluded, Records, OpenStates
    <3> QED BY Zenon, <3>1, <3>2
  <2>3. Rank("included") = 4 /\ Rank(o.state) <= 4
    BY DEF Rank, TerminalStates
  <2> QED BY Zenon, <2>2, <2>3
<1>4. CASE next \in WithoutReceipt(o)
  <2>1. \/ \E w \in {"pending", "unreadable"} : next = RecordWeak(o, w)
        \/ next \in {RecordDropped(o), RecordSuperseded(o)}
    BY Zenon, <1>4 DEF WithoutReceipt
  <2>2. Rank(o.state) >= Rank(o.state)
    BY DEF Rank
  <2> QED BY <1>1, <1>2, <2>1, <2>2
<1>5. ASSUME NEW i \in DOMAIN chain, next \in WithReceipt(o, i)
      PROVE  /\ next \in Records
             /\ next.id = o.id
             /\ next.state \in SentStates \cup TerminalStates
             /\ Rank(next.state) >= Rank(o.state)
  <2>1. \/ next = RecordWeak(o, "unreadable")
        \/ next = RecordWeak(Included(o, i), "unreadable")
        \/ next = RecordFinalized(Included(o, i))
    BY Zenon, <1>5 DEF WithReceipt
  <2>2. Rank(o.state) >= Rank(o.state)
    BY DEF Rank
  <2> QED BY <1>1, <1>2, <1>3, <2>1, <2>2
<1> QED BY Zenon, <1>4, <1>5 DEF Observations

-----------------------------------------------------------------------------
(***************************************************************************)
(* The invariant is inductive.                                             *)
(***************************************************************************)
LEMMA InitIInv == ASSUME Init PROVE IInv
<1>1. TypeOK
  <2>1. Idle \in RunStates
    BY NoRecordType, NoIdAssumption DEF Idle, RunStates, Modes
  <2>2. <<>> \in Seq(Slots)
    OBVIOUS
  <2> QED BY Zenon, NoRecordType, <2>1, <2>2 DEF Init, TypeOK
<1>2. RecordsOK
  BY Zenon, NoIdAssumption DEF Init, RecordsOK, NoRecord
<1>3. AtMostOneSend /\ SentIsJournaled
  BY DEF Init, AtMostOneSend, SentIsJournaled
<1>4. \A r \in Runners : CallOK(run[r]) /\ \A id \in Ids : ~Token(run[r], id)
  BY Zenon, NoRecordType, IdleSound DEF Init, Harmless
<1>5. TokensOK
  BY Zenon, <1>4 DEF TokensOK
<1> QED BY Zenon, <1>1, <1>2, <1>3, <1>4, <1>5 DEF IInv

\* The one step that writes the journal, and the only one that makes a token.
LEMMA SwapStep ==
  ASSUME IInv, NEW r \in Runners, CommitSwap(r)
  PROVE  IInv'
<1>a. PICK s : s = run[r]
  BY Zenon
<1>b. PICK next : next = [s.next EXCEPT !.rev = current.rev + 1]
  BY Zenon
<1>c. PICK done : done = [s EXCEPT !.pc = "verify", !.next = next]
  BY Zenon
<1>1. s \in RunStates /\ CallOK(s) /\ NextOK(s) /\ s.pc = "commit"
  BY Zenon, <1>a DEF IInv, TypeOK, CallOK, CommitSwap
<1>2. current \in Records /\ archive \in [Ids -> Records]
  BY Zenon DEF IInv, TypeOK
<1>3. /\ next \in Records /\ next.id = s.next.id /\ next.state = s.next.state
      /\ next.rev = current.rev + 1
  BY <1>1, <1>2, <1>b DEF RunStates, Records
<1>4. s.rec = current
  BY Zenon, <1>1, <1>a DEF CommitSwap, CallOK, SnapshotOK
<1>5. done \in RunStates /\ Idle \in RunStates
  BY Zenon, <1>1, <1>3, <1>c, IdleHarmless DEF RunStates, Harmless
<1>6. /\ done.pc = "verify" /\ done.mode = s.mode /\ done.want = s.want
      /\ done.rec = s.rec /\ done.next = next /\ done.cont = s.cont
      /\ done.tries = s.tries
  BY Zenon, <1>1, <1>c DEF RunStates
<1>7. /\ current' = next
      /\ run' = [run EXCEPT ![r] = done] \/ run' = [run EXCEPT ![r] = Idle]
      /\ archive' = IF current.id \in Ids \ {next.id}
                     THEN [archive EXCEPT ![current.id] = current] ELSE archive
      /\ archive[next.id] = NoRecord
      /\ ValidNext(current, next)
      /\ UNCHANGED <<sends, gateway, chain, finalized, blocks>>
  BY Zenon, <1>3, <1>a, <1>b, <1>c DEF CommitSwap, Retained, network, ledger
<1>8. TypeOK'
  BY Zenon, <1>2, <1>3, <1>5, <1>7 DEF IInv, TypeOK
<1>9. next.id \in Ids /\ next.state # "absent"
  BY Zenon, <1>1, <1>3 DEF NextOK
<1>10. RecordsOK'
  <2>1. \A id \in Ids : archive'[id] = NoRecord \/ archive'[id].id = id
    BY Zenon, <1>2, <1>7 DEF IInv, RecordsOK
  <2> QED BY <1>2, <1>3, <1>7, <1>9, <2>1 DEF RecordsOK, Records
\* The journal keeps everything it holds, and moves only next.id forward.
<1>11. \A id \in Ids : id # next.id => Held(id)' = Held(id)
  BY Zenon, <1>2, <1>7 DEF Held, RecordsOK, IInv
<1>12. Held(next.id)' = next /\ Held(next.id) \in {current, NoRecord}
  BY Zenon, <1>7 DEF Held
<1>13. Rank(Held(next.id).state) >= 2 => Rank(next.state) >= 2
  <2>1. CASE Held(next.id) = NoRecord
    BY <2>1 DEF NoRecord, Rank, TerminalStates
  <2>2. CASE current.id = next.id
    <3>1. s.cont # "publish"
      BY Zenon, <1>1, <1>3, <1>4, <2>2 DEF NextOK
    <3>2. next.state \in SentStates \cup TerminalStates
      BY Zenon, <1>1, <1>3, <3>1 DEF NextOK, RunStates, SentStates, TerminalStates
    <3> QED BY <3>2 DEF Rank, SentStates, TerminalStates
  <2> QED BY Zenon, <1>7, <2>1, <2>2 DEF Held
<1>14. \A id \in Ids : Rank(Held(id).state) >= 2 => Rank(Held(id)'.state) >= 2
  BY Zenon, <1>11, <1>12, <1>13
<1>15. AtMostOneSend' /\ SentIsJournaled'
  BY Zenon, <1>7, <1>14 DEF IInv, AtMostOneSend, SentIsJournaled
<1>16. \A q \in Runners : q # r => run'[q] = run[q]
  BY Zenon, <1>7 DEF IInv, TypeOK
<1>17. run'[r] = done \/ run'[r] = Idle
  BY Zenon, <1>7 DEF IInv, TypeOK
<1>18. ASSUME NEW rec, SnapshotOK(rec) PROVE SnapshotOK(rec)'
  BY <1>2, <1>3, <1>7, <1>18 DEF SnapshotOK, Records
<1>19. CallOK(Idle)'
  BY Zenon, <1>18, IdleHarmless DEF Harmless, CallOK, Idle, NextOK
<1>20. \A q \in Runners : CallOK(run[q])'
  <2>1. SnapshotOK(s.rec)' /\ NextOK(done)
    <3>1. SnapshotOK(s.rec)
      BY Zenon, <1>1 DEF CallOK
    <3>2. NextOK(done)
      BY <1>1, <1>3, <1>6 DEF NextOK
    <3> QED BY Zenon, <1>18, <3>1, <3>2
  <2>2. ASSUME run'[r] = done PROVE CallOK(run[r])'
    BY Zenon, <1>1, <1>6, <2>1, <2>2 DEF CallOK
  <2>3. ASSUME run'[r] = Idle PROVE CallOK(run[r])'
    BY Zenon, <1>19, <2>3 DEF CallOK, SnapshotOK
  <2>4. ASSUME NEW q \in Runners, q # r PROVE CallOK(run[q])'
    <3>1. run'[q] = run[q] /\ CallOK(run[q])
      BY Zenon, <1>16, <2>4 DEF IInv
    <3>2. SnapshotOK(run[q].rec)'
      <4>1. SnapshotOK(run[q].rec)
        BY Zenon, <3>1 DEF CallOK
      <4>2. PICK c : c = run[q].rec
        BY Zenon
      <4>3. SnapshotOK(c)'
        BY Zenon, <1>18, <4>1, <4>2
      <4> QED BY Zenon, <3>1, <4>2, <4>3 DEF SnapshotOK
    <3> QED BY Zenon, <3>1, <3>2 DEF CallOK, NextOK
  <2> QED BY Zenon, <1>17, <2>2, <2>3, <2>4
<1>21. ASSUME NEW id \in Ids, Token(run'[r], id)
       PROVE  /\ id = next.id /\ Rank(next.state) = 2
              /\ sends[id] = 0 /\ \A q \in Runners : ~Token(run[q], id)
  <2>1. run'[r] = done /\ s.cont = "attempt" /\ id = next.id
    <3>1. ~Token(Idle, id)
      BY Zenon, IdleHarmless DEF Harmless
    <3>2. run'[r] = done /\ Token(done, id)
      BY Zenon, <1>17, <1>21, <3>1
    <3> QED BY Zenon, <1>6, <3>2 DEF Token
  <2>2. current.state = "prepared" /\ current.id = id /\ next.state = "submission_attempted"
    BY Zenon, <1>1, <1>3, <1>4, <2>1 DEF NextOK
  <2>3. ~(Rank(Held(id).state) >= 2)
    BY <2>2 DEF Held, Rank, TerminalStates
  <2>4. Rank(next.state) = 2
    BY Zenon, <2>2 DEF Rank, TerminalStates
  <2>5. sends[id] \in Nat
    BY Zenon DEF IInv, TypeOK
  <2> QED BY <2>1, <2>3, <2>4, <2>5 DEF IInv, SentIsJournaled, TokensOK
<1>22. TokensOK'
  <2>1. ASSUME NEW q \in Runners, NEW id \in Ids, Token(run'[q], id)
        PROVE  sends'[id] = 0 /\ Rank(Held(id)'.state) >= 2
    <3>1. CASE q = r
      <4>1. id = next.id /\ Rank(next.state) = 2 /\ sends[id] = 0
        BY Zenon, <1>21, <2>1, <3>1
      <4>2. Held(id)' = next
        BY Zenon, <1>12, <4>1
      <4>3. Rank(Held(id)'.state) = 2
        BY Zenon, <4>1, <4>2
      <4> QED BY <1>7, <4>1, <4>3
    <3>2. CASE q # r
      BY Zenon, <1>7, <1>14, <1>16, <2>1, <3>2 DEF IInv, TokensOK
    <3> QED BY Zenon, <3>1, <3>2
  <2>2. ASSUME NEW q \in Runners, NEW p \in Runners, NEW id \in Ids,
               Token(run'[q], id), Token(run'[p], id)
        PROVE  q = p
    BY Zenon, <1>16, <1>21, <2>2 DEF IInv, TokensOK
  <2> QED BY <2>1, <2>2 DEF TokensOK, Token
<1> QED BY Zenon, <1>8, <1>10, <1>15, <1>20, <1>22 DEF IInv

\* The send itself spends the only token of its identity.
LEMMA SubmitStep ==
  ASSUME IInv, NEW r \in Runners, Submit(r)
  PROVE  IInv'
<1>a. PICK s : s = run[r]
  BY Zenon
<1>b. PICK t : t = [s EXCEPT !.pc = "answer"]
  BY Zenon
<1>1. s \in RunStates /\ CallOK(s) /\ s.pc = "open"
  BY Zenon, <1>a DEF IInv, TypeOK, Submit
<1>2. s.rec.id \in Ids
  BY Zenon, <1>1 DEF CallOK, SnapshotOK
<1>3. /\ t \in RunStates /\ t.pc = "answer" /\ t.rec = s.rec /\ t.mode = s.mode
      /\ t.want = s.want
  BY Zenon, <1>1, <1>b DEF RunStates
<1>4. /\ run' = [run EXCEPT ![r] = t]
      /\ sends' = [sends EXCEPT ![s.rec.id] = @ + 1]
      /\ gateway' = [gateway EXCEPT ![s.rec.id] = "wire"]
      /\ UNCHANGED <<current, archive, chain, finalized, blocks>>
  BY Zenon, <1>a, <1>b DEF Submit, journal, ledger
<1>5. Token(s, s.rec.id) /\ \A id \in Ids : ~Token(t, id)
  BY Zenon, <1>1, <1>3 DEF Token
<1>6. sends[s.rec.id] = 0 /\ Rank(Held(s.rec.id).state) >= 2
  BY Zenon, <1>2, <1>5, <1>a DEF IInv, TokensOK
<1>7. \A q \in Runners : q # r => ~Token(run[q], s.rec.id)
  BY Zenon, <1>2, <1>5, <1>a DEF IInv, TokensOK
<1>8. \A id \in Ids : sends'[id] = IF id = s.rec.id THEN 1 ELSE sends[id]
  BY <1>2, <1>4, <1>6 DEF IInv, TypeOK
<1>9. \A q \in Runners : run'[q] = IF q = r THEN t ELSE run[q]
  BY Zenon, <1>4 DEF IInv, TypeOK
<1>10. TypeOK'
  BY <1>2, <1>3, <1>4 DEF IInv, TypeOK
<1>11. RecordsOK' /\ \A id \in Ids : Held(id)' = Held(id)
  BY Zenon, <1>4 DEF IInv, RecordsOK, Held
<1>12. AtMostOneSend'
  BY <1>8 DEF IInv, AtMostOneSend
<1>13. SentIsJournaled'
  BY Zenon, <1>6, <1>8, <1>11 DEF IInv, SentIsJournaled
<1>14. ASSUME NEW q \in Runners PROVE CallOK(run[q])'
  <2>1. CASE q = r
    <3>1. run'[q] = t /\ current' = current
      BY Zenon, <1>4, <1>9, <2>1
    <3> QED BY Zenon, <1>1, <1>3, <3>1 DEF CallOK, SnapshotOK
  <2>2. CASE q # r
    <3>1. run'[q] = run[q] /\ current' = current /\ CallOK(run[q])
      BY Zenon, <1>4, <1>9, <2>2 DEF IInv
    <3> QED BY Zenon, <3>1 DEF CallOK, SnapshotOK, NextOK
  <2> QED BY Zenon, <2>1, <2>2
<1>15. \A q \in Runners, id \in Ids :
         Token(run'[q], id) => q # r /\ id # s.rec.id /\ Token(run[q], id)
  BY Zenon, <1>5, <1>7, <1>9
<1>16. TokensOK'
  <2>1. \A q \in Runners, id \in Ids :
          Token(run'[q], id) => sends'[id] = 0 /\ Rank(Held(id)'.state) >= 2
    BY <1>8, <1>11, <1>15 DEF IInv, TokensOK
  <2>2. \A q, p \in Runners, id \in Ids :
          Token(run'[q], id) /\ Token(run'[p], id) => q = p
    BY Zenon, <1>15 DEF IInv, TokensOK
  <2> QED BY Zenon, <2>1, <2>2 DEF TokensOK, Token
<1> QED BY Zenon, <1>10, <1>11, <1>12, <1>13, <1>14, <1>16 DEF IInv

\* After the re-read a call goes on only with the record it wrote; the one
\* that may now open a submission had its token already.
LEMMA ReadBackStep ==
  ASSUME IInv, NEW r \in Runners, ReadBack(r)
  PROVE  IInv'
<1>a. PICK s : s = run[r]
  BY Zenon
<1>1. s \in RunStates /\ CallOK(s) /\ NextOK(s) /\ s.pc = "verify"
  BY Zenon, <1>a DEF IInv, TypeOK, CallOK, ReadBack
<1>2. UNCHANGED <<journal, network, ledger>>
  BY Zenon DEF ReadBack
<1>3. CASE current # s.next
  <2>1. run' = [run EXCEPT ![r] = Idle]
    BY Zenon, <1>3, <1>a DEF ReadBack
  <2> QED BY Zenon, <1>2, <2>1, EndStep
<1>4. CASE current = s.next
  <2>1. run' = [run EXCEPT ![r] = OnCommitted(s)]
    BY Zenon, <1>4, <1>a DEF ReadBack
  <2>2. SnapshotOK(s.next) /\ (s.mode = "resume" => s.want \in Ids)
    BY Zenon, <1>1, <1>4, CurrentSnapshot DEF CallOK
  <2>3. CASE s.cont = "publish"
    <3>1. Harmless(Published(s, s.next))
      BY Zenon, <1>1, <2>2, PublishedHarmless
    <3> QED BY Zenon, <1>2, <2>1, <2>3, <3>1, LocalStep DEF OnCommitted, Harmless
  <2>4. CASE s.cont = "ack"
    <3>1. Harmless(Started(s, s.next))
      BY Zenon, <1>1, <2>2, StartedHarmless
    <3> QED BY Zenon, <1>2, <2>1, <2>4, <3>1, LocalStep DEF OnCommitted, Harmless
  <2>5. CASE s.cont = "attempt"
    <3>b. PICK t : t = GoingTo(s, "open", s.next)
      BY Zenon
    <3>1. /\ t \in RunStates /\ t.pc = "open" /\ t.rec = s.next
          /\ t.mode = s.mode /\ t.want = s.want
      BY Zenon, <1>1, <3>b, NoRecordType DEF GoingTo, RunStates
    <3>2. CallOK(t)
      BY Zenon, <1>1, <2>2, <2>5, <3>1 DEF CallOK, NextOK
    <3>3. \A id \in Ids : Token(t, id) => Token(run[r], id)
      BY Zenon, <1>1, <1>a, <2>5, <3>1 DEF Token
    <3>4. run' = [run EXCEPT ![r] = t]
      BY Zenon, <2>1, <2>5, <3>b DEF OnCommitted
    <3> QED BY Zenon, <1>2, <3>1, <3>2, <3>3, <3>4, LocalStep
  <2>6. CASE s.cont \in {"abandon", "reject", "observe"}
    <3>1. run' = [run EXCEPT ![r] = Idle]
      BY Zenon, <2>1, <2>6 DEF OnCommitted
    <3> QED BY Zenon, <1>2, <3>1, EndStep
  <2> QED BY Zenon, <1>1, <2>3, <2>4, <2>5, <2>6 DEF RunStates
<1> QED BY Zenon, <1>3, <1>4

\* A call that moves to a harmless state keeps the invariant.
LEMMA HarmlessStep ==
  ASSUME IInv, NEW r \in Runners, NEW s, Harmless(s),
         run' = [run EXCEPT ![r] = s],
         UNCHANGED <<journal, network, ledger>>
  PROVE  IInv'
BY Zenon, LocalStep DEF Harmless

LEMMA InvokeStep ==
  ASSUME IInv, NEW r \in Runners, NEW mode \in Modes, NEW want \in Ids \cup {NoId},
         Invoke(r, mode, want)
  PROVE  IInv'
<1>a. PICK t : t = [run[r] EXCEPT !.pc = "read", !.mode = mode, !.want = want]
  BY Zenon
<1>1. run[r] \in RunStates /\ CallOK(run[r])
  BY Zenon DEF IInv, TypeOK
<1>2. /\ t \in RunStates /\ t.pc = "read" /\ t.rec = run[r].rec
      /\ t.mode = mode /\ t.want = want
  BY Zenon, <1>1, <1>a DEF RunStates
<1>3. mode = "resume" => want \in Ids
  BY Zenon DEF Invoke
<1>4. Harmless(t)
  BY Zenon, <1>1, <1>2, <1>3 DEF Harmless, CallOK, Token
<1>5. run' = [run EXCEPT ![r] = t] /\ UNCHANGED <<journal, network, ledger>>
  BY Zenon, <1>a DEF Invoke
<1> QED BY Zenon, <1>4, <1>5, HarmlessStep

LEMMA RunStepInv ==
  ASSUME IInv, NEW r \in Runners, RunStep(r)
  PROVE  IInv'
<1>a. PICK s : s = run[r]
  BY Zenon
<1>1. s \in RunStates /\ CallOK(s)
  BY Zenon, <1>a DEF IInv, TypeOK
<1>2. SnapshotOK(s.rec) /\ (s.mode = "resume" => s.want \in Ids)
  BY Zenon, <1>1 DEF CallOK
<1>3. CASE CommitRefused(r)
  BY Zenon, <1>3, EndStep DEF CommitRefused
<1>4. CASE CommitConflict(r)
  <2>1. Harmless(OnConflict(s, current))
    BY Zenon, <1>1, <1>4, <1>a, OnConflictHarmless DEF CommitConflict
  <2> QED BY Zenon, <1>4, <1>a, <2>1, HarmlessStep DEF CommitConflict
<1>5. CASE CommitSwap(r)
  BY Zenon, <1>5, SwapStep
<1>6. CASE ReadBack(r)
  BY Zenon, <1>6, ReadBackStep
<1>7. CASE Read(r)
  <2>1. Harmless(AfterRead(s, current))
    BY Zenon, <1>1, <1>2, AfterReadHarmless
  <2> QED BY Zenon, <1>7, <1>a, <2>1, HarmlessStep DEF Read
<1>8. CASE ReadArchive(r)
  <2>1. Harmless(Observing(s, s.rec)) /\ Harmless(Idle)
    BY Zenon, <1>1, <1>2, ObservingHarmless, IdleHarmless
  <2> QED BY Zenon, <1>8, <1>a, <2>1, HarmlessStep DEF ReadArchive
<1>9. CASE Prepare(r)
  <2>1. PICK id \in Quotes(s) : run' = [run EXCEPT ![r] = AfterPrepare(s, id)]
    BY Zenon, <1>9, <1>a DEF Prepare
  <2>2. id \in Ids
    BY Zenon, <1>2, <2>1 DEF Quotes
  <2>3. Harmless(AfterPrepare(s, id))
    BY Zenon, <1>1, <2>2, AfterPrepareHarmless
  <2> QED BY Zenon, <1>9, <2>1, <2>3, HarmlessStep DEF Prepare
<1>10. CASE Authorize(r)
  <2>1. s.rec.state = "prepared" /\ s.rec \in Records /\ s.rec.id \in Ids
    BY Zenon, <1>1, <1>10, <1>a DEF Authorize, CallOK, SnapshotOK
  <2>2. NextOK(Committing(s, MarkSubmissionAttempted(s.rec), "attempt"))
    BY Zenon, <1>1, <2>1, CommittingNext, Transitions
  <2>3. NextOK(Committing(s, MarkAbandoned(s.rec), "abandon"))
    BY Zenon, <1>1, <2>1, CommittingNext, Transitions
  <2>4. /\ Harmless(Committing(s, MarkSubmissionAttempted(s.rec), "attempt"))
        /\ Harmless(Committing(s, MarkAbandoned(s.rec), "abandon"))
    BY Zenon, <1>1, <1>2, <2>1, <2>2, <2>3, Transitions, CommittingHarmless
  <2> QED BY Zenon, <1>10, <1>a, <2>4, HarmlessStep DEF Authorize
<1>11. CASE Submit(r)
  BY Zenon, <1>11, SubmitStep
<1>12. CASE Answer(r)
  <2>1. s.rec.state = "submission_attempted" /\ s.rec \in Records /\ s.rec.id \in Ids
    BY Zenon, <1>1, <1>12, <1>a DEF Answer, CallOK, SnapshotOK
  <2>2. NextOK(Committing(s, MarkAbandoned(s.rec), "reject"))
    BY Zenon, <1>1, <2>1, CommittingNext, Transitions
  <2>3. Harmless(Committing(s, MarkAbandoned(s.rec), "reject"))
    BY Zenon, <1>1, <1>2, <2>1, <2>2, Transitions, CommittingHarmless
  <2>b. PICK u : u = [s EXCEPT !.tries = 0]
    BY Zenon
  <2>4. u \in RunStates /\ u.mode = s.mode /\ u.want = s.want
    BY <1>1, <2>b DEF RunStates
  <2>5. Harmless(Acknowledging(u, s.rec))
    BY Zenon, <1>2, <2>4, AcknowledgingHarmless
  <2> QED BY Zenon, <1>12, <1>a, <2>3, <2>5, <2>b, HarmlessStep DEF Answer
<1>13. CASE Observe(r)
  <2>1. PICK o \in Observations(s.rec) :
          run' = [run EXCEPT ![r] = Committing(s, o, "observe")]
    BY Zenon, <1>13, <1>a DEF Observe
  <2>2. s.rec.state \in SentStates /\ s.rec \in Records /\ s.rec.id \in Ids
    BY Zenon, <1>1, <1>13, <1>a DEF Observe, CallOK, SnapshotOK, SentStates
  <2>3. /\ o \in Records /\ o.id = s.rec.id
        /\ o.state \in SentStates \cup TerminalStates
        /\ Rank(o.state) >= Rank(s.rec.state)
    BY Zenon, <2>1, <2>2, ObservationsOK DEF IInv
  <2>4. NextOK(Committing(s, o, "observe"))
    <3>1. s.rec.state # "absent" /\ o.state # "absent"
      BY Zenon, <2>2, <2>3 DEF SentStates, TerminalStates
    <3> QED BY Zenon, <1>1, <2>2, <2>3, <3>1, CommittingNext
  <2>5. Harmless(Committing(s, o, "observe"))
    BY Zenon, <1>1, <1>2, <2>3, <2>4, CommittingHarmless
  <2> QED BY Zenon, <1>13, <2>1, <2>5, HarmlessStep DEF Observe
<1> QED BY Zenon, <1>3, <1>4, <1>5, <1>6, <1>7, <1>8, <1>9, <1>10, <1>11, <1>12, <1>13
        DEF RunStep

\* The environment touches neither the journal, the calls nor the sends.
LEMMA EnvironmentStep ==
  ASSUME IInv, UNCHANGED <<journal, run, sends>>, TypeOK'
  PROVE  IInv'
<1>1. UNCHANGED <<current, archive, run, sends>>
  BY Zenon DEF journal
<1>2. RecordsOK' /\ AtMostOneSend' /\ SentIsJournaled'
  BY Zenon, <1>1 DEF IInv, RecordsOK, AtMostOneSend, SentIsJournaled, Held
<1>3. ASSUME NEW q \in Runners PROVE CallOK(run[q])'
  <2>1. CallOK(run[q])
    BY Zenon DEF IInv
  <2> QED BY Zenon, <1>1, <2>1 DEF CallOK, SnapshotOK, NextOK
<1>4. TokensOK'
  BY <1>1 DEF IInv, TokensOK, Token, Held
<1> QED BY Zenon, <1>2, <1>3, <1>4 DEF IInv

LEMMA NextIInv == ASSUME IInv, [Next]_vars PROVE IInv'
<1>1. CASE UNCHANGED vars
  BY Zenon, <1>1, EnvironmentStep DEF IInv, TypeOK, vars, journal
<1>2. ASSUME NEW r \in Runners, NEW mode \in Methods, NEW want \in Ids \cup {NoId},
             Invoke(r, mode, want)
      PROVE  IInv'
  BY Zenon, <1>2, InvokeStep, MethodsAssumption
<1>3. ASSUME NEW r \in Runners, RunStep(r) PROVE IInv'
  BY Zenon, <1>3, RunStepInv
<1>4. ASSUME NEW r \in Runners, Stop(r) PROVE IInv'
  BY Zenon, <1>4, EndStep DEF Stop
<1>5. ASSUME NEW id \in Ids, Accept(id) \/ Refuse(id) PROVE IInv'
  BY Zenon, <1>5, EnvironmentStep DEF Accept, Refuse, IInv, TypeOK, journal, ledger
<1>6. ASSUME NEW id \in Ids \cup {NoId}, Include(id) PROVE IInv'
  <2>1. chain \in Seq(Slots) /\ [id |-> id, block |-> blocks + 1] \in Slots
    BY DEF IInv, TypeOK, Slots
  <2>2. chain' \in Seq(Slots)
    BY <1>6, <2>1 DEF Include
  <2> QED BY <1>6, <2>2, EnvironmentStep DEF Include, IInv, TypeOK, journal, network
<1>7. CASE Finalize
  BY <1>7, EnvironmentStep DEF Finalize, IInv, TypeOK, journal, network
<1>8. CASE Reorg
  <2>1. chain' \in Seq(Slots)
    <3>1. chain \in Seq(Slots) /\ finalized \in Nat /\ finalized < Len(chain)
      BY Zenon, <1>8 DEF IInv, TypeOK, Reorg
    <3> QED BY <1>8, <3>1 DEF Reorg
  <2> QED BY Zenon, <1>8, <2>1, EnvironmentStep DEF Reorg, IInv, TypeOK, journal, network
<1> QED BY Zenon, <1>1, <1>2, <1>3, <1>4, <1>5, <1>6, <1>7, <1>8 DEF Next

\* A swap moves the record of the identity it writes forwards and leaves
\* every other record as it is, in one place or the other.
LEMMA SwapMonotone ==
  ASSUME IInv, NEW r \in Runners, CommitSwap(r), NEW id \in Ids
  PROVE  Monotone(id)
<1>a. PICK s : s = run[r]
  BY Zenon
<1>b. PICK next : next = [s.next EXCEPT !.rev = current.rev + 1]
  BY Zenon
<1>1. s \in RunStates /\ CallOK(s) /\ NextOK(s)
  BY Zenon, <1>a DEF IInv, TypeOK, CallOK, CommitSwap
<1>2. /\ current \in Records /\ archive \in [Ids -> Records]
      /\ Held(id) \in Records
  BY Zenon DEF IInv, TypeOK, Held
<1>3. /\ next.id = s.next.id /\ next.state = s.next.state
      /\ next.submission = s.next.submission
  BY Zenon, <1>1, <1>b DEF RunStates, Records
<1>4. s.rec = current
  BY Zenon, <1>1, <1>a DEF CommitSwap, CallOK, SnapshotOK
<1>5. /\ current' = next
      /\ archive' = IF current.id \in Ids \ {next.id}
                     THEN [archive EXCEPT ![current.id] = current] ELSE archive
      /\ archive[next.id] = NoRecord
      /\ ValidNext(current, next)
  BY Zenon, <1>3, <1>a, <1>b DEF CommitSwap, Retained
<1>6. CASE id # next.id
  <2>1. Held(id)' = Held(id)
    BY Zenon, <1>2, <1>5, <1>6 DEF Held, RecordsOK, IInv
  <2>2. Rank(Held(id).state) \in Nat
    BY Zenon, <1>2 DEF Rank, Records, OpenStates, TerminalStates
  <2> QED BY <2>1, <2>2 DEF Monotone
<1>7. CASE id = next.id /\ current.id # id
  <2>1. Held(id) = NoRecord /\ Held(id)' = next
    BY Zenon, <1>5, <1>7 DEF Held
  <2>2. Rank("absent") = 0 /\ Rank(next.state) \in Nat
    BY <1>1, <1>3 DEF Rank, RunStates, Records, OpenStates, TerminalStates
  <2> QED BY <2>1, <2>2 DEF Monotone, NoRecord, TerminalStates
<1>8. CASE id = next.id /\ current.id = id
  <2>1. Held(id) = current /\ Held(id)' = next
    BY Zenon, <1>5, <1>8 DEF Held
  <2>2. s.cont # "publish"
    BY Zenon, <1>1, <1>3, <1>4, <1>8 DEF NextOK
  <2>3. /\ current.state \in {"prepared"} \cup SentStates
        /\ Rank(next.state) >= Rank(current.state)
    <3>1. CASE s.cont = "observe"
      BY Zenon, <1>1, <1>3, <1>4, <3>1 DEF NextOK
    <3>2. CASE s.cont # "observe"
      BY <1>1, <1>3, <1>4, <2>2, <3>2
      DEF NextOK, RunStates, Rank, SentStates, TerminalStates
    <3> QED BY Zenon, <3>1, <3>2
  <2>4. current.state \notin TerminalStates
    BY Zenon, <2>3 DEF SentStates, TerminalStates
  <2>5. current.submission => next.submission
    BY Zenon, <1>5, <1>8 DEF ValidNext
  <2> QED BY Zenon, <2>1, <2>3, <2>4, <2>5 DEF Monotone
<1> QED BY Zenon, <1>6, <1>7, <1>8

LEMMA NextMonotone ==
  ASSUME IInv, [Next]_vars, NEW id \in Ids
  PROVE  Monotone(id)
<1>1. ASSUME UNCHANGED journal PROVE Monotone(id)
  <2>1. Held(id)' = Held(id) /\ Held(id) \in Records
    BY Zenon, <1>1 DEF Held, journal, IInv, TypeOK
  <2>2. Rank(Held(id).state) \in Nat
    BY Zenon, <2>1 DEF Rank, Records, OpenStates, TerminalStates
  <2> QED BY <2>1, <2>2 DEF Monotone
<1>2. ASSUME NEW r \in Runners, CommitSwap(r) PROVE Monotone(id)
  BY Zenon, <1>2, SwapMonotone
<1>3. \/ UNCHANGED journal
      \/ \E r \in Runners : CommitSwap(r)
  <2>1. CASE UNCHANGED vars
    BY Zenon, <2>1 DEF vars, journal
  <2>2. ASSUME NEW r \in Runners, RunStep(r), ~CommitSwap(r) PROVE UNCHANGED journal
    BY Zenon, <2>2 DEF RunStep, CommitRefused, CommitConflict, ReadBack, Read, ReadArchive,
       Prepare, Authorize, Submit, Answer, Observe
  <2>3. ASSUME NEW r \in Runners, NEW mode \in Methods, NEW want \in Ids \cup {NoId},
               Invoke(r, mode, want)
        PROVE  UNCHANGED journal
    BY Zenon, <2>3 DEF Invoke
  <2>4. ASSUME NEW r \in Runners, Stop(r) PROVE UNCHANGED journal
    BY Zenon, <2>4 DEF Stop
  <2>5. ASSUME NEW i \in Ids \cup {NoId}, Accept(i) \/ Refuse(i) \/ Include(i)
        PROVE  UNCHANGED journal
    BY Zenon, <2>5 DEF Accept, Refuse, Include
  <2>6. ASSUME Finalize \/ Reorg PROVE UNCHANGED journal
    BY Zenon, <2>6 DEF Finalize, Reorg
  <2> QED BY Zenon, <2>1, <2>2, <2>3, <2>4, <2>5, <2>6 DEF Next
<1> QED BY Zenon, <1>1, <1>2, <1>3

LEMMA Invariance == Spec => []IInv
BY InitIInv, NextIInv, PTL DEF Spec

-----------------------------------------------------------------------------
\* Every variable keeps its type.
THEOREM TypeCorrect == Spec => []TypeOK
BY Invariance, PTL DEF IInv

\* No user operation hash is handed to a submission session twice, for any
\* number of runners and processes, crashing anywhere (executeOperation).
THEOREM SendsOnce == Spec => []AtMostOneSend
BY Invariance, PTL DEF IInv

\* The journal records the attempt before anything is sent
\* (mark_submission_attempted precedes openSubmission).
THEOREM JournalsBeforeSending == Spec => []SentIsJournaled
BY Invariance, PTL DEF IInv

\* No step of any call moves an identity's record back, drops submission
\* evidence or changes a concluded record, wherever the record is kept.
THEOREM JournalNeverGoesBack == Spec => JournalMonotone
<1>1. IInv /\ [Next]_vars => [\A id \in Ids : Monotone(id)]_vars
  BY Zenon, NextMonotone
<1> QED BY <1>1, Invariance, PTL DEF Spec, JournalMonotone
=============================================================================
