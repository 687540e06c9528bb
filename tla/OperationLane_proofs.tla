------------------------- MODULE OperationLane_proofs -------------------------
(***************************************************************************)
(* Proofs that the conclusions of the journal are true, and that runners,  *)
(* journal, bundler and chain together implement OperationLane.            *)
(*                                                                         *)
(* The argument goes on from the invariant of OperationRunner_proofs: a    *)
(* strong observation is about a block that is final, so what a call is    *)
(* committing stays true until the swap and the record after it; and an    *)
(* identity that is abandoned was refused, or never sent and nobody has    *)
(* the right to send it any more.                                          *)
(***************************************************************************)
EXTENDS OperationRunner_proofs


\* What a record concludes about its identity is true of the final chain.
Proven(id, o) ==
  /\ o.state \in {"finalized", "dropped", "superseded"} => Nonce[id] < finalized
  /\ o.state = "finalized" => chain[Nonce[id] + 1] = [id |-> id, block |-> o.inclusion]
  /\ o.state = "dropped" => chain[Nonce[id] + 1].id # id

ChainOK ==
  /\ finalized <= Len(chain)
  /\ \A i \in 1..Len(chain) : chain[i].id \in Ids =>
       gateway[chain[i].id] = "accepted" /\ Nonce[chain[i].id] = i - 1

WireOK == \A id \in Ids : gateway[id] = "unsent" <=> sends[id] = 0

ArchiveOK == \A id \in Ids : archive[id] # NoRecord => archive[id].state \in TerminalStates

HeldOK == \A id \in Ids : Proven(id, Held(id))

\* The right to send an abandoned identity is spent or was never given.
Unsendable(id) ==
  \/ gateway[id] = "refused"
  \/ sends[id] = 0 /\ \A r \in Runners : ~Token(run[r], id)

AbandonedOK == \A id \in Ids : Held(id).state = "abandoned" => Unsendable(id)

\* What a call is about to record is true.
Sincere(s) ==
  s.pc \in {"commit", "verify"} =>
    /\ Proven(s.next.id, s.next)
    /\ s.cont = "reject" => gateway[s.next.id] = "refused"
    /\ s.cont = "observe" => s.next.state # "abandoned"

CallsOK == \A r \in Runners : Sincere(run[r])

CInv == ChainOK /\ WireOK /\ ArchiveOK /\ HeldOK /\ AbandonedOK /\ CallsOK

-----------------------------------------------------------------------------
(***************************************************************************)
(* Steps that only move one call.                                          *)
(***************************************************************************)
LEMMA OneCallMoves ==
  ASSUME IInv, CInv, NEW r \in Runners, NEW s, Sincere(s),
         \A id \in Ids : Token(s, id) => Token(run[r], id),
         run' = [run EXCEPT ![r] = s],
         UNCHANGED <<journal, network, ledger>>
  PROVE  CInv'
<1> USE DEF journal, network, ledger
<1>1. \A q \in Runners : run'[q] = IF q = r THEN s ELSE run[q]
  BY Zenon DEF IInv, TypeOK
<1>2. ChainOK' /\ WireOK' /\ ArchiveOK'
  BY Zenon DEF CInv, ChainOK, WireOK, ArchiveOK
<1>3. HeldOK'
  BY Zenon DEF CInv, HeldOK, Proven, Held
<1>4. \A q \in Runners, id \in Ids : Token(run'[q], id) => Token(run[q], id)
  BY Zenon, <1>1
<1>5. AbandonedOK'
  <2>1. \A id \in Ids : Held(id)' = Held(id)
    BY Zenon DEF Held
  <2>2. \A id \in Ids : Unsendable(id) => Unsendable(id)'
    BY Zenon, <1>4 DEF Unsendable, Token
  <2> QED BY Zenon, <2>1, <2>2 DEF CInv, AbandonedOK
<1>6. CallsOK'
  <2>1. \A q \in Runners : Sincere(run'[q])
    BY Zenon, <1>1 DEF CInv, CallsOK
  <2> QED BY Zenon, <2>1 DEF CallsOK, Sincere, Proven
<1> QED BY Zenon, <1>2, <1>3, <1>5, <1>6 DEF CInv

LEMMA QuietMove ==
  ASSUME IInv, CInv, NEW r \in Runners, NEW s, Harmless(s), Sincere(s),
         run' = [run EXCEPT ![r] = s],
         UNCHANGED <<journal, network, ledger>>
  PROVE  CInv'
BY Zenon, OneCallMoves DEF Harmless

\* A call that is not recording what it has seen of the chain or the bundler.
Bland(s) ==
  s.pc \in {"commit", "verify"} =>
    /\ s.next.state \notin {"finalized", "dropped", "superseded"}
    /\ s.cont \notin {"reject", "observe"}

LEMMA BlandSincere == ASSUME NEW s, Bland(s) PROVE Sincere(s)
BY Zenon DEF Bland, Sincere, Proven

LEMMA IdleBland == Bland(Idle)
BY Zenon DEF Bland, Idle

LEMMA ObservingBland ==
  ASSUME NEW s \in RunStates, NEW rec PROVE Bland(Observing(s, rec))
<1>1. GoingTo(s, "observe", rec).pc = "observe"
  BY Zenon DEF GoingTo, RunStates
<1> QED BY Zenon, <1>1, IdleBland DEF Observing, Bland

LEMMA StartedBland ==
  ASSUME NEW s \in RunStates, NEW rec PROVE Bland(Started(s, rec))
<1>1. [s EXCEPT !.tries = 0] \in RunStates
  BY DEF RunStates
<1> QED BY Zenon, <1>1, ObservingBland, IdleBland DEF Started

LEMMA PublishedBland ==
  ASSUME NEW s \in RunStates, NEW rec PROVE Bland(Published(s, rec))
<1>1. GoingTo(s, "authorize", rec).pc = "authorize"
  BY Zenon DEF GoingTo, RunStates
<1>2. Bland(GoingTo(s, "authorize", rec))
  BY Zenon, <1>1 DEF Bland
<1> QED BY Zenon, <1>2, StartedBland, IdleBland DEF Published

LEMMA AcknowledgingBland ==
  ASSUME NEW s \in RunStates, NEW rec \in Records PROVE Bland(Acknowledging(s, rec))
<1> DEFINE u == [s EXCEPT !.rec = rec]
<1>1. u \in RunStates
  BY Zenon DEF RunStates
<1> HIDE DEF u
<1>2. Committing(u, MarkSubmitted(rec), "ack").next = MarkSubmitted(rec)
      /\ Committing(u, MarkSubmitted(rec), "ack").cont = "ack"
  BY <1>1, CommittingFields
<1>3. MarkSubmitted(rec).state = "submitted"
  BY Zenon, Transitions
<1>4. Bland(Committing(u, MarkSubmitted(rec), "ack"))
  BY Zenon, <1>2, <1>3 DEF Bland
<1> QED BY Zenon, <1>4, StartedBland DEF Acknowledging, u

LEMMA OnConflictBland ==
  ASSUME NEW s \in RunStates, NextOK(s), NEW cur \in Records
  PROVE  Bland(OnConflict(s, cur))
<1>1. CASE s.cont = "publish"
  <2> DEFINE u == [s EXCEPT !.rec = cur, !.tries = 1]
  <2>1. u.next = s.next /\ u.cont = s.cont
    BY Zenon DEF RunStates
  <2>2. s.next.state = "prepared"
    BY Zenon, <1>1 DEF NextOK
  <2> HIDE DEF u
  <2>3. Bland(u)
    BY Zenon, <1>1, <2>1, <2>2 DEF Bland
  <2>4. ConflictOnPublish(s, cur) \in {Idle, Published(s, cur), u}
    BY Zenon DEF ConflictOnPublish, u
  <2> QED BY Zenon, <1>1, <2>3, <2>4, IdleBland, PublishedBland DEF OnConflict
<1>2. CASE s.cont = "attempt"
  BY Zenon, <1>2, StartedBland, IdleBland DEF OnConflict, ConflictOnAttempt
<1>3. CASE s.cont = "ack"
  <2> DEFINE u == [s EXCEPT !.tries = @ + 1]
  <2>1. u \in RunStates
    BY <1>3 DEF RunStates, NextOK
  <2> HIDE DEF u
  <2> QED BY Zenon, <1>3, <2>1, AcknowledgingBland, IdleBland DEF OnConflict, ConflictOnAck, u
<1>4. CASE s.cont = "observe"
  <2>1. CASE s.tries < 2
    <3> DEFINE u == [s EXCEPT !.tries = @ + 1]
    <3>1. u \in RunStates
      BY <2>1 DEF RunStates
    <3> HIDE DEF u
    <3> QED BY Zenon, <1>4, <3>1, ObservingBland, IdleBland DEF OnConflict, ConflictOnObserve, u
  <2>2. CASE ~(s.tries < 2)
    BY Zenon, <1>4, <2>2, IdleBland DEF OnConflict, ConflictOnObserve
  <2> QED BY Zenon, <2>1, <2>2
<1>5. CASE s.cont \in {"abandon", "reject"}
  BY Zenon, <1>5, IdleBland DEF OnConflict
<1> QED BY Zenon, <1>1, <1>2, <1>3, <1>4, <1>5 DEF RunStates

LEMMA AfterReadBland ==
  ASSUME NEW s \in RunStates, s.pc = "read", NEW rec \in Records
  PROVE  Bland(AfterRead(s, rec))
<1> DEFINE u == [s EXCEPT !.rec = rec]
           at(pc) == [u EXCEPT !.pc = pc]
           a == Committing(u, MarkAbandoned(rec), "abandon")
<1>1. u \in RunStates
  BY Zenon DEF RunStates
<1>2. at("archive").pc = "archive" /\ at("prepare").pc = "prepare"
  BY Zenon, <1>1 DEF RunStates
<1>3. Bland(at("archive")) /\ Bland(at("prepare"))
  BY Zenon, <1>2 DEF Bland
<1> HIDE DEF u
<1>4. a.next.state = "abandoned" /\ a.cont = "abandon"
  BY <1>1, CommittingFields, Transitions
<1>5. Bland(a)
  BY Zenon, <1>4 DEF Bland
<1>6. AfterRead(s, rec) \in {Idle, Observing(u, rec), at("archive"), at("prepare"), a}
  <2> HIDE DEF at, a
  <2> QED BY Zenon DEF AfterRead, u, at, a
<1> QED BY Zenon, <1>1, <1>3, <1>5, <1>6, IdleBland, ObservingBland

LEMMA AfterPrepareBland ==
  ASSUME NEW s \in RunStates, NEW id \in Ids PROVE Bland(AfterPrepare(s, id))
<1> DEFINE c == Committing(s, createOperation(id), "publish")
<1>1. createOperation(id).state = "prepared"
  BY Zenon DEF createOperation, NoRecord
<1>2. Bland(c)
  BY <1>1, CommittingFields DEF Bland
<1>3. AfterPrepare(s, id) \in {Idle, Published(s, s.rec), c}
  BY Zenon DEF AfterPrepare
<1> QED BY Zenon, <1>2, <1>3, IdleBland, PublishedBland

\* A verified observation concludes only what is final.
LEMMA ObservationProven ==
  ASSUME IInv, CInv, NEW o \in Records, o.id \in Ids, o.state \in SentStates,
         NEW next \in Observations(o)
  PROVE  Proven(next.id, next) /\ next.state # "abandoned"
<1> USE DEF SentStates
<1>1. ASSUME NEW p \in Records, p.id = o.id, p.state \in SentStates,
             NEW w \in {"pending", "unreadable"}
      PROVE  Proven(RecordWeak(p, w).id, RecordWeak(p, w)) /\ RecordWeak(p, w).state # "abandoned"
  <2>1. RecordWeak(p, w).state = p.state
    BY Zenon, <1>1 DEF RecordWeak, Records
  <2> QED BY Zenon, <1>1, <2>1 DEF Proven
<1>2. CASE next \in WithoutReceipt(o)
  <2>1. \/ \E w \in {"pending", "unreadable"} : next = RecordWeak(o, w)
        \/ next = RecordDropped(o) /\ Nonce[o.id] < finalized /\ chain[Nonce[o.id] + 1].id # o.id
        \/ next = RecordSuperseded(o) /\ Nonce[o.id] < finalized
    BY Zenon, <1>2 DEF WithoutReceipt
  <2>2. /\ RecordDropped(o).id = o.id /\ RecordDropped(o).state = "dropped"
        /\ RecordSuperseded(o).id = o.id /\ RecordSuperseded(o).state = "superseded"
    BY Zenon DEF RecordDropped, RecordSuperseded, Records
  <2> QED BY <1>1, <2>1, <2>2 DEF Proven
<1>3. ASSUME NEW i \in DOMAIN chain, chain[i].id = o.id, next \in WithReceipt(o, i)
      PROVE  Proven(next.id, next) /\ next.state # "abandoned"
  <2>1. chain \in Seq(Slots) /\ Len(chain) \in Nat /\ i \in 1..Len(chain)
    BY <1>3 DEF IInv, TypeOK
  <2>2. chain[i] \in Slots
    BY <2>1
  <2>3. chain[i] = [id |-> o.id, block |-> chain[i].block] /\ chain[i].block \in Nat
    BY Zenon, <1>3, <2>2 DEF Slots
  <2>4. Nonce[o.id] = i - 1 /\ Nonce[o.id] + 1 = i
    BY <1>3, <2>1 DEF CInv, ChainOK
  <2>5. Included(o, i) \in Records /\ Included(o, i).id = o.id /\ Included(o, i).state = "included"
    <3>1. CASE o.state = "included"
      BY Zenon, <3>1 DEF Included
    <3>2. CASE o.state # "included"
      BY Zenon, <2>3, <3>2 DEF Included, RecordIncluded, Records, OpenStates
    <3> QED BY Zenon, <3>1, <3>2
  <2>6. CASE next = RecordWeak(o, "unreadable") \/ next = RecordWeak(Included(o, i), "unreadable")
    BY Zenon, <1>1, <2>5, <2>6
  <2>7. CASE ~(o.state = "included" /\ o.inclusion # chain[i].block) /\ i <= finalized
             /\ next = RecordFinalized(Included(o, i))
    <3>1. Included(o, i).inclusion = chain[i].block
      <4>1. CASE o.state = "included"
        BY Zenon, <2>7, <4>1 DEF Included
      <4>2. CASE o.state # "included"
        BY Zenon, <4>2 DEF Included, RecordIncluded, Records
      <4> QED BY Zenon, <4>1, <4>2
    <3>2. next.id = o.id /\ next.state = "finalized" /\ next.inclusion = chain[i].block
      BY Zenon, <2>5, <2>7, <3>1 DEF RecordFinalized, Records
    <3>3. Nonce[o.id] < finalized
      BY <2>1, <2>4, <2>7 DEF IInv, TypeOK
    <3> QED BY Zenon, <2>3, <2>4, <3>2, <3>3 DEF Proven
  <2> QED BY Zenon, <1>3, <2>6, <2>7 DEF WithReceipt
<1> QED BY Zenon, <1>2, <1>3 DEF Observations

\* The steps of a call that write nothing.
LEMMA CallKeepsC ==
  ASSUME IInv, CInv, NEW r \in Runners, RunStep(r), ~CommitSwap(r), ~Submit(r)
  PROVE  CInv'
<1>a. PICK s : s = run[r]
  BY Zenon
<1>1. s \in RunStates /\ CallOK(s) /\ Sincere(s)
  BY Zenon, <1>a DEF IInv, TypeOK, CInv, CallsOK
<1>2. SnapshotOK(s.rec) /\ s.rec \in Records /\ (s.mode = "resume" => s.want \in Ids)
  BY Zenon, <1>1 DEF CallOK, SnapshotOK
<1>c. current \in Records /\ Harmless(Idle) /\ Sincere(Idle)
  BY Zenon, IdleHarmless, IdleBland, BlandSincere DEF IInv, TypeOK
<1>3. CASE CommitRefused(r)
  BY Zenon, <1>3, <1>c, QuietMove DEF CommitRefused
<1>4. CASE CommitConflict(r)
  <2>1. s.pc = "commit" /\ run' = [run EXCEPT ![r] = OnConflict(s, current)]
        /\ UNCHANGED <<journal, network, ledger>>
    BY Zenon, <1>4, <1>a DEF CommitConflict
  <2>2. Harmless(OnConflict(s, current))
    BY Zenon, <1>1, <2>1, OnConflictHarmless
  <2>3. Sincere(OnConflict(s, current))
    BY Zenon, <1>1, <1>c, <2>1, OnConflictBland, BlandSincere DEF CallOK
  <2> QED BY Zenon, <2>1, <2>2, <2>3, QuietMove
<1>6. CASE ReadBack(r)
  <2>1. s.pc = "verify" /\ NextOK(s) /\ UNCHANGED <<journal, network, ledger>>
    BY Zenon, <1>1, <1>6, <1>a DEF ReadBack, CallOK
  <2>2. CASE current # s.next
    <3>1. run' = [run EXCEPT ![r] = Idle]
      BY Zenon, <1>6, <1>a, <2>2 DEF ReadBack
    <3> QED BY Zenon, <1>c, <2>1, <3>1, QuietMove
  <2>3. CASE current = s.next
    <3>1. run' = [run EXCEPT ![r] = OnCommitted(s)]
      BY Zenon, <1>6, <1>a, <2>3 DEF ReadBack
    <3>2. SnapshotOK(s.next)
      BY Zenon, <2>3, CurrentSnapshot
    <3>3. CASE s.cont = "publish"
      <4>1. Harmless(Published(s, s.next)) /\ Sincere(Published(s, s.next))
        BY Zenon, <1>1, <1>2, <3>2, PublishedHarmless, PublishedBland, BlandSincere
      <4> QED BY Zenon, <2>1, <3>1, <3>3, <4>1, QuietMove DEF OnCommitted
    <3>4. CASE s.cont = "ack"
      <4>1. Harmless(Started(s, s.next)) /\ Sincere(Started(s, s.next))
        BY Zenon, <1>1, <1>2, <3>2, StartedHarmless, StartedBland, BlandSincere
      <4> QED BY Zenon, <2>1, <3>1, <3>4, <4>1, QuietMove DEF OnCommitted
    <3>5. CASE s.cont = "attempt"
      <4>b. PICK t : t = GoingTo(s, "open", s.next)
        BY Zenon
      <4>1. t.pc = "open" /\ t.rec = s.next
        BY Zenon, <1>1, <4>b DEF GoingTo, RunStates
      <4>2. Sincere(t) /\ \A id \in Ids : Token(t, id) => Token(run[r], id)
        BY Zenon, <1>a, <2>1, <3>5, <4>1 DEF Sincere, Token
      <4>3. run' = [run EXCEPT ![r] = t]
        BY Zenon, <3>1, <3>5, <4>b DEF OnCommitted
      <4> QED BY Zenon, <2>1, <4>2, <4>3, OneCallMoves
    <3>6. CASE s.cont \in {"abandon", "reject", "observe"}
      <4>1. run' = [run EXCEPT ![r] = Idle]
        BY Zenon, <3>1, <3>6 DEF OnCommitted
      <4> QED BY Zenon, <1>c, <2>1, <4>1, QuietMove
    <3> QED BY Zenon, <1>1, <3>3, <3>4, <3>5, <3>6 DEF RunStates
  <2> QED BY Zenon, <2>2, <2>3
<1>7. CASE Read(r)
  <2>1. s.pc = "read" /\ run' = [run EXCEPT ![r] = AfterRead(s, current)]
        /\ UNCHANGED <<journal, network, ledger>>
    BY Zenon, <1>7, <1>a DEF Read
  <2>2. Harmless(AfterRead(s, current)) /\ Sincere(AfterRead(s, current))
    BY Zenon, <1>1, <1>2, <1>c, <2>1, AfterReadHarmless, AfterReadBland, BlandSincere
  <2> QED BY Zenon, <2>1, <2>2, QuietMove
<1>8. CASE ReadArchive(r)
  <2>1. Harmless(Observing(s, s.rec)) /\ Sincere(Observing(s, s.rec))
    BY Zenon, <1>1, <1>2, ObservingHarmless, ObservingBland, BlandSincere
  <2> QED BY Zenon, <1>8, <1>a, <1>c, <2>1, QuietMove DEF ReadArchive
<1>9. CASE Prepare(r)
  <2>1. PICK id \in Quotes(s) : run' = [run EXCEPT ![r] = AfterPrepare(s, id)]
    BY Zenon, <1>9, <1>a DEF Prepare
  <2>2. id \in Ids
    BY Zenon, <1>2, <2>1 DEF Quotes, SnapshotOK
  <2>3. Harmless(AfterPrepare(s, id)) /\ Sincere(AfterPrepare(s, id))
    BY Zenon, <1>1, <2>2, AfterPrepareHarmless, AfterPrepareBland, BlandSincere
  <2> QED BY Zenon, <1>9, <2>1, <2>3, QuietMove DEF Prepare
<1>10. CASE Authorize(r)
  <2>1. s.rec.state = "prepared" /\ s.rec.id \in Ids
    BY Zenon, <1>1, <1>10, <1>a DEF Authorize, CallOK, SnapshotOK
  <2> DEFINE t == Committing(s, MarkSubmissionAttempted(s.rec), "attempt")
             a == Committing(s, MarkAbandoned(s.rec), "abandon")
  <2>2. NextOK(t) /\ NextOK(a)
    BY Zenon, <1>1, <1>2, <2>1, CommittingNext, Transitions
  <2>3. Harmless(t) /\ Harmless(a)
    BY Zenon, <1>1, <1>2, <2>1, <2>2, Transitions, CommittingHarmless
  <2>4. t.next.state = "submission_attempted" /\ t.cont = "attempt"
        /\ a.next.state = "abandoned" /\ a.cont = "abandon"
    BY <1>1, <1>2, CommittingFields, Transitions
  <2> HIDE DEF t, a
  <2>5. Sincere(t) /\ Sincere(a)
    BY Zenon, <2>4, BlandSincere DEF Bland
  <2>6. (run' = [run EXCEPT ![r] = t] \/ run' = [run EXCEPT ![r] = a])
        /\ UNCHANGED <<journal, network, ledger>>
    BY Zenon, <1>10, <1>a DEF Authorize, t, a
  <2> QED BY Zenon, <2>3, <2>5, <2>6, QuietMove
<1>12. CASE Answer(r)
  <2>1. s.rec.state = "submission_attempted" /\ s.rec.id \in Ids
        /\ UNCHANGED <<journal, network, ledger>>
    BY Zenon, <1>1, <1>12, <1>a DEF Answer, CallOK, SnapshotOK
  <2>2. CASE gateway[s.rec.id] = "refused" /\ run' = [run EXCEPT ![r] =
                  Committing(s, MarkAbandoned(s.rec), "reject")]
    <3> DEFINE a == Committing(s, MarkAbandoned(s.rec), "reject")
    <3>1. NextOK(a)
      BY Zenon, <1>1, <1>2, <2>1, CommittingNext, Transitions
    <3>2. Harmless(a)
      BY Zenon, <1>1, <1>2, <2>1, <3>1, Transitions, CommittingHarmless
    <3>3. a.next.state = "abandoned" /\ a.next.id = s.rec.id /\ a.cont = "reject"
      BY <1>1, <1>2, CommittingFields, Transitions
    <3> HIDE DEF a
    <3>4. Sincere(a)
      BY Zenon, <2>2, <3>3 DEF Sincere, Proven
    <3> QED BY Zenon, <2>1, <2>2, <3>2, <3>4, QuietMove DEF a
  <2>3. CASE run' = [run EXCEPT ![r] = Acknowledging([s EXCEPT !.tries = 0], s.rec)]
    <3>b. PICK u : u = [s EXCEPT !.tries = 0]
      BY Zenon
    <3>1. u \in RunStates /\ u.mode = s.mode /\ u.want = s.want
      BY <1>1, <3>b DEF RunStates
    <3>2. Harmless(Acknowledging(u, s.rec)) /\ Sincere(Acknowledging(u, s.rec))
      BY Zenon, <1>2, <3>1, AcknowledgingHarmless, AcknowledgingBland, BlandSincere
    <3> QED BY Zenon, <2>1, <2>3, <3>b, <3>2, QuietMove
  <2> QED BY Zenon, <1>12, <1>a, <2>2, <2>3 DEF Answer
<1>13. CASE Observe(r)
  <2>1. PICK o \in Observations(s.rec) :
          run' = [run EXCEPT ![r] = Committing(s, o, "observe")]
    BY Zenon, <1>13, <1>a DEF Observe
  <2>2. s.rec.state \in SentStates /\ s.rec.id \in Ids
        /\ UNCHANGED <<journal, network, ledger>>
    BY Zenon, <1>1, <1>13, <1>a DEF Observe, CallOK, SnapshotOK, SentStates
  <2>3. /\ o \in Records /\ o.id = s.rec.id
        /\ o.state \in SentStates \cup TerminalStates
        /\ Rank(o.state) >= Rank(s.rec.state)
    BY Zenon, <1>2, <2>1, <2>2, ObservationsOK DEF IInv
  <2> DEFINE t == Committing(s, o, "observe")
  <2>4. NextOK(t)
    <3>1. s.rec.state # "absent" /\ o.state # "absent"
      BY Zenon, <2>2, <2>3 DEF SentStates, TerminalStates
    <3> QED BY Zenon, <1>1, <2>2, <2>3, <3>1, CommittingNext
  <2>5. Harmless(t)
    BY Zenon, <1>1, <1>2, <2>3, <2>4, CommittingHarmless
  <2>6. Proven(o.id, o) /\ o.state # "abandoned"
    BY Zenon, <1>2, <2>1, <2>2, ObservationProven
  <2>7. t.next = o /\ t.cont = "observe"
    BY <1>1, CommittingFields
  <2> HIDE DEF t
  <2>8. Sincere(t)
    BY Zenon, <2>6, <2>7 DEF Sincere
  <2> QED BY Zenon, <2>1, <2>2, <2>5, <2>8, QuietMove DEF t
<1> QED BY Zenon, <1>3, <1>4, <1>6, <1>7, <1>8, <1>9, <1>10, <1>12, <1>13 DEF RunStep

-----------------------------------------------------------------------------
(***************************************************************************)
(* The swap, the send, and the environment.                                *)
(***************************************************************************)
\* What a swap does: it files next under its identity and leaves what the
\* journal holds of every other one.
Swapped(r, next) ==
  /\ next \in Records /\ next.id \in Ids /\ next.state # "absent"
  /\ next.id = run[r].next.id /\ next.state = run[r].next.state
  /\ next.inclusion = run[r].next.inclusion
  /\ run[r] \in RunStates /\ run[r].pc = "commit" /\ run[r].rec = current /\ NextOK(run[r])
  /\ current' = next /\ archive[next.id] = NoRecord /\ ValidNext(current, next)
  /\ archive' = IF current.id \in Ids \ {next.id}
                THEN [archive EXCEPT ![current.id] = current] ELSE archive
  /\ \A id \in Ids : id # next.id => Held(id)' = Held(id)
  /\ Held(next.id)' = next
  /\ UNCHANGED <<sends, gateway, chain, finalized, blocks>>
  /\ \A q \in Runners : q # r => run'[q] = run[q]
  /\ \/ run'[r] = Idle
     \/ run'[r].pc = "verify" /\ run'[r].next = next /\ run'[r].cont = run[r].cont

LEMMA SwapSwaps ==
  ASSUME IInv, NEW r \in Runners, CommitSwap(r)
  PROVE  \E next : Swapped(r, next)
<1>a. PICK s : s = run[r]
  BY Zenon
<1>b. PICK next : next = [s.next EXCEPT !.rev = current.rev + 1]
  BY Zenon
<1>c. PICK done : done = [s EXCEPT !.pc = "verify", !.next = next]
  BY Zenon
<1>1. s \in RunStates /\ CallOK(s) /\ NextOK(s) /\ s.pc = "commit"
  BY Zenon, <1>a DEF IInv, TypeOK, CallOK, CommitSwap
<1>2. current \in Records /\ archive \in [Ids -> Records]
  BY Zenon DEF IInv, TypeOK
<1>3. /\ next \in Records /\ next.id = s.next.id /\ next.state = s.next.state
      /\ next.inclusion = s.next.inclusion
  BY <1>1, <1>2, <1>b DEF RunStates, Records
<1>4. s.rec = current
  BY Zenon, <1>1, <1>a DEF CommitSwap, CallOK, SnapshotOK
<1>5. done.pc = "verify" /\ done.next = next /\ done.cont = s.cont
  BY Zenon, <1>1, <1>c DEF RunStates
<1>6. /\ current' = next
      /\ run' = [run EXCEPT ![r] = done] \/ run' = [run EXCEPT ![r] = Idle]
      /\ archive' = IF current.id \in Ids \ {next.id}
                     THEN [archive EXCEPT ![current.id] = current] ELSE archive
      /\ archive[next.id] = NoRecord
      /\ ValidNext(current, next)
      /\ UNCHANGED <<sends, gateway, chain, finalized, blocks>>
  BY Zenon, <1>3, <1>a, <1>b, <1>c DEF CommitSwap, Retained, network, ledger
<1>7. next.id \in Ids /\ next.state # "absent"
  BY Zenon, <1>1, <1>3 DEF NextOK
<1>8. \A id \in Ids : id # next.id => Held(id)' = Held(id)
  BY Zenon, <1>2, <1>6 DEF Held, RecordsOK, IInv
<1>9. Held(next.id)' = next
  BY Zenon, <1>6 DEF Held
<1>10. (\A q \in Runners : q # r => run'[q] = run[q]) /\ (run'[r] = done \/ run'[r] = Idle)
  BY Zenon, <1>6 DEF IInv, TypeOK
<1>11. Swapped(r, next)
  BY Zenon, <1>1, <1>3, <1>4, <1>5, <1>6, <1>7, <1>8, <1>9, <1>10, <1>a DEF Swapped
<1> QED BY Zenon, <1>11

\* The tokens after a swap: only a swap to submission_attempted made one.
LEMMA SwapTokens ==
  ASSUME NEW r \in Runners, NEW next, Swapped(r, next), NEW q \in Runners, NEW id \in Ids,
         Token(run'[q], id)
  PROVE  Token(run[q], id) \/ (q = r /\ run[r].cont = "attempt" /\ id = next.id)
BY DEF Swapped, Token, Idle

LEMMA SwapKeepsC ==
  ASSUME IInv, CInv, NEW r \in Runners, CommitSwap(r)
  PROVE  CInv'
<1>1. PICK next : Swapped(r, next)
  BY Zenon, SwapSwaps
<1>2. ChainOK' /\ WireOK'
  BY Zenon, <1>1 DEF CInv, ChainOK, WireOK, Swapped
<1>3. ArchiveOK'
  <2>1. current.id \in Ids \ {next.id} => current.state \in TerminalStates
    <3>1. current \in Records /\ (current.id \in Ids => current.state # "absent")
      BY Zenon DEF IInv, TypeOK, RecordsOK
    <3> QED BY Zenon, <1>1, <3>1 DEF Swapped, ValidNext, operationOccupiesLane, Records
  <2>2. archive \in [Ids -> Records]
    BY Zenon DEF IInv, TypeOK
  <2> QED BY Zenon, <1>1, <2>1, <2>2 DEF CInv, ArchiveOK, Swapped
<1>4. Sincere(run[r]) /\ Proven(next.id, next)
  BY <1>1 DEF CInv, CallsOK, Sincere, Proven, Swapped
<1>5. ASSUME NEW id, NEW o PROVE Proven(id, o) <=> Proven(id, o)'
  BY Zenon, <1>1 DEF Proven, Swapped
<1>6. HeldOK'
  <2>1. ASSUME NEW id \in Ids PROVE Proven(id, Held(id)')
    BY Zenon, <1>1, <1>4 DEF CInv, HeldOK, Swapped
  <2> QED BY Zenon, <1>1, <2>1 DEF HeldOK, Proven, Swapped
<1>7. AbandonedOK'
  <2>1. ASSUME NEW id \in Ids, id # next.id, Unsendable(id) PROVE Unsendable(id)'
    <3>1. \A q \in Runners : Token(run'[q], id) => Token(run[q], id)
      BY Zenon, <1>1, <2>1, SwapTokens
    <3> QED BY Zenon, <1>1, <2>1, <3>1 DEF Unsendable, Swapped, Token
  <2>2. ASSUME next.state = "abandoned" PROVE Unsendable(next.id)'
    <3>1. run[r].cont \in {"abandon", "reject"}
      BY Zenon, <1>1, <1>4, <2>2 DEF Swapped, NextOK, RunStates, Sincere
    <3>2. CASE run[r].cont = "reject"
      BY Zenon, <1>1, <1>4, <3>2 DEF Swapped, Sincere, Unsendable
    <3>3. CASE run[r].cont = "abandon"
      <4>1. current.state = "prepared" /\ current.id = next.id
        BY Zenon, <1>1, <3>3 DEF Swapped, NextOK
      <4>2. ~(Rank(Held(next.id).state) >= 2)
        BY <4>1 DEF Held, Rank, TerminalStates
      <4>3. sends[next.id] = 0 /\ \A q \in Runners : ~Token(run[q], next.id)
        BY <1>1, <4>2 DEF Swapped, IInv, SentIsJournaled, TokensOK, TypeOK
      <4>4. \A q \in Runners : ~Token(run'[q], next.id)
        BY <1>1, <3>3, <4>3, SwapTokens DEF Swapped
      <4> QED BY Zenon, <1>1, <4>3, <4>4 DEF Unsendable, Swapped, Token
    <3> QED BY Zenon, <3>1, <3>2, <3>3
  <2> QED BY Zenon, <1>1, <2>1, <2>2 DEF CInv, AbandonedOK, Swapped
<1>8. CallsOK'
  <2>1. ASSUME NEW q \in Runners PROVE Sincere(run'[q])
    <3>1. CASE q # r
      BY Zenon, <1>1, <3>1 DEF Swapped, CInv, CallsOK
    <3>2. CASE q = r
      BY <1>1, <1>4, <3>2, IdleBland, BlandSincere DEF Swapped, Sincere
    <3> QED BY Zenon, <3>1, <3>2
  <2> QED BY <1>1, <2>1 DEF CallsOK, Sincere, Proven, Swapped
<1> QED BY Zenon, <1>2, <1>3, <1>6, <1>7, <1>8 DEF CInv

LEMMA SubmitKeepsC ==
  ASSUME IInv, CInv, NEW r \in Runners, Submit(r)
  PROVE  CInv'
<1>a. PICK id : id = run[r].rec.id
  BY Zenon
<1>b. PICK t : t = [run[r] EXCEPT !.pc = "answer"]
  BY Zenon
<1>1. run[r] \in RunStates /\ run[r].pc = "open" /\ id \in Ids /\ Token(run[r], id)
  BY Zenon, <1>a DEF IInv, TypeOK, CallOK, SnapshotOK, Submit, Token
<1>2. /\ sends' = [sends EXCEPT ![id] = @ + 1]
      /\ gateway' = [gateway EXCEPT ![id] = "wire"]
      /\ run' = [run EXCEPT ![r] = t]
      /\ UNCHANGED <<current, archive, chain, finalized, blocks>>
  BY Zenon, <1>a, <1>b DEF Submit, journal, ledger
<1>3. t.pc = "answer"
  BY Zenon, <1>1, <1>b DEF RunStates
<1>4. sends[id] = 0 /\ gateway[id] = "unsent"
  BY Zenon, <1>1 DEF IInv, TokensOK, CInv, WireOK
<1>5. /\ sends'[id] = 1 /\ gateway'[id] = "wire"
      /\ \A i \in Ids : i # id => sends'[i] = sends[i] /\ gateway'[i] = gateway[i]
  BY <1>1, <1>2, <1>4 DEF IInv, TypeOK
<1>6. \A q \in Runners : run'[q] = IF q = r THEN t ELSE run[q]
  BY Zenon, <1>2 DEF IInv, TypeOK
<1>7. ChainOK'
  <2>1. \A i \in 1..Len(chain) : chain[i].id # id
    BY Zenon, <1>1, <1>4 DEF CInv, ChainOK
  <2>2. \A i \in 1..Len(chain) : chain[i].id \in Ids =>
          gateway'[chain[i].id] = "accepted" /\ Nonce[chain[i].id] = i - 1
    BY Zenon, <1>5, <2>1 DEF CInv, ChainOK
  <2> QED BY Zenon, <1>2, <2>2 DEF CInv, ChainOK
<1>8. WireOK' /\ ArchiveOK' /\ HeldOK'
  BY <1>2, <1>5 DEF CInv, WireOK, ArchiveOK, HeldOK, Held, Proven
<1>9. AbandonedOK'
  <2>1. \A i \in Ids : Held(i)' = Held(i)
    BY Zenon, <1>2 DEF Held
  <2>2. ~Unsendable(id)
    BY Zenon, <1>1, <1>4 DEF Unsendable
  <2>3. \A q \in Runners, i \in Ids : Token(run'[q], i) => Token(run[q], i)
    BY Zenon, <1>3, <1>6 DEF Token
  <2>4. ASSUME NEW i \in Ids, i # id, Unsendable(i) PROVE Unsendable(i)'
    BY Zenon, <1>5, <2>3, <2>4 DEF Unsendable, Token
  <2> QED BY Zenon, <1>1, <2>1, <2>2, <2>4 DEF CInv, AbandonedOK
<1>10. CallsOK'
  <2>1. ASSUME NEW q \in Runners, run'[q].pc \in {"commit", "verify"}
        PROVE  /\ Proven(run'[q].next.id, run'[q].next)
               /\ run'[q].cont = "reject" => gateway'[run'[q].next.id] = "refused"
               /\ run'[q].cont = "observe" => run'[q].next.state # "abandoned"
    <3>1. run'[q] = run[q] /\ CallOK(run[q]) /\ Sincere(run[q])
      BY Zenon, <1>3, <1>6, <2>1 DEF IInv, CInv, CallsOK
    <3>2. run[q].next.id \in Ids
      BY Zenon, <2>1, <3>1 DEF CallOK, NextOK
    <3> QED BY Zenon, <1>4, <1>5, <2>1, <3>1, <3>2 DEF Sincere
  <2> QED BY <1>2, <2>1 DEF CallsOK, Sincere, Proven
<1> QED BY Zenon, <1>7, <1>8, <1>9, <1>10 DEF CInv

\* What is final stays final, an acceptance is not taken back and a refusal
\* neither, so the conclusions stay true.
LEMMA EnvironmentKeepsC ==
  ASSUME IInv, CInv, UNCHANGED <<journal, run, sends>>, ChainOK', WireOK',
         finalized' \in Nat, finalized' >= finalized,
         \A i \in 1..finalized : chain'[i] = chain[i],
         \A id \in Ids : gateway[id] = "refused" => gateway'[id] = "refused"
  PROVE  CInv'
<1>1. UNCHANGED <<current, archive, run, sends>>
  BY Zenon DEF journal
<1>2. finalized \in Nat /\ \A id \in Ids : Nonce[id] \in Nat
  BY Zenon, NonceAssumption DEF IInv, TypeOK
<1>3. ASSUME NEW id \in Ids, NEW o, Proven(id, o) PROVE Proven(id, o)'
  BY <1>2, <1>3 DEF Proven
<1>4. ArchiveOK'
  BY Zenon, <1>1 DEF CInv, ArchiveOK
<1>5. HeldOK'
  <2>1. \A id \in Ids : Held(id)' = Held(id) /\ Proven(id, Held(id))
    BY Zenon, <1>1 DEF Held, CInv, HeldOK
  <2>2. ASSUME NEW id \in Ids PROVE Proven(id, Held(id))'
    <3>1. PICK o : o = Held(id)
      BY Zenon
    <3>2. Proven(id, o)'
      BY Zenon, <1>3, <2>1, <3>1
    <3> QED BY Zenon, <2>1, <3>1, <3>2 DEF Proven
  <2> QED BY Zenon, <2>2 DEF HeldOK
<1>6. AbandonedOK'
  <2>1. \A id \in Ids : Held(id)' = Held(id)
    BY Zenon, <1>1 DEF Held
  <2>2. \A id \in Ids : Unsendable(id) => Unsendable(id)'
    BY Zenon, <1>1 DEF Unsendable, Token
  <2> QED BY Zenon, <2>1, <2>2 DEF CInv, AbandonedOK
<1>7. CallsOK'
  <2>1. ASSUME NEW q \in Runners PROVE Sincere(run[q])'
    <3>1. run'[q] = run[q] /\ Sincere(run[q]) /\ CallOK(run[q])
      BY Zenon, <1>1 DEF CInv, CallsOK, IInv
    <3>2. CASE run[q].pc \in {"commit", "verify"}
      <4>1. PICK n : n = run[q].next
        BY Zenon
      <4>2. n.id \in Ids /\ Proven(n.id, n)
        BY Zenon, <3>1, <3>2, <4>1 DEF CallOK, NextOK, Sincere
      <4>3. Proven(n.id, n)'
        BY Zenon, <1>3, <4>2
      <4> QED BY Zenon, <3>1, <3>2, <4>1, <4>2, <4>3 DEF Sincere, Proven
    <3>3. CASE run[q].pc \notin {"commit", "verify"}
      BY Zenon, <3>1, <3>3 DEF Sincere
    <3> QED BY Zenon, <3>2, <3>3
  <2> QED BY Zenon, <2>1 DEF CallsOK
<1> QED BY Zenon, <1>4, <1>5, <1>6, <1>7 DEF CInv

LEMMA AnswerKeepsC ==
  ASSUME IInv, CInv, NEW id \in Ids, Accept(id) \/ Refuse(id)
  PROVE  CInv'
<1>1. /\ gateway[id] = "wire" /\ UNCHANGED <<journal, run, sends, chain, finalized, blocks>>
      /\ gateway' = [gateway EXCEPT ![id] = "accepted"]
         \/ gateway' = [gateway EXCEPT ![id] = "refused"]
  BY Zenon DEF Accept, Refuse, ledger
<1>2. gateway'[id] \in {"accepted", "refused"} /\ \A i \in Ids : i # id => gateway'[i] = gateway[i]
  BY Zenon, <1>1 DEF IInv, TypeOK
<1>3. ChainOK'
  <2>1. \A i \in 1..Len(chain) : chain[i].id # id
    BY Zenon, <1>1 DEF CInv, ChainOK
  <2>2. \A i \in 1..Len(chain) : chain[i].id \in Ids =>
          gateway'[chain[i].id] = "accepted" /\ Nonce[chain[i].id] = i - 1
    BY Zenon, <1>2, <2>1 DEF CInv, ChainOK
  <2> QED BY Zenon, <1>1, <2>2 DEF CInv, ChainOK
<1>4. WireOK'
  BY Zenon, <1>1, <1>2 DEF CInv, WireOK
<1>5. finalized' \in Nat /\ finalized' >= finalized /\ \A i \in 1..finalized : chain'[i] = chain[i]
  BY <1>1 DEF IInv, TypeOK
<1>6. \A i \in Ids : gateway[i] = "refused" => gateway'[i] = "refused"
  BY Zenon, <1>1, <1>2
<1> QED BY Zenon, <1>1, <1>3, <1>4, <1>5, <1>6, EnvironmentKeepsC

LEMMA IncludeKeepsC ==
  ASSUME IInv, CInv, NEW id \in Ids \cup {NoId}, Include(id)
  PROVE  CInv'
<1>a. PICK slot : slot = [id |-> id, block |-> blocks + 1]
  BY Zenon
<1>1. /\ UNCHANGED <<journal, run, sends, gateway, finalized>>
      /\ chain' = Append(chain, slot)
      /\ slot.id = id /\ (id \in Ids => gateway[id] = "accepted" /\ Nonce[id] = Len(chain))
  BY Zenon, <1>a DEF Include, network
<1>2. chain \in Seq(Slots) /\ Len(chain) \in Nat /\ finalized \in Nat /\ finalized <= Len(chain)
  BY DEF IInv, TypeOK, CInv, ChainOK
<1>3. slot \in Slots
  BY <1>a DEF Slots, IInv, TypeOK
<1>4. /\ Len(chain') = Len(chain) + 1 /\ chain'[Len(chain) + 1] = slot
      /\ \A i \in 1..Len(chain) : chain'[i] = chain[i]
  BY <1>1, <1>2, <1>3
<1>5. ChainOK'
  <2>1. ASSUME NEW i \in 1..Len(chain'), chain'[i].id \in Ids
        PROVE  gateway[chain'[i].id] = "accepted" /\ Nonce[chain'[i].id] = i - 1
    BY <1>1, <1>2, <1>4, <2>1 DEF CInv, ChainOK
  <2> QED BY <1>1, <1>2, <1>4, <2>1 DEF ChainOK
<1>6. WireOK' /\ \A i \in Ids : gateway[i] = "refused" => gateway'[i] = "refused"
  BY Zenon, <1>1 DEF CInv, WireOK
<1>7. finalized' \in Nat /\ finalized' >= finalized /\ \A i \in 1..finalized : chain'[i] = chain[i]
  BY <1>1, <1>2, <1>4
<1> QED BY Zenon, <1>1, <1>5, <1>6, <1>7, EnvironmentKeepsC

LEMMA FinalizeKeepsC ==
  ASSUME IInv, CInv, Finalize
  PROVE  CInv'
<1>1. /\ UNCHANGED <<journal, run, sends, gateway, chain>>
      /\ finalized' = finalized + 1 /\ finalized < Len(chain)
  BY Zenon DEF Finalize, network
<1>2. chain \in Seq(Slots) /\ Len(chain) \in Nat /\ finalized \in Nat
  BY DEF IInv, TypeOK
<1>3. ChainOK' /\ WireOK' /\ \A i \in Ids : gateway[i] = "refused" => gateway'[i] = "refused"
  BY <1>1, <1>2 DEF CInv, ChainOK, WireOK
<1>4. finalized' \in Nat /\ finalized' >= finalized /\ \A i \in 1..finalized : chain'[i] = chain[i]
  BY <1>1, <1>2
<1> QED BY Zenon, <1>1, <1>3, <1>4, EnvironmentKeepsC

LEMMA ReorgKeepsC ==
  ASSUME IInv, CInv, Reorg
  PROVE  CInv'
<1>a. PICK n : n = Len(chain) - 1
  BY Zenon
<1>1. /\ UNCHANGED <<journal, run, sends, gateway, finalized>>
      /\ chain' = SubSeq(chain, 1, n) /\ finalized < Len(chain)
  BY Zenon, <1>a DEF Reorg, network
<1>2. chain \in Seq(Slots) /\ Len(chain) \in Nat /\ finalized \in Nat /\ n \in Nat
  BY <1>1, <1>a DEF IInv, TypeOK
<1>3. Len(chain') = n /\ \A i \in 1..n : chain'[i] = chain[i]
  BY <1>1, <1>2, <1>a
<1>4. ChainOK'
  BY <1>1, <1>2, <1>3, <1>a DEF CInv, ChainOK
<1>5. WireOK' /\ \A i \in Ids : gateway[i] = "refused" => gateway'[i] = "refused"
  BY Zenon, <1>1 DEF CInv, WireOK
<1>6. finalized' \in Nat /\ finalized' >= finalized /\ \A i \in 1..finalized : chain'[i] = chain[i]
  BY <1>1, <1>2, <1>3, <1>a
<1> QED BY Zenon, <1>1, <1>4, <1>5, <1>6, EnvironmentKeepsC

LEMMA InvokeKeepsC ==
  ASSUME IInv, CInv, NEW r \in Runners, NEW mode \in Modes, NEW want \in Ids \cup {NoId},
         Invoke(r, mode, want)
  PROVE  CInv'
<1>a. PICK t : t = [run[r] EXCEPT !.pc = "read", !.mode = mode, !.want = want]
  BY Zenon
<1>1. run[r] \in RunStates
  BY Zenon DEF IInv, TypeOK
<1>2. t.pc = "read"
  BY Zenon, <1>1, <1>a DEF RunStates
<1>3. Sincere(t) /\ \A id \in Ids : Token(t, id) => Token(run[r], id)
  BY Zenon, <1>2 DEF Sincere, Token
<1>4. run' = [run EXCEPT ![r] = t] /\ UNCHANGED <<journal, network, ledger>>
  BY Zenon, <1>a DEF Invoke
<1> QED BY Zenon, <1>3, <1>4, OneCallMoves

LEMMA StopKeepsC == ASSUME IInv, CInv, NEW r \in Runners, Stop(r) PROVE CInv'
<1>1. Harmless(Idle) /\ Sincere(Idle)
  BY Zenon, IdleHarmless, IdleBland, BlandSincere
<1> QED BY Zenon, <1>1, QuietMove DEF Stop

LEMMA InitCInv == ASSUME Init PROVE CInv
<1>1. chain = <<>> /\ Len(chain) = 0 /\ finalized = 0
  BY Zenon DEF Init
<1>2. ChainOK /\ WireOK /\ ArchiveOK
  BY <1>1 DEF Init, ChainOK, WireOK, ArchiveOK
<1>3. \A id \in Ids : Held(id) = NoRecord
  BY Zenon DEF Init, Held
<1>4. HeldOK /\ AbandonedOK
  BY <1>3 DEF HeldOK, AbandonedOK, Proven, NoRecord
<1>5. CallsOK
  BY Zenon DEF Init, CallsOK, Sincere, Idle
<1> QED BY Zenon, <1>2, <1>4, <1>5 DEF CInv

LEMMA NextCInv == ASSUME IInv, CInv, [Next]_vars PROVE CInv'
<1>1. CASE UNCHANGED vars
  BY Zenon, <1>1 DEF vars, CInv, ChainOK, WireOK, ArchiveOK, HeldOK, AbandonedOK, CallsOK, Held,
     Proven, Unsendable, Token, Sincere
<1>2. ASSUME NEW r \in Runners, NEW mode \in Methods, NEW want \in Ids \cup {NoId},
             Invoke(r, mode, want)
      PROVE  CInv'
  BY Zenon, <1>2, InvokeKeepsC, MethodsAssumption
<1>3. ASSUME NEW r \in Runners, RunStep(r) PROVE CInv'
  BY Zenon, <1>3, CallKeepsC, SwapKeepsC, SubmitKeepsC
<1>4. ASSUME NEW r \in Runners, Stop(r) PROVE CInv'
  BY Zenon, <1>4, StopKeepsC
<1>5. ASSUME NEW id \in Ids, Accept(id) \/ Refuse(id) PROVE CInv'
  BY Zenon, <1>5, AnswerKeepsC
<1>6. ASSUME NEW id \in Ids \cup {NoId}, Include(id) PROVE CInv'
  BY Zenon, <1>6, IncludeKeepsC
<1> QED BY Zenon, <1>1, <1>2, <1>3, <1>4, <1>5, <1>6, FinalizeKeepsC, ReorgKeepsC DEF Next

LEMMA InvarianceC == Spec => [](IInv /\ CInv)
<1>1. Init => IInv /\ CInv
  BY Zenon, InitIInv, InitCInv
<1>2. IInv /\ CInv /\ [Next]_vars => (IInv /\ CInv)'
  BY Zenon, NextIInv, NextCInv
<1> QED BY <1>1, <1>2, PTL DEF Spec

LEMMA FreedIsConclusive == ASSUME IInv, CInv PROVE FreedLaneIsConclusive
<1>1. ASSUME NEW id \in Ids, Held(id).state \in TerminalStates,
             gateway[id] \in {"wire", "accepted"}
      PROVE  Nonce[id] < finalized
  <2>1. Held(id).state # "abandoned"
    BY Zenon, <1>1 DEF CInv, AbandonedOK, Unsendable, WireOK
  <2> QED BY Zenon, <1>1, <2>1 DEF CInv, HeldOK, Proven, TerminalStates
<1> QED BY Zenon, <1>1 DEF FreedLaneIsConclusive

\* The lane is given back only by a record after which its identity cannot
\* execute any more, for any number of runners, identities and blocks.
THEOREM LaneIsFreedConclusively == Spec => []FreedLaneIsConclusive
<1>1. IInv /\ CInv => FreedLaneIsConclusive
  BY Zenon, FreedIsConclusive
<1> QED BY <1>1, InvarianceC, PTL

\* What the journal concludes of an operation is what the final chain shows,
\* however the chain was reorganised and the calls interleaved before.
THEOREM ConclusionsAreTrue == Spec => []ConclusionIsTrue
<1>1. ASSUME IInv, CInv, NEW id \in Ids, Held(id).state = "abandoned", NEW i \in DOMAIN chain
      PROVE  chain[i].id # id
  <2>1. gateway[id] # "accepted"
    BY Zenon, <1>1 DEF CInv, AbandonedOK, Unsendable, WireOK
  <2>2. DOMAIN chain = 1..Len(chain)
    BY <1>1 DEF IInv, TypeOK
  <2> QED BY Zenon, <1>1, <2>1, <2>2 DEF CInv, ChainOK
<1>2. IInv /\ CInv => ConclusionIsTrue
  BY Zenon, <1>1 DEF CInv, HeldOK, Proven, ConclusionIsTrue
<1> QED BY <1>2, InvarianceC, PTL

-----------------------------------------------------------------------------
(***************************************************************************)
(* The refinement.  Only a swap changes the holder and what the lane says  *)
(* of an identity, only a send what was sent, only finality what executed. *)
(***************************************************************************)
\* What the lane says of an identity whose record is in that state.
StatusOf(state) ==
  IF state = "absent" THEN "new" ELSE IF state \in SentStates THEN "attempted" ELSE state

LEMMA LaneStatusIs ==
  LaneStatus = [id \in Ids |-> StatusOf(Held(id).state)]
BY Zenon DEF LaneStatus, StatusOf, SentStates

LEMMA LaneStatusNext ==
  LaneStatus' = [id \in Ids |-> StatusOf(Held(id)'.state)]
BY Zenon DEF LaneStatus, StatusOf, SentStates

LEMMA InitLane == ASSUME Init PROVE Lane!Init
<1>1. LaneHolder = NoId
  BY Zenon DEF Init, LaneHolder, operationOccupiesLane, OpenStates, NoRecord
<1>2. \A id \in Ids : Held(id) = NoRecord
  BY Zenon DEF Init, Held
<1>3. LaneStatus = [id \in Ids |-> "new"]
  BY <1>2, LaneStatusIs DEF StatusOf, NoRecord
<1>4. LaneSent = {}
  BY DEF Init, LaneSent
<1>5. LaneExecuted = {}
  BY DEF Init, LaneExecuted
<1> QED BY Zenon, <1>1, <1>3, <1>4, <1>5 DEF Lane!Init

LEMMA JournalKept ==
  ASSUME UNCHANGED journal PROVE UNCHANGED <<LaneHolder, LaneStatus>>
<1>1. \A id \in Ids : Held(id)' = Held(id)
  BY Zenon DEF Held, journal
<1> QED BY Zenon, <1>1, LaneStatusIs, LaneStatusNext DEF LaneHolder, journal

LEMMA FinalKept ==
  ASSUME finalized' = finalized, \A i \in 1..finalized : chain'[i] = chain[i]
  PROVE  UNCHANGED LaneExecuted
BY Zenon DEF LaneExecuted

LEMMA LaneStutters ==
  ASSUME UNCHANGED <<journal, sends>>, finalized' = finalized,
         \A i \in 1..finalized : chain'[i] = chain[i]
  PROVE  UNCHANGED Lane!vars
BY Zenon, JournalKept, FinalKept DEF Lane!vars, LaneSent

\* The final chain carries an identity at its own sequence, or not at all.
LEMMA ExecutedAt ==
  ASSUME IInv, CInv, NEW id \in Ids
  PROVE  id \in LaneExecuted <=> Nonce[id] < finalized /\ chain[Nonce[id] + 1].id = id
<1>1. finalized \in Nat /\ Len(chain) \in Nat /\ finalized <= Len(chain) /\ Nonce[id] \in Nat
  BY NonceAssumption DEF IInv, TypeOK, CInv, ChainOK
<1>2. \A i \in 1..finalized : chain[i].id = id => Nonce[id] = i - 1
  BY <1>1 DEF CInv, ChainOK
<1> QED BY <1>1, <1>2 DEF LaneExecuted

LEMMA SubmitSends ==
  ASSUME IInv, CInv, NEW r \in Runners, Submit(r)
  PROVE  \E id \in Ids : Lane!Send(id)
<1>a. PICK id : id = run[r].rec.id
  BY Zenon
<1>1. id \in Ids /\ Token(run[r], id)
  BY Zenon, <1>a DEF IInv, TypeOK, CallOK, SnapshotOK, Submit, Token
<1>2. sends' = [sends EXCEPT ![id] = @ + 1] /\ UNCHANGED <<journal, chain, finalized>>
  BY Zenon, <1>a DEF Submit, ledger
<1>3. sends[id] = 0 /\ gateway[id] = "unsent" /\ Rank(Held(id).state) >= 2
  BY Zenon, <1>1 DEF IInv, TokensOK, CInv, WireOK
<1>4. LaneSent' = LaneSent \cup {id} /\ id \notin LaneSent
  BY <1>1, <1>2, <1>3 DEF LaneSent, IInv, TypeOK
<1>5. Held(id).state \in SentStates \cup TerminalStates
  BY <1>1, <1>3 DEF Rank, SentStates, TerminalStates, OpenStates, Held, IInv, TypeOK, Records
<1>6. Held(id).state # "abandoned"
  BY Zenon, <1>1, <1>3 DEF CInv, AbandonedOK, Unsendable
<1>7. Held(id).state # "finalized"
  <2>1. SUFFICES ASSUME Held(id).state = "finalized" PROVE FALSE
    BY Zenon
  <2>2. Nonce[id] < finalized /\ chain[Nonce[id] + 1] = [id |-> id, block |-> Held(id).inclusion]
    BY Zenon, <1>1, <2>1 DEF CInv, HeldOK, Proven
  <2>3. Nonce[id] + 1 \in 1..Len(chain)
    BY <1>1, <2>2, NonceAssumption DEF IInv, TypeOK, CInv, ChainOK
  <2> QED BY <1>1, <1>3, <2>2, <2>3 DEF CInv, ChainOK
<1>8. LaneStatus[id] \in {"attempted", "dropped", "superseded"}
  BY Zenon, <1>1, <1>5, <1>6, <1>7, LaneStatusIs DEF StatusOf, SentStates, TerminalStates
<1>9. UNCHANGED <<LaneHolder, LaneStatus, LaneExecuted>>
  BY Zenon, <1>2, JournalKept, FinalKept
<1>10. Lane!Send(id)
  BY Zenon, <1>4, <1>8, <1>9 DEF Lane!Send
<1> QED BY Zenon, <1>1, <1>10

LEMMA FinalizeExecutes ==
  ASSUME IInv, CInv, Finalize
  PROVE  (\E id \in Ids : Lane!Execute(id)) \/ UNCHANGED Lane!vars
<1>a. PICK id : id = chain[finalized + 1].id
  BY Zenon
<1>1. finalized' = finalized + 1 /\ finalized < Len(chain) /\ UNCHANGED <<journal, sends, chain>>
  BY Zenon DEF Finalize, network
<1>2. finalized \in Nat /\ finalized + 1 \in 1..Len(chain)
  BY <1>1 DEF IInv, TypeOK
<1>3. LaneExecuted' = LaneExecuted \cup ({id} \cap Ids)
  BY <1>1, <1>2, <1>a DEF LaneExecuted
<1>4. UNCHANGED <<LaneHolder, LaneStatus, LaneSent>>
  BY Zenon, <1>1, JournalKept DEF LaneSent
<1>5. CASE id \notin Ids
  BY Zenon, <1>3, <1>4, <1>5 DEF Lane!vars
<1>6. CASE id \in Ids
  <2>1. gateway[id] = "accepted" /\ Nonce[id] = finalized
    BY <1>2, <1>6, <1>a DEF CInv, ChainOK
  <2>2. sends[id] \in Nat /\ sends[id] > 0
    BY <1>6, <2>1 DEF CInv, WireOK, IInv, TypeOK
  <2>3. Held(id).state \notin TerminalStates
    BY <1>2, <1>6, <2>1, FreedIsConclusive DEF FreedLaneIsConclusive
  <2>4. Held(id) \in Records /\ Rank(Held(id).state) >= 2
    BY Zenon, <1>6, <2>2 DEF Held, IInv, TypeOK, SentIsJournaled
  <2>5. Held(id).state \in SentStates
    BY <2>3, <2>4 DEF Rank, SentStates, TerminalStates, OpenStates, Records
  <2>6. current.id = id /\ current.state \in SentStates
    BY <1>6, <2>3, <2>5 DEF Held, CInv, ArchiveOK, NoRecord, SentStates
  <2>7. LaneHolder = id
    BY Zenon, <2>6 DEF LaneHolder, operationOccupiesLane, SentStates, OpenStates
  <2>8. LaneStatus[id] = "attempted"
    BY Zenon, <1>6, <2>5, LaneStatusIs DEF StatusOf, SentStates
  <2>9. id \in LaneSent \ LaneExecuted
    BY <1>2, <1>6, <2>1, <2>2, ExecutedAt DEF LaneSent
  <2>10. Lane!Execute(id)
    BY Zenon, <1>3, <1>4, <1>6, <2>7, <2>8, <2>9 DEF Lane!Execute
  <2> QED BY Zenon, <1>6, <2>10
<1> QED BY Zenon, <1>5, <1>6

LEMMA SwapMovesLane ==
  ASSUME IInv, CInv, NEW r \in Runners, CommitSwap(r)
  PROVE  [Lane!Next]_(Lane!vars)
<1>1. PICK next : Swapped(r, next)
  BY Zenon, SwapSwaps
<1>a. PICK id : id = next.id
  BY Zenon
<1>2. /\ id \in Ids /\ next.state # "absent" /\ next \in Records /\ current' = next
      /\ run[r] \in RunStates /\ run[r].rec = current /\ NextOK(run[r])
      /\ run[r].next.id = id /\ run[r].next.state = next.state
      /\ archive[id] = NoRecord
      /\ current.id # id => ~operationOccupiesLane(current)
  BY Zenon, <1>1, <1>a DEF Swapped, ValidNext
<1>3. LaneSent' = LaneSent
  BY Zenon, <1>1 DEF LaneSent, Swapped
<1>4. LaneExecuted' = LaneExecuted
  BY Zenon, <1>1, FinalKept DEF Swapped
<1>5. LaneStatus' = [LaneStatus EXCEPT ![id] = StatusOf(next.state)]
  BY Zenon, <1>1, <1>a, LaneStatusIs, LaneStatusNext DEF Swapped
<1>6. LaneStatus[id] = StatusOf(Held(id).state)
  BY Zenon, <1>2, LaneStatusIs
<1>7. LaneHolder' = IF next.state \in OpenStates THEN id ELSE NoId
  BY Zenon, <1>2, <1>a DEF LaneHolder, operationOccupiesLane
<1>8. CASE run[r].cont = "publish"
  <2>1. current.id # id /\ next.state = "prepared"
    BY Zenon, <1>2, <1>8 DEF NextOK
  <2>2. LaneHolder = NoId /\ LaneStatus[id] = "new"
    BY <1>2, <1>6, <2>1 DEF LaneHolder, Held, StatusOf, NoRecord
  <2>3. LaneHolder' = id /\ StatusOf(next.state) = "prepared"
    BY Zenon, <1>7, <2>1 DEF OpenStates, StatusOf, SentStates
  <2>4. Lane!Take(id)
    BY Zenon, <1>3, <1>4, <1>5, <2>2, <2>3 DEF Lane!Take
  <2> QED BY Zenon, <1>2, <2>4 DEF Lane!Next
<1>9. CASE run[r].cont # "publish"
  <2>1. current.id = id /\ Held(id) = current
    BY Zenon, <1>2, <1>9 DEF NextOK, Held
  <2>2. current.state \in {"prepared", "submission_attempted", "submitted", "included"}
    BY Zenon, <1>2, <1>9 DEF NextOK, RunStates, SentStates
  <2>3. LaneHolder = id
    BY Zenon, <2>1, <2>2 DEF LaneHolder, operationOccupiesLane, OpenStates
  <2>4. Sincere(run[r]) /\ Proven(id, next)
    BY <1>1, <1>a DEF CInv, CallsOK, Sincere, Proven, Swapped
  <2>5. CASE next.state \in SentStates /\ current.state \in SentStates
    <3>1. LaneHolder' = LaneHolder /\ LaneStatus[id] = StatusOf(next.state)
      BY Zenon, <1>6, <1>7, <2>1, <2>3, <2>5 DEF StatusOf, SentStates, OpenStates
    <3>2. LaneStatus' = LaneStatus
      BY Zenon, <1>2, <1>5, <3>1, LaneStatusIs
    <3> QED BY Zenon, <1>3, <1>4, <3>1, <3>2 DEF Lane!vars
  <2>6. CASE run[r].cont = "attempt"
    <3>1. current.state = "prepared" /\ next.state = "submission_attempted"
      BY Zenon, <1>2, <2>6 DEF NextOK
    <3>2. LaneHolder' = id /\ StatusOf(next.state) = "attempted" /\ LaneStatus[id] = "prepared"
      BY Zenon, <1>6, <1>7, <2>1, <3>1 DEF OpenStates, StatusOf, SentStates
    <3>3. Lane!Attempt(id)
      BY Zenon, <1>3, <1>4, <1>5, <2>3, <3>2 DEF Lane!Attempt
    <3> QED BY Zenon, <1>2, <3>3 DEF Lane!Next
  <2>7. CASE next.state \in TerminalStates
    <3>1. LaneHolder' = NoId /\ StatusOf(next.state) = next.state
      BY Zenon, <1>7, <2>7 DEF TerminalStates, OpenStates, StatusOf, SentStates
    <3>2. next.state \in Lane!Conclusions
      BY Zenon, <2>7 DEF TerminalStates, Lane!Conclusions
    <3>3. CASE next.state = "abandoned"
      <4>1. run[r].cont \in {"abandon", "reject"}
        BY Zenon, <1>1, <1>2, <1>9, <2>4, <3>3 DEF NextOK, RunStates, Sincere, Swapped
      <4>2. CASE run[r].cont = "abandon"
        <5>1. LaneStatus[id] = "prepared"
          BY Zenon, <1>2, <1>6, <2>1, <4>2 DEF NextOK, StatusOf, SentStates
        <5> QED BY Zenon, <1>3, <1>4, <1>5, <2>3, <3>1, <3>3, <5>1, <1>2, <3>2
               DEF Lane!Conclude, Lane!MayConclude, Lane!Next
      <4>3. CASE run[r].cont = "reject"
        <5>1. gateway[id] = "refused"
          BY Zenon, <1>1, <1>2, <2>4, <4>3 DEF Sincere, Swapped
        <5>2. id \in LaneSent
          BY <1>2, <5>1 DEF LaneSent, CInv, WireOK, IInv, TypeOK
        <5>3. finalized \in Nat /\ Len(chain) \in Nat /\ finalized <= Len(chain) /\ Nonce[id] \in Nat
          BY <1>2, NonceAssumption DEF IInv, TypeOK, CInv, ChainOK
        <5>4. id \notin LaneExecuted
          BY <1>2, <5>1, <5>3, ExecutedAt DEF CInv, ChainOK
        <5> QED BY Zenon, <1>3, <1>4, <1>5, <2>3, <3>1, <3>3, <5>2, <5>4, <1>2, <3>2
               DEF Lane!Conclude, Lane!MayConclude, Lane!Next
      <4> QED BY Zenon, <4>1, <4>2, <4>3
    <3>4. CASE next.state # "abandoned"
      <4>1. run[r].cont = "observe"
        BY Zenon, <1>2, <1>9, <2>7, <3>4 DEF NextOK, RunStates, TerminalStates
      <4>2. LaneStatus[id] = "attempted"
        BY Zenon, <1>2, <1>6, <2>1, <4>1 DEF NextOK, StatusOf, SentStates
      <4>3. next.state = "finalized" => id \in LaneExecuted
        BY <1>2, <2>4, ExecutedAt DEF Proven
      <4>4. next.state = "dropped" => id \notin LaneExecuted
        BY Zenon, <1>2, <2>4, ExecutedAt DEF Proven
      <4>5. next.state \in {"finalized", "dropped", "superseded"}
        BY Zenon, <2>7, <3>4 DEF TerminalStates
      <4>6. Lane!MayConclude(id, next.state)
        BY Zenon, <4>2, <4>3, <4>4, <4>5 DEF Lane!MayConclude
      <4> QED BY Zenon, <1>2, <1>3, <1>4, <1>5, <2>3, <3>1, <3>2, <4>6
             DEF Lane!Conclude, Lane!Next
    <3> QED BY Zenon, <3>3, <3>4
  <2> QED BY Zenon, <1>2, <1>9, <2>5, <2>6, <2>7 DEF NextOK, RunStates, SentStates, TerminalStates
<1> QED BY Zenon, <1>8, <1>9

LEMMA NextMovesLane ==
  ASSUME IInv, CInv, [Next]_vars
  PROVE  [Lane!Next]_(Lane!vars)
<1>1. ASSUME NEW r \in Runners, RunStep(r), ~CommitSwap(r), ~Submit(r)
      PROVE  UNCHANGED <<journal, network, ledger>>
  BY Zenon, <1>1 DEF RunStep, CommitRefused, CommitConflict, ReadBack, Read, ReadArchive,
     Prepare, Authorize, Answer, Observe
<1>2. ASSUME NEW r \in Runners, NEW mode \in Methods, NEW want \in Ids \cup {NoId},
             Invoke(r, mode, want)
      PROVE  UNCHANGED <<journal, network, ledger>>
  BY Zenon, <1>2 DEF Invoke
<1>3. ASSUME NEW r \in Runners, Stop(r) PROVE UNCHANGED <<journal, network, ledger>>
  BY Zenon, <1>3 DEF Stop
<1>4. ASSUME UNCHANGED <<journal, sends, chain, finalized>> PROVE UNCHANGED Lane!vars
  BY Zenon, <1>4, LaneStutters
<1>5. ASSUME NEW id \in Ids, Accept(id) \/ Refuse(id)
      PROVE  UNCHANGED <<journal, sends, chain, finalized>>
  BY Zenon, <1>5 DEF Accept, Refuse, ledger
<1>6. ASSUME NEW id \in Ids \cup {NoId}, Include(id) PROVE UNCHANGED Lane!vars
  <2>a. PICK slot : slot = [id |-> id, block |-> blocks + 1]
    BY Zenon
  <2>1. UNCHANGED <<journal, sends, finalized>> /\ chain' = Append(chain, slot)
    BY Zenon, <1>6, <2>a DEF Include, network
  <2>2. slot \in Slots /\ chain \in Seq(Slots) /\ finalized \in Nat /\ finalized <= Len(chain)
    BY <2>a DEF Slots, IInv, TypeOK, CInv, ChainOK
  <2>3. \A i \in 1..finalized : chain'[i] = chain[i]
    BY <2>1, <2>2
  <2> QED BY Zenon, <2>1, <2>3, LaneStutters
<1>7. ASSUME Reorg PROVE UNCHANGED Lane!vars
  <2>a. PICK n : n = Len(chain) - 1
    BY Zenon
  <2>1. /\ UNCHANGED <<journal, sends, finalized>>
        /\ chain' = SubSeq(chain, 1, n) /\ finalized < Len(chain)
    BY Zenon, <1>7, <2>a DEF Reorg, network
  <2>2. chain \in Seq(Slots) /\ Len(chain) \in Nat /\ finalized \in Nat /\ n \in Nat
    BY <2>1, <2>a DEF IInv, TypeOK
  <2>3. \A i \in 1..n : chain'[i] = chain[i]
    BY <2>1, <2>2, <2>a
  <2>4. \A i \in 1..finalized : chain'[i] = chain[i]
    BY <2>1, <2>2, <2>3, <2>a
  <2> QED BY Zenon, <2>1, <2>4, LaneStutters
<1>8. ASSUME NEW r \in Runners, RunStep(r) PROVE [Lane!Next]_(Lane!vars)
  <2>1. CASE Submit(r)
    BY Zenon, <2>1, SubmitSends DEF Lane!Next
  <2>2. CASE CommitSwap(r)
    BY Zenon, <2>2, SwapMovesLane
  <2> QED BY Zenon, <1>1, <1>4, <1>8, <2>1, <2>2 DEF network, ledger
<1>9. ASSUME Finalize PROVE [Lane!Next]_(Lane!vars)
  BY Zenon, <1>9, FinalizeExecutes DEF Lane!Next
<1>10. CASE UNCHANGED vars
  BY Zenon, <1>4, <1>10 DEF vars, journal
<1>11. ASSUME NEW r \in Runners, NEW mode \in Methods, NEW want \in Ids \cup {NoId},
              Invoke(r, mode, want)
       PROVE  UNCHANGED Lane!vars
  BY Zenon, <1>2, <1>4, <1>11 DEF network, ledger
<1>12. ASSUME NEW r \in Runners, Stop(r) PROVE UNCHANGED Lane!vars
  BY Zenon, <1>3, <1>4, <1>12 DEF network, ledger
<1>13. ASSUME NEW id \in Ids, Accept(id) \/ Refuse(id) PROVE UNCHANGED Lane!vars
  BY Zenon, <1>4, <1>5, <1>13
<1> QED BY Zenon, <1>6, <1>7, <1>8, <1>9, <1>10, <1>11, <1>12, <1>13 DEF Next

\* Runners, journal, bundler and chain implement the lane: one identity at a
\* time, sent once, executed only while it holds the lane, and released with
\* a conclusion that is true (OperationStore and OperationRunner together).
THEOREM RunnersImplementLane == Spec => LaneSpec
<1>1. Init => Lane!Init
  BY Zenon, InitLane
<1>2. IInv /\ CInv /\ [Next]_vars => [Lane!Next]_(Lane!vars)
  BY Zenon, NextMovesLane
<1> QED BY <1>1, <1>2, InvarianceC, PTL DEF Spec, LaneSpec, Lane!Spec
=============================================================================
