----------------------- MODULE RelayRevocation_proofs -----------------------
(***************************************************************************)
(* Proofs about the revocation record, for every set of handlers, every    *)
(* budget, every length of the chain and both ways of delivery.            *)
(*                                                                         *)
(* The argument: whatever a handler last knew of the record is the record  *)
(* itself or older, so a compare-and-swap that succeeds writes a change of *)
(* the record as it is; what a handler has spent and not yet asked it holds*)
(* as tokens, and all tokens are within what the record has spent.         *)
(***************************************************************************)
EXTENDS RelayRevocation, FiniteSetTheorems, TLAPS

PlainCalls ==
    [at : {"idle", "sign", "send", "rejected", "observe", "receipt", "outcome",
           "finality", "finish"},
     rec : Records]

PrepareCalls ==
    [at : {"reserve", "estimate", "prepared"}, rec : Records,
     request : [action : Actions, lane : 0 .. MaxBlocks]]

\* What RevocationRecord::parse requires of the fields together.
ValidRec(r) ==
    /\ r.signed => r.request # NoRequest
    /\ r.submitted => r.signed
    /\ r.signed => r.submitted \/ Delivery = "dapp"
    /\ r.outcome # "none" => r.signed

\* Where a handler is says what its record has been through.
PhaseOK(c) ==
    /\ ValidRec(c.rec)
    /\ c.at \in {"reserve", "estimate", "prepared", "sign"} => ~c.rec.signed
    /\ c.at = "sign" => c.rec.request # NoRequest
    /\ c.at \in {"send", "rejected", "observe", "receipt", "outcome", "finality", "finish"}
          => c.rec.signed
    /\ c.at \in {"send", "rejected"} => c.rec.submitted
    /\ c.at \in {"send", "rejected", "observe", "receipt"} => c.rec.outcome = "none"
    /\ c.at = "outcome" => c.rec.outcome \in {"included", "failed"}
    /\ c.at \in {"finality", "finish"} => c.rec.outcome = "included"

\* The receipt read for a record, ready to be saved.
WithReceipt(r, o, b) == [nextRevision(r) EXCEPT !.outcome = o, !.block = b]

\* What a handler knows is the record r, or older.
Fresh(c, r) ==
    /\ c.at \notin {"idle", "outcome"} =>
          /\ c.rec.revision <= r.revision
          /\ c.rec.revision = r.revision => c.rec = r
    /\ c.at = "outcome" =>
          /\ c.rec.revision <= r.revision + 1
          /\ c.rec.revision = r.revision + 1 =>
                /\ r.signed /\ r.outcome = "none"
                /\ c.rec = WithReceipt(r, c.rec.outcome, c.rec.block)

CallsOK ==
    /\ calls \in [Handlers -> PlainCalls \cup PrepareCalls]
    /\ \A h \in Handlers : PhaseOK(calls[h]) /\ Fresh(calls[h], record)

\* Requests that are spent and have not left yet.
Tokens ==
    {t \in Handlers \X {1, 2} :
        \/ calls[t[1]].at = "estimate"
        \/ calls[t[1]].at \in {"send", "receipt"} /\ t[2] = 1}

BudgetOK ==
    /\ asked \in Nat /\ IsFiniteSet(Tokens)
    /\ asked + Cardinality(Tokens) <= record.spent

\* Only one handler ever comes to send, and only before anything was sent.
SendOK ==
    /\ sends \in {0, 1}
    /\ sends = 1 => record.submitted
    /\ \A h \in Handlers : calls[h].at = "send" =>
          /\ record.submitted /\ sends = 0
          /\ \A g \in Handlers : calls[g].at = "send" => g = h

\* The chain grows by one lane position a block at most, and if it holds the
\* operation there is a first block that does.
ChainOK ==
    /\ chain \in Seq(Blocks) /\ Len(chain) <= MaxBlocks
    /\ final \in 1 .. Len(chain)
    /\ \A i \in 1 .. Len(chain) : chain[i].lane < i
    /\ (\E i \in 1 .. Len(chain) : chain[i].op # "none") =>
          \E b \in 1 .. Len(chain) : /\ chain[b].op # "none"
                                     /\ \A c \in 1 .. b - 1 : chain[c].op = "none"

\* The permission was absent in a final block no earlier than k.
AbsentSince(k) == \E b \in 1 .. final : k <= b /\ ~chain[b].installed

AbsenceOK ==
    /\ record.outcome = "finalized" => AbsentSince(record.block)
    /\ \A h \in Handlers : calls[h].at = "finish" => AbsentSince(calls[h].rec.block)

RecordOK == record \in Records /\ ValidRec(record) /\ pooled \in BOOLEAN

IInv == RecordOK /\ CallsOK /\ BudgetOK /\ SendOK /\ ChainOK /\ AbsenceOK

-----------------------------------------------------------------------------
(* Requests that are spent and have not left. *)

\* The tokens of a handler, by where it is.
Weight(at) ==
    IF at = "estimate" THEN 2 ELSE IF at \in {"send", "receipt"} THEN 1 ELSE 0

\* A finite set is as large as what is left of it without two elements, and
\* those of the two that it holds.
LEMMA Weigh ==
    ASSUME NEW S, NEW x, NEW y, NEW w \in {0, 1, 2}, x # y,
           x \in S <=> w >= 1, y \in S <=> w = 2,
           IsFiniteSet(S \ {x, y})
    PROVE  /\ IsFiniteSet(S)
           /\ Cardinality(S) = Cardinality(S \ {x, y}) + w
           /\ Cardinality(S \ {x, y}) \in Nat
<1> DEFINE B == S \ {x, y}
<1> SUFFICES IsFiniteSet(S) /\ Cardinality(S) = Cardinality(B) + w /\ Cardinality(B) \in Nat
  BY Zenon
<1>1. IsFiniteSet(B) /\ Cardinality(B) \in Nat
  BY Zenon, FS_CardinalityType
<1>2. /\ IsFiniteSet(B \cup {x}) /\ Cardinality(B \cup {x}) = Cardinality(B) + 1
  BY Zenon, FS_AddElement
<1>3. /\ IsFiniteSet((B \cup {x}) \cup {y})
      /\ Cardinality((B \cup {x}) \cup {y}) = Cardinality(B) + 2
  <2> DEFINE C == B \cup {x}
  <2>1. y \notin C
    BY Zenon
  <2>2. IsFiniteSet(C) /\ Cardinality(C) = Cardinality(B) + 1
    BY Zenon, <1>2
  <2> HIDE DEF C
  <2>3. IsFiniteSet(C \cup {y}) /\ Cardinality(C \cup {y}) = Cardinality(C) + 1
    BY Zenon, <2>1, <2>2, FS_AddElement
  <2>4. Cardinality(C \cup {y}) = Cardinality(B) + 2
    <3> HIDE DEF B
    <3> QED BY <1>1, <2>2, <2>3
  <2> QED BY Zenon, <2>3, <2>4 DEF C
<1>4. CASE w = 0
  <2>1. S = B
    BY <1>4
  <2> HIDE DEF B
  <2> QED BY <1>1, <1>4, <2>1
<1>5. CASE w = 1
  <2>1. S = B \cup {x}
    BY <1>5
  <2> HIDE DEF B
  <2> QED BY Zenon, <1>1, <1>2, <1>5, <2>1
<1>6. CASE w = 2
  <2>1. S = (B \cup {x}) \cup {y}
    BY <1>6
  <2> HIDE DEF B
  <2> QED BY Zenon, <1>1, <1>3, <1>6, <2>1
<1> QED BY Zenon, <1>4, <1>5, <1>6

\* A handler that moves gives back its tokens and takes those of its new place.
LEMMA TokensMove ==
    ASSUME NEW h \in Handlers, NEW c \in PlainCalls \cup PrepareCalls, CallsOK,
           calls' = [calls EXCEPT ![h] = c], IsFiniteSet(Tokens)
    PROVE  /\ IsFiniteSet(Tokens') /\ Cardinality(Tokens') \in Nat /\ Cardinality(Tokens) \in Nat
           /\ Cardinality(Tokens') + Weight(calls[h].at) = Cardinality(Tokens) + Weight(c.at)
<1> DEFINE x == <<h, 1>>  y == <<h, 2>>  B == Tokens \ {x, y}
<1>1. \A g \in Handlers : calls'[g] = IF g = h THEN c ELSE calls[g]
  BY Zenon DEF CallsOK
<1>2. Tokens' \ {x, y} = B
  <2>1. ASSUME NEW t \in Handlers \X {1, 2} PROVE t \in Tokens' \ {x, y} <=> t \in B
    <3>1. CASE t[1] = h
      BY <3>1 DEF Tokens
    <3>2. CASE t[1] # h
      BY Zenon, <1>1, <3>2 DEF Tokens
    <3> QED BY Zenon, <3>1, <3>2
  <2> QED BY Zenon, <2>1 DEF Tokens
<1>3. IsFiniteSet(B)
  BY Zenon, FS_Subset
<1>4. /\ Weight(calls[h].at) \in {0, 1, 2} /\ Weight(c.at) \in {0, 1, 2}
      /\ x \in Tokens <=> Weight(calls[h].at) >= 1
      /\ y \in Tokens <=> Weight(calls[h].at) = 2
      /\ x \in Tokens' <=> Weight(c.at) >= 1
      /\ y \in Tokens' <=> Weight(c.at) = 2
  BY <1>1 DEF Tokens, Weight
<1>5. x # y
  OBVIOUS
<1> HIDE DEF x, y
<1>6. /\ Cardinality(Tokens) = Cardinality(B) + Weight(calls[h].at) /\ Cardinality(B) \in Nat
  BY <1>3, <1>4, <1>5, Weigh
<1>7. IsFiniteSet(Tokens') /\ Cardinality(Tokens') = Cardinality(B) + Weight(c.at)
  <2>1. IsFiniteSet(Tokens' \ {x, y})
    BY Zenon, <1>2, <1>3
  <2>2. /\ IsFiniteSet(Tokens')
        /\ Cardinality(Tokens') = Cardinality(Tokens' \ {x, y}) + Weight(c.at)
    BY <1>4, <1>5, <2>1, Weigh
  <2> QED BY Zenon, <1>2, <2>2
<1> HIDE DEF B
<1> QED BY <1>4, <1>6, <1>7

-----------------------------------------------------------------------------
(* A step of a handler. *)

\* What a step must see to when it takes handler h to c: its new place agrees
\* with the record, a changed record is its successor, what is asked or owed is
\* paid for, and it comes to send first, or to finish, only for cause.
SoundMove(h, c) ==
    /\ c \in PlainCalls \cup PrepareCalls /\ PhaseOK(c) /\ Fresh(c, record')
    /\ calls' = [calls EXCEPT ![h] = c]
    /\ record' \in Records /\ ValidRec(record') /\ pooled' \in BOOLEAN
    /\ record' = record \/ record'.revision = record.revision + 1
    /\ asked' \in Nat
    /\ asked' + Weight(c.at) + record.spent <= asked + Weight(calls[h].at) + record'.spent
    /\ record.submitted => record'.submitted
    /\ c.at = "send" => record'.submitted /\ ~record.submitted
    /\ \/ sends' = sends
       \/ calls[h].at = "send" /\ c.at # "send" /\ sends' = sends + 1
    /\ c.at = "finish" => AbsentSince(c.rec.block)
    /\ record'.outcome = "finalized" =>
          \/ record.outcome = "finalized" /\ record'.block = record.block
          \/ AbsentSince(record'.block)
    /\ UNCHANGED <<chain, final>>

\* A handler that knew the record knows an older one once the record moves.
LEMMA FreshAfterSwap ==
    ASSUME NEW c \in PlainCalls \cup PrepareCalls, NEW r \in Records, NEW s \in Records,
           Fresh(c, r), s.revision = r.revision + 1
    PROVE  Fresh(c, s)
<1>1. c.rec.revision \in Nat /\ r.revision \in Nat
  BY Zenon DEF PlainCalls, PrepareCalls, Records
<1> QED BY <1>1 DEF Fresh

LEMMA SoundMoveKeeps ==
    ASSUME IInv, NEW h \in Handlers, NEW c, SoundMove(h, c)
    PROVE  IInv'
<1>1. \A g \in Handlers : calls'[g] = IF g = h THEN c ELSE calls[g]
  BY Zenon DEF IInv, CallsOK, SoundMove
<1>2. RecordOK'
  BY Zenon DEF SoundMove, RecordOK, ValidRec
<1>3. CallsOK'
  <2>1. calls' \in [Handlers -> PlainCalls \cup PrepareCalls]
    BY Zenon DEF IInv, CallsOK, SoundMove
  <2>2. ASSUME NEW g \in Handlers PROVE PhaseOK(calls'[g]) /\ Fresh(calls'[g], record')
    <3>1. CASE g = h
      BY Zenon, <1>1, <3>1 DEF SoundMove
    <3>2. CASE g # h /\ record' = record
      BY Zenon, <1>1, <3>2 DEF IInv, CallsOK
    <3>3. CASE g # h /\ record'.revision = record.revision + 1
      <4>1. calls[g] \in PlainCalls \cup PrepareCalls /\ PhaseOK(calls[g]) /\ Fresh(calls[g], record)
        BY Zenon DEF IInv, CallsOK
      <4>2. record \in Records /\ record' \in Records
        BY Zenon DEF IInv, RecordOK, SoundMove
      <4>3. Fresh(calls[g], record')
        BY Zenon, <3>3, <4>1, <4>2, FreshAfterSwap
      <4> QED BY Zenon, <1>1, <3>3, <4>1, <4>3
    <3> QED BY Zenon, <3>1, <3>2, <3>3 DEF SoundMove
  <2>3. \A g \in Handlers : (PhaseOK(calls[g]) /\ Fresh(calls[g], record))'
    BY Zenon, <2>2 DEF PhaseOK, Fresh, ValidRec
  <2>4. PlainCalls' = PlainCalls /\ PrepareCalls' = PrepareCalls
    BY Zenon DEF PlainCalls, PrepareCalls
  <2> QED BY Zenon, <2>1, <2>3, <2>4 DEF CallsOK
<1>4. BudgetOK'
  <2>1. /\ IsFiniteSet(Tokens') /\ Cardinality(Tokens') \in Nat /\ Cardinality(Tokens) \in Nat
        /\ Cardinality(Tokens') + Weight(calls[h].at) = Cardinality(Tokens) + Weight(c.at)
    BY Zenon, TokensMove DEF IInv, BudgetOK, SoundMove
  <2>2. Weight(calls[h].at) \in Nat /\ Weight(c.at) \in Nat
    BY Zenon DEF Weight
  <2>3. record.spent \in Nat /\ record'.spent \in Nat /\ asked \in Nat /\ asked' \in Nat
    BY RevocationAssumption DEF IInv, RecordOK, BudgetOK, SoundMove, Records
  <2>4. /\ asked + Cardinality(Tokens) <= record.spent
        /\ asked' + Weight(c.at) + record.spent <= asked + Weight(calls[h].at) + record'.spent
    BY Zenon DEF IInv, BudgetOK, SoundMove
  <2>5. asked' + Cardinality(Tokens') <= record'.spent
    BY <2>1, <2>2, <2>3, <2>4
  <2> QED BY Zenon, <2>1, <2>3, <2>5 DEF BudgetOK
<1>5. SendOK'
  BY <1>1 DEF IInv, SendOK, SoundMove
<1>6. ChainOK'
  BY Zenon DEF IInv, SoundMove, ChainOK
<1>7. AbsenceOK'
  <2>1. \A k : AbsentSince(k) <=> AbsentSince(k)'
    BY Zenon DEF SoundMove, AbsentSince
  <2> QED BY Zenon, <1>1, <2>1 DEF IInv, AbsenceOK, SoundMove
<1> QED BY Zenon, <1>2, <1>3, <1>4, <1>5, <1>6, <1>7 DEF IInv

\* A handler that ends leaves no trace but what it asked for.
LEMMA EndKeeps ==
    ASSUME IInv, NEW h \in Handlers, End(h), UNCHANGED <<record, chain, final>>,
           pooled' \in BOOLEAN, asked' \in Nat, asked' <= asked + Weight(calls[h].at),
           \/ sends' = sends
           \/ calls[h].at = "send" /\ sends' = sends + 1
    PROVE  IInv'
<1>1. NoRecord \in Records
  BY RevocationAssumption DEF NoRecord, Records, Requests, NoRequest
<1>2. /\ Idle \in PlainCalls /\ PhaseOK(Idle) /\ Fresh(Idle, record')
      /\ Idle.at = "idle" /\ Weight(Idle.at) = 0
  BY Zenon, <1>1 DEF Idle, PlainCalls, PhaseOK, ValidRec, Fresh, NoRecord, Weight
<1>3. asked \in Nat /\ record.spent \in Nat /\ Weight(calls[h].at) \in Nat
  BY RevocationAssumption DEF IInv, BudgetOK, RecordOK, Records, Weight
<1>4. asked' + Weight(Idle.at) + record.spent <= asked + Weight(calls[h].at) + record'.spent
  BY <1>2, <1>3
<1>5. record'.outcome = "finalized" =>
          \/ record.outcome = "finalized" /\ record'.block = record.block
          \/ AbsentSince(record'.block)
  BY Zenon
<1>6. SoundMove(h, Idle)
  BY Zenon, <1>2, <1>4, <1>5 DEF SoundMove, End, IInv, RecordOK
<1> QED BY Zenon, <1>6, SoundMoveKeeps

\* A handler whose record has the revision of the record knows the record.
LEMMA Known ==
    ASSUME IInv, NEW h \in Handlers
    PROVE  /\ calls[h] \in PlainCalls \cup PrepareCalls
           /\ calls[h].rec \in Records /\ record \in Records
           /\ PhaseOK(calls[h]) /\ ValidRec(record)
           /\ calls[h].at \notin {"idle", "outcome"} /\ calls[h].rec.revision = record.revision
                 => calls[h].rec = record
           /\ asked \in Nat /\ sends \in Nat /\ pooled \in BOOLEAN
BY DEF IInv, CallsOK, Fresh, RecordOK, PlainCalls, PrepareCalls, BudgetOK, SendOK

LEMMA PrepareKeeps ==
    ASSUME IInv, NEW h \in Handlers, prepare_revocation(h)
    PROVE  IInv'
<1> DEFINE c == [at |-> "reserve", rec |-> record,
                 request |-> [action |-> requiredAction(Latest), lane |-> Latest.lane]]
<1>1. calls[h].at = "idle" /\ ~record.signed /\ calls' = [calls EXCEPT ![h] = c]
      /\ UNCHANGED <<record, chain, final, pooled, asked, sends>>
  BY Zenon DEF prepare_revocation
<1>2. requiredAction(Latest) \in Actions
  BY Zenon DEF prepare_revocation, requiredAction, Actions
<1>3. Latest.lane \in 0 .. MaxBlocks
  <2>1. chain \in Seq(Blocks) /\ Len(chain) \in Nat /\ Len(chain) >= 1
    BY DEF IInv, ChainOK
  <2>2. Latest \in Blocks
    BY <2>1 DEF Latest
  <2> QED BY Zenon, <2>2 DEF Blocks
<1>4. c \in PrepareCalls /\ c.at = "reserve" /\ c.rec = record
  BY Zenon, <1>2, <1>3, Known DEF PrepareCalls
<1> HIDE DEF c
<1>5. PhaseOK(c) /\ Fresh(c, record')
  BY <1>1, <1>4, Known DEF PhaseOK, Fresh, ValidRec, Records
<1>6. Weight(c.at) = 0 /\ Weight(calls[h].at) = 0
  BY Zenon, <1>1, <1>4 DEF Weight
<1>7. asked \in Nat /\ record.spent \in Nat
  BY Known, RevocationAssumption DEF Records
<1>8. asked' + Weight(c.at) + record.spent <= asked + Weight(calls[h].at) + record'.spent
  BY <1>1, <1>6, <1>7
<1>9. SoundMove(h, c)
  BY Zenon, <1>1, <1>4, <1>5, <1>7, <1>8, Known DEF SoundMove
<1> QED BY Zenon, <1>9, SoundMoveKeeps

LEMMA ReserveKeeps ==
    ASSUME IInv, NEW h \in Handlers, reserve(h)
    PROVE  IInv'
<1> DEFINE rec == [spend(calls[h].rec, 2) EXCEPT !.action = calls[h].request.action]
           c   == [calls[h] EXCEPT !.at = "estimate", !.rec = rec]
<1>1. calls[h].at = "reserve" /\ UNCHANGED <<chain, final, pooled, asked, sends>>
  BY Zenon DEF reserve
<1>2. CASE canSpend(calls[h].rec, 2) /\ record.revision = rec.revision - 1
  <2>1. calls[h] \in PrepareCalls /\ calls[h].rec \in Records /\ ~calls[h].rec.signed
    BY Zenon, <1>1, Known DEF PlainCalls, PhaseOK
  <2>2. rec.revision = calls[h].rec.revision + 1 /\ calls[h].rec.revision \in Nat
    BY Zenon, <2>1 DEF spend, nextRevision, Records
  <2>3. calls[h].rec = record
    BY <1>1, <1>2, <2>2, Known DEF Records
  <2>4. rec = [record EXCEPT !.revision = record.revision + 1, !.spent = record.spent + 2,
                             !.action = calls[h].request.action]
    BY Zenon, <2>3, Known DEF spend, nextRevision, Records
  <2>5. record.spent + 2 <= MaxRequests /\ record.spent \in Nat /\ record.revision \in Nat
    BY <1>2, <2>3, Known, RevocationAssumption DEF canSpend, Records
  <2>6. rec \in Records /\ ~rec.signed /\ rec.spent = record.spent + 2
        /\ rec.outcome = record.outcome /\ rec.block = record.block
        /\ rec.submitted = record.submitted /\ rec.request = record.request
        /\ rec.signed = record.signed
    <3>1. /\ record.spent + 2 \in 0 .. MaxRequests /\ record.revision + 1 \in Nat
          /\ calls[h].request.action \in Actions /\ ~record.signed
      BY <2>1, <2>3, <2>5, RevocationAssumption DEF PrepareCalls
    <3> QED BY Zenon, <2>4, <3>1, Known DEF Records
  <2>7. record' = rec /\ calls' = [calls EXCEPT ![h].at = "estimate", ![h].rec = rec]
    BY Zenon, <1>2 DEF reserve
  <2>8. calls' = [calls EXCEPT ![h] = c]
    BY Zenon, <2>7 DEF IInv, CallsOK
  <2> HIDE DEF rec
  <2>9. c \in PrepareCalls /\ c.at = "estimate" /\ c.rec = rec
    BY Zenon, <2>1, <2>6 DEF PrepareCalls
  <2> HIDE DEF c
  <2>10. PhaseOK(c) /\ Fresh(c, record') /\ ValidRec(record')
    BY <2>6, <2>7, <2>9, Known DEF PhaseOK, Fresh, ValidRec, Records
  <2>11. Weight(c.at) = 2 /\ Weight(calls[h].at) = 0
    BY Zenon, <1>1, <2>9 DEF Weight
  <2>12. asked' + Weight(c.at) + record.spent <= asked + Weight(calls[h].at) + record'.spent
    BY <1>1, <2>5, <2>6, <2>7, <2>11, Known
  <2>13. record'.revision = record.revision + 1
    BY Zenon, <2>2, <2>3, <2>7
  <2>14. record'.outcome = "finalized" => record.outcome = "finalized" /\ record'.block = record.block
    BY Zenon, <2>6, <2>7
  <2>15. SoundMove(h, c)
    BY Zenon, <1>1, <2>6, <2>7, <2>8, <2>9, <2>10, <2>12, <2>13, <2>14, Known DEF SoundMove
  <2> QED BY Zenon, <2>15, SoundMoveKeeps
<1>3. CASE ~(canSpend(calls[h].rec, 2) /\ record.revision = rec.revision - 1)
  <2>1. UNCHANGED record /\ End(h)
    BY Zenon, <1>3 DEF reserve
  <2>2. asked' <= asked + Weight(calls[h].at) /\ asked' \in Nat /\ pooled' \in BOOLEAN
    BY <1>1, Known DEF Weight
  <2>3. UNCHANGED <<record, chain, final>> /\ sends' = sends
    BY Zenon, <1>1, <2>1
  <2> QED BY Zenon, <2>1, <2>2, <2>3, EndKeeps
<1> QED BY Zenon, <1>2, <1>3

\* What a compare-and-swap must see to when it goes through.
SoundSave(h, rec, at) ==
    /\ rec \in Records /\ ValidRec(rec) /\ PhaseOK([at |-> at, rec |-> rec])
    /\ Weight(at) + record.spent <= Weight(calls[h].at) + rec.spent
    /\ record.submitted => rec.submitted
    /\ at = "send" => rec.submitted /\ ~record.submitted
    /\ rec.outcome = "finalized" =>
          \/ record.outcome = "finalized" /\ rec.block = record.block
          \/ AbsentSince(rec.block)

LEMMA SaveKeeps ==
    ASSUME IInv, NEW h \in Handlers, NEW rec, NEW at \in {"idle", "send", "receipt", "finality"},
           rec.revision \in Nat, save(h, rec, at), UNCHANGED <<chain, final, pooled, asked, sends>>,
           record.revision = rec.revision - 1 => SoundSave(h, rec, at)
    PROVE  IInv'
<1>1. asked \in Nat /\ record.spent \in Nat /\ record.revision \in Nat /\ pooled \in BOOLEAN
      /\ Weight(calls[h].at) \in Nat
  BY Known, RevocationAssumption DEF Records, Weight
<1>2. CASE record.revision # rec.revision - 1
  <2>1. End(h) /\ UNCHANGED <<record, chain, final>> /\ sends' = sends /\ asked' = asked
        /\ pooled' = pooled
    BY Zenon, <1>2 DEF save
  <2>2. asked' <= asked + Weight(calls[h].at) /\ asked' \in Nat /\ pooled' \in BOOLEAN
    BY <1>1, <2>1
  <2> QED BY Zenon, <2>1, <2>2, EndKeeps
<1>3. CASE record.revision = rec.revision - 1
  <2> DEFINE c == IF at = "idle" THEN Idle ELSE [at |-> at, rec |-> rec]
  <2>1. /\ rec \in Records /\ ValidRec(rec) /\ PhaseOK([at |-> at, rec |-> rec])
        /\ Weight(at) + record.spent <= Weight(calls[h].at) + rec.spent
        /\ record.submitted => rec.submitted
        /\ at = "send" => rec.submitted /\ ~record.submitted
        /\ rec.outcome = "finalized" =>
              \/ record.outcome = "finalized" /\ rec.block = record.block
              \/ AbsentSince(rec.block)
    BY Zenon, <1>3 DEF SoundSave
  <2>2. record' = rec /\ calls' = [calls EXCEPT ![h] = c]
    BY Zenon, <1>3 DEF save, End, At
  <2>3. NoRecord \in Records
    BY RevocationAssumption DEF NoRecord, Records, Requests, NoRequest
  <2>4. c \in PlainCalls /\ c.at = at /\ (at # "idle" => c.rec = rec)
    BY Zenon, <2>1, <2>3 DEF PlainCalls, Idle
  <2>5. PhaseOK(c)
    <3>1. CASE at = "idle"
      BY Zenon, <3>1 DEF Idle, PhaseOK, ValidRec, NoRecord
    <3>2. CASE at # "idle"
      BY Zenon, <2>1, <3>2
    <3> QED BY Zenon, <3>1, <3>2
  <2> HIDE DEF c
  <2>6. Fresh(c, record')
    BY <2>1, <2>2, <2>4 DEF Fresh, Records
  <2>7. record'.revision = record.revision + 1
    BY <1>1, <1>3, <2>2
  <2>8. rec.spent \in Nat /\ Weight(at) \in Nat
    BY <2>1, RevocationAssumption DEF Records, Weight
  <2>9. asked' + Weight(c.at) + record.spent <= asked + Weight(calls[h].at) + record'.spent
    BY <1>1, <2>1, <2>2, <2>4, <2>8
  <2>10. record'.outcome = "finalized" =>
            \/ record.outcome = "finalized" /\ record'.block = record.block
            \/ AbsentSince(record'.block)
    BY Zenon, <2>1, <2>2
  <2>11. SoundMove(h, c)
    BY Zenon, <1>1, <2>1, <2>2, <2>4, <2>5, <2>6, <2>7, <2>9, <2>10 DEF SoundMove
  <2> QED BY Zenon, <2>11, SoundMoveKeeps
<1> QED BY Zenon, <1>2, <1>3

LEMMA EstimateKeeps ==
    ASSUME IInv, NEW h \in Handlers, estimate(h)
    PROVE  IInv'
<1>1. calls[h].at = "estimate" /\ UNCHANGED <<record, chain, final, pooled, sends>>
  BY Zenon DEF estimate
<1>2. Weight(calls[h].at) = 2
  BY Zenon, <1>1 DEF Weight
<1>3. asked \in Nat /\ record.spent \in Nat /\ pooled \in BOOLEAN
  BY Known, RevocationAssumption DEF Records
<1>4. CASE End(h) /\ (asked' = asked + 1 \/ asked' = asked + 2)
  <2>1. asked' \in Nat /\ asked' <= asked + Weight(calls[h].at) /\ pooled' \in BOOLEAN
    BY <1>1, <1>2, <1>3, <1>4
  <2>2. UNCHANGED <<record, chain, final>> /\ sends' = sends
    BY Zenon, <1>1
  <2> QED BY Zenon, <1>4, <2>1, <2>2, EndKeeps
<1>5. CASE asked' = asked + 2 /\ calls' = [calls EXCEPT ![h].at = "prepared"]
  <2> DEFINE c == [calls[h] EXCEPT !.at = "prepared"]
  <2>1. calls' = [calls EXCEPT ![h] = c]
    BY Zenon, <1>5 DEF IInv, CallsOK
  <2>2. calls[h] \in PrepareCalls
    BY Zenon, <1>1, Known DEF PlainCalls
  <2>3. c \in PrepareCalls /\ c.at = "prepared" /\ c.rec = calls[h].rec
    BY Zenon, <2>2 DEF PrepareCalls
  <2> HIDE DEF c
  <2>4. PhaseOK(c) /\ Fresh(c, record')
    BY Zenon, <1>1, <2>3, Known DEF PhaseOK, Fresh, ValidRec, IInv, CallsOK
  <2>5. Weight(c.at) = 0
    BY Zenon, <2>3 DEF Weight
  <2>6. asked' + Weight(c.at) + record.spent <= asked + Weight(calls[h].at) + record'.spent
        /\ asked' \in Nat
    BY <1>1, <1>2, <1>3, <1>5, <2>5
  <2>7. SoundMove(h, c)
    BY Zenon, <1>1, <1>3, <2>1, <2>3, <2>4, <2>6, Known DEF SoundMove
  <2> QED BY Zenon, <2>7, SoundMoveKeeps
<1> QED BY Zenon, <1>4, <1>5 DEF estimate

LEMMA PreparedKeeps ==
    ASSUME IInv, NEW h \in Handlers, prepared(h)
    PROVE  IInv'
<1> DEFINE rec == [nextRevision(calls[h].rec) EXCEPT !.request = calls[h].request]
<1>1. calls[h].at = "prepared" /\ save(h, rec, "idle")
      /\ UNCHANGED <<chain, final, pooled, asked, sends>>
  BY Zenon DEF prepared
<1>2. calls[h] \in PrepareCalls /\ calls[h].rec \in Records /\ ~calls[h].rec.signed
  BY Zenon, <1>1, Known DEF PlainCalls, PhaseOK
<1>3. rec.revision = calls[h].rec.revision + 1 /\ rec.revision \in Nat
      /\ calls[h].rec.revision \in Nat
  BY <1>2 DEF nextRevision, Records
<1>4. ASSUME record.revision = rec.revision - 1 PROVE SoundSave(h, rec, "idle")
  <2>1. calls[h].rec = record
    BY <1>1, <1>3, <1>4, Known
  <2>2. calls[h].request \in Requests /\ record.revision + 1 \in Nat /\ ~record.signed
    BY Zenon, <1>2, <1>3, <2>1 DEF PrepareCalls, Requests
  <2>3. /\ rec \in Records /\ ~rec.signed /\ rec.spent = record.spent
        /\ rec.submitted = record.submitted /\ rec.outcome = record.outcome
    BY Zenon, <2>1, <2>2, Known DEF Records, nextRevision
  <2>4. ~record.submitted /\ record.outcome = "none"
    BY Zenon, <2>2, Known DEF ValidRec, Records
  <2>5. Weight("idle") = 0 /\ Weight(calls[h].at) = 0 /\ record.spent \in Nat
    BY <1>1, Known, RevocationAssumption DEF Weight, Records
  <2> HIDE DEF rec
  <2>6. ValidRec(rec) /\ PhaseOK([at |-> "idle", rec |-> rec])
    BY Zenon, <2>3, <2>4 DEF ValidRec, PhaseOK
  <2> QED BY <2>3, <2>4, <2>5, <2>6 DEF SoundSave
<1> HIDE DEF rec
<1> QED BY Zenon, <1>1, <1>3, <1>4, SaveKeeps

\* A handler goes on without writing.
LEMMA AtKeeps ==
    ASSUME IInv, NEW h \in Handlers, NEW r \in Records,
           NEW at \in {"sign", "rejected", "observe", "outcome", "finality", "finish"},
           At(h, at, r), PhaseOK([at |-> at, rec |-> r]), Fresh([at |-> at, rec |-> r], record),
           UNCHANGED <<record, chain, final>>, pooled' \in BOOLEAN,
           asked' \in Nat, asked' <= asked + Weight(calls[h].at),
           \/ sends' = sends
           \/ calls[h].at = "send" /\ sends' = sends + 1,
           at = "finish" => AbsentSince(r.block)
    PROVE  IInv'
<1> DEFINE c == [at |-> at, rec |-> r]
<1>1. c \in PlainCalls /\ c.at = at /\ c.rec = r /\ calls' = [calls EXCEPT ![h] = c]
  BY Zenon DEF PlainCalls, At
<1>2. PhaseOK(c) /\ Fresh(c, record')
  BY Zenon
<1> HIDE DEF c
<1>3. Weight(c.at) = 0 /\ Weight(calls[h].at) \in Nat /\ asked \in Nat /\ record.spent \in Nat
  BY <1>1, Known, RevocationAssumption DEF Weight, Records
<1>4. asked' + Weight(c.at) + record.spent <= asked + Weight(calls[h].at) + record'.spent
  BY <1>3
<1>5. record'.outcome = "finalized" => record.outcome = "finalized" /\ record'.block = record.block
  BY Zenon
<1>6. SoundMove(h, c)
  BY Zenon, <1>1, <1>2, <1>4, <1>5, Known DEF SoundMove
<1> QED BY Zenon, <1>6, SoundMoveKeeps

LEMMA SignKeeps ==
    ASSUME IInv, NEW h \in Handlers, sign_revocation(h)
    PROVE  IInv'
<1>1. /\ calls[h].at = "idle" /\ record.request # NoRequest /\ ~record.signed
      /\ At(h, "sign", record) /\ UNCHANGED <<record, chain, final>>
      /\ pooled' = pooled /\ asked' = asked /\ sends' = sends
  BY Zenon DEF sign_revocation
<1>2. PhaseOK([at |-> "sign", rec |-> record]) /\ Fresh([at |-> "sign", rec |-> record], record)
  BY <1>1, Known DEF PhaseOK, Fresh, Records
<1>3. asked' \in Nat /\ asked' <= asked + Weight(calls[h].at) /\ pooled' \in BOOLEAN
  BY <1>1, Known DEF Weight
<1> QED BY Zenon, <1>1, <1>2, <1>3, Known, AtKeeps

LEMMA SignedKeeps ==
    ASSUME IInv, NEW h \in Handlers, NEW choice \in BOOLEAN, signed(h, choice)
    PROVE  IInv'
<1> DEFINE relay == Delivery = "relay" \/ choice
           n     == IF relay THEN 1 ELSE 0
           at    == IF relay THEN "send" ELSE "idle"
           rec   == [spend(calls[h].rec, n) EXCEPT !.signed = TRUE, !.submitted = relay]
<1>1. /\ calls[h].at = "sign" /\ save(h, rec, at)
      /\ relay => canSpend(calls[h].rec, 1)
      /\ UNCHANGED <<chain, final, pooled, asked, sends>>
  BY Zenon DEF signed
<1>2. calls[h].rec \in Records /\ ~calls[h].rec.signed /\ calls[h].rec.request # NoRequest
  BY Zenon, <1>1, Known DEF PhaseOK
<1>3. rec.revision = calls[h].rec.revision + 1 /\ rec.revision \in Nat
      /\ calls[h].rec.revision \in Nat
  BY <1>2 DEF nextRevision, spend, Records
<1>4. relay \in BOOLEAN /\ n \in {0, 1} /\ at \in {"idle", "send"} /\ (n = 1 <=> relay)
      /\ (at = "send" <=> relay) /\ (~relay => Delivery = "dapp")
  BY RevocationAssumption
<1>5. ASSUME record.revision = rec.revision - 1 PROVE SoundSave(h, rec, at)
  <2>1. calls[h].rec = record
    BY <1>1, <1>3, <1>5, Known
  <2>2. ~record.signed /\ ~record.submitted /\ record.outcome = "none"
    BY Zenon, <1>2, <2>1, Known DEF ValidRec, Records
  <2>3. record.spent + n \in 0 .. MaxRequests /\ record.spent \in Nat /\ record.revision + 1 \in Nat
    BY <1>1, <1>3, <1>4, <2>1, Known, RevocationAssumption DEF canSpend, Records
  <2> HIDE DEF n, relay
  <2>4. /\ rec \in Records /\ rec.signed /\ rec.submitted = relay /\ rec.spent = record.spent + n
        /\ rec.outcome = record.outcome /\ rec.request = record.request
    BY Zenon, <1>4, <2>1, <2>3, Known DEF Records, nextRevision, spend
  <2>5. Weight(calls[h].at) = 0 /\ Weight(at) = n
    BY Zenon, <1>1, <1>4 DEF Weight
  <2> HIDE DEF rec, at
  <2>6. ValidRec(rec) /\ PhaseOK([at |-> at, rec |-> rec])
    BY Zenon, <1>2, <1>4, <2>1, <2>2, <2>4 DEF ValidRec, PhaseOK
  <2>7. Weight(at) + record.spent <= Weight(calls[h].at) + rec.spent
    BY <1>4, <2>3, <2>4, <2>5
  <2> QED BY Zenon, <1>4, <2>2, <2>4, <2>6, <2>7 DEF SoundSave
<1> HIDE DEF rec, at, n, relay
<1> QED BY Zenon, <1>1, <1>3, <1>4, <1>5, SaveKeeps

LEMMA SendKeeps ==
    ASSUME IInv, NEW h \in Handlers, send(h)
    PROVE  IInv'
<1>1. /\ calls[h].at = "send" /\ asked' = asked + 1 /\ sends' = sends + 1
      /\ UNCHANGED <<record, chain, final>> /\ (pooled' = TRUE \/ pooled' = pooled)
  BY Zenon DEF send
<1>2. asked' \in Nat /\ asked' <= asked + Weight(calls[h].at) /\ pooled' \in BOOLEAN
  <2>1. pooled' \in BOOLEAN
    BY Zenon, <1>1, Known
  <2>2. Weight(calls[h].at) = 1
    BY Zenon, <1>1 DEF Weight
  <2> QED BY <1>1, <2>1, <2>2, Known
<1>3. CASE End(h)
  BY Zenon, <1>1, <1>2, <1>3, EndKeeps
<1>4. CASE At(h, "rejected", calls[h].rec)
  <2> DEFINE c == [at |-> "rejected", rec |-> calls[h].rec]
  <2>1. PhaseOK(c) /\ Fresh(c, record)
    BY Zenon, <1>1, Known DEF PhaseOK, Fresh, IInv, CallsOK
  <2> QED BY Zenon, <1>1, <1>2, <1>4, <2>1, Known, AtKeeps
<1> QED BY Zenon, <1>3, <1>4 DEF send

LEMMA RejectedKeeps ==
    ASSUME IInv, NEW h \in Handlers, rejected(h)
    PROVE  IInv'
<1> DEFINE rec == [nextRevision(calls[h].rec) EXCEPT !.outcome = "rejected"]
<1>1. calls[h].at = "rejected" /\ save(h, rec, "idle")
      /\ UNCHANGED <<chain, final, pooled, asked, sends>>
  BY Zenon DEF rejected
<1>2. calls[h].rec \in Records /\ calls[h].rec.signed /\ ValidRec(calls[h].rec)
  BY Zenon, <1>1, Known DEF PhaseOK
<1>3. rec.revision = calls[h].rec.revision + 1 /\ rec.revision \in Nat
      /\ calls[h].rec.revision \in Nat
  BY <1>2 DEF nextRevision, Records
<1>4. ASSUME record.revision = rec.revision - 1 PROVE SoundSave(h, rec, "idle")
  <2>1. calls[h].rec = record
    BY <1>1, <1>3, <1>4, Known
  <2>2. /\ rec \in Records /\ rec.signed = record.signed /\ rec.spent = record.spent
        /\ rec.submitted = record.submitted /\ rec.request = record.request
        /\ rec.outcome = "rejected"
    BY Zenon, <1>3, <2>1, Known DEF Records, nextRevision
  <2>3. Weight("idle") = 0 /\ Weight(calls[h].at) = 0 /\ record.spent \in Nat
    BY <1>1, Known, RevocationAssumption DEF Weight, Records
  <2> HIDE DEF rec
  <2>4. ValidRec(rec) /\ PhaseOK([at |-> "idle", rec |-> rec])
    BY Zenon, <1>2, <2>1, <2>2 DEF ValidRec, PhaseOK
  <2> QED BY <2>2, <2>3, <2>4 DEF SoundSave
<1> HIDE DEF rec
<1> QED BY Zenon, <1>1, <1>3, <1>4, SaveKeeps

LEMMA StatusKeeps ==
    ASSUME IInv, NEW h \in Handlers, revocation_status(h)
    PROVE  IInv'
<1> DEFINE at == IF observable(record) THEN "observe" ELSE "finality"
<1>1. /\ calls[h].at = "idle" /\ At(h, at, record) /\ UNCHANGED <<record, chain, final>>
      /\ pooled' = pooled /\ asked' = asked /\ sends' = sends
  BY Zenon DEF revocation_status
<1>2. at \in {"observe", "finality"} /\ (at = "observe" => record.outcome = "none" /\ record.signed)
      /\ (at = "finality" => record.outcome = "included")
  BY Zenon, Known DEF revocation_status, observable, ValidRec
<1> HIDE DEF at
<1>3. PhaseOK([at |-> at, rec |-> record]) /\ Fresh([at |-> at, rec |-> record], record)
  BY <1>2, Known DEF PhaseOK, ValidRec, Fresh, Records
<1>4. asked' \in Nat /\ asked' <= asked + Weight(calls[h].at) /\ pooled' \in BOOLEAN
  BY <1>1, Known DEF Weight
<1> QED BY Zenon, <1>1, <1>2, <1>3, <1>4, Known, AtKeeps

LEMMA ObserveKeeps ==
    ASSUME IInv, NEW h \in Handlers, observe(h)
    PROVE  IInv'
<1> DEFINE rec == spend(calls[h].rec, 1)
<1>1. calls[h].at = "observe" /\ UNCHANGED <<chain, final, pooled, asked, sends>>
  BY Zenon DEF observe
<1>2. calls[h].rec \in Records /\ calls[h].rec.signed /\ ValidRec(calls[h].rec)
      /\ calls[h].rec.outcome = "none"
  BY Zenon, <1>1, Known DEF PhaseOK
<1>3. rec.revision = calls[h].rec.revision + 1 /\ rec.revision \in Nat
      /\ calls[h].rec.revision \in Nat
  BY <1>2 DEF nextRevision, spend, Records
<1>4. CASE canSpend(calls[h].rec, 1)
  <2>1. save(h, rec, "receipt")
    BY Zenon, <1>4 DEF observe
  <2>2. ASSUME record.revision = rec.revision - 1 PROVE SoundSave(h, rec, "receipt")
    <3>1. calls[h].rec = record
      BY <1>1, <1>3, <2>2, Known
    <3>2. record.spent + 1 \in 0 .. MaxRequests /\ record.spent \in Nat
      BY <1>4, <3>1, Known, RevocationAssumption DEF canSpend, Records
    <3>3. /\ rec \in Records /\ rec.signed = record.signed /\ rec.spent = record.spent + 1
          /\ rec.submitted = record.submitted /\ rec.request = record.request
          /\ rec.outcome = record.outcome
      BY Zenon, <1>3, <3>1, <3>2, Known DEF Records, nextRevision, spend
    <3>4. Weight("receipt") = 1 /\ Weight(calls[h].at) = 0
      BY Zenon, <1>1 DEF Weight
    <3> HIDE DEF rec
    <3>5. ValidRec(rec) /\ PhaseOK([at |-> "receipt", rec |-> rec])
      BY Zenon, <1>2, <3>1, <3>3 DEF ValidRec, PhaseOK
    <3> QED BY <1>2, <3>1, <3>2, <3>3, <3>4, <3>5 DEF SoundSave
  <2> HIDE DEF rec
  <2> QED BY Zenon, <1>1, <1>3, <2>1, <2>2, SaveKeeps
<1>5. CASE ~canSpend(calls[h].rec, 1)
  <2>1. End(h) /\ UNCHANGED <<record, chain, final>> /\ sends' = sends
    BY Zenon, <1>1, <1>5 DEF observe
  <2>2. asked' \in Nat /\ asked' <= asked + Weight(calls[h].at) /\ pooled' \in BOOLEAN
    BY <1>1, Known DEF Weight
  <2> QED BY Zenon, <2>1, <2>2, EndKeeps
<1> QED BY Zenon, <1>4, <1>5

\* What the receipt changes of a record.
LEMMA WithReceiptType ==
    ASSUME NEW r \in Records, NEW o \in {"included", "failed"}, NEW b \in 0 .. MaxBlocks
    PROVE  /\ WithReceipt(r, o, b) \in Records
           /\ WithReceipt(r, o, b).revision = r.revision + 1
           /\ WithReceipt(r, o, b).signed = r.signed
           /\ WithReceipt(r, o, b).submitted = r.submitted
           /\ WithReceipt(r, o, b).request = r.request
           /\ WithReceipt(r, o, b).action = r.action
           /\ WithReceipt(r, o, b).outcome = o
           /\ WithReceipt(r, o, b).block = b
           /\ WithReceipt(r, o, b).spent = r.spent
<1> DEFINE n == [r EXCEPT !.revision = r.revision + 1]
<1>1. /\ n \in Records /\ n.revision = r.revision + 1 /\ n.signed = r.signed
      /\ n.submitted = r.submitted /\ n.request = r.request /\ n.action = r.action
      /\ n.spent = r.spent
  BY DEF Records
<1>2. WithReceipt(r, o, b) = [n EXCEPT !.outcome = o, !.block = b]
  BY Zenon DEF WithReceipt, nextRevision
<1> HIDE DEF n
<1>3. WithReceipt(r, o, b) \in Records
  BY Zenon, <1>1, <1>2 DEF Records
<1>4. WithReceipt(r, o, b).outcome = o /\ WithReceipt(r, o, b).block = b
  BY Zenon, <1>1, <1>2 DEF Records
<1>5. /\ WithReceipt(r, o, b).revision = n.revision /\ WithReceipt(r, o, b).signed = n.signed
      /\ WithReceipt(r, o, b).submitted = n.submitted
  BY Zenon, <1>1, <1>2 DEF Records
<1>6. /\ WithReceipt(r, o, b).request = n.request /\ WithReceipt(r, o, b).action = n.action
      /\ WithReceipt(r, o, b).spent = n.spent
  BY Zenon, <1>1, <1>2 DEF Records
<1> QED BY Zenon, <1>1, <1>3, <1>4, <1>5, <1>6

LEMMA ReceiptKeeps ==
    ASSUME IInv, NEW h \in Handlers, receipt(h)
    PROVE  IInv'
<1> DEFINE o   == IF Latest.op = "success" THEN "included" ELSE "failed"
           rec == WithReceipt(calls[h].rec, o, ReceiptBlock)
           c   == [at |-> "outcome", rec |-> rec]
<1>1. /\ calls[h].at = "receipt" /\ asked' = asked + 1 /\ UNCHANGED <<record, chain, final>>
      /\ pooled' = pooled /\ sends' = sends
  BY Zenon DEF receipt
<1>2. asked' \in Nat /\ asked' <= asked + Weight(calls[h].at) /\ pooled' \in BOOLEAN
  <2>1. Weight(calls[h].at) = 1
    BY Zenon, <1>1 DEF Weight
  <2> QED BY <1>1, <2>1, Known
<1>3. CASE End(h)
  BY Zenon, <1>1, <1>2, <1>3, EndKeeps
<1>4. CASE Latest.op # "none" /\ At(h, "outcome", rec)
  <2>1. Len(chain) \in Nat /\ Len(chain) >= 1 /\ Len(chain) <= MaxBlocks
    BY DEF IInv, ChainOK
  <2>2. \E b \in 1 .. Len(chain) : /\ chain[b].op # "none"
                                   /\ \A d \in 1 .. b - 1 : chain[d].op = "none"
    BY <1>4, <2>1 DEF Latest, IInv, ChainOK
  <2>3. ReceiptBlock \in 1 .. Len(chain)
    BY Zenon, <2>2 DEF ReceiptBlock
  <2>4. ReceiptBlock \in 0 .. MaxBlocks
    BY <2>1, <2>3, RevocationAssumption
  <2>5. o \in {"included", "failed"}
    BY Zenon
  <2>6. /\ calls[h].rec \in Records /\ calls[h].rec.signed /\ ValidRec(calls[h].rec)
        /\ calls[h].rec.revision \in Nat /\ record.revision \in Nat
        /\ calls[h].rec.outcome = "none"
    BY Zenon, <1>1, Known DEF PhaseOK, Records
  <2>7. calls[h].rec.revision <= record.revision
        /\ (calls[h].rec.revision = record.revision => calls[h].rec = record)
    BY Zenon, <1>1 DEF IInv, CallsOK, Fresh
  <2> HIDE DEF o
  <2>8. /\ rec \in Records /\ rec.signed /\ rec.revision = calls[h].rec.revision + 1
        /\ rec.outcome = o /\ rec.block = ReceiptBlock /\ rec.request = calls[h].rec.request
        /\ rec.submitted = calls[h].rec.submitted
    BY <2>4, <2>5, <2>6, WithReceiptType
  <2>9. calls[h].rec = record => rec = WithReceipt(record, rec.outcome, rec.block)
    BY Zenon, <2>8
  <2> HIDE DEF rec
  <2>10. PhaseOK(c)
    BY Zenon, <2>5, <2>6, <2>8 DEF PhaseOK, ValidRec
  <2>11. Fresh(c, record)
    BY <2>6, <2>7, <2>8, <2>9 DEF Fresh
  <2> QED BY Zenon, <1>1, <1>2, <1>4, <2>8, <2>10, <2>11, AtKeeps
<1> QED BY Zenon, <1>3, <1>4 DEF receipt, WithReceipt

LEMMA OutcomeKeeps ==
    ASSUME IInv, NEW h \in Handlers, outcome(h)
    PROVE  IInv'
<1> DEFINE rec == calls[h].rec
           at  == IF rec.outcome = "included" THEN "finality" ELSE "idle"
<1>1. calls[h].at = "outcome" /\ save(h, rec, at)
      /\ UNCHANGED <<chain, final, pooled, asked, sends>>
  BY Zenon DEF outcome
<1>2. rec \in Records /\ rec.revision \in Nat /\ ValidRec(rec)
      /\ rec.outcome \in {"included", "failed"} /\ rec.signed
  BY Zenon, <1>1, Known DEF PhaseOK, Records
<1>3. at \in {"idle", "finality"} /\ (at = "finality" => rec.outcome = "included")
  BY Zenon
<1>4. ASSUME record.revision = rec.revision - 1 PROVE SoundSave(h, rec, at)
  <2>1. rec.revision = record.revision + 1
    BY <1>2, <1>4, Known DEF Records
  <2>2. rec = WithReceipt(record, rec.outcome, rec.block)
    BY Zenon, <1>1, <2>1 DEF IInv, CallsOK, Fresh
  <2>3. rec.block \in 0 .. MaxBlocks
    BY Zenon, <1>2 DEF Records
  <2>4. rec.submitted = record.submitted /\ rec.spent = record.spent /\ record.spent \in Nat
    <3> HIDE DEF rec
    <3>1. record \in Records
      BY Zenon, Known
    <3>2. /\ WithReceipt(record, rec.outcome, rec.block).submitted = record.submitted
          /\ WithReceipt(record, rec.outcome, rec.block).spent = record.spent
      BY <1>2, <2>3, <3>1, WithReceiptType
    <3>3. rec.submitted = record.submitted /\ rec.spent = record.spent
      BY Zenon, <2>2, <3>2
    <3> QED BY <3>1, <3>3, RevocationAssumption DEF Records
  <2>5. Weight(at) = 0 /\ Weight(calls[h].at) = 0
    BY Zenon, <1>1, <1>3 DEF Weight
  <2> HIDE DEF rec, at
  <2>6. PhaseOK([at |-> at, rec |-> rec])
    BY Zenon, <1>2, <1>3 DEF PhaseOK, ValidRec
  <2> QED BY <1>2, <1>3, <2>4, <2>5, <2>6 DEF SoundSave
<1> HIDE DEF rec, at
<1> QED BY Zenon, <1>1, <1>2, <1>3, <1>4, SaveKeeps

LEMMA FinalityKeeps ==
    ASSUME IInv, NEW h \in Handlers, finality(h)
    PROVE  IInv'
<1>1. /\ calls[h].at = "finality" /\ UNCHANGED <<record, chain, final>>
      /\ pooled' = pooled /\ asked' = asked /\ sends' = sends
  BY Zenon DEF finality
<1>2. asked' \in Nat /\ asked' <= asked + Weight(calls[h].at) /\ pooled' \in BOOLEAN
  BY <1>1, Known DEF Weight
<1>3. CASE final >= calls[h].rec.block /\ ~chain[final].installed
  <2> DEFINE c == [at |-> "finish", rec |-> calls[h].rec]
  <2>1. PhaseOK(c) /\ Fresh(c, record)
    BY Zenon, <1>1, Known DEF PhaseOK, Fresh, IInv, CallsOK
  <2>2. calls[h].rec.block \in Nat /\ final \in Nat /\ final >= 1
    BY Known, RevocationAssumption DEF Records, IInv, ChainOK
  <2>3. AbsentSince(calls[h].rec.block)
    BY <1>3, <2>2 DEF AbsentSince
  <2>4. At(h, "finish", calls[h].rec)
    BY Zenon, <1>3 DEF finality
  <2> QED BY Zenon, <1>1, <1>2, <2>1, <2>3, <2>4, Known, AtKeeps
<1>4. CASE ~(final >= calls[h].rec.block /\ ~chain[final].installed)
  <2>1. End(h)
    BY Zenon, <1>4 DEF finality
  <2> QED BY Zenon, <1>1, <1>2, <2>1, EndKeeps
<1> QED BY Zenon, <1>3, <1>4

LEMMA FinishKeeps ==
    ASSUME IInv, NEW h \in Handlers, finish(h)
    PROVE  IInv'
<1> DEFINE rec == [nextRevision(calls[h].rec) EXCEPT !.outcome = "finalized"]
<1>1. calls[h].at = "finish" /\ save(h, rec, "idle")
      /\ UNCHANGED <<chain, final, pooled, asked, sends>>
  BY Zenon DEF finish
<1>2. calls[h].rec \in Records /\ calls[h].rec.signed /\ ValidRec(calls[h].rec)
  BY Zenon, <1>1, Known DEF PhaseOK
<1>3. rec.revision = calls[h].rec.revision + 1 /\ rec.revision \in Nat
      /\ calls[h].rec.revision \in Nat
  BY <1>2 DEF nextRevision, Records
<1>4. ASSUME record.revision = rec.revision - 1 PROVE SoundSave(h, rec, "idle")
  <2>1. calls[h].rec = record
    BY <1>1, <1>3, <1>4, Known
  <2>2. /\ rec \in Records /\ rec.signed = record.signed /\ rec.spent = record.spent
        /\ rec.submitted = record.submitted /\ rec.request = record.request
        /\ rec.block = record.block
    BY Zenon, <1>3, <2>1, Known DEF Records, nextRevision
  <2>3. Weight("idle") = 0 /\ Weight(calls[h].at) = 0 /\ record.spent \in Nat
    BY <1>1, Known, RevocationAssumption DEF Weight, Records
  <2>4. AbsentSince(rec.block)
    BY Zenon, <1>1, <2>1, <2>2 DEF IInv, AbsenceOK
  <2>5. rec.outcome # "none"
    BY Zenon, <1>2 DEF Records, nextRevision
  <2> HIDE DEF rec
  <2>6. ValidRec(rec) /\ PhaseOK([at |-> "idle", rec |-> rec])
    BY Zenon, <1>2, <2>1, <2>2 DEF ValidRec, PhaseOK
  <2> QED BY <2>2, <2>3, <2>4, <2>6 DEF SoundSave
<1> HIDE DEF rec
<1> QED BY Zenon, <1>1, <1>3, <1>4, SaveKeeps

LEMMA StopKeeps ==
    ASSUME IInv, NEW h \in Handlers, Stop(h)
    PROVE  IInv'
<1>1. End(h) /\ UNCHANGED <<record, chain, final>> /\ sends' = sends
      /\ asked' = asked /\ pooled' = pooled
  BY Zenon DEF Stop
<1>2. asked' \in Nat /\ asked' <= asked + Weight(calls[h].at) /\ pooled' \in BOOLEAN
  BY <1>1, Known DEF Weight
<1> QED BY Zenon, <1>1, <1>2, EndKeeps

-----------------------------------------------------------------------------
(* A step of the chain. *)

\* What is final stays, so an absence seen in a final block is kept.
LEMMA ChainMoveKeeps ==
    ASSUME IInv, ChainOK', UNCHANGED <<record, calls, asked, sends>>, pooled' \in BOOLEAN,
           final' >= final, \A b \in 1 .. final : chain'[b] = chain[b]
    PROVE  IInv'
<1>1. final \in Nat /\ final' \in Nat
  BY DEF IInv, ChainOK
<1>2. ASSUME NEW k, AbsentSince(k) PROVE AbsentSince(k)'
  BY <1>1, <1>2 DEF AbsentSince
<1>3. RecordOK' /\ SendOK' /\ BudgetOK'
  BY Zenon DEF IInv, RecordOK, ValidRec, SendOK, BudgetOK, Tokens
<1>4. CallsOK'
  BY DEF IInv, CallsOK, PhaseOK, Fresh, ValidRec, PlainCalls, PrepareCalls
<1>5. AbsenceOK'
  BY Zenon, <1>2 DEF IInv, AbsenceOK
<1> QED BY Zenon, <1>3, <1>4, <1>5 DEF IInv

\* A block is added that uses at most one more position of the lane.
LEMMA AppendKeeps ==
    ASSUME IInv, NEW b \in Blocks, b.lane <= Latest.lane + 1, Len(chain) < MaxBlocks,
           chain' = Append(chain, b), UNCHANGED <<record, calls, final, pooled, asked, sends>>
    PROVE  IInv'
<1>1. /\ chain \in Seq(Blocks) /\ Len(chain) \in Nat /\ Len(chain) >= 1 /\ final \in 1 .. Len(chain)
      /\ \A i \in 1 .. Len(chain) : chain[i].lane < i
  BY DEF IInv, ChainOK
<1>2. /\ chain' \in Seq(Blocks) /\ Len(chain') = Len(chain) + 1
      /\ chain'[Len(chain) + 1] = b /\ \A i \in 1 .. Len(chain) : chain'[i] = chain[i]
  BY <1>1
<1>3. \A i \in 1 .. Len(chain) : chain[i].lane \in Nat
  <2>1. \A i \in 1 .. Len(chain) : chain[i] \in Blocks
    BY <1>1
  <2> QED BY <2>1, RevocationAssumption DEF Blocks
<1>4. b.lane < Len(chain) + 1 /\ b.lane \in Nat
  BY <1>1, <1>3, RevocationAssumption DEF Latest, Blocks
<1>5. \A i \in 1 .. Len(chain') : chain'[i].lane < i
  BY <1>1, <1>2, <1>4
<1>6. (\E i \in 1 .. Len(chain') : chain'[i].op # "none") =>
          \E d \in 1 .. Len(chain') : /\ chain'[d].op # "none"
                                      /\ \A e \in 1 .. d - 1 : chain'[e].op = "none"
  <2>1. CASE \E i \in 1 .. Len(chain) : chain[i].op # "none"
    <3>1. PICK d \in 1 .. Len(chain) : /\ chain[d].op # "none"
                                       /\ \A e \in 1 .. d - 1 : chain[e].op = "none"
      BY Zenon, <2>1 DEF IInv, ChainOK
    <3>2. d \in 1 .. Len(chain') /\ chain'[d].op # "none"
          /\ \A e \in 1 .. d - 1 : chain'[e].op = "none"
      BY <1>1, <1>2, <3>1
    <3> QED BY Zenon, <3>2
  <2>2. CASE \A i \in 1 .. Len(chain) : chain[i].op = "none"
    <3>1. \A e \in 1 .. Len(chain') - 1 : chain'[e].op = "none"
      BY <1>1, <1>2, <2>2
    <3>2. \A i \in 1 .. Len(chain') : chain'[i].op # "none" => i = Len(chain')
      BY <1>1, <1>2, <2>2
    <3> QED BY Zenon, <3>1, <3>2
  <2> QED BY Zenon, <2>1, <2>2
<1>7. ChainOK'
  BY <1>1, <1>2, <1>5, <1>6, RevocationAssumption DEF ChainOK
<1>8. final' >= final /\ (\A i \in 1 .. final : chain'[i] = chain[i]) /\ pooled' \in BOOLEAN
  BY <1>1, <1>2 DEF IInv, RecordOK
<1> QED BY Zenon, <1>7, <1>8, ChainMoveKeeps

LEMMA MineKeeps ==
    ASSUME IInv, Mine
    PROVE  IInv'
<1>1. Len(chain) < MaxBlocks /\ UNCHANGED <<record, calls, final, pooled, asked, sends>>
  BY Zenon DEF Mine
<1>2. chain \in Seq(Blocks) /\ Len(chain) \in Nat /\ Len(chain) >= 1
      /\ Latest.lane < Len(chain)
  BY DEF IInv, ChainOK, Latest
<1>3. Latest \in Blocks
  BY <1>2 DEF Latest
<1>4. Latest.lane \in Nat /\ Latest.lane + 1 \in 0 .. MaxBlocks
      /\ Latest.lane <= Latest.lane + 1
  BY <1>1, <1>2, <1>3, RevocationAssumption DEF Blocks
<1>5. CASE chain' = Append(chain, Latest)
  BY Zenon, <1>1, <1>3, <1>4, <1>5, AppendKeeps
<1>6. CASE chain' = Append(chain, [Latest EXCEPT !.installed = TRUE, !.consumed = TRUE])
  <2> DEFINE b == [Latest EXCEPT !.installed = TRUE, !.consumed = TRUE]
  <2>1. b \in Blocks /\ b.lane <= Latest.lane + 1
    BY Zenon, <1>3, <1>4 DEF Blocks
  <2> QED BY Zenon, <1>1, <1>6, <2>1, AppendKeeps
<1>7. CASE chain' = Append(chain, [Latest EXCEPT !.lane = @ + 1])
  <2> DEFINE b == [Latest EXCEPT !.lane = @ + 1]
  <2>1. b \in Blocks /\ b.lane <= Latest.lane + 1
    BY <1>3, <1>4 DEF Blocks
  <2> QED BY Zenon, <1>1, <1>7, <2>1, AppendKeeps
<1>8. CASE chain' = Append(chain, Executed)
  <2>1. Latest.installed \in BOOLEAN /\ Latest.consumed \in BOOLEAN
    BY Zenon, <1>3 DEF Blocks
  <2>2. Executed \in Blocks /\ Executed.lane <= Latest.lane + 1
    BY <1>4, <2>1 DEF Executed, Blocks
  <2> QED BY Zenon, <1>1, <1>8, <2>2, AppendKeeps
<1> QED BY Zenon, <1>5, <1>6, <1>7, <1>8 DEF Mine

LEMMA FinalizeKeeps ==
    ASSUME IInv, Finalize
    PROVE  IInv'
<1>1. /\ final < Len(chain) /\ final' = final + 1
      /\ UNCHANGED <<record, calls, chain, pooled, asked, sends>>
  BY Zenon DEF Finalize
<1>2. final \in Nat /\ Len(chain) \in Nat
  BY DEF IInv, ChainOK
<1>3. ChainOK'
  BY <1>1, <1>2 DEF IInv, ChainOK
<1>4. final' >= final /\ (\A i \in 1 .. final : chain'[i] = chain[i]) /\ pooled' \in BOOLEAN
  BY <1>1, <1>2 DEF IInv, RecordOK
<1> QED BY Zenon, <1>1, <1>3, <1>4, ChainMoveKeeps

LEMMA ReorganiseKeeps ==
    ASSUME IInv, Reorganise
    PROVE  IInv'
<1>1. UNCHANGED <<record, calls, final, pooled, asked, sends>>
  BY Zenon DEF Reorganise
<1>2. PICK n \in final .. Len(chain) - 1 : chain' = SubSeq(chain, 1, n)
  BY Zenon DEF Reorganise
<1>3. /\ chain \in Seq(Blocks) /\ Len(chain) \in Nat /\ final \in 1 .. Len(chain)
      /\ Len(chain) <= MaxBlocks
      /\ \A i \in 1 .. Len(chain) : chain[i].lane < i
      /\ (\E i \in 1 .. Len(chain) : chain[i].op # "none") =>
            \E d \in 1 .. Len(chain) : /\ chain[d].op # "none"
                                       /\ \A e \in 1 .. d - 1 : chain[e].op = "none"
  BY DEF IInv, ChainOK
<1>4. /\ chain' \in Seq(Blocks) /\ Len(chain') = n /\ n \in Nat
      /\ \A i \in 1 .. n : chain'[i] = chain[i]
  BY <1>2, <1>3
<1>5. (\E i \in 1 .. Len(chain') : chain'[i].op # "none") =>
          \E d \in 1 .. Len(chain') : /\ chain'[d].op # "none"
                                      /\ \A e \in 1 .. d - 1 : chain'[e].op = "none"
  <2> SUFFICES ASSUME NEW i \in 1 .. n, chain[i].op # "none"
               PROVE  \E d \in 1 .. n : /\ chain'[d].op # "none"
                                        /\ \A e \in 1 .. d - 1 : chain'[e].op = "none"
    BY Zenon, <1>4
  <2>1. PICK d \in 1 .. Len(chain) : /\ chain[d].op # "none"
                                     /\ \A e \in 1 .. d - 1 : chain[e].op = "none"
    BY <1>2, <1>3
  <2>2. d <= i
    BY <1>2, <1>3, <2>1
  <2>3. d \in 1 .. n /\ chain'[d].op # "none" /\ \A e \in 1 .. d - 1 : chain'[e].op = "none"
    BY <1>4, <2>1, <2>2
  <2> QED BY Zenon, <2>3
<1>6. ChainOK'
  <2>1. Len(chain') <= MaxBlocks /\ final' \in 1 .. Len(chain')
        /\ \A i \in 1 .. Len(chain') : chain'[i].lane < i
    BY <1>1, <1>2, <1>3, <1>4, RevocationAssumption
  <2> QED BY Zenon, <1>4, <1>5, <2>1 DEF ChainOK
<1>7. final' >= final /\ (\A i \in 1 .. final : chain'[i] = chain[i]) /\ pooled' \in BOOLEAN
  BY <1>1, <1>2, <1>3, <1>4 DEF IInv, RecordOK
<1> QED BY Zenon, <1>1, <1>6, <1>7, ChainMoveKeeps

LEMMA DappKeeps ==
    ASSUME IInv, DappSubmits
    PROVE  IInv'
<1>1. UNCHANGED <<record, calls, chain, final, asked, sends>> /\ pooled' = TRUE
  BY Zenon DEF DappSubmits
<1>2. ChainOK' /\ final' >= final /\ \A i \in 1 .. final : chain'[i] = chain[i]
  BY <1>1 DEF IInv, ChainOK
<1>3. pooled' \in BOOLEAN
  BY Zenon, <1>1
<1> QED BY Zenon, <1>1, <1>2, <1>3, ChainMoveKeeps

-----------------------------------------------------------------------------
(* The inductive invariant, and what it gives. *)

LEMMA InitIInv == Init => IInv
<1> SUFFICES ASSUME Init PROVE IInv
  BY Zenon
<1>1. NoRecord \in Records /\ ValidRec(NoRecord)
  BY RevocationAssumption DEF NoRecord, Records, Requests, NoRequest, ValidRec
<1>2. RecordOK
  BY Zenon, <1>1 DEF RecordOK, Init
<1>3. Idle \in PlainCalls /\ PhaseOK(Idle) /\ Fresh(Idle, record) /\ Idle.at = "idle"
  BY Zenon, <1>1 DEF Idle, PlainCalls, PhaseOK, ValidRec, Fresh, NoRecord
<1>4. \A h \in Handlers : calls[h] = Idle
  BY Zenon DEF Init
<1>5. CallsOK
  BY Zenon, <1>3, <1>4 DEF CallsOK, Init
<1>6. BudgetOK
  <2>1. Tokens = {}
    BY Zenon, <1>3, <1>4 DEF Tokens
  <2>2. IsFiniteSet(Tokens) /\ Cardinality(Tokens) = 0
    BY Zenon, <2>1, FS_EmptySet
  <2> QED BY <2>2 DEF BudgetOK, Init, NoRecord
<1>7. SendOK /\ AbsenceOK
  BY <1>3, <1>4 DEF SendOK, AbsenceOK, Init, NoRecord
<1>8. ChainOK
  <2>1. Genesis \in Blocks /\ Genesis.lane = 0 /\ Genesis.op = "none"
    BY RevocationAssumption DEF Genesis, Blocks
  <2>2. chain \in Seq(Blocks) /\ Len(chain) = 1 /\ chain[1] = Genesis /\ final = 1
    BY <2>1 DEF Init
  <2>3. Len(chain) <= MaxBlocks /\ final \in 1 .. Len(chain)
        /\ \A i \in 1 .. Len(chain) : chain[i].lane < i /\ chain[i].op = "none"
    BY <2>1, <2>2, RevocationAssumption
  <2> QED BY Zenon, <2>2, <2>3 DEF ChainOK
<1> QED BY Zenon, <1>2, <1>5, <1>6, <1>7, <1>8 DEF IInv

LEMMA NextIInv == IInv /\ [Next]_vars => IInv'
<1> SUFFICES ASSUME IInv, [Next]_vars PROVE IInv'
  BY Zenon
<1>1. ASSUME NEW h \in Handlers,
             \/ prepare_revocation(h) \/ reserve(h) \/ estimate(h) \/ prepared(h)
             \/ sign_revocation(h) \/ send(h) \/ rejected(h)
             \/ \E choice \in BOOLEAN : signed(h, choice)
             \/ revocation_status(h) \/ observe(h) \/ receipt(h) \/ outcome(h)
             \/ finality(h) \/ finish(h)
             \/ Stop(h)
      PROVE  IInv'
  BY Zenon, <1>1, PrepareKeeps, ReserveKeeps, EstimateKeeps, PreparedKeeps, SignKeeps, SendKeeps,
     RejectedKeeps, SignedKeeps, StatusKeeps, ObserveKeeps, ReceiptKeeps, OutcomeKeeps,
     FinalityKeeps, FinishKeeps, StopKeeps
<1>2. CASE DappSubmits
  BY Zenon, <1>2, DappKeeps
<1>3. CASE Mine \/ Finalize \/ Reorganise
  BY Zenon, <1>3, MineKeeps, FinalizeKeeps, ReorganiseKeeps
<1>4. CASE UNCHANGED vars
  <2>1. UNCHANGED <<record, calls, asked, sends>> /\ pooled' = pooled
        /\ chain' = chain /\ final' = final
    BY Zenon, <1>4 DEF vars
  <2>2. ChainOK' /\ final' >= final /\ (\A i \in 1 .. final : chain'[i] = chain[i])
        /\ pooled' \in BOOLEAN
    BY <2>1 DEF IInv, ChainOK, RecordOK
  <2> QED BY Zenon, <2>1, <2>2, ChainMoveKeeps
<1> QED BY Zenon, <1>1, <1>2, <1>3, <1>4 DEF Next

\* The record and all that the handlers know of it keep the shape that
\* RevocationRecord::parse requires, and the chain its own.
THEOREM RevocationTypeCorrect == Spec => []TypeOK
<1>1. IInv => TypeOK
  <2> SUFFICES ASSUME IInv PROVE TypeOK
    BY Zenon
  <2>1. /\ record \in Records /\ pooled \in BOOLEAN
        /\ record.signed => record.request # NoRequest
        /\ record.submitted => record.signed
        /\ record.signed => record.submitted \/ Delivery = "dapp"
        /\ record.outcome # "none" => record.signed
    BY Zenon DEF IInv, RecordOK, ValidRec
  <2>2. chain \in Seq(Blocks) /\ final \in 1 .. Len(chain) /\ asked \in Nat /\ sends \in Nat
    BY DEF IInv, ChainOK, BudgetOK, SendOK
  <2>3. \A h \in Handlers : calls[h].rec \in Records
    BY Zenon, Known
  <2> QED BY Zenon, <2>1, <2>2, <2>3 DEF TypeOK
<1> QED BY <1>1, InitIInv, NextIInv, PTL DEF Spec

\* No request leaves for the bundler that the record has not spent, for any
\* number of handlers that race or stop half-way (spend, save).
THEOREM RevocationAskedIsSpent == Spec => []AskedIsSpent
<1>1. IInv => AskedIsSpent
  <2> SUFFICES ASSUME IInv PROVE AskedIsSpent
    BY Zenon
  <2>1. asked \in Nat /\ IsFiniteSet(Tokens) /\ asked + Cardinality(Tokens) <= record.spent
        /\ record.spent \in Nat
    BY RevocationAssumption DEF IInv, BudgetOK, RecordOK, Records
  <2>2. Cardinality(Tokens) \in Nat
    BY Zenon, <2>1, FS_CardinalityType
  <2> QED BY <2>1, <2>2 DEF AskedIsSpent
<1> QED BY <1>1, InitIInv, NextIInv, PTL DEF Spec

\* The signed operation leaves at most once, after its submission is on
\* record (sign_revocation).
THEOREM RevocationSubmittedOnce == Spec => []SubmittedOnce
<1>1. IInv => SubmittedOnce
  BY DEF IInv, SendOK, SubmittedOnce
<1> QED BY <1>1, InitIInv, NextIInv, PTL DEF Spec

\* A finalized revocation has a final block, no earlier than its receipt's,
\* in which the permission was absent, however the blocks that were not final
\* were replaced (finalized_permission).
THEOREM RevocationFinalizedWasAbsent == Spec => []FinalizedWasAbsent
<1>1. IInv => FinalizedWasAbsent
  <2> SUFFICES ASSUME IInv, record.outcome = "finalized"
               PROVE  \E b \in record.block .. final : ~chain[b].installed
    BY Zenon DEF FinalizedWasAbsent
  <2>1. record.block \in Nat /\ final \in Nat
    BY RevocationAssumption DEF IInv, RecordOK, Records, ChainOK
  <2>2. PICK b \in 1 .. final : record.block <= b /\ ~chain[b].installed
    BY Zenon DEF IInv, AbsenceOK, AbsentSince
  <2> QED BY <2>1, <2>2
<1> QED BY <1>1, InitIInv, NextIInv, PTL DEF Spec

\* What a step may not do to a signed record.
Frozen ==
    record.signed =>
        /\ record'.signed /\ record'.request = record.request
        /\ record'.action = record.action
        /\ record.submitted => record'.submitted
        /\ record.outcome # "none" =>
              record'.outcome \in {record.outcome} \cup
                  (IF record.outcome = "included" THEN {"finalized"} ELSE {})

LEMMA UnchangedIsFrozen == record' = record => Frozen
BY Zenon DEF Frozen

\* A swap that goes through is one of the record as it is.
LEMMA SwapIsOfRecord ==
    ASSUME IInv, NEW h \in Handlers, calls[h].at \notin {"idle", "outcome"}, NEW rec, NEW at,
           rec.revision = calls[h].rec.revision + 1, save(h, rec, at)
    PROVE  record' = record \/ (record' = rec /\ calls[h].rec = record)
<1>1. CASE record.revision = rec.revision - 1
  <2>1. calls[h].rec.revision \in Nat
    BY Zenon, Known DEF Records
  <2> QED BY <1>1, <2>1, Known DEF save
<1>2. CASE record.revision # rec.revision - 1
  BY Zenon, <1>2 DEF save
<1> QED BY Zenon, <1>1, <1>2

LEMMA HandlerIsFrozen ==
    ASSUME IInv, NEW h \in Handlers,
           \/ reserve(h) \/ prepared(h) \/ rejected(h) \/ observe(h) \/ outcome(h) \/ finish(h)
           \/ \E choice \in BOOLEAN : signed(h, choice)
    PROVE  Frozen
<1>1. /\ calls[h].rec \in Records /\ record \in Records /\ PhaseOK(calls[h])
      /\ calls[h].rec.revision \in Nat
  BY Zenon, Known DEF Records
<1>2. CASE reserve(h)
  <2> DEFINE rec == [spend(calls[h].rec, 2) EXCEPT !.action = calls[h].request.action]
  <2>1. calls[h].at = "reserve" /\ ~calls[h].rec.signed
    BY Zenon, <1>1, <1>2 DEF reserve, PhaseOK
  <2>2. rec.revision = calls[h].rec.revision + 1
    BY Zenon, <1>1 DEF spend, nextRevision, Records
  <2>3. record' = record \/ record.revision = rec.revision - 1
    BY Zenon, <1>2 DEF reserve
  <2>4. record' = record \/ calls[h].rec = record
    BY <1>1, <2>1, <2>2, <2>3, Known DEF Records
  <2> QED BY Zenon, <2>1, <2>4, UnchangedIsFrozen DEF Frozen
<1>3. CASE prepared(h)
  <2> DEFINE rec == [nextRevision(calls[h].rec) EXCEPT !.request = calls[h].request]
  <2>1. calls[h].at = "prepared" /\ ~calls[h].rec.signed /\ save(h, rec, "idle")
    BY Zenon, <1>1, <1>3 DEF prepared, PhaseOK
  <2>2. rec.revision = calls[h].rec.revision + 1
    BY Zenon, <1>1 DEF nextRevision, Records
  <2> HIDE DEF rec
  <2>3. record' = record \/ calls[h].rec = record
    BY Zenon, <2>1, <2>2, SwapIsOfRecord
  <2> QED BY Zenon, <2>1, <2>3, UnchangedIsFrozen DEF Frozen
<1>4. CASE \E choice \in BOOLEAN : signed(h, choice)
  <2>1. PICK choice \in BOOLEAN : signed(h, choice)
    BY Zenon, <1>4
  <2> DEFINE relay == Delivery = "relay" \/ choice
             at    == IF relay THEN "send" ELSE "idle"
             rec   == [spend(calls[h].rec, IF relay THEN 1 ELSE 0)
                          EXCEPT !.signed = TRUE, !.submitted = relay]
  <2>2. calls[h].at = "sign" /\ ~calls[h].rec.signed /\ save(h, rec, at)
    BY Zenon, <1>1, <2>1 DEF signed, PhaseOK
  <2>3. rec.revision = calls[h].rec.revision + 1
    BY Zenon, <1>1 DEF spend, nextRevision, Records
  <2> HIDE DEF rec, at
  <2>4. record' = record \/ calls[h].rec = record
    BY Zenon, <2>2, <2>3, SwapIsOfRecord
  <2> QED BY Zenon, <2>2, <2>4, UnchangedIsFrozen DEF Frozen
<1>5. CASE rejected(h)
  <2> DEFINE rec == [nextRevision(calls[h].rec) EXCEPT !.outcome = "rejected"]
  <2>1. calls[h].at = "rejected" /\ calls[h].rec.outcome = "none" /\ save(h, rec, "idle")
    BY Zenon, <1>1, <1>5 DEF rejected, PhaseOK
  <2>2. /\ rec.revision = calls[h].rec.revision + 1
        /\ rec.signed = calls[h].rec.signed /\ rec.request = calls[h].rec.request
        /\ rec.action = calls[h].rec.action /\ rec.submitted = calls[h].rec.submitted
    BY Zenon, <1>1 DEF nextRevision, Records
  <2> HIDE DEF rec
  <2>3. record' = record \/ (record' = rec /\ calls[h].rec = record)
    BY Zenon, <2>1, <2>2, SwapIsOfRecord
  <2> QED BY Zenon, <2>1, <2>2, <2>3, UnchangedIsFrozen DEF Frozen
<1>6. CASE observe(h)
  <2> DEFINE rec == spend(calls[h].rec, 1)
  <2>1. calls[h].at = "observe" /\ (record' = record \/ save(h, rec, "receipt"))
    BY Zenon, <1>6 DEF observe
  <2>2. /\ rec.revision = calls[h].rec.revision + 1 /\ rec.outcome = calls[h].rec.outcome
        /\ rec.signed = calls[h].rec.signed /\ rec.request = calls[h].rec.request
        /\ rec.action = calls[h].rec.action /\ rec.submitted = calls[h].rec.submitted
    BY Zenon, <1>1 DEF nextRevision, spend, Records
  <2> HIDE DEF rec
  <2>3. record' = record \/ (record' = rec /\ calls[h].rec = record)
    BY Zenon, <2>1, <2>2, SwapIsOfRecord
  <2> QED BY Zenon, <2>2, <2>3, UnchangedIsFrozen DEF Frozen
<1>7. CASE outcome(h)
  <2> DEFINE rec == calls[h].rec
  <2>1. calls[h].at = "outcome" /\ rec.outcome \in {"included", "failed"} /\ rec.block \in 0 .. MaxBlocks
    BY Zenon, <1>1, <1>7 DEF outcome, PhaseOK, Records
  <2>2. CASE record.revision = rec.revision - 1
    <3>1. rec.revision = record.revision + 1
      BY <1>1, <2>2 DEF Records
    <3>2. rec = WithReceipt(record, rec.outcome, rec.block) /\ record.outcome = "none"
      BY Zenon, <2>1, <3>1 DEF IInv, CallsOK, Fresh
    <3>3. record' = rec
      BY Zenon, <1>7, <2>2 DEF outcome, save
    <3> HIDE DEF rec
    <3>4. LET w == WithReceipt(record, rec.outcome, rec.block)
          IN  /\ w.signed = record.signed /\ w.request = record.request
              /\ w.action = record.action /\ w.submitted = record.submitted
      BY <1>1, <2>1, WithReceiptType
    <3> QED BY Zenon, <3>2, <3>3, <3>4 DEF Frozen
  <2>3. CASE record.revision # rec.revision - 1
    BY Zenon, <1>7, <2>3, UnchangedIsFrozen DEF outcome, save
  <2> QED BY Zenon, <2>2, <2>3
<1>8. CASE finish(h)
  <2> DEFINE rec == [nextRevision(calls[h].rec) EXCEPT !.outcome = "finalized"]
  <2>1. calls[h].at = "finish" /\ calls[h].rec.outcome = "included" /\ save(h, rec, "idle")
    BY Zenon, <1>1, <1>8 DEF finish, PhaseOK
  <2>2. /\ rec.revision = calls[h].rec.revision + 1 /\ rec.outcome = "finalized"
        /\ rec.signed = calls[h].rec.signed /\ rec.request = calls[h].rec.request
        /\ rec.action = calls[h].rec.action /\ rec.submitted = calls[h].rec.submitted
    BY Zenon, <1>1 DEF nextRevision, Records
  <2> HIDE DEF rec
  <2>3. record' = record \/ (record' = rec /\ calls[h].rec = record)
    BY Zenon, <2>1, <2>2, SwapIsOfRecord
  <2> QED BY Zenon, <2>1, <2>2, <2>3, UnchangedIsFrozen DEF Frozen
<1> QED BY Zenon, <1>2, <1>3, <1>4, <1>5, <1>6, <1>7, <1>8

\* What is signed stays as it was signed, a submission is never taken back,
\* and an outcome other than inclusion is terminal, for every schedule of
\* handlers whose knowledge of the record may be stale (save).
THEOREM RevocationSignedIsFrozen == Spec => SignedIsFrozen
<1>1. IInv /\ Next => Frozen
  <2> SUFFICES ASSUME IInv, Next PROVE Frozen
    BY Zenon
  <2>1. CASE record' = record
    BY Zenon, <2>1, UnchangedIsFrozen
  <2>2. CASE \E h \in Handlers :
                \/ reserve(h) \/ prepared(h) \/ rejected(h) \/ observe(h) \/ outcome(h) \/ finish(h)
                \/ \E choice \in BOOLEAN : signed(h, choice)
    BY Zenon, <2>2, HandlerIsFrozen
  <2> QED BY Zenon, <2>1, <2>2 DEF Next, prepare_revocation, estimate, sign_revocation, send,
             revocation_status, receipt, finality, Stop, DappSubmits, Mine, Finalize, Reorganise
<1>2. IInv /\ [Next]_vars => [Frozen]_vars
  BY Zenon, <1>1
<1>3. Spec => [][Frozen]_vars
  BY <1>2, InitIInv, NextIInv, PTL DEF Spec
<1> QED BY Zenon, <1>3 DEF SignedIsFrozen, Frozen
=============================================================================
