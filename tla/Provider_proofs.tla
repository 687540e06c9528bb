--------------------------- MODULE Provider_proofs ---------------------------
(***************************************************************************)
(* Proofs about Provider, for any number of callers, bundles, calls and    *)
(* nonces, and any lease and lifetimes.                                    *)
(*                                                                         *)
(* The three stores hang together through the bundle: an operation that is *)
(* journaled belongs to the bundle that names it (JournalOK), one that was *)
(* attempted belongs to a bundle that was bound first, and the bundle of a *)
(* context exists only once the context was consumed (BundleOK).  A caller *)
(* knows only facts that the other callers cannot take back (CallOK); what *)
(* they could take back is kept by two exclusions: one start per bundle,   *)
(* and one submission per operation (CallsOK).                             *)
(***************************************************************************)
EXTENDS Provider, TLAPS


StartPcs == {"confirm", "undo", "lane", "prepare", "publish", "authorize", "bind", "abandon",
             "attempt", "send", "reject", "release", "finish"}

ResumePcs == {"recall", "validate", "consume", "bundle", "lane", "prepare", "publish",
              "authorize", "bind", "abandon", "attempt", "send", "reject", "release",
              "converge", "finish"}

StatusPcs == {"recover", "abandonPrepared", "recheck", "conclude", "observe", "settle"}

Founds == {"none", "observable", "request_conflict"} \cup JournalStates

JournalRecords == [state : JournalStates, owner : Ids \cup {None}]

LaneRecords == [hash : Hashes \cup {None}, state : JournalStates, owner : Ids \cup {None}]

CallRecords ==
    [pc : {"idle"} \cup StartPcs \cup ResumePcs \cup StatusPcs,
     kind : {"none", "start", "resume", "status"}, id : Ids \cup {None},
     calls : Calls \cup {None}, hash : Hashes \cup {None}, rec : BundleRecords \cup {Absent},
     lane : LaneRecords \cup {Absent}, ctx : ContextRecords \cup {Absent}, at : 0 .. MaxNow,
     found : Founds, retried : BOOLEAN]

\* The record r of bundle b, and the record x of its context if it has one.
BundleOK(b, r, x) ==
    /\ r \in BundleRecords \cup {Absent}
    /\ r # Absent => Readable(r)
    /\ r # Absent /\ b \in Contexts => x # Absent /\ x.state = "consumed" /\ r.op \in {None, x.op}

ContextOK(x) == x \in ContextRecords \cup {Absent} /\ (x # Absent => ContextReadable(x))

\* The submission of an operation in these states was attempted.
Attempted == {"attempted", "finalized", "superseded", "dropped"}

Ended == {"abandoned", "finalized", "superseded", "dropped"}

\* The record j of operation h; r is the record of the bundle that owns it, n
\* the nonce.
JournalOK(h, j, r, sends, runs, n) ==
    /\ j \in JournalRecords
    /\ j.state = "absent" => j.owner = None
    /\ j.state # "absent" => j.owner \in Ids /\ r # Absent /\ r.op = h
    /\ j.state \in Attempted => Origin(r) = "operation_bound"
    /\ h \in sends => j.state \in Attempted
    /\ j.state = "finalized" => h \in runs
    /\ j.state \in {"superseded", "dropped"} => h \notin runs /\ h[2] < n

\* The bundle b with record r has failed for ever; j is the journal.
FailedOK(b, r, j) ==
    /\ r # Absent
    /\ \/ r.state = "terminal" /\ (r.op = None \/ r.terminalFrom = "operation_reserved")
       \/ /\ r.op # None
          /\ \/ j[r.op].state # "absent" /\ j[r.op].owner # b
             \/ j[r.op].state \in {"abandoned", "superseded", "dropped"}

ReturnOK(b, r, j) ==
    /\ r # Absent /\ r.released /\ r.op # None
    /\ j[r.op].owner = b /\ j[r.op].state \notin {"absent", "prepared"}

Sending == {"send", "reject"}

\* The operation of the call was published, and is not a mere reservation.
Advanced(c, j) == j.owner = c.id /\ j.state \notin {"absent", "prepared"}

\* What a caller knows of its bundle r, its context x and its operation j.
CallOK(c, r, x, j) ==
    /\ c \in CallRecords
    /\ c.kind = "none" => c.pc = "idle"
    /\ c.kind = "start" => /\ c.pc \in StartPcs /\ c.id \in SendIds /\ c.calls \in Calls
                           /\ c.rec # Absent /\ r # Absent
    /\ c.kind = "resume" => /\ c.pc \in ResumePcs /\ c.id \in Contexts
                            /\ x # Absent /\ c.hash = x.op /\ c.hash # None
    /\ c.kind = "status" => /\ c.pc \in StatusPcs /\ c.id \in Ids /\ c.rec # Absent
                            /\ r # Absent /\ r.op # None /\ c.hash = r.op
    /\ c.pc \in {"recall", "validate", "consume", "bundle"} =>
          /\ c.ctx # Absent /\ c.ctx.state \in {"prepared", "consumed"}
          /\ c.ctx.state = "consumed" => x.state = "consumed" /\ c.ctx.lease # Never
          /\ c.pc \in {"recall", "bundle"} => c.ctx.state = "consumed"
    /\ c.pc \in {"recall", "validate", "consume"} => c.at + Lease <= MaxNow /\ c.found = "none"
    /\ c.kind = "resume" /\ c.pc \in {"lane", "prepare"} => r # Absent
    /\ c.pc \in {"prepare", "publish"} => c.lane # Absent
    /\ c.pc = "prepare" /\ Occupied(c.lane) =>
          c.lane = [hash |-> c.hash, state |-> "prepared", owner |-> c.id]
    /\ c.pc \in {"publish", "authorize", "bind", "abandon", "attempt", "send", "reject",
                 "release", "converge", "finish"} => r # Absent /\ c.hash # None /\ r.op = c.hash
    /\ c.pc \in {"authorize", "bind", "abandon", "attempt"} =>
          c.lane = [hash |-> c.hash, state |-> "prepared", owner |-> c.id]
    /\ c.pc \in Sending => c.lane = [hash |-> c.hash, state |-> "attempted", owner |-> c.id]
    /\ c.pc \in {"attempt", "send", "reject"} => Origin(r) = "operation_bound"
    /\ c.pc \in {"send", "reject", "converge", "finish", "observe", "settle"} => Advanced(c, j)
    /\ c.pc \in {"bundle", "conclude"} /\ c.found = "observable" => Advanced(c, j)
    /\ c.pc = "conclude" /\ c.found = "abandoned" => j.state = "abandoned"
    /\ c.pc = "conclude" /\ c.found = "request_conflict" => j.state # "absent" /\ j.owner # c.id
    /\ c.pc = "settle" /\ c.found \in Ended => j.state = c.found

BundlesOK ==
    /\ bundles \in [Ids -> BundleRecords \cup {Absent}]
    /\ contexts \in [Contexts -> ContextRecords \cup {Absent}]
    /\ \A b \in Ids : BundleOK(b, bundles[b], contexts[b])
    /\ \A c \in Contexts : ContextOK(contexts[c])

JournalsOK ==
    /\ journal \in [Hashes -> JournalRecords]
    /\ \A h \in Hashes : JournalOK(h, journal[h], bundles[journal[h].owner], sent, executed, nonce)
    /\ lane \in Hashes \cup {None}
    /\ lane # None => journal[lane].state # "absent"
    /\ sent \subseteq Hashes /\ executed \subseteq sent
    /\ nonce \in 0 .. MaxSeq + 1 /\ now \in 0 .. MaxNow

AnswersOK ==
    /\ answer \in [Ids -> {"none", "failed", "done"}]
    /\ \A b \in Ids :
         /\ answer[b] = "failed" => FailedOK(b, bundles[b], journal)
         /\ answer[b] = "done" => \E h \in executed : journal[h].owner = b

ReturnsOK == returned \subseteq Ids /\ \A b \in returned : ReturnOK(b, bundles[b], journal)

\* Nothing of the operation has reached the bundler, and it is not given up.
Unsent(c) == c.hash \notin sent /\ journal[c.hash].state \in {"attempted", "superseded", "dropped"}

CallsOK ==
    /\ DOMAIN call = Callers
    /\ \A p \in Callers :
         /\ CallOK(call[p], bundles[call[p].id], contexts[call[p].id], journal[call[p].hash])
         /\ call[p].kind = "start" => ~bundles[call[p].id].released
         /\ call[p].pc \in Sending => Unsent(call[p])
    /\ \A p, q \in Callers :
         /\ call[p].kind = "start" /\ call[q].kind = "start" /\ call[p].id = call[q].id => p = q
         /\ call[p].pc \in Sending /\ call[q].pc \in Sending /\ call[p].hash = call[q].hash => p = q

IInv == BundlesOK /\ JournalsOK /\ AnswersOK /\ ReturnsOK /\ CallsOK
-----------------------------------------------------------------------------
(***************************************************************************)
(* Bundle records.                                                         *)
(***************************************************************************)

\* The writes of the bundle store, each from the state it is fenced by.
Moves(r, q) ==
    \/ /\ r.state = "confirmation_pending"
       /\ \E at \in Nat : at + Lease <= MaxNow /\ q = approveConfirmation(r, at)
    \/ r.state = "accepted" /\ \E h \in Hashes : q = reserveOperation(r, h)
    \/ r.state = "operation_reserved" /\ q = confirmOperationPublished(r)
    \/ r.state = "operation_bound" /\ ~r.released /\ q = releaseOperationPublication(r)
    \/ r.state \in OpenStates /\ q = markTerminal(r)

\* What a record that is there cannot lose.
Grows(r, q) ==
    /\ q # Absent
    /\ r.op # None => q.op = r.op
    /\ Origin(r) = "operation_bound" => Origin(q) = "operation_bound"
    /\ r.state = "terminal" => q = r
    /\ r.released => q.released

LEMMA NotAbsent == \A r \in BundleRecords : r # Absent /\ r.state # "absent"
BY DEF BundleRecords, Absent, OpenStates

LEMMA RequiredIs ==
    ASSUME NEW r \in BundleRecords
    PROVE  \A release, approval :
              /\ release = (IF r.released THEN 1 ELSE 0)
              /\ approval = (IF r.confirmBy = Never THEN 0 ELSE 1)
              => /\ r.state = "confirmation_pending" => requiredStoreRevision(r) = 0
                 /\ r.state = "accepted" => requiredStoreRevision(r) = approval
                 /\ r.state = "operation_reserved" => requiredStoreRevision(r) = approval + 1
                 /\ r.state = "operation_bound" => requiredStoreRevision(r) = approval + 2 + release
                 /\ r.state = "terminal" =>
                       /\ r.terminalFrom = "confirmation_pending" => requiredStoreRevision(r) = 1
                       /\ r.terminalFrom = "accepted" => requiredStoreRevision(r) = approval + 1
                       /\ r.terminalFrom = "operation_reserved" =>
                             requiredStoreRevision(r) = approval + 2
                       /\ r.terminalFrom = "operation_bound" =>
                             requiredStoreRevision(r) = approval + 3 + release
BY DEF requiredStoreRevision, Origin

LEMMA MovedIs ==
    ASSUME NEW r \in BundleRecords, r.rev \in 0 .. 4
    PROVE  /\ Moved(r) \in BundleRecords /\ Moved(r).rev = r.rev + 1
           /\ Moved(r).state = r.state /\ Moved(r).terminalFrom = r.terminalFrom
           /\ Moved(r).op = r.op /\ Moved(r).confirmBy = r.confirmBy /\ Moved(r).lease = r.lease
           /\ Moved(r).released = r.released
BY DEF Moved, BundleRecords

LEMMA MovesOK ==
    ASSUME NEW r \in BundleRecords, Readable(r), NEW q, Moves(r, q)
    PROVE  q \in BundleRecords /\ Readable(q) /\ Grows(r, q) /\ requireCompatibleHistory(r, q)
<1>1. Never \in Nat /\ MaxNow < Never /\ MaxNow \in Nat /\ Lease \in Nat
  BY TimesAssumption DEF Never
<1>2. PICK release, approval : /\ release = (IF r.released THEN 1 ELSE 0)
                               /\ approval = (IF r.confirmBy = Never THEN 0 ELSE 1)
  BY Zenon
<1>3. release \in {0, 1} /\ approval \in {0, 1}
  BY Zenon, <1>2
<1>4. CASE r.state = "confirmation_pending" /\ \E at \in Nat : at + Lease <= MaxNow /\ q = approveConfirmation(r, at)
  <2>1. PICK at \in Nat : at + Lease <= MaxNow /\ q = approveConfirmation(r, at)
    BY Zenon, <1>4
  <2>2. r.rev = 0 /\ r.terminalFrom = "none" /\ r.lease = Never /\ r.op = None /\ ~r.released /\ r.confirmBy # Never
    BY Zenon, <1>2, <1>4, RequiredIs DEF Readable, parseWalletCallBundleRecord, Origin, BundleRecords
  <2>3. /\ q \in BundleRecords
        /\ q.state = "accepted" /\ q.rev = 1 /\ q.terminalFrom = "none" /\ q.op = None
        /\ q.confirmBy = r.confirmBy /\ q.lease # Never /\ ~q.released
    <3>1. PICK m \in BundleRecords :
             /\ m = Moved(r) /\ m.rev = 1 /\ m.terminalFrom = "none" /\ m.op = None
             /\ m.confirmBy = r.confirmBy /\ ~m.released
      BY <2>2, MovedIs
    <3>2. at + Lease \in Times /\ at + Lease # Never
      BY <1>1, <2>1 DEF Times
    <3>3. q = [m EXCEPT !.state = "accepted", !.lease = at + Lease]
      BY Zenon, <2>1, <3>1 DEF approveConfirmation
    <3>4. q \in BundleRecords
      BY Zenon, <3>2, <3>3 DEF BundleRecords, OpenStates
    <3> QED BY <3>1, <3>2, <3>3, <3>4 DEF BundleRecords
  <2>4. requiredStoreRevision(q) = 1
    BY <2>2, <2>3, RequiredIs
  <2>5. Readable(q)
    BY Zenon, <2>2, <2>3, <2>4 DEF Readable, parseWalletCallBundleRecord, Origin
  <2>6. Grows(r, q)
    BY Zenon, <1>4, <2>2, <2>3, NotAbsent DEF Grows, Origin
  <2>7. requireCompatibleHistory(r, q)
    BY <1>4, <2>2, <2>3 DEF requireCompatibleHistory, stateRank
  <2> QED BY Zenon, <2>3, <2>5, <2>6, <2>7
<1>5. CASE r.state = "accepted" /\ \E h \in Hashes : q = reserveOperation(r, h)
  <2>1. PICK h \in Hashes : q = reserveOperation(r, h)
    BY Zenon, <1>5
  <2>2. r.rev = approval /\ r.terminalFrom = "none" /\ r.lease # Never /\ r.op = None /\ ~r.released
    BY <1>2, <1>5, RequiredIs DEF Readable, parseWalletCallBundleRecord, Origin, BundleRecords
  <2>3. /\ q \in BundleRecords
        /\ q.state = "operation_reserved" /\ q.rev = approval + 1 /\ q.terminalFrom = "none" /\ q.op = h
        /\ q.confirmBy = r.confirmBy /\ q.lease = r.lease /\ ~q.released
    <3>1. PICK m \in BundleRecords :
             /\ m = Moved(r) /\ m.rev = approval + 1 /\ m.terminalFrom = "none" /\ m.lease = r.lease
             /\ m.confirmBy = r.confirmBy /\ ~m.released
      BY <1>3, <2>2, MovedIs
    <3>2. q = [m EXCEPT !.state = "operation_reserved", !.op = h]
      BY Zenon, <2>1, <3>1 DEF reserveOperation
    <3>3. q \in BundleRecords
      BY Zenon, <3>2 DEF BundleRecords, OpenStates
    <3> QED BY <3>1, <3>2, <3>3 DEF BundleRecords
  <2>4. requiredStoreRevision(q) = approval + 1
    BY <1>2, <2>3, RequiredIs
  <2>5. h # None
    BY Zenon, NoneAssumption
  <2>6. Readable(q)
    BY Zenon, <2>2, <2>3, <2>4, <2>5 DEF Readable, parseWalletCallBundleRecord, Origin
  <2>7. Grows(r, q)
    BY Zenon, <1>5, <2>2, <2>3, NotAbsent DEF Grows, Origin
  <2>8. requireCompatibleHistory(r, q)
    BY <1>5, <2>2, <2>3 DEF requireCompatibleHistory, stateRank
  <2> QED BY Zenon, <2>3, <2>6, <2>7, <2>8
<1>6. CASE r.state = "operation_reserved" /\ q = confirmOperationPublished(r)
  <2>1. r.rev = approval + 1 /\ r.terminalFrom = "none" /\ r.lease # Never /\ r.op # None /\ ~r.released
    BY <1>2, <1>6, RequiredIs DEF Readable, parseWalletCallBundleRecord, Origin, BundleRecords
  <2>2. /\ q \in BundleRecords
        /\ q.state = "operation_bound" /\ q.rev = approval + 2 /\ q.terminalFrom = "none" /\ q.op = r.op
        /\ q.confirmBy = r.confirmBy /\ q.lease = r.lease /\ ~q.released
    BY <1>3, <1>6, <2>1, MovedIs DEF confirmOperationPublished, BundleRecords, OpenStates
  <2>3. requiredStoreRevision(q) = approval + 2
    BY <1>2, <1>3, <2>2, RequiredIs
  <2>4. Readable(q)
    BY Zenon, <2>1, <2>2, <2>3 DEF Readable, parseWalletCallBundleRecord, Origin
  <2>5. Grows(r, q)
    BY Zenon, <1>6, <2>1, <2>2, NotAbsent DEF Grows, Origin
  <2>6. requireCompatibleHistory(r, q)
    BY <1>6, <2>1, <2>2 DEF requireCompatibleHistory, stateRank
  <2> QED BY Zenon, <2>2, <2>4, <2>5, <2>6
<1>7. CASE r.state = "operation_bound" /\ ~r.released /\ q = releaseOperationPublication(r)
  <2>1. r.rev = approval + 2 /\ r.terminalFrom = "none" /\ r.lease # Never /\ r.op # None
    BY <1>2, <1>3, <1>7, RequiredIs DEF Readable, parseWalletCallBundleRecord, Origin, BundleRecords
  <2>2. /\ q \in BundleRecords
        /\ q.state = "operation_bound" /\ q.rev = approval + 3 /\ q.terminalFrom = "none" /\ q.op = r.op
        /\ q.confirmBy = r.confirmBy /\ q.lease = r.lease /\ q.released
    <3>1. PICK m \in BundleRecords :
             /\ m = Moved(r) /\ m.rev = approval + 3 /\ m.terminalFrom = "none" /\ m.lease = r.lease
             /\ m.state = r.state /\ m.confirmBy = r.confirmBy /\ m.op = r.op
      BY <1>3, <2>1, MovedIs
    <3>2. q = [m EXCEPT !.released = TRUE]
      BY Zenon, <1>7, <3>1 DEF releaseOperationPublication
    <3>3. q \in BundleRecords
      BY Zenon, <3>2 DEF BundleRecords
    <3> QED BY <1>7, <3>1, <3>2, <3>3 DEF BundleRecords
  <2>3. requiredStoreRevision(q) = approval + 3
    BY <1>2, <1>3, <2>2, RequiredIs
  <2>4. Readable(q)
    BY Zenon, <2>1, <2>2, <2>3 DEF Readable, parseWalletCallBundleRecord, Origin
  <2>5. Grows(r, q)
    BY Zenon, <1>7, <2>1, <2>2, NotAbsent DEF Grows, Origin
  <2>6. requireCompatibleHistory(r, q)
    BY <1>7, <2>1, <2>2 DEF requireCompatibleHistory, stateRank
  <2> QED BY Zenon, <2>2, <2>4, <2>5, <2>6
<1>8. CASE r.state \in OpenStates /\ q = markTerminal(r)
  <2>1. r.rev = requiredStoreRevision(r) /\ r.terminalFrom = "none" /\ r.rev \in 0 .. 4
    BY <1>2, <1>3, <1>8, RequiredIs
       DEF Readable, parseWalletCallBundleRecord, Origin, BundleRecords, OpenStates
  <2>2. /\ q \in BundleRecords
        /\ q.state = "terminal" /\ q.rev = r.rev + 1 /\ q.terminalFrom = r.state /\ q.op = r.op
        /\ q.confirmBy = r.confirmBy /\ q.lease = r.lease /\ q.released = r.released
    BY Zenon, <1>8, <2>1, MovedIs DEF markTerminal, BundleRecords
  <2>3. requiredStoreRevision(q) = requiredStoreRevision(r) + 1
    BY <1>2, <1>3, <1>8, <2>2, RequiredIs DEF OpenStates
  <2>4. Origin(q) = Origin(r)
    BY Zenon, <1>8, <2>2 DEF Origin, OpenStates
  <2>5. Readable(q)
    BY <1>8, <2>1, <2>2, <2>3, <2>4 DEF Readable, parseWalletCallBundleRecord, OpenStates
  <2>6. Grows(r, q)
    BY Zenon, <1>8, <2>2, <2>4, NotAbsent DEF Grows, OpenStates
  <2>7. requireCompatibleHistory(r, q)
    BY <1>8, <2>1, <2>2, <2>3 DEF requireCompatibleHistory, stateRank, OpenStates
  <2> QED BY Zenon, <2>2, <2>5, <2>6, <2>7
<1> QED BY Zenon, <1>4, <1>5, <1>6, <1>7, <1>8 DEF Moves

LEMMA ReservedIsReadable ==
    /\ \A end \in Times \ {Never} :
          /\ reserveAccepted(end) \in BundleRecords /\ Readable(reserveAccepted(end))
          /\ reserveAccepted(end).op = None /\ ~reserveAccepted(end).released
    /\ \A at \in 0 .. MaxNow : at + Lifetime <= MaxNow =>
          /\ reservePendingConfirmation(at) \in BundleRecords
          /\ Readable(reservePendingConfirmation(at))
          /\ reservePendingConfirmation(at).op = None /\ ~reservePendingConfirmation(at).released
<1>1. Never \in Nat /\ MaxNow < Never /\ MaxNow \in Nat /\ Lease \in Nat /\ Lifetime \in Nat
  BY TimesAssumption DEF Never
<1>2. ASSUME NEW end \in Times \ {Never}
      PROVE  /\ reserveAccepted(end) \in BundleRecords /\ Readable(reserveAccepted(end))
             /\ reserveAccepted(end).op = None /\ ~reserveAccepted(end).released
  <2>1. PICK r : r = reserveAccepted(end)
    BY Zenon
  <2>2. r \in BundleRecords
    BY <1>1, <2>1 DEF reserveAccepted, BundleRecords, OpenStates, Times
  <2>3. /\ r.state = "accepted" /\ r.terminalFrom = "none" /\ r.op = None /\ r.confirmBy = Never
        /\ r.lease # Never /\ ~r.released /\ r.rev = 0
    BY Zenon, <1>1, <2>1 DEF reserveAccepted
  <2>4. requiredStoreRevision(r) = 0
    BY Zenon, <2>2, <2>3, RequiredIs
  <2>5. Readable(r)
    BY Zenon, <2>3, <2>4 DEF Readable, parseWalletCallBundleRecord, Origin
  <2> QED BY Zenon, <2>1, <2>2, <2>3, <2>5
<1>3. ASSUME NEW at \in 0 .. MaxNow, at + Lifetime <= MaxNow
      PROVE  /\ reservePendingConfirmation(at) \in BundleRecords
             /\ Readable(reservePendingConfirmation(at))
             /\ reservePendingConfirmation(at).op = None /\ ~reservePendingConfirmation(at).released
  <2>1. PICK r : r = reservePendingConfirmation(at)
    BY Zenon
  <2>2. r \in BundleRecords
    BY <1>1, <1>3, <2>1 DEF reservePendingConfirmation, BundleRecords, OpenStates, Times
  <2>3. /\ r.state = "confirmation_pending" /\ r.terminalFrom = "none" /\ r.op = None
        /\ r.confirmBy # Never /\ r.lease = Never /\ ~r.released /\ r.rev = 0
    BY <1>1, <1>3, <2>1 DEF reservePendingConfirmation
  <2>4. requiredStoreRevision(r) = 0
    BY Zenon, <2>2, <2>3, RequiredIs
  <2>5. Readable(r)
    BY Zenon, <2>3, <2>4 DEF Readable, parseWalletCallBundleRecord, Origin
  <2> QED BY Zenon, <2>1, <2>2, <2>3, <2>5
<1> QED BY Zenon, <1>2, <1>3

-----------------------------------------------------------------------------
(***************************************************************************)
(* Growth: what no step takes back from the three stores.                  *)
(***************************************************************************)

BundleGrows(r, q) == r # Absent => Grows(r, q) /\ requireCompatibleHistory(r, q)

ContextGrows(x, y) == x # Absent => y # Absent /\ y.op = x.op /\ (x.state = "consumed" => y = x)

JournalGrows(i, j) ==
    /\ i.state # "absent" => j.state # "absent" /\ j.owner = i.owner
    /\ i.state \notin {"absent", "prepared"} => j.state \notin {"absent", "prepared"}
    /\ i.state \in Ended => j = i

LEMMA BundleStays ==
    ASSUME NEW r \in BundleRecords \cup {Absent}, r # Absent => Readable(r)
    PROVE  BundleGrows(r, r)
<1> SUFFICES ASSUME r \in BundleRecords PROVE BundleGrows(r, r)
  BY Zenon DEF BundleGrows
<1>1. PICK n : n = requiredStoreRevision(r)
  BY Zenon
<1>2. stateRank(r.state) \in Nat /\ r.rev \in Nat
  BY DEF stateRank, BundleRecords, OpenStates
<1>3. requireCompatibleHistory(r, r)
  BY <1>2 DEF requireCompatibleHistory
<1> QED BY Zenon, <1>3, NotAbsent DEF BundleGrows, Grows

LEMMA CallStays ==
    ASSUME NEW c, NEW r, NEW q, NEW x, NEW y, NEW i, NEW j,
           CallOK(c, r, x, i),
           c.id \in Ids => BundleGrows(r, q),
           c.id \in Contexts => ContextGrows(x, y),
           c.hash \in Hashes => JournalGrows(i, j)
    PROVE  CallOK(c, q, y, j)
<1>1. c \in CallRecords /\ c.kind \in {"none", "start", "resume", "status"}
  BY Zenon DEF CallOK, CallRecords
<1>2. CASE c.kind = "none"
  <2>1. c.pc = "idle"
    BY Zenon, <1>2 DEF CallOK
  <2> QED BY Zenon, <1>1, <1>2, <2>1 DEF CallOK, Sending
<1>3. CASE c.kind = "start"
  <2>1. c.id \in Ids /\ r # Absent /\ c.pc \in StartPcs
    BY Zenon, <1>3 DEF CallOK, SendIds
  <2>2. q # Absent /\ (r.op # None => q.op = r.op)
        /\ (Origin(r) = "operation_bound" => Origin(q) = "operation_bound")
    BY Zenon, <2>1 DEF BundleGrows, Grows
  <2>3. c.hash \in Hashes \cup {None}
    BY Zenon, <1>1 DEF CallRecords
  <2> QED BY <1>1, <1>3, <2>1, <2>2, <2>3 DEF CallOK, Sending, StartPcs, Advanced, JournalGrows
<1>4. CASE c.kind = "resume"
  <2>1. c.id \in Contexts /\ c.id \in Ids /\ x # Absent /\ c.pc \in ResumePcs
    BY Zenon, <1>4, ProviderAssumption DEF CallOK
  <2>2. y # Absent /\ y.op = x.op /\ (x.state = "consumed" => y.state = "consumed")
    BY Zenon, <2>1 DEF ContextGrows
  <2>3. r # Absent => /\ q # Absent /\ (r.op # None => q.op = r.op)
                      /\ (Origin(r) = "operation_bound" => Origin(q) = "operation_bound")
    BY Zenon, <2>1 DEF BundleGrows, Grows
  <2>4. c.hash \in Hashes \cup {None}
    BY Zenon, <1>1 DEF CallRecords
  <2> QED BY <1>1, <1>4, <2>1, <2>2, <2>3, <2>4 DEF CallOK, Sending, ResumePcs, Advanced, JournalGrows
<1>5. CASE c.kind = "status"
  <2>1. c.id \in Ids /\ r # Absent /\ r.op # None /\ c.hash = r.op /\ c.pc \in StatusPcs
    BY Zenon, <1>5 DEF CallOK
  <2>2. q # Absent /\ q.op = r.op
    BY Zenon, <2>1 DEF BundleGrows, Grows
  <2>3. c.hash \in Hashes
    BY Zenon, <1>1, <2>1 DEF CallRecords
  <2>4. JournalGrows(i, j)
    BY Zenon, <2>3
  <2> QED BY <1>1, <1>5, <2>1, <2>2, <2>4 DEF CallOK, Sending, StatusPcs, Advanced, JournalGrows, Ended
<1> QED BY Zenon, <1>1, <1>2, <1>3, <1>4, <1>5

-----------------------------------------------------------------------------
(***************************************************************************)
(* A step preserves the invariant when it lets the stores grow, gives only *)
(* answers that are final, returns only what was attempted, and takes its  *)
(* caller p to a call c whose knowledge is right.                          *)
(***************************************************************************)

StoresGrow ==
    /\ \A b \in Ids : BundleGrows(bundles[b], bundles'[b])
    /\ \A x \in Contexts : ContextGrows(contexts[x], contexts'[x])
    /\ \A h \in Hashes : JournalGrows(journal[h], journal'[h])

AnswersGrow ==
    /\ answer' \in [Ids -> {"none", "failed", "done"}]
    /\ \A b \in Ids :
         \/ answer'[b] = answer[b]
         \/ answer'[b] = "failed" /\ FailedOK(b, bundles'[b], journal')
         \/ answer'[b] = "done" /\ \E h \in executed' : journal'[h].owner = b

ReturnsGrow ==
    /\ returned' \subseteq Ids
    /\ \A b \in returned' : b \in returned \/ ReturnOK(b, bundles'[b], journal')

\* The callers other than p keep what only they may change.
OthersKeep(p) ==
    \A q \in Callers \ {p} :
       /\ call[q].kind = "start" => ~bundles'[call[q].id].released
       /\ call[q].pc \in Sending =>
            /\ call[q].hash \notin sent'
            /\ journal'[call[q].hash].state \in {"attempted", "superseded", "dropped"}

\* The call c is what p goes on with.
GoesOn(p, c) ==
    /\ call' = [call EXCEPT ![p] = c]
    /\ CallOK(c, bundles'[c.id], contexts'[c.id], journal'[c.hash])
    /\ c.kind = "start" =>
         /\ ~bundles'[c.id].released
         /\ \/ call[p].kind = "start" /\ call[p].id = c.id
            \/ bundles[c.id] = Absent
    /\ c.pc \in Sending =>
         /\ c.hash \notin sent' /\ journal'[c.hash].state \in {"attempted", "superseded", "dropped"}
         /\ \/ call[p].pc \in Sending /\ call[p].hash = c.hash
            \/ journal[c.hash].state = "prepared"

LEMMA AnswersStay ==
    ASSUME IInv, StoresGrow, AnswersGrow, executed \subseteq executed'
    PROVE  AnswersOK'
<1>1. ASSUME NEW b \in Ids, answer'[b] = "failed"
      PROVE  FailedOK(b, bundles'[b], journal')
  <2>1. CASE answer'[b] = answer[b]
    <3>1. PICK r : r = bundles[b]
      BY Zenon
    <3>2. PICK q : q = bundles'[b]
      BY Zenon
    <3>3. FailedOK(b, r, journal) /\ r # Absent
      BY Zenon, <1>1, <2>1, <3>1 DEF IInv, AnswersOK, FailedOK
    <3>4. BundleGrows(r, q) /\ r \in BundleRecords
      BY Zenon, <3>1, <3>2, <3>3 DEF StoresGrow, IInv, BundlesOK
    <3>5. q # Absent /\ (r.op # None => q.op = r.op) /\ (r.state = "terminal" => q = r)
      BY Zenon, <3>3, <3>4 DEF BundleGrows, Grows
    <3>6. r.op # None => r.op \in Hashes
      BY Zenon, <3>4 DEF BundleRecords
    <3>7. r.op # None => JournalGrows(journal[r.op], journal'[r.op])
      BY Zenon, <3>6 DEF StoresGrow
    <3>8. FailedOK(b, q, journal')
      BY Zenon, <3>3, <3>5, <3>7 DEF FailedOK, JournalGrows, Ended
    <3> QED BY Zenon, <3>2, <3>8
  <2> QED BY Zenon, <1>1, <2>1 DEF AnswersGrow
<1>2. ASSUME NEW b \in Ids, answer'[b] = "done"
      PROVE  \E h \in executed' : journal'[h].owner = b
  <2>1. CASE answer'[b] = answer[b]
    <3>1. PICK h \in executed : journal[h].owner = b
      BY Zenon, <1>2, <2>1 DEF IInv, AnswersOK
    <3>2. h \in Hashes /\ journal[h].state \in Attempted
      BY Zenon, <3>1 DEF IInv, JournalsOK, JournalOK
    <3>3. journal'[h].owner = b
      BY Zenon, <3>1, <3>2 DEF StoresGrow, JournalGrows, Attempted
    <3> QED BY Zenon, <3>1, <3>3
  <2> QED BY Zenon, <1>2, <2>1 DEF AnswersGrow
<1> QED BY Zenon, <1>1, <1>2 DEF AnswersOK, AnswersGrow

LEMMA ReturnsStay ==
    ASSUME IInv, StoresGrow, ReturnsGrow
    PROVE  ReturnsOK'
<1>1. ASSUME NEW b \in returned', b \in returned
      PROVE  ReturnOK(b, bundles'[b], journal')
  <2>1. PICK r : r = bundles[b]
    BY Zenon
  <2>2. PICK q : q = bundles'[b]
    BY Zenon
  <2>3. ReturnOK(b, r, journal) /\ r # Absent /\ b \in Ids
    BY Zenon, <1>1, <2>1 DEF IInv, ReturnsOK, ReturnOK
  <2>4. BundleGrows(r, q) /\ r \in BundleRecords
    BY Zenon, <2>1, <2>2, <2>3 DEF StoresGrow, IInv, BundlesOK
  <2>5. r.op \in Hashes
    BY Zenon, <2>3, <2>4 DEF BundleRecords, ReturnOK
  <2>6. JournalGrows(journal[r.op], journal'[r.op])
    BY Zenon, <2>5 DEF StoresGrow
  <2>7. ReturnOK(b, q, journal')
    BY Zenon, <2>3, <2>4, <2>6 DEF ReturnOK, BundleGrows, Grows, JournalGrows
  <2> QED BY Zenon, <2>2, <2>7
<1> QED BY Zenon, <1>1 DEF ReturnsOK, ReturnsGrow

LEMMA CallStands ==
    ASSUME IInv, StoresGrow, NEW q \in Callers
    PROVE  CallOK(call[q], bundles'[call[q].id], contexts'[call[q].id], journal'[call[q].hash])
<1>1. PICK c : c = call[q]
  BY Zenon
<1>2. PICK r, x, i : r = bundles[c.id] /\ x = contexts[c.id] /\ i = journal[c.hash]
  BY Zenon
<1>3. PICK s, y, j : s = bundles'[c.id] /\ y = contexts'[c.id] /\ j = journal'[c.hash]
  BY Zenon
<1>4. CallOK(c, r, x, i)
  BY Zenon, <1>1, <1>2 DEF IInv, CallsOK
<1>5. c.id \in Ids => BundleGrows(r, s)
  BY Zenon, <1>2, <1>3 DEF StoresGrow
<1>6. c.id \in Contexts => ContextGrows(x, y)
  BY Zenon, <1>2, <1>3 DEF StoresGrow
<1>7. c.hash \in Hashes => JournalGrows(i, j)
  BY Zenon, <1>2, <1>3 DEF StoresGrow
<1>8. CallOK(c, s, y, j)
  BY Zenon, <1>4, <1>5, <1>6, <1>7, CallStays
<1> QED BY Zenon, <1>1, <1>3, <1>8

LEMMA CallsStay ==
    ASSUME IInv, StoresGrow, NEW p \in Callers, NEW c, GoesOn(p, c), OthersKeep(p)
    PROVE  CallsOK'
<1>1. DOMAIN call' = Callers /\ call'[p] = c /\ \A q \in Callers \ {p} : call'[q] = call[q]
  BY Zenon DEF GoesOn, IInv, CallsOK
<1>2. ASSUME NEW q \in Callers
      PROVE  /\ CallOK(call'[q], bundles'[call'[q].id], contexts'[call'[q].id], journal'[call'[q].hash])
             /\ call'[q].kind = "start" => ~bundles'[call'[q].id].released
             /\ call'[q].pc \in Sending => Unsent(call[q])'
  <2>1. CASE q = p
    BY Zenon, <1>1, <2>1 DEF GoesOn, Unsent
  <2>2. CASE q # p
    <3>1. call'[q] = call[q]
      BY Zenon, <1>1, <2>2
    <3>2. CallOK(call[q], bundles'[call[q].id], contexts'[call[q].id], journal'[call[q].hash])
      BY Zenon, CallStands
    <3>3. /\ call[q].kind = "start" => ~bundles'[call[q].id].released
          /\ call[q].pc \in Sending =>
               /\ call[q].hash \notin sent'
               /\ journal'[call[q].hash].state \in {"attempted", "superseded", "dropped"}
      BY Zenon, <2>2 DEF OthersKeep
    <3> QED BY Zenon, <3>1, <3>2, <3>3 DEF Unsent
  <2> QED BY Zenon, <2>1, <2>2
<1>3. ASSUME NEW q \in Callers \ {p}, c.kind = "start", call[q].kind = "start", call[q].id = c.id
      PROVE  FALSE
  <2>1. bundles[call[q].id] # Absent
    BY Zenon, <1>3 DEF IInv, CallsOK, CallOK
  <2>2. call[p].kind = "start" /\ call[p].id = c.id
    BY Zenon, <1>3, <2>1 DEF GoesOn
  <2> QED BY Zenon, <1>3, <2>2 DEF IInv, CallsOK
<1>4. ASSUME NEW q \in Callers \ {p}, c.pc \in Sending, call[q].pc \in Sending, call[q].hash = c.hash
      PROVE  FALSE
  <2>1. journal[call[q].hash].state # "prepared"
    BY Zenon, <1>4 DEF IInv, CallsOK, Unsent
  <2>2. call[p].pc \in Sending /\ call[p].hash = c.hash
    BY Zenon, <1>4, <2>1 DEF GoesOn
  <2> QED BY Zenon, <1>4, <2>2 DEF IInv, CallsOK
<1>5. ASSUME NEW q \in Callers, NEW o \in Callers
      PROVE  /\ call'[q].kind = "start" /\ call'[o].kind = "start" /\ call'[q].id = call'[o].id => q = o
             /\ call'[q].pc \in Sending /\ call'[o].pc \in Sending /\ call'[q].hash = call'[o].hash => q = o
  <2>1. CASE q = p
    BY Zenon, <1>1, <1>3, <1>4, <2>1
  <2>2. CASE o = p
    BY Zenon, <1>1, <1>3, <1>4, <2>2
  <2>3. CASE q # p /\ o # p
    BY Zenon, <1>1, <2>3 DEF IInv, CallsOK
  <2> QED BY Zenon, <2>1, <2>2, <2>3
<1> QED BY Zenon, <1>1, <1>2, <1>5 DEF CallsOK

LEMMA CallsRest ==
    ASSUME IInv, StoresGrow, UNCHANGED call,
           \A q \in Callers :
             /\ call[q].kind = "start" => ~bundles'[call[q].id].released
             /\ call[q].pc \in Sending => Unsent(call[q])'
    PROVE  CallsOK'
<1>1. ASSUME NEW q \in Callers
      PROVE  CallOK(call[q], bundles'[call[q].id], contexts'[call[q].id], journal'[call[q].hash])
  BY Zenon, CallStands
<1> QED BY <1>1 DEF CallsOK, IInv

Good == IInv' /\ HistoryAdvances

LEMMA StepIsGood ==
    ASSUME IInv, StoresGrow, BundlesOK', JournalsOK', AnswersGrow, ReturnsGrow, CallsOK',
           executed \subseteq executed'
    PROVE  Good
<1>1. AnswersOK' /\ ReturnsOK'
  BY Zenon, AnswersStay, ReturnsStay
<1>2. HistoryAdvances
  BY Zenon DEF StoresGrow, BundleGrows, Grows, HistoryAdvances
<1> QED BY Zenon, <1>1, <1>2 DEF Good, IInv

\* The record q that is written for bundle b over r, with the context x.
Writable(b, r, q, x) ==
    \/ q = r
    \/ /\ r = Absent
       /\ q \in BundleRecords /\ Readable(q) /\ q.op = None
       /\ b \in Contexts => x # Absent /\ x.state = "consumed"
    \/ /\ r # Absent /\ Moves(r, q)
       /\ b \in Contexts => q.op \in {None, x.op}

LEMMA WritableGrows ==
    ASSUME NEW r \in BundleRecords \cup {Absent}, r # Absent => Readable(r), NEW b, NEW x, NEW q,
           Writable(b, r, q, x)
    PROVE  /\ q \in BundleRecords \cup {Absent} /\ (q # Absent => Readable(q))
           /\ BundleGrows(r, q)
<1>1. CASE q = r
  BY Zenon, <1>1, BundleStays
<1>2. CASE r = Absent
  BY Zenon, <1>2, NotAbsent DEF Writable, BundleGrows, Moves
<1>3. CASE r # Absent /\ Moves(r, q)
  BY Zenon, <1>3, MovesOK DEF BundleGrows
<1> QED BY Zenon, <1>1, <1>2, <1>3 DEF Writable

LEMMA BundleStore ==
    ASSUME IInv, NEW b \in Ids, NEW q, bundles' = [bundles EXCEPT ![b] = q],
           Writable(b, bundles[b], q, contexts[b]),
           UNCHANGED <<contexts, journal, lane, chain, now>>
    PROVE  StoresGrow /\ BundlesOK' /\ JournalsOK'
<1>1. PICK r : r = bundles[b]
  BY Zenon
<1>2. r \in BundleRecords \cup {Absent} /\ (r # Absent => Readable(r))
  BY Zenon, <1>1 DEF IInv, BundlesOK, BundleOK
<1>3. /\ q \in BundleRecords \cup {Absent}
      /\ q # Absent => Readable(q)
      /\ BundleGrows(r, q)
  BY Zenon, <1>1, <1>2, WritableGrows
<1>4. BundleOK(b, q, contexts[b])
  BY Zenon, <1>1, <1>3 DEF Writable, BundleOK, IInv, BundlesOK
<1>5. bundles' \in [Ids -> BundleRecords \cup {Absent}] /\ bundles'[b] = q
      /\ \A o \in Ids \ {b} : bundles'[o] = bundles[o]
  BY Zenon, <1>3 DEF IInv, BundlesOK
<1>6. BundlesOK'
  BY Zenon, <1>4, <1>5 DEF IInv, BundlesOK, chain
<1>7. StoresGrow
  <2>1. ASSUME NEW o \in Ids
        PROVE  BundleGrows(bundles[o], bundles'[o])
    <3>1. CASE o = b
      BY Zenon, <1>1, <1>3, <1>5, <3>1
    <3>2. CASE o # b
      BY Zenon, <1>5, <3>2, BundleStays DEF IInv, BundlesOK, BundleOK
    <3> QED BY Zenon, <3>1, <3>2
  <2>2. \A x \in Contexts : ContextGrows(contexts[x], contexts'[x])
    BY Zenon DEF ContextGrows
  <2>3. \A h \in Hashes : JournalGrows(journal[h], journal'[h])
    BY Zenon DEF JournalGrows
  <2> QED BY Zenon, <2>1, <2>2, <2>3 DEF StoresGrow
<1>8. ASSUME NEW h \in Hashes
      PROVE  JournalOK(h, journal[h], bundles'[journal[h].owner], sent, executed, nonce)
  <2>1. PICK j : j = journal[h]
    BY Zenon
  <2>2. JournalOK(h, j, bundles[j.owner], sent, executed, nonce)
    BY Zenon, <2>1 DEF IInv, JournalsOK
  <2>3. CASE j.state = "absent"
    BY Zenon, <2>1, <2>2, <2>3 DEF JournalOK, Attempted
  <2>4. CASE j.state # "absent"
    <3>1. j.owner \in Ids /\ bundles[j.owner] # Absent /\ bundles[j.owner].op = h
      BY Zenon, <2>2, <2>4 DEF JournalOK
    <3>2. BundleGrows(bundles[j.owner], bundles'[j.owner])
      BY Zenon, <1>7, <3>1 DEF StoresGrow
    <3>3. h # None
      BY Zenon, NoneAssumption
    <3>4. bundles'[j.owner] # Absent /\ bundles'[j.owner].op = h
          /\ (Origin(bundles[j.owner]) = "operation_bound" =>
                Origin(bundles'[j.owner]) = "operation_bound")
      BY Zenon, <3>1, <3>2, <3>3 DEF BundleGrows, Grows
    <3> QED BY Zenon, <2>1, <2>2, <2>4, <3>4 DEF JournalOK
  <2> QED BY Zenon, <2>3, <2>4
<1>9. JournalsOK'
  BY Zenon, <1>8 DEF IInv, JournalsOK, chain
<1> QED BY Zenon, <1>6, <1>7, <1>9

LEMMA JournalStore ==
    ASSUME IInv, NEW h \in Hashes, NEW j, journal' = [journal EXCEPT ![h] = j],
           JournalGrows(journal[h], j), j.state # "absent",
           JournalOK(h, j, bundles[j.owner], sent, executed, nonce),
           lane' \in {lane, h}, UNCHANGED <<bundles, contexts, chain, now>>
    PROVE  StoresGrow /\ BundlesOK' /\ JournalsOK'
<1>1. /\ journal' \in [Hashes -> JournalRecords] /\ journal'[h] = j
      /\ \A o \in Hashes \ {h} : journal'[o] = journal[o]
  BY Zenon DEF IInv, JournalsOK, JournalOK
<1>2. BundlesOK'
  BY Zenon DEF IInv, BundlesOK
<1>3. StoresGrow
  <2>1. \A b \in Ids : BundleGrows(bundles[b], bundles'[b])
    BY Zenon, BundleStays DEF IInv, BundlesOK, BundleOK
  <2>2. \A x \in Contexts : ContextGrows(contexts[x], contexts'[x])
    BY Zenon DEF ContextGrows
  <2>3. \A o \in Hashes : JournalGrows(journal[o], journal'[o])
    BY Zenon, <1>1 DEF JournalGrows
  <2> QED BY Zenon, <2>1, <2>2, <2>3 DEF StoresGrow
<1>4. \A o \in Hashes : JournalOK(o, journal'[o], bundles[journal'[o].owner], sent, executed, nonce)
  BY Zenon, <1>1 DEF IInv, JournalsOK
<1>5. lane' # None => journal'[lane'].state # "absent"
  BY Zenon, <1>1 DEF IInv, JournalsOK
<1>6. JournalsOK'
  BY Zenon, <1>1, <1>4, <1>5 DEF IInv, JournalsOK, chain
<1> QED BY Zenon, <1>2, <1>3, <1>6

LEMMA ContextStore ==
    ASSUME IInv, NEW k \in Contexts, NEW y, contexts' = [contexts EXCEPT ![k] = y],
           y # Absent, ContextOK(y), ContextGrows(contexts[k], y),
           UNCHANGED <<bundles, journal, lane, chain, now>>
    PROVE  StoresGrow /\ BundlesOK' /\ JournalsOK'
<1>1. /\ contexts' \in [Contexts -> ContextRecords \cup {Absent}] /\ contexts'[k] = y
      /\ \A o \in Contexts \ {k} : contexts'[o] = contexts[o]
  BY Zenon DEF IInv, BundlesOK, ContextOK
<1>2. JournalsOK'
  BY Zenon DEF IInv, JournalsOK, chain
<1>3. StoresGrow
  <2>1. \A b \in Ids : BundleGrows(bundles[b], bundles'[b])
    BY Zenon, BundleStays DEF IInv, BundlesOK, BundleOK
  <2>2. \A x \in Contexts : ContextGrows(contexts[x], contexts'[x])
    BY Zenon, <1>1 DEF ContextGrows
  <2>3. \A o \in Hashes : JournalGrows(journal[o], journal'[o])
    BY Zenon DEF JournalGrows
  <2> QED BY Zenon, <2>1, <2>2, <2>3 DEF StoresGrow
<1>4. ASSUME NEW b \in Ids
      PROVE  BundleOK(b, bundles[b], contexts'[b])
  BY <1>1 DEF IInv, BundlesOK, BundleOK, ContextGrows
<1>5. \A x \in Contexts : ContextOK(contexts'[x])
  BY Zenon, <1>1 DEF IInv, BundlesOK
<1>6. BundlesOK'
  BY Zenon, <1>1, <1>4, <1>5 DEF IInv, BundlesOK
<1> QED BY Zenon, <1>2, <1>3, <1>6

LEMMA LocalStep ==
    ASSUME IInv, NEW p \in Callers, NEW c, GoesOn(p, c),
           UNCHANGED <<stores, chain, now, answer, returned>>
    PROVE  Good
<1>1. StoresGrow
  BY Zenon, BundleStays DEF StoresGrow, IInv, BundlesOK, BundleOK, ContextGrows, JournalGrows, stores
<1>2. BundlesOK' /\ JournalsOK'
  BY Zenon DEF IInv, BundlesOK, JournalsOK, stores, chain
<1>3. AnswersGrow /\ ReturnsGrow
  BY Zenon DEF AnswersGrow, ReturnsGrow, IInv, AnswersOK, ReturnsOK
<1>4. OthersKeep(p)
  BY Zenon DEF OthersKeep, IInv, CallsOK, Unsent, stores, chain
<1>5. CallsOK'
  BY Zenon, <1>1, <1>4, CallsStay
<1> QED BY Zenon, <1>1, <1>2, <1>3, <1>5, StepIsGood DEF chain

\* The start of bundle b that is not the caller p's.
OtherStart(p, b) == \E q \in Callers \ {p} : call[q].kind = "start" /\ call[q].id = b

LEMMA BundleStep ==
    ASSUME IInv, NEW b \in Ids, NEW r, bundles' = [bundles EXCEPT ![b] = r],
           Writable(b, bundles[b], r, contexts[b]),
           UNCHANGED <<contexts, journal, lane, chain, now>>, AnswersGrow, ReturnsGrow,
           NEW p \in Callers, UNCHANGED call \/ \E c : GoesOn(p, c),
           bundles[b] # Absent /\ ~bundles[b].released /\ r.released =>
              ~OtherStart(p, b) /\ ~UNCHANGED call
    PROVE  Good
<1>1. StoresGrow /\ BundlesOK' /\ JournalsOK'
  BY Zenon, BundleStore
<1>2. ASSUME NEW q \in Callers, q # p \/ UNCHANGED call
      PROVE  /\ call[q].kind = "start" => ~bundles'[call[q].id].released
             /\ call[q].pc \in Sending =>
                  /\ call[q].hash \notin sent'
                  /\ journal'[call[q].hash].state \in {"attempted", "superseded", "dropped"}
  <2>1. call[q].pc \in Sending =>
          /\ call[q].hash \notin sent'
          /\ journal'[call[q].hash].state \in {"attempted", "superseded", "dropped"}
    BY Zenon DEF IInv, CallsOK, Unsent, chain
  <2>2. ASSUME call[q].kind = "start"
        PROVE  ~bundles'[call[q].id].released
    <3>1. bundles[call[q].id] # Absent /\ ~bundles[call[q].id].released /\ call[q].id \in Ids
      BY Zenon, <2>2 DEF IInv, CallsOK, CallOK, SendIds
    <3>2. CASE call[q].id # b
      BY Zenon, <3>1, <3>2 DEF IInv, BundlesOK
    <3>3. CASE call[q].id = b
      <4>1. ~r.released
        BY Zenon, <1>2, <2>2, <3>1, <3>3 DEF OtherStart
      <4> QED BY Zenon, <3>3, <4>1 DEF IInv, BundlesOK
    <3> QED BY Zenon, <3>2, <3>3
  <2> QED BY Zenon, <2>1, <2>2
<1>3. CASE UNCHANGED call
  <2>1. \A q \in Callers : call[q].pc \in Sending => Unsent(call[q])'
    BY Zenon, <1>2, <1>3 DEF Unsent
  <2>2. CallsOK'
    BY Zenon, <1>1, <1>2, <1>3, <2>1, CallsRest
  <2> QED BY Zenon, <1>1, <2>2, StepIsGood DEF chain
<1>4. ASSUME NEW c, GoesOn(p, c)
      PROVE  Good
  <2>1. OthersKeep(p)
    BY Zenon, <1>2 DEF OthersKeep
  <2>2. CallsOK'
    BY Zenon, <1>1, <1>4, <2>1, CallsStay
  <2> QED BY Zenon, <1>1, <2>2, StepIsGood DEF chain
<1> QED BY Zenon, <1>3, <1>4

\* The submission of operation h that is not the caller p's.
OtherSender(p, h) == \E q \in Callers \ {p} : call[q].pc \in Sending /\ call[q].hash = h

LEMMA JournalStep ==
    ASSUME IInv, NEW h \in Hashes, NEW j, journal' = [journal EXCEPT ![h] = j],
           JournalGrows(journal[h], j), j.state # "absent",
           JournalOK(h, j, bundles[j.owner], sent, executed, nonce),
           lane' \in {lane, h}, UNCHANGED <<bundles, contexts, chain, now, answer, returned>>,
           NEW p \in Callers, NEW c, GoesOn(p, c),
           j.state \notin {"attempted", "superseded", "dropped"} => ~OtherSender(p, h)
    PROVE  Good
<1>1. StoresGrow /\ BundlesOK' /\ JournalsOK'
  BY Zenon, JournalStore
<1>2. OthersKeep(p)
  <2>1. SUFFICES ASSUME NEW q \in Callers \ {p}
                 PROVE  /\ call[q].kind = "start" => ~bundles'[call[q].id].released
                        /\ call[q].pc \in Sending =>
                             /\ call[q].hash \notin sent'
                             /\ journal'[call[q].hash].state \in {"attempted", "superseded", "dropped"}
    BY Zenon DEF OthersKeep
  <2>2. call[q].kind = "start" => ~bundles'[call[q].id].released
    BY Zenon, <2>1 DEF IInv, CallsOK
  <2>3. ASSUME call[q].pc \in Sending
        PROVE  /\ call[q].hash \notin sent'
               /\ journal'[call[q].hash].state \in {"attempted", "superseded", "dropped"}
    <3>1. /\ call[q].hash \notin sent /\ call[q].hash \in Hashes
          /\ journal[call[q].hash].state \in {"attempted", "superseded", "dropped"}
      <4>1. PICK o : o = call[q]
        BY Zenon
      <4>2. CallOK(o, bundles[o.id], contexts[o.id], journal[o.hash]) /\ o.pc \in Sending
        BY Zenon, <2>1, <2>3, <4>1 DEF IInv, CallsOK
      <4>3. o.hash # None /\ o.hash \in Hashes \cup {None}
        BY Zenon, <4>2 DEF CallOK, CallRecords, Sending
      <4> QED BY Zenon, <2>1, <2>3, <4>1, <4>3 DEF IInv, CallsOK, Unsent
    <3>2. CASE call[q].hash # h
      BY Zenon, <3>1, <3>2 DEF IInv, JournalsOK, chain
    <3>3. CASE call[q].hash = h
      <4>1. j.state \in {"attempted", "superseded", "dropped"}
        BY Zenon, <2>1, <2>3, <3>3 DEF OtherSender
      <4> QED BY Zenon, <3>1, <3>3, <4>1 DEF IInv, JournalsOK, chain
    <3> QED BY Zenon, <3>2, <3>3
  <2> QED BY Zenon, <2>2, <2>3
<1>3. CallsOK'
  BY Zenon, <1>1, <1>2, CallsStay
<1>4. AnswersGrow /\ ReturnsGrow
  BY Zenon DEF AnswersGrow, ReturnsGrow, IInv, AnswersOK, ReturnsOK
<1> QED BY Zenon, <1>1, <1>3, <1>4, StepIsGood DEF chain

LEMMA ContextStep ==
    ASSUME IInv, NEW k \in Contexts, NEW y, contexts' = [contexts EXCEPT ![k] = y],
           y # Absent, ContextOK(y), ContextGrows(contexts[k], y),
           UNCHANGED <<bundles, journal, lane, chain, now, answer, returned>>,
           \/ UNCHANGED call
           \/ \E p \in Callers : \E c : GoesOn(p, c)
    PROVE  Good
<1>1. StoresGrow /\ BundlesOK' /\ JournalsOK'
  BY Zenon, ContextStore
<1>2. AnswersGrow /\ ReturnsGrow
  BY Zenon DEF AnswersGrow, ReturnsGrow, IInv, AnswersOK, ReturnsOK
<1>3. CASE UNCHANGED call
  <2>1. CallsOK'
    BY <1>1, <1>3, CallsRest DEF IInv, CallsOK, Unsent, chain
  <2> QED BY Zenon, <1>1, <1>2, <2>1, StepIsGood DEF chain
<1>4. ASSUME NEW p \in Callers, NEW c, GoesOn(p, c)
      PROVE  Good
  <2>1. OthersKeep(p)
    BY Zenon DEF OthersKeep, IInv, CallsOK, Unsent, chain
  <2>2. CallsOK'
    BY Zenon, <1>1, <1>4, <2>1, CallsStay
  <2> QED BY Zenon, <1>1, <1>2, <2>2, StepIsGood DEF chain
<1> QED BY Zenon, <1>3, <1>4

-----------------------------------------------------------------------------
(***************************************************************************)
(* What the steps of a caller have in common.                              *)
(***************************************************************************)

LEMMA IdleIsOK ==
    /\ \A r, x, j : CallOK(Idle, r, x, j)
    /\ Idle.kind = "none" /\ Idle.pc = "idle" /\ Idle.pc \notin Sending
<1>1. Idle \in CallRecords
  BY TimesAssumption DEF Idle, CallRecords, Founds
<1>2. Idle.kind = "none" /\ Idle.pc = "idle"
  BY Zenon DEF Idle
<1> QED BY <1>1, <1>2 DEF CallOK, Sending

LEMMA Stops ==
    ASSUME NEW p, Stop(p)
    PROVE  GoesOn(p, Idle)
BY Zenon, IdleIsOK DEF GoesOn, Stop, Goto

\* A step that only moves its caller.
LEMMA LocalMove ==
    ASSUME IInv, NEW p \in Callers, NEW d, call' = [call EXCEPT ![p] = d],
           CallOK(d, bundles[d.id], contexts[d.id], journal[d.hash]),
           d.kind = "start" => call[p].kind = "start" /\ call[p].id = d.id,
           d.pc \in Sending => call[p].pc \in Sending /\ call[p].hash = d.hash,
           UNCHANGED <<stores, chain, now, answer, returned>>
    PROVE  Good
<1>1. d.kind = "start" => ~bundles[d.id].released
  BY Zenon DEF IInv, CallsOK
<1>2. d.pc \in Sending => d.hash \notin sent /\ journal[d.hash].state \in {"attempted", "superseded", "dropped"}
  BY Zenon DEF IInv, CallsOK, Unsent
<1>3. GoesOn(p, d)
  BY Zenon, <1>1, <1>2 DEF GoesOn, stores, chain
<1> QED BY Zenon, <1>3, LocalStep

LEMMA LocalStop ==
    ASSUME IInv, NEW p \in Callers, Stop(p), UNCHANGED <<stores, chain, now, answer, returned>>
    PROVE  Good
BY Zenon, Stops, LocalStep

LEMMA NothingNew ==
    ASSUME IInv
    PROVE  /\ UNCHANGED answer => AnswersGrow
           /\ UNCHANGED returned => ReturnsGrow
BY Zenon DEF AnswersGrow, ReturnsGrow, IInv, AnswersOK, ReturnsOK

LEMMA SameBundle ==
    ASSUME IInv, NEW b \in Ids
    PROVE  /\ bundles = [bundles EXCEPT ![b] = bundles[b]]
           /\ Writable(b, bundles[b], bundles[b], contexts[b])
BY Zenon DEF IInv, BundlesOK, Writable

\* The caller p with its bundle, its context and its operation.
Serving(p, c, r, x, j) ==
    /\ c = call[p] /\ r = bundles[c.id] /\ x = contexts[c.id] /\ j = journal[c.hash]
    /\ CallOK(c, r, x, j)

LEMMA Served ==
    ASSUME IInv, NEW p \in Callers
    PROVE  \E c, r, x, j : Serving(p, c, r, x, j)
BY Zenon DEF Serving, IInv, CallsOK

\* The fields of a call.
Fields(c, pc, kind, id, calls, hash, rec, ln, ctx, at, found) ==
    /\ c.pc = pc /\ c.kind = kind /\ c.id = id /\ c.calls = calls /\ c.hash = hash /\ c.rec = rec
    /\ c.lane = ln /\ c.ctx = ctx /\ c.at = at /\ c.found = found

LEMMA PcMoves ==
    ASSUME NEW c \in CallRecords, NEW pc \in {"idle"} \cup StartPcs \cup ResumePcs \cup StatusPcs,
           NEW d, d = [c EXCEPT !.pc = pc]
    PROVE  /\ d \in CallRecords
           /\ Fields(d, pc, c.kind, c.id, c.calls, c.hash, c.rec, c.lane, c.ctx, c.at, c.found)
<1>1. d \in CallRecords
  BY Zenon DEF CallRecords
<1> QED BY Zenon, <1>1 DEF CallRecords, Fields

LEMMA LaneIs ==
    ASSUME IInv
    PROVE  /\ LaneNow \in LaneRecords /\ LaneNow.hash = lane
           /\ lane = None => LaneNow.state = "absent"
           /\ lane # None => /\ lane \in Hashes
                             /\ LaneNow.state = journal[lane].state
                             /\ LaneNow.owner = journal[lane].owner
                             /\ LaneNow.state # "absent"
<1>1. CASE lane = None
  BY Zenon, <1>1 DEF LaneNow, LaneRecords, JournalStates
<1>2. CASE lane # None
  <2>1. lane \in Hashes /\ journal[lane] \in JournalRecords /\ journal[lane].state # "absent"
    BY Zenon, <1>2 DEF IInv, JournalsOK
  <2> QED BY Zenon, <1>2, <2>1 DEF LaneNow, LaneRecords, JournalRecords
<1> QED BY Zenon, <1>1, <1>2

\* The lane still holds the record the call has seen.
LEMMA LaneHolds ==
    ASSUME IInv, NEW h \in Hashes, NEW state, NEW b,
           LaneNow = [hash |-> h, state |-> state, owner |-> b]
    PROVE  lane = h /\ journal[h].state = state /\ journal[h].owner = b
<1>1. h # None
  BY Zenon, NoneAssumption
<1>2. LaneNow.hash = h /\ LaneNow.state = state /\ LaneNow.owner = b
  BY Zenon
<1> QED BY Zenon, <1>1, <1>2, LaneIs

\* The lane holds an operation of the call.
LEMMA LaneIsMine ==
    ASSUME IInv, NEW c, c.hash \in Hashes, Mine(c, LaneNow)
    PROVE  /\ lane = c.hash /\ journal[c.hash].owner = c.id /\ journal[c.hash].state = LaneNow.state
           /\ journal[c.hash].state # "absent"
           /\ bundles[c.id] # Absent /\ bundles[c.id].op = c.hash
<1>1. c.hash # None
  BY Zenon, NoneAssumption
<1>2. lane = c.hash /\ journal[c.hash].owner = c.id /\ journal[c.hash].state = LaneNow.state
      /\ journal[c.hash].state # "absent"
  BY Zenon, <1>1, LaneIs DEF Mine
<1>3. JournalOK(c.hash, journal[c.hash], bundles[journal[c.hash].owner], sent, executed, nonce)
  BY Zenon DEF IInv, JournalsOK
<1> QED BY Zenon, <1>2, <1>3 DEF JournalOK

\* terminalize: the bundle is ended, or left as it is.
IsEnded(b, seen, q) ==
    /\ Terminalized(b, seen) = [bundles EXCEPT ![b] = q]
    /\ Terminalized(b, seen)[b] = q
    /\ Writable(b, bundles[b], q, contexts[b])
    /\ bundles[b] # Absent => q # Absent /\ q.released = bundles[b].released /\ q.op = bundles[b].op
    /\ Fenced(bundles[b], seen, OpenStates) => q.state = "terminal" /\ q.terminalFrom = bundles[b].state
    /\ ~Fenced(bundles[b], seen, OpenStates) => q = bundles[b]

LEMMA TerminalizedIs ==
    ASSUME IInv, NEW b \in Ids, NEW seen
    PROVE  \E q : IsEnded(b, seen, q)
<1>1. PICK r : r = bundles[b]
  BY Zenon
<1>2. r \in BundleRecords \cup {Absent} /\ BundleOK(b, r, contexts[b])
  BY Zenon, <1>1 DEF IInv, BundlesOK
<1>3. CASE Fenced(r, seen, OpenStates)
  <2>1. PICK q : q = markTerminal(r)
    BY Zenon
  <2>2. r # Absent /\ r.state \in OpenStates /\ r \in BundleRecords /\ Readable(r)
    BY Zenon, <1>2, <1>3 DEF Fenced, BundleOK
  <2>3. Moves(r, q)
    BY Zenon, <2>1, <2>2 DEF Moves
  <2>4. q \in BundleRecords /\ q # Absent
    BY Zenon, <2>2, <2>3, MovesOK, NotAbsent
  <2>5. q.released = r.released /\ q.op = r.op /\ q.state = "terminal" /\ q.terminalFrom = r.state
    BY Zenon, <2>1, <2>2 DEF markTerminal, Moved, BundleRecords
  <2>6. Writable(b, r, q, contexts[b])
    BY Zenon, <1>2, <2>2, <2>3, <2>5 DEF Writable, BundleOK
  <2>7. Terminalized(b, seen) = [bundles EXCEPT ![b] = q] /\ Terminalized(b, seen)[b] = q
    BY Zenon, <1>1, <1>3, <2>1 DEF Terminalized, IInv, BundlesOK
  <2>8. IsEnded(b, seen, q)
    BY Zenon, <1>1, <1>3, <2>4, <2>5, <2>6, <2>7 DEF IsEnded
  <2> QED BY Zenon, <2>8
<1>4. CASE ~Fenced(r, seen, OpenStates)
  <2>1. Terminalized(b, seen) = bundles
    BY Zenon, <1>1, <1>4 DEF Terminalized
  <2>2. IsEnded(b, seen, r)
    BY Zenon, <1>1, <1>4, <2>1, SameBundle DEF IsEnded
  <2> QED BY Zenon, <2>2
<1> QED BY Zenon, <1>3, <1>4

-----------------------------------------------------------------------------
(***************************************************************************)
(* The steps that only move their caller.                                  *)
(***************************************************************************)

LEMMA ReadLaneOK ==
    ASSUME IInv, NEW p \in Callers, ReadLane(p)
    PROVE  Good
<1>1. PICK c, r, x, j : Serving(p, c, r, x, j)
  BY Zenon, Served
<1>2. CallOK(c, r, x, j) /\ c.pc = "lane" /\ c \in CallRecords /\ c.kind \in {"start", "resume"}
  BY Zenon, <1>1 DEF ReadLane, At, Serving, CallOK, CallRecords, StatusPcs
<1>3. PICK l \in LaneRecords : l = LaneNow
  BY Zenon, LaneIs
<1>4. UNCHANGED <<stores, chain, now, answer, returned>>
  BY Zenon DEF ReadLane
<1>5. CASE /\ ~Occupied(l) \/ (c.kind = "resume" /\ Mine(c, l) /\ l.state = "prepared")
           /\ Goto(p, [c EXCEPT !.pc = "prepare", !.lane = l])
  <2>1. PICK d : d = [c EXCEPT !.pc = "prepare", !.lane = l]
    BY Zenon
  <2>2. d \in CallRecords
    BY Zenon, <1>2, <2>1 DEF CallRecords, StartPcs
  <2>3. Fields(d, "prepare", c.kind, c.id, c.calls, c.hash, c.rec, l, c.ctx, c.at, c.found)
    BY Zenon, <1>2, <2>1 DEF CallRecords, Fields
  <2>4. l # Absent
    BY DEF LaneRecords, Absent
  <2>5. Occupied(l) => l = [hash |-> c.hash, state |-> "prepared", owner |-> c.id]
    BY Zenon, <1>5 DEF Mine, LaneRecords
  <2>6. CallOK(d, r, x, j)
    BY <1>2, <2>2, <2>3, <2>4, <2>5 DEF CallOK, Fields, Sending, StartPcs, ResumePcs
  <2> QED BY Zenon, <1>1, <1>4, <1>5, <2>1, <2>3, <2>6, LocalMove DEF Serving, Goto, Fields, Sending
<1>6. CASE c.kind = "start" /\ Goto(p, [c EXCEPT !.pc = "undo"])
  <2>1. PICK d : d = [c EXCEPT !.pc = "undo"]
    BY Zenon
  <2>2. /\ d \in CallRecords
        /\ Fields(d, "undo", c.kind, c.id, c.calls, c.hash, c.rec, c.lane, c.ctx, c.at, c.found)
    BY Zenon, <1>2, <2>1, PcMoves DEF StartPcs
  <2>3. CallOK(d, r, x, j)
    BY Zenon, <1>2, <1>6, <2>2 DEF CallOK, Fields, Sending, StartPcs
  <2> QED BY Zenon, <1>1, <1>4, <1>6, <2>1, <2>2, <2>3, LocalMove DEF Serving, Goto, Fields, Sending
<1>7. CASE /\ c.kind = "resume" /\ Mine(c, l) /\ Occupied(l) /\ l.state # "prepared"
           /\ Goto(p, [c EXCEPT !.pc = "converge"])
  <2>1. PICK d : d = [c EXCEPT !.pc = "converge"]
    BY Zenon
  <2>2. /\ d \in CallRecords
        /\ Fields(d, "converge", c.kind, c.id, c.calls, c.hash, c.rec, c.lane, c.ctx, c.at, c.found)
    BY Zenon, <1>2, <2>1, PcMoves DEF ResumePcs
  <2>3. c.hash \in Hashes /\ c.hash # None
    BY Zenon, <1>2, <1>7 DEF CallOK, CallRecords
  <2>4. r # Absent /\ r.op = c.hash /\ Advanced(c, j)
    BY Zenon, <1>1, <1>3, <1>7, <2>3, LaneIsMine DEF Serving, Advanced, Occupied
  <2>5. Advanced(d, j)
    BY Zenon, <2>2, <2>4 DEF Advanced, Fields
  <2>6. CallOK(d, r, x, j)
    BY <1>2, <1>7, <2>2, <2>3, <2>4, <2>5 DEF CallOK, Fields, Sending, ResumePcs
  <2> QED BY Zenon, <1>1, <1>4, <1>7, <2>1, <2>2, <2>6, LocalMove DEF Serving, Goto, Fields, Sending
<1>8. CASE Stop(p)
  BY Zenon, <1>4, <1>8, LocalStop
<1> QED BY Zenon, <1>1, <1>2, <1>3, <1>5, <1>6, <1>7, <1>8 DEF ReadLane, Serving

LEMMA PreparationFailsOK ==
    ASSUME IInv, NEW p \in Callers, PreparationFails(p)
    PROVE  Good
<1>1. PICK c, r, x, j : Serving(p, c, r, x, j)
  BY Zenon, Served
<1>2. CallOK(c, r, x, j) /\ c \in CallRecords /\ c.kind = "start"
  BY Zenon, <1>1 DEF PreparationFails, Serving, CallOK
<1>3. PICK d : d = [c EXCEPT !.pc = "undo"]
  BY Zenon
<1>4. /\ d \in CallRecords
      /\ Fields(d, "undo", c.kind, c.id, c.calls, c.hash, c.rec, c.lane, c.ctx, c.at, c.found)
  BY Zenon, <1>2, <1>3, PcMoves DEF StartPcs
<1>5. CallOK(d, r, x, j)
  BY Zenon, <1>2, <1>4 DEF CallOK, Fields, Sending, StartPcs
<1> QED BY Zenon, <1>1, <1>2, <1>3, <1>4, <1>5, LocalMove DEF PreparationFails, Serving, Goto, Fields, Sending

LEMMA AuthorizeOK ==
    ASSUME IInv, NEW p \in Callers, Authorize(p)
    PROVE  Good
<1>1. PICK c, r, x, j : Serving(p, c, r, x, j)
  BY Zenon, Served
<1>2. CallOK(c, r, x, j) /\ c \in CallRecords /\ c.pc = "authorize"
  BY Zenon, <1>1 DEF Authorize, At, Serving, CallOK
<1>3. PICK pc \in {"bind", "abandon"} : call' = [call EXCEPT ![p] = [c EXCEPT !.pc = pc]]
  BY Zenon, <1>1 DEF Authorize, Goto, Serving
<1>4. PICK d : d = [c EXCEPT !.pc = pc]
  BY Zenon
<1>5. /\ d \in CallRecords
      /\ Fields(d, pc, c.kind, c.id, c.calls, c.hash, c.rec, c.lane, c.ctx, c.at, c.found)
  BY Zenon, <1>2, <1>4, PcMoves DEF StartPcs
<1>6. CallOK(d, r, x, j)
  BY <1>2, <1>5 DEF CallOK, Fields, Sending, StartPcs, ResumePcs, StatusPcs
<1> QED BY Zenon, <1>1, <1>2, <1>3, <1>4, <1>5, <1>6, LocalMove DEF Authorize, Serving, Fields, Sending

\* recoverOperation says what the journal holds.
LEMMA RecoveredIs ==
    ASSUME IInv, NEW h \in Hashes, NEW b
    PROVE  /\ Recovered(h, b) \in Founds
           /\ Recovered(h, b) = "observable" =>
                 journal[h].owner = b /\ journal[h].state \notin {"absent", "prepared"}
           /\ Recovered(h, b) = "abandoned" => journal[h].state = "abandoned"
           /\ Recovered(h, b) = "request_conflict" => journal[h].state # "absent" /\ journal[h].owner # b
<1>1. journal[h].state \in JournalStates
  BY Zenon DEF IInv, JournalsOK, JournalRecords
<1> QED BY Zenon, <1>1 DEF Recovered, Founds, JournalStates

LEMMA RecallOK ==
    ASSUME IInv, NEW p \in Callers, Recall(p)
    PROVE  Good
<1>1. PICK c, r, x, j : Serving(p, c, r, x, j)
  BY Zenon, Served
<1>2. CallOK(c, r, x, j) /\ c \in CallRecords /\ c.pc = "recall" /\ c.kind = "resume"
  BY Zenon, <1>1 DEF Recall, At, Serving, CallOK, CallRecords, StatusPcs, StartPcs
<1>3. c.hash \in Hashes
  BY Zenon, <1>2 DEF CallOK, CallRecords
<1>4. UNCHANGED <<stores, chain, now, answer, returned>>
  BY Zenon DEF Recall
<1>5. PICK found : found = Recovered(c.hash, c.id)
  BY Zenon
<1>6. found \in Founds /\ (found = "observable" => Advanced(c, j))
  BY Zenon, <1>1, <1>3, <1>5, RecoveredIs DEF Serving, Advanced
<1>7. CASE found = "observable" /\ Goto(p, [c EXCEPT !.pc = "bundle", !.found = found])
  <2>1. PICK d : d = [c EXCEPT !.pc = "bundle", !.found = found]
    BY Zenon
  <2>2. d \in CallRecords
    BY Zenon, <1>2, <1>6, <2>1 DEF CallRecords, ResumePcs
  <2>3. Fields(d, "bundle", c.kind, c.id, c.calls, c.hash, c.rec, c.lane, c.ctx, c.at, found)
    BY Zenon, <1>2, <2>1 DEF CallRecords, Fields
  <2>4. Advanced(d, j)
    BY Zenon, <1>6, <1>7, <2>3 DEF Advanced, Fields
  <2>5. CallOK(d, r, x, j)
    BY <1>2, <2>2, <2>3, <2>4 DEF CallOK, Fields, Sending, ResumePcs
  <2> QED BY Zenon, <1>1, <1>2, <1>4, <1>7, <2>1, <2>3, <2>5, LocalMove DEF Serving, Goto, Fields, Sending
<1>8. CASE Goto(p, [c EXCEPT !.pc = "validate"])
  <2>1. PICK d : d = [c EXCEPT !.pc = "validate"]
    BY Zenon
  <2>2. /\ d \in CallRecords
        /\ Fields(d, "validate", c.kind, c.id, c.calls, c.hash, c.rec, c.lane, c.ctx, c.at, c.found)
    BY Zenon, <1>2, <2>1, PcMoves DEF ResumePcs
  <2>3. CallOK(d, r, x, j)
    BY <1>2, <2>2 DEF CallOK, Fields, Sending, ResumePcs
  <2> QED BY Zenon, <1>1, <1>2, <1>4, <1>8, <2>1, <2>2, <2>3, LocalMove DEF Serving, Goto, Fields, Sending
<1>9. CASE Stop(p)
  BY Zenon, <1>4, <1>9, LocalStop
<1>10. found \in {"observable", "absent", "prepared", "abandoned", "request_conflict"}
  BY Zenon, <1>5 DEF Recovered
<1> QED BY Zenon, <1>1, <1>5, <1>7, <1>8, <1>9, <1>10 DEF Recall, Serving

LEMMA ValidateOK ==
    ASSUME IInv, NEW p \in Callers, Validate(p)
    PROVE  Good
<1>1. PICK c, r, x, j : Serving(p, c, r, x, j)
  BY Zenon, Served
<1>2. CallOK(c, r, x, j) /\ c \in CallRecords /\ c.pc = "validate" /\ c.kind = "resume"
  BY Zenon, <1>1 DEF Validate, At, Serving, CallOK, CallRecords, StatusPcs, StartPcs
<1>3. PICK pc \in {"consume", "bundle"} :
         /\ call' = [call EXCEPT ![p] = [c EXCEPT !.pc = pc]]
         /\ pc = "bundle" => c.ctx.state # "prepared"
  BY Zenon, <1>1 DEF Validate, Goto, Serving
<1>4. PICK d : d = [c EXCEPT !.pc = pc]
  BY Zenon
<1>5. /\ d \in CallRecords
      /\ Fields(d, pc, c.kind, c.id, c.calls, c.hash, c.rec, c.lane, c.ctx, c.at, c.found)
  BY Zenon, <1>2, <1>4, PcMoves DEF ResumePcs
<1>6. CallOK(d, r, x, j)
  BY <1>2, <1>3, <1>5 DEF CallOK, Fields, Sending, ResumePcs
<1> QED BY Zenon, <1>1, <1>2, <1>3, <1>4, <1>5, <1>6, LocalMove DEF Validate, Serving, Fields, Sending

LEMMA StatusOfBoundOK ==
    ASSUME IInv, NEW p \in Callers, NEW b \in Ids, StatusOfBound(p, b)
    PROVE  Good
<1>1. PICK r : r = bundles[b]
  BY Zenon
<1>2. r # Absent /\ r.op # None /\ r \in BundleRecords /\ r.op \in Hashes
  BY Zenon, <1>1 DEF StatusOfBound, IInv, BundlesOK, BundleRecords
<1>3. PICK d : d = [Idle EXCEPT !.pc = "recover", !.kind = "status", !.id = b, !.hash = r.op, !.rec = r]
  BY Zenon
<1>4. d = [pc |-> "recover", kind |-> "status", id |-> b, calls |-> None, hash |-> r.op, rec |-> r,
           lane |-> Absent, ctx |-> Absent, at |-> 0, found |-> "none", retried |-> FALSE]
  BY Zenon, <1>3 DEF Idle
<1>5. d \in CallRecords
  BY <1>2, <1>4, TimesAssumption DEF CallRecords, StatusPcs, Founds
<1>6. Fields(d, "recover", "status", b, None, r.op, r, Absent, Absent, 0, "none")
  BY Zenon, <1>4 DEF Fields
<1>7. \A x, j : CallOK(d, r, x, j)
  BY <1>2, <1>5, <1>6 DEF CallOK, Fields, Sending, StatusPcs
<1> QED BY Zenon, <1>1, <1>3, <1>6, <1>7, LocalMove DEF StatusOfBound, Goto, Fields, Sending

LEMMA RecoverOK ==
    ASSUME IInv, NEW p \in Callers, Recover(p)
    PROVE  Good
<1>1. PICK c, r, x, j : Serving(p, c, r, x, j)
  BY Zenon, Served
<1>2. CallOK(c, r, x, j) /\ c \in CallRecords /\ c.pc \in {"recover", "recheck"} /\ c.kind = "status"
  BY Zenon, <1>1 DEF Recover, Serving, CallOK, CallRecords, ResumePcs, StartPcs
<1>3. c.hash \in Hashes
  BY Zenon, <1>2 DEF CallOK, CallRecords
<1>4. PICK found : found = Recovered(c.hash, c.id)
  BY Zenon
<1>5. /\ found \in Founds /\ (found = "observable" => Advanced(c, j))
      /\ found = "abandoned" => j.state = "abandoned"
      /\ found = "request_conflict" => j.state # "absent" /\ j.owner # c.id
  BY Zenon, <1>1, <1>3, <1>4, RecoveredIs DEF Serving, Advanced
<1>6. PICK pc \in {"abandonPrepared", "conclude"} :
         call' = [call EXCEPT ![p] = [c EXCEPT !.found = found, !.pc = pc]]
  BY Zenon, <1>1, <1>4 DEF Recover, Goto, Serving
<1>7. PICK d : d = [c EXCEPT !.found = found, !.pc = pc]
  BY Zenon
<1>8. d \in CallRecords
  BY Zenon, <1>2, <1>5, <1>7 DEF CallRecords, StatusPcs
<1>9. Fields(d, pc, c.kind, c.id, c.calls, c.hash, c.rec, c.lane, c.ctx, c.at, found)
  BY Zenon, <1>2, <1>7 DEF CallRecords, Fields
<1>10. found = "observable" => Advanced(d, j)
  BY Zenon, <1>5, <1>9 DEF Advanced, Fields
<1>11. CallOK(d, r, x, j)
  BY <1>2, <1>5, <1>8, <1>9, <1>10 DEF CallOK, Fields, Sending, StatusPcs
<1> QED BY Zenon, <1>1, <1>2, <1>6, <1>7, <1>9, <1>11, LocalMove DEF Recover, Serving, Fields, Sending

LEMMA CrashOK ==
    ASSUME IInv, NEW p \in Callers, Crash(p)
    PROVE  Good
BY Zenon, LocalStop DEF Crash

-----------------------------------------------------------------------------
(***************************************************************************)
(* The steps that write a bundle.                                          *)
(***************************************************************************)

\* The caller p writes q over the record r of its bundle and goes on with d.
BundleMoves(p, c, r, x, j, q, d) ==
    /\ Serving(p, c, r, x, j) /\ c.id \in Ids
    /\ bundles' = [bundles EXCEPT ![c.id] = q] /\ Writable(c.id, r, q, x)
    /\ call' = [call EXCEPT ![p] = d]
    /\ UNCHANGED <<contexts, journal, lane, chain, now, answer, returned>>
    /\ d.id = c.id /\ d.kind = c.kind /\ d.pc \notin Sending
    /\ CallOK(d, q, x, journal[d.hash])
    /\ r # Absent => q.released = r.released

LEMMA BundleMove ==
    ASSUME IInv, NEW p \in Callers, NEW c, NEW r, NEW x, NEW j, NEW q, NEW d,
           BundleMoves(p, c, r, x, j, q, d)
    PROVE  Good
<1>1. c.id \in Ids /\ bundles'[c.id] = q
  BY Zenon DEF BundleMoves, IInv, BundlesOK
<1>2. c = call[p] /\ r = bundles[c.id] /\ x = contexts[c.id] /\ CallOK(c, r, x, j)
  BY Zenon DEF BundleMoves, Serving
<1>3. d.kind = "start" => ~q.released
  <2>1. c.kind = "start" => r # Absent
    BY Zenon, <1>2 DEF CallOK
  <2>2. c.kind = "start" => ~r.released
    BY Zenon, <1>2 DEF IInv, CallsOK
  <2> QED BY Zenon, <2>1, <2>2 DEF BundleMoves
<1>4. GoesOn(p, d)
  BY Zenon, <1>1, <1>2, <1>3 DEF GoesOn, BundleMoves
<1>5. AnswersGrow /\ ReturnsGrow
  BY Zenon, NothingNew DEF BundleMoves
<1>6. r # Absent => q.released = r.released
  BY Zenon DEF BundleMoves
<1> QED BY Zenon, <1>1, <1>2, <1>4, <1>5, <1>6, BundleStep DEF BundleMoves

LEMMA BundleStop ==
    ASSUME IInv, NEW p \in Callers, NEW b \in Ids, NEW seen, bundles' = Terminalized(b, seen), Stop(p),
           UNCHANGED <<contexts, journal, lane, chain, now>>, AnswersGrow, ReturnsGrow
    PROVE  Good
<1>1. PICK q : IsEnded(b, seen, q)
  BY Zenon, TerminalizedIs
<1>2. /\ bundles' = [bundles EXCEPT ![b] = q]
      /\ Writable(b, bundles[b], q, contexts[b])
      /\ bundles[b] # Absent => q.released = bundles[b].released
  BY Zenon, <1>1 DEF IsEnded
<1>3. GoesOn(p, Idle)
  BY Zenon, Stops
<1> QED BY Zenon, <1>2, <1>3, BundleStep

LEMMA SendCallsOK ==
    ASSUME IInv, NEW p \in Callers, NEW b \in Ids, SendCalls(p, b)
    PROVE  Good
<1>1. b \in SendIds /\ b \notin Contexts /\ bundles[b] = Absent
  BY Zenon DEF SendCalls, SendIds
<1>2. PICK k, q :
         /\ k \in CallsOf[b]
         /\ q = IF Confirmer THEN reservePendingConfirmation(now) ELSE reserveAccepted(now + Lease)
         /\ bundles' = [bundles EXCEPT ![b] = q]
         /\ call' = [call EXCEPT ![p] = [Idle EXCEPT !.pc = IF Confirmer THEN "confirm" ELSE "lane",
                                                     !.kind = "start", !.id = b, !.calls = k, !.rec = q]]
  BY Zenon DEF SendCalls, Bundle, Goto
<1>3. k \in Calls
  BY Zenon, <1>2, ProviderAssumption
<1>4. now \in 0 .. MaxNow /\ now + Lease + Lifetime <= MaxNow
  BY Zenon DEF SendCalls, IInv, JournalsOK
<1>5. now + Lifetime <= MaxNow /\ now + Lease \in Times \ {Never}
  BY <1>4, TimesAssumption DEF Times, Never
<1>6. q \in BundleRecords /\ Readable(q) /\ q.op = None /\ ~q.released
  BY Zenon, <1>2, <1>4, <1>5, ReservedIsReadable
<1>7. Writable(b, bundles[b], q, contexts[b])
  BY Zenon, <1>1, <1>6 DEF Writable
<1>8. PICK pc \in {"confirm", "lane"} : pc = IF Confirmer THEN "confirm" ELSE "lane"
  BY Zenon
<1>9. PICK d : d = [Idle EXCEPT !.pc = pc, !.kind = "start", !.id = b, !.calls = k, !.rec = q]
  BY Zenon
<1>10. call' = [call EXCEPT ![p] = d]
  BY Zenon, <1>2, <1>8, <1>9
<1>11. d = [pc |-> pc, kind |-> "start", id |-> b, calls |-> k, hash |-> None, rec |-> q,
           lane |-> Absent, ctx |-> Absent, at |-> 0, found |-> "none", retried |-> FALSE]
  BY Zenon, <1>9 DEF Idle
<1>12. d \in CallRecords
  BY <1>3, <1>6, <1>11, TimesAssumption DEF CallRecords, StartPcs, Founds
<1>13. Fields(d, pc, "start", b, k, None, q, Absent, Absent, 0, "none")
  BY Zenon, <1>11 DEF Fields
<1>14. \A x, j : CallOK(d, q, x, j)
  <2>1. q # Absent
    BY Zenon, <1>6, NotAbsent
  <2> QED BY <1>1, <1>3, <1>12, <1>13, <2>1 DEF CallOK, Fields, Sending, StartPcs
<1>15. bundles'[b] = q
  BY Zenon, <1>2 DEF IInv, BundlesOK
<1>16. GoesOn(p, d)
  BY Zenon, <1>1, <1>6, <1>13, <1>14, <1>15, <1>10 DEF GoesOn, Fields, Sending
<1>17. AnswersGrow /\ ReturnsGrow
  BY Zenon, NothingNew DEF SendCalls
<1> QED BY Zenon, <1>1, <1>2, <1>7, <1>16, <1>17, BundleStep DEF SendCalls

LEMMA StartIs ==
    ASSUME IInv, NEW p \in Callers, NEW c, NEW r, NEW x, NEW j, Serving(p, c, r, x, j), c.kind = "start"
    PROVE  /\ c \in CallRecords /\ c.id \in Ids /\ c.id \notin Contexts /\ r \in BundleRecords
           /\ r # Absent /\ Readable(r) /\ ~r.released /\ c.calls \in Calls /\ c.rec # Absent
<1>1. c \in CallRecords /\ c.id \in SendIds /\ r # Absent /\ c.calls \in Calls /\ c.rec # Absent
  BY Zenon DEF Serving, CallOK
<1>2. c.id \in Ids /\ c.id \notin Contexts
  BY Zenon, <1>1 DEF SendIds
<1>3. r \in BundleRecords /\ Readable(r)
  BY Zenon, <1>1, <1>2 DEF Serving, IInv, BundlesOK, BundleOK
<1>4. ~r.released
  BY Zenon DEF Serving, IInv, CallsOK
<1> QED BY Zenon, <1>1, <1>2, <1>3, <1>4

LEMMA ResumeIs ==
    ASSUME IInv, NEW p \in Callers, NEW c, NEW r, NEW x, NEW j, Serving(p, c, r, x, j), c.kind = "resume"
    PROVE  /\ c \in CallRecords /\ c.id \in Contexts /\ c.id \in Ids /\ c.hash \in Hashes /\ c.hash # None
           /\ x # Absent /\ x \in ContextRecords /\ ContextReadable(x) /\ c.hash = x.op
           /\ r # Absent => r \in BundleRecords /\ Readable(r) /\ r.op \in {None, c.hash}
<1>1. /\ c \in CallRecords /\ c.id \in Contexts /\ x # Absent /\ c.hash = x.op /\ c.hash # None
  BY Zenon DEF Serving, CallOK
<1>2. c.id \in Ids /\ c.hash \in Hashes
  BY Zenon, <1>1, ProviderAssumption DEF CallRecords
<1>3. x \in ContextRecords /\ ContextReadable(x)
  BY Zenon, <1>1 DEF Serving, IInv, BundlesOK, ContextOK
<1>4. r # Absent => r \in BundleRecords /\ Readable(r) /\ r.op \in {None, c.hash}
  BY Zenon, <1>1, <1>2 DEF Serving, IInv, BundlesOK, BundleOK
<1> QED BY Zenon, <1>1, <1>2, <1>3, <1>4

LEMMA ApproveOK ==
    ASSUME IInv, NEW p \in Callers, Approve(p)
    PROVE  Good
<1>1. PICK c, r, x, j : Serving(p, c, r, x, j)
  BY Zenon, Served
<1>2. CallOK(c, r, x, j) /\ c.pc = "confirm" /\ c.kind = "start"
  BY Zenon, <1>1 DEF Approve, At, Serving, CallOK, CallRecords, StatusPcs, ResumePcs
<1>3. /\ c \in CallRecords /\ c.id \in Ids /\ c.id \notin Contexts /\ r \in BundleRecords
      /\ r # Absent /\ Readable(r)
  BY Zenon, <1>1, <1>2, StartIs
<1>4. CASE mayApprove(r, c.rec, now)
  <2>1. PICK q : q = approveConfirmation(r, now)
    BY Zenon
  <2>2. /\ now + Lease <= MaxNow /\ bundles' = [bundles EXCEPT ![c.id] = q]
        /\ call' = [call EXCEPT ![p] = [c EXCEPT !.pc = "lane", !.rec = q]]
    BY Zenon, <1>1, <1>4, <2>1 DEF Approve, Serving, Bundle, Goto
  <2>3. Moves(r, q)
    BY <1>4, <2>1, <2>2 DEF Moves, mayApprove, Fenced, IInv, JournalsOK
  <2>4. q \in BundleRecords /\ q # Absent
    BY Zenon, <1>3, <2>3, MovesOK, NotAbsent
  <2>5. q.released = r.released
    BY Zenon, <1>3, <2>1 DEF approveConfirmation, Moved, BundleRecords
  <2>6. Writable(c.id, r, q, x)
    BY Zenon, <1>3, <2>3 DEF Writable
  <2>7. PICK d : d = [c EXCEPT !.pc = "lane", !.rec = q]
    BY Zenon
  <2>8. d \in CallRecords
    BY Zenon, <1>3, <2>4, <2>7 DEF CallRecords, StartPcs
  <2>9. Fields(d, "lane", c.kind, c.id, c.calls, c.hash, q, c.lane, c.ctx, c.at, c.found)
    BY Zenon, <1>3, <2>7 DEF CallRecords, Fields
  <2>10. CallOK(d, q, x, j)
    BY Zenon, <1>2, <2>4, <2>8, <2>9 DEF CallOK, Fields, Sending, StartPcs
  <2>11. BundleMoves(p, c, r, x, j, q, d)
    BY Zenon, <1>1, <1>3, <2>2, <2>5, <2>6, <2>7, <2>9, <2>10
    DEF BundleMoves, Approve, Serving, Fields, Sending
  <2> QED BY Zenon, <2>11, BundleMove
<1>5. CASE ~mayApprove(r, c.rec, now)
  <2>1. bundles' = Terminalized(c.id, c.rec) /\ Stop(p)
    BY Zenon, <1>1, <1>5 DEF Approve, Serving
  <2>2. AnswersGrow /\ ReturnsGrow
    BY Zenon, NothingNew DEF Approve
  <2> QED BY Zenon, <1>3, <2>1, <2>2, BundleStop DEF Approve
<1> QED BY Zenon, <1>4, <1>5

LEMMA GiveUpOK ==
    ASSUME IInv, NEW p \in Callers, GiveUp(p)
    PROVE  Good
<1>1. PICK c, r, x, j : Serving(p, c, r, x, j)
  BY Zenon, Served
<1>2. CallOK(c, r, x, j) /\ c.pc \in {"confirm", "undo"} /\ c.kind = "start"
  BY Zenon, <1>1 DEF GiveUp, Serving, CallOK, CallRecords, StatusPcs, ResumePcs
<1>3. c.id \in Ids
  BY Zenon, <1>1, <1>2, StartIs
<1>4. bundles' = Terminalized(c.id, c.rec) /\ Stop(p)
  BY Zenon, <1>1 DEF GiveUp, Serving
<1>5. AnswersGrow /\ ReturnsGrow
  BY Zenon, NothingNew DEF GiveUp
<1> QED BY Zenon, <1>3, <1>4, <1>5, BundleStop DEF GiveUp

LEMMA ReserveForStartOK ==
    ASSUME IInv, NEW p \in Callers, ReserveForStart(p)
    PROVE  Good
<1>1. PICK c, r, x, j : Serving(p, c, r, x, j)
  BY Zenon, Served
<1>2. CallOK(c, r, x, j) /\ c.pc = "prepare" /\ c.kind = "start" /\ nonce <= MaxSeq
  BY Zenon, <1>1 DEF ReserveForStart, At, Serving
<1>3. /\ c \in CallRecords /\ c.id \in Ids /\ c.id \notin Contexts /\ r \in BundleRecords
      /\ r # Absent /\ Readable(r) /\ c.calls \in Calls
  BY Zenon, <1>1, <1>2, StartIs
<1>4. PICK h \in Hashes : h = <<c.calls, nonce>>
  <2>1. nonce \in 0 .. MaxSeq
    BY <1>2, TimesAssumption DEF IInv, JournalsOK
  <2> QED BY Zenon, <1>3, <2>1 DEF Hashes
<1>5. CASE Fenced(r, c.rec, {"accepted"})
  <2>1. PICK q : q = reserveOperation(r, h)
    BY Zenon
  <2>2. /\ bundles' = [bundles EXCEPT ![c.id] = q]
        /\ call' = [call EXCEPT ![p] = [c EXCEPT !.pc = "publish", !.hash = h, !.rec = q]]
    BY Zenon, <1>1, <1>4, <1>5, <2>1 DEF ReserveForStart, Serving, Bundle, Goto
  <2>3. Moves(r, q)
    BY Zenon, <1>5, <2>1 DEF Moves, Fenced
  <2>4. q \in BundleRecords /\ q # Absent /\ h # None
    BY Zenon, <1>3, <2>3, MovesOK, NotAbsent, NoneAssumption
  <2>5. q.released = r.released /\ q.op = h
    BY Zenon, <1>3, <2>1 DEF reserveOperation, Moved, BundleRecords
  <2>6. Writable(c.id, r, q, x)
    BY Zenon, <1>3, <2>3 DEF Writable
  <2>7. PICK d : d = [c EXCEPT !.pc = "publish", !.hash = h, !.rec = q]
    BY Zenon
  <2>8. d \in CallRecords
    BY Zenon, <1>3, <2>4, <2>7 DEF CallRecords, StartPcs
  <2>9. Fields(d, "publish", c.kind, c.id, c.calls, h, q, c.lane, c.ctx, c.at, c.found)
    BY Zenon, <1>3, <2>7 DEF CallRecords, Fields
  <2>10. \A i : CallOK(d, q, x, i)
    BY Zenon, <1>2, <2>4, <2>5, <2>8, <2>9 DEF CallOK, Fields, Sending, StartPcs
  <2>11. BundleMoves(p, c, r, x, j, q, d)
    BY Zenon, <1>1, <1>3, <2>2, <2>5, <2>6, <2>7, <2>9, <2>10
    DEF BundleMoves, ReserveForStart, Serving, Fields, Sending
  <2> QED BY Zenon, <2>11, BundleMove
<1>6. CASE ~Fenced(r, c.rec, {"accepted"})
  BY Zenon, <1>1, <1>6, LocalStop DEF ReserveForStart, Serving, stores
<1> QED BY Zenon, <1>5, <1>6

LEMMA ReserveForResumeOK ==
    ASSUME IInv, NEW p \in Callers, ReserveForResume(p)
    PROVE  Good
<1>1. PICK c, r, x, j : Serving(p, c, r, x, j)
  BY Zenon, Served
<1>2. CallOK(c, r, x, j) /\ c.pc = "prepare" /\ c.kind = "resume"
  BY Zenon, <1>1 DEF ReserveForResume, At, Serving
<1>3. /\ c \in CallRecords /\ c.id \in Ids /\ c.hash \in Hashes /\ c.hash # None /\ c.hash = x.op
      /\ r # Absent /\ r \in BundleRecords /\ Readable(r) /\ r.op \in {None, c.hash}
  BY Zenon, <1>1, <1>2, ResumeIs DEF CallOK
<1>4. PICK pc \in {"authorize", "publish"} :
         /\ pc = IF Occupied(c.lane) THEN "authorize" ELSE "publish"
         /\ pc = "authorize" => Occupied(c.lane)
  BY Zenon
<1>5. PICK d : d = [c EXCEPT !.pc = pc]
  BY Zenon
<1>6. /\ d \in CallRecords
      /\ Fields(d, pc, c.kind, c.id, c.calls, c.hash, c.rec, c.lane, c.ctx, c.at, c.found)
  BY Zenon, <1>3, <1>5, PcMoves DEF StartPcs
<1>7. \A s : s # Absent /\ s.op = c.hash => CallOK(d, s, x, j)
  BY <1>2, <1>3, <1>4, <1>6 DEF CallOK, Fields, Sending, ResumePcs
<1>8. CASE r.op # None
  <2>1. UNCHANGED bundles /\ call' = [call EXCEPT ![p] = d]
    BY Zenon, <1>1, <1>4, <1>5, <1>8 DEF ReserveForResume, Serving, Goto
  <2>2. CallOK(d, r, x, j)
    BY Zenon, <1>3, <1>7, <1>8
  <2> QED BY Zenon, <1>1, <1>2, <1>4, <1>6, <2>1, <2>2, LocalMove DEF ReserveForResume, Serving, Fields, Sending, stores
<1>9. CASE r.op = None /\ Fenced(r, r, {"accepted"})
  <2>1. PICK q : q = reserveOperation(r, c.hash)
    BY Zenon
  <2>2. bundles' = [bundles EXCEPT ![c.id] = q] /\ call' = [call EXCEPT ![p] = d]
    BY Zenon, <1>1, <1>4, <1>5, <1>9, <2>1 DEF ReserveForResume, Serving, Bundle, Goto
  <2>3. Moves(r, q)
    BY Zenon, <1>3, <1>9, <2>1 DEF Moves, Fenced
  <2>4. q \in BundleRecords /\ q # Absent
    BY Zenon, <1>3, <2>3, MovesOK, NotAbsent
  <2>5. q.released = r.released /\ q.op = c.hash
    BY Zenon, <1>3, <2>1 DEF reserveOperation, Moved, BundleRecords
  <2>6. Writable(c.id, r, q, x)
    BY Zenon, <1>3, <2>3, <2>5 DEF Writable
  <2>7. CallOK(d, q, x, j)
    BY Zenon, <1>7, <2>4, <2>5
  <2>8. BundleMoves(p, c, r, x, j, q, d)
    BY Zenon, <1>1, <1>3, <1>6, <2>2, <2>5, <2>6, <2>7
    DEF BundleMoves, ReserveForResume, Serving, Fields, Sending
  <2> QED BY Zenon, <2>8, BundleMove
<1>10. CASE r.op = None /\ ~Fenced(r, r, {"accepted"})
  BY Zenon, <1>1, <1>10, LocalStop DEF ReserveForResume, Serving, stores
<1> QED BY Zenon, <1>8, <1>9, <1>10

\* The callers that work on a reserved operation: their bundle names it.
LEMMA WorkerIs ==
    ASSUME IInv, NEW p \in Callers, NEW c, NEW r, NEW x, NEW j, Serving(p, c, r, x, j),
           c.pc \in {"publish", "authorize", "bind", "abandon", "attempt", "send", "reject",
                     "release", "converge", "finish"}
    PROVE  /\ c \in CallRecords /\ c.kind \in {"start", "resume"} /\ c.id \in Ids
           /\ c.hash \in Hashes /\ c.hash # None
           /\ r # Absent /\ r \in BundleRecords /\ Readable(r) /\ r.op = c.hash
           /\ c.id \in Contexts => r.op \in {None, x.op}
<1>1. CallOK(c, r, x, j)
  BY Zenon DEF Serving
<1>2. c \in CallRecords /\ c.kind \in {"start", "resume"}
  BY Zenon, <1>1 DEF CallOK, CallRecords, StatusPcs
<1>3. c.hash # None /\ c.hash \in Hashes /\ r # Absent /\ r.op = c.hash
  BY Zenon, <1>1, <1>2 DEF CallOK, CallRecords
<1>4. c.id \in Ids
  BY Zenon, <1>1, <1>2, ProviderAssumption DEF CallOK, SendIds
<1>5. r \in BundleRecords /\ Readable(r) /\ (c.id \in Contexts => r.op \in {None, x.op})
  BY Zenon, <1>3, <1>4 DEF Serving, IInv, BundlesOK, BundleOK
<1> QED BY Zenon, <1>2, <1>3, <1>4, <1>5

\* The bundle of a worker is confirmed.
LEMMA Confirming ==
    ASSUME NEW b, NEW r \in BundleRecords, Readable(r), NEW x, b \in Contexts => r.op \in {None, x.op},
           r.state = "operation_reserved", NEW q, q = confirmOperationPublished(r)
    PROVE  /\ q \in BundleRecords /\ q # Absent /\ Origin(q) = "operation_bound"
           /\ q.released = r.released /\ q.op = r.op /\ Writable(b, r, q, x)
<1>1. Moves(r, q)
  BY Zenon DEF Moves
<1>2. q \in BundleRecords /\ q # Absent
  BY Zenon, <1>1, MovesOK, NotAbsent
<1>3. q.released = r.released /\ q.op = r.op /\ q.state = "operation_bound"
  BY Zenon DEF confirmOperationPublished, Moved, BundleRecords
<1>4. Origin(q) = "operation_bound"
  BY Zenon, <1>3 DEF Origin
<1> QED BY Zenon, <1>1, <1>2, <1>3, <1>4, NotAbsent DEF Writable

LEMMA ConfirmPublicationOK ==
    ASSUME IInv, NEW p \in Callers, ConfirmPublication(p)
    PROVE  Good
<1>1. PICK c, r, x, j : Serving(p, c, r, x, j)
  BY Zenon, Served
<1>2. CallOK(c, r, x, j) /\ c.pc = "bind"
  BY Zenon, <1>1 DEF ConfirmPublication, At, Serving
<1>3. /\ c \in CallRecords /\ c.id \in Ids /\ c.hash \in Hashes /\ c.hash # None
      /\ r # Absent /\ r \in BundleRecords /\ Readable(r) /\ r.op = c.hash
      /\ c.id \in Contexts => r.op \in {None, x.op}
  BY Zenon, <1>1, <1>2, WorkerIs
<1>4. PICK b : b = [c EXCEPT !.pc = "abandon"]
  BY Zenon
<1>5. /\ b \in CallRecords
      /\ Fields(b, "abandon", c.kind, c.id, c.calls, c.hash, c.rec, c.lane, c.ctx, c.at, c.found)
  BY Zenon, <1>3, <1>4, PcMoves DEF StartPcs
<1>6. \A s : s # Absent /\ s.op = c.hash => CallOK(b, s, x, j)
  BY <1>2, <1>3, <1>5 DEF CallOK, Fields, Sending, StartPcs, ResumePcs, StatusPcs
<1>7. CASE Fenced(r, SeenReserved(c), {"operation_reserved"})
  <2>1. PICK q : q = confirmOperationPublished(r)
    BY Zenon
  <2>2. r.state = "operation_reserved"
    BY Zenon, <1>7 DEF Fenced
  <2>3. /\ q \in BundleRecords /\ q # Absent /\ Origin(q) = "operation_bound"
        /\ q.released = r.released /\ q.op = r.op /\ Writable(c.id, r, q, x)
    BY Zenon, <1>3, <2>1, <2>2, Confirming
  <2>4. CASE bundles' = [bundles EXCEPT ![c.id] = q] /\ call' = [call EXCEPT ![p] = b]
    <3>1. BundleMoves(p, c, r, x, j, q, b)
      BY <1>1, <1>3, <1>5, <1>6, <2>3, <2>4
      DEF BundleMoves, ConfirmPublication, Serving, Fields, Sending
    <3> QED BY Zenon, <3>1, BundleMove
  <2>5. CASE UNCHANGED bundles /\ call' = [call EXCEPT ![p] = b]
    BY Zenon, <1>1, <1>3, <1>5, <1>6, <2>5, LocalMove DEF ConfirmPublication, Serving, Fields, Sending, stores
  <2>6. CASE /\ bundles' = [bundles EXCEPT ![c.id] = q]
             /\ call' = [call EXCEPT ![p] = [c EXCEPT !.pc = "attempt", !.rec = q]]
    <3>1. PICK d : d = [c EXCEPT !.pc = "attempt", !.rec = q]
      BY Zenon
    <3>2. d \in CallRecords
      BY Zenon, <1>3, <2>3, <3>1 DEF CallRecords, StartPcs
    <3>3. Fields(d, "attempt", c.kind, c.id, c.calls, c.hash, q, c.lane, c.ctx, c.at, c.found)
      BY Zenon, <1>3, <3>1 DEF CallRecords, Fields
    <3>4. CallOK(d, q, x, j)
      BY <1>2, <1>3, <2>3, <3>2, <3>3 DEF CallOK, Fields, Sending, StartPcs, ResumePcs, StatusPcs
    <3>5. BundleMoves(p, c, r, x, j, q, d)
      BY Zenon, <1>1, <1>3, <2>3, <2>6, <3>1, <3>3, <3>4
      DEF BundleMoves, ConfirmPublication, Serving, Fields, Sending
    <3> QED BY Zenon, <3>5, BundleMove
  <2> QED BY Zenon, <1>1, <1>4, <1>7, <2>1, <2>4, <2>5, <2>6 DEF ConfirmPublication, Serving, Bundle, Goto
<1>8. CASE ~Fenced(r, SeenReserved(c), {"operation_reserved"})
  <2>1. PICK pc \in {"attempt", "abandon"} :
           /\ UNCHANGED bundles /\ call' = [call EXCEPT ![p] = [c EXCEPT !.pc = pc]]
           /\ pc = "attempt" => r.state = "operation_bound"
    BY Zenon, <1>1, <1>8 DEF ConfirmPublication, Serving, Goto
  <2>2. PICK d : d = [c EXCEPT !.pc = pc]
    BY Zenon
  <2>3. /\ d \in CallRecords
        /\ Fields(d, pc, c.kind, c.id, c.calls, c.hash, c.rec, c.lane, c.ctx, c.at, c.found)
    BY Zenon, <1>3, <2>2, PcMoves DEF StartPcs
  <2>4. r.state = "operation_bound" => Origin(r) = "operation_bound"
    BY Zenon DEF Origin
  <2>5. CallOK(d, r, x, j)
    BY <1>2, <1>3, <2>1, <2>3, <2>4 DEF CallOK, Fields, Sending, StartPcs, ResumePcs, StatusPcs
  <2> QED BY Zenon, <1>1, <2>1, <2>2, <2>3, <2>5, LocalMove DEF ConfirmPublication, Serving, Fields, Sending, stores
<1> QED BY Zenon, <1>7, <1>8

LEMMA ReleaseReservationOK ==
    ASSUME IInv, NEW p \in Callers, ReleaseReservation(p)
    PROVE  Good
<1>1. PICK c, r, x, j : Serving(p, c, r, x, j)
  BY Zenon, Served
<1>2. c.id \in Ids
  BY Zenon, <1>1, WorkerIs DEF ReleaseReservation, At, Serving
<1>3. bundles' = Terminalized(c.id, SeenReserved(c)) /\ Stop(p)
  BY Zenon, <1>1 DEF ReleaseReservation, Serving
<1>4. AnswersGrow /\ ReturnsGrow
  BY Zenon, NothingNew DEF ReleaseReservation
<1> QED BY Zenon, <1>2, <1>3, <1>4, BundleStop DEF ReleaseReservation

LEMMA ConvergeOK ==
    ASSUME IInv, NEW p \in Callers, Converge(p)
    PROVE  Good
<1>1. PICK c, r, x, j : Serving(p, c, r, x, j)
  BY Zenon, Served
<1>2. CallOK(c, r, x, j) /\ c.pc = "converge"
  BY Zenon, <1>1 DEF Converge, At, Serving
<1>3. /\ c \in CallRecords /\ c.id \in Ids /\ c.hash \in Hashes /\ c.hash # None
      /\ r # Absent /\ r \in BundleRecords /\ Readable(r) /\ r.op = c.hash
      /\ c.id \in Contexts => r.op \in {None, x.op}
  BY Zenon, <1>1, <1>2, WorkerIs
<1>4. PICK d : d = [c EXCEPT !.pc = "finish"]
  BY Zenon
<1>5. /\ d \in CallRecords
      /\ Fields(d, "finish", c.kind, c.id, c.calls, c.hash, c.rec, c.lane, c.ctx, c.at, c.found)
  BY Zenon, <1>3, <1>4, PcMoves DEF StartPcs
<1>6. Advanced(d, j)
  BY Zenon, <1>2, <1>5 DEF CallOK, Advanced, Fields
<1>7. \A s : s # Absent /\ s.op = c.hash => CallOK(d, s, x, j)
  BY <1>2, <1>3, <1>5, <1>6 DEF CallOK, Fields, Sending, StartPcs, ResumePcs, StatusPcs
<1>8. CASE Fenced(r, r, {"operation_reserved"})
  <2>1. PICK q : q = confirmOperationPublished(r)
    BY Zenon
  <2>2. r.state = "operation_reserved"
    BY Zenon, <1>8 DEF Fenced
  <2>3. /\ q # Absent /\ q.released = r.released /\ q.op = r.op /\ Writable(c.id, r, q, x)
    BY Zenon, <1>3, <2>1, <2>2, Confirming
  <2>4. bundles' = [bundles EXCEPT ![c.id] = q] /\ call' = [call EXCEPT ![p] = d]
    BY Zenon, <1>1, <1>3, <1>4, <1>8, <2>1 DEF Converge, Serving, Bundle, Goto
  <2>5. BundleMoves(p, c, r, x, j, q, d)
    BY Zenon, <1>1, <1>3, <1>5, <1>7, <2>3, <2>4
    DEF BundleMoves, Converge, Serving, Fields, Sending
  <2> QED BY Zenon, <2>5, BundleMove
<1>9. CASE ~Fenced(r, r, {"operation_reserved"})
  <2>1. UNCHANGED bundles /\ (call' = [call EXCEPT ![p] = d] \/ Stop(p))
    BY Zenon, <1>1, <1>3, <1>4, <1>9 DEF Converge, Serving, Goto
  <2>2. CASE call' = [call EXCEPT ![p] = d]
    BY Zenon, <1>1, <1>3, <1>5, <1>7, <2>1, <2>2, LocalMove DEF Converge, Serving, Fields, Sending, stores
  <2>3. CASE Stop(p)
    BY Zenon, <2>1, <2>3, LocalStop DEF Converge, stores
  <2> QED BY Zenon, <2>1, <2>2, <2>3
<1> QED BY Zenon, <1>8, <1>9

\* The publication of a bound bundle is released, and its id returned.
LEMMA Releasing ==
    ASSUME IInv, NEW p \in Callers, NEW c, NEW r, NEW x, NEW j, Serving(p, c, r, x, j),
           c.pc = "finish", ~r.released, r.state = "operation_bound",
           Bundle(c.id, releaseOperationPublication(r)), Return(c.id), Stop(p), ~OtherStart(p, c.id),
           UNCHANGED <<contexts, journal, lane, chain, now, answer>>
    PROVE  Good
<1>1. CallOK(c, r, x, j) /\ Advanced(c, j)
  BY Zenon DEF Serving, CallOK
<1>2. /\ c \in CallRecords /\ c.id \in Ids /\ c.hash \in Hashes /\ c.hash # None
      /\ r # Absent /\ r \in BundleRecords /\ Readable(r) /\ r.op = c.hash
      /\ c.id \in Contexts => r.op \in {None, x.op}
  BY WorkerIs
<1>3. PICK q : q = releaseOperationPublication(r)
  BY Zenon
<1>4. Moves(r, q)
  BY Zenon, <1>3 DEF Moves
<1>5. q \in BundleRecords /\ q # Absent
  BY Zenon, <1>2, <1>4, MovesOK, NotAbsent
<1>6. q.released /\ q.op = r.op
  BY Zenon, <1>2, <1>3 DEF releaseOperationPublication, Moved, BundleRecords
<1>7. Writable(c.id, r, q, x)
  BY Zenon, <1>2, <1>4, <1>6 DEF Writable
<1>8. bundles' = [bundles EXCEPT ![c.id] = q] /\ bundles'[c.id] = q
  BY Zenon, <1>2, <1>3 DEF Bundle, IInv, BundlesOK
<1>9. ReturnOK(c.id, bundles'[c.id], journal')
  BY Zenon, <1>1, <1>2, <1>5, <1>6, <1>8 DEF ReturnOK, Advanced, Serving
<1>10. ReturnsGrow
  BY Zenon, <1>2, <1>9 DEF ReturnsGrow, Return, IInv, ReturnsOK
<1>11. AnswersGrow
  BY Zenon, NothingNew
<1>12. GoesOn(p, Idle)
  BY Zenon, Stops
<1>13. ~UNCHANGED call
  <2>1. call[p].pc = "finish" /\ call'[p].pc = "idle"
    BY Zenon, IdleIsOK DEF Serving, Stop, Goto, IInv, CallsOK
  <2> QED BY Zenon, <2>1
<1> QED BY Zenon, <1>2, <1>7, <1>8, <1>10, <1>11, <1>12, <1>13, BundleStep DEF Serving

LEMMA FinishSendOK ==
    ASSUME IInv, NEW p \in Callers, FinishSend(p)
    PROVE  Good
<1>1. PICK c, r, x, j : Serving(p, c, r, x, j)
  BY Zenon, Served
<1>2. c.pc = "finish" /\ c.kind = "start"
  BY Zenon, <1>1 DEF FinishSend, At, Serving
<1>3. ~r.released
  BY Zenon, <1>1, <1>2, StartIs
<1>4. ~OtherStart(p, c.id)
  BY Zenon, <1>1, <1>2 DEF OtherStart, Serving, IInv, CallsOK
<1>5. CASE Fenced(r, r, {"operation_bound"})
  <2>1. r.state = "operation_bound"
    BY Zenon, <1>5 DEF Fenced
  <2>2. Bundle(c.id, releaseOperationPublication(r)) /\ Return(c.id) /\ Stop(p)
    BY Zenon, <1>1, <1>5 DEF FinishSend, Serving
  <2> QED BY Zenon, <1>1, <1>2, <1>3, <1>4, <2>1, <2>2, Releasing DEF FinishSend
<1>6. CASE ~Fenced(r, r, {"operation_bound"})
  BY Zenon, <1>1, <1>6, LocalStop DEF FinishSend, Serving, stores
<1> QED BY Zenon, <1>5, <1>6

LEMMA ReleasePublicationOK ==
    ASSUME IInv, NEW p \in Callers, ReleasePublication(p)
    PROVE  Good
<1>1. PICK c, r, x, j : Serving(p, c, r, x, j)
  BY Zenon, Served
<1>2. CallOK(c, r, x, j) /\ c.pc = "finish" /\ c.kind = "resume" /\ c.id \in Contexts
  BY Zenon, <1>1 DEF ReleasePublication, At, Serving, CallOK
<1>3. c.id \in Ids /\ r # Absent /\ r.op = c.hash /\ c.hash # None
  BY Zenon, <1>1, <1>2, WorkerIs
<1>4. CASE r.released
  <2>1. UNCHANGED bundles /\ Return(c.id) /\ Stop(p)
    BY Zenon, <1>1, <1>4 DEF ReleasePublication, Serving
  <2>2. ReturnOK(c.id, bundles'[c.id], journal')
    BY Zenon, <1>1, <1>2, <1>3, <1>4, <2>1 DEF ReturnOK, CallOK, Advanced, Serving, ReleasePublication
  <2>3. ReturnsGrow
    BY Zenon, <1>3, <2>1, <2>2 DEF ReturnsGrow, Return, IInv, ReturnsOK
  <2>4. AnswersGrow
    BY Zenon, NothingNew DEF ReleasePublication
  <2>5. bundles' = [bundles EXCEPT ![c.id] = bundles[c.id]]
        /\ Writable(c.id, bundles[c.id], bundles[c.id], contexts[c.id])
    BY Zenon, <1>3, <2>1, SameBundle
  <2>6. GoesOn(p, Idle)
    BY Zenon, <2>1, Stops
  <2> QED BY Zenon, <1>3, <2>3, <2>4, <2>5, <2>6, BundleStep DEF ReleasePublication
<1>5. CASE ~r.released /\ Fenced(r, r, {"operation_bound"})
  <2>1. r.state = "operation_bound"
    BY Zenon, <1>5 DEF Fenced
  <2>2. Bundle(c.id, releaseOperationPublication(r)) /\ Return(c.id) /\ Stop(p)
    BY Zenon, <1>1, <1>5 DEF ReleasePublication, Serving
  <2>3. ~OtherStart(p, c.id)
    BY Zenon, <1>2 DEF OtherStart, IInv, CallsOK, CallOK, SendIds
  <2> QED BY Zenon, <1>1, <1>2, <1>5, <2>1, <2>2, <2>3, Releasing DEF ReleasePublication
<1>6. CASE ~r.released /\ ~Fenced(r, r, {"operation_bound"})
  BY Zenon, <1>1, <1>6, LocalStop DEF ReleasePublication, Serving, stores
<1> QED BY Zenon, <1>4, <1>5, <1>6

LEMMA ReserveBundleOK ==
    ASSUME IInv, NEW p \in Callers, ReserveBundle(p)
    PROVE  Good
<1>1. PICK c, r, x, j : Serving(p, c, r, x, j)
  BY Zenon, Served
<1>2. CallOK(c, r, x, j) /\ c.pc = "bundle" /\ c.kind = "resume"
  BY Zenon, <1>1 DEF ReserveBundle, At, Serving, CallOK, CallRecords, StatusPcs, StartPcs
<1>3. /\ c \in CallRecords /\ c.id \in Ids /\ c.id \in Contexts /\ c.hash \in Hashes /\ c.hash # None
      /\ x # Absent
  BY Zenon, <1>1, <1>2, ResumeIs
<1>4. c.ctx # Absent /\ c.ctx \in ContextRecords /\ c.ctx.lease # Never /\ x.state = "consumed"
  BY Zenon, <1>2, <1>3 DEF CallOK, CallRecords
<1>5. c.ctx.lease \in Times \ {Never}
  BY Zenon, <1>4 DEF ContextRecords
<1>6. c.found = "observable" => Advanced(c, j) /\ r # Absent /\ r.op = c.hash
  <2>1. JournalOK(c.hash, j, bundles[j.owner], sent, executed, nonce)
    BY Zenon, <1>1, <1>3 DEF Serving, IInv, JournalsOK
  <2> QED BY Zenon, <1>1, <1>2, <2>1 DEF Serving, CallOK, Advanced, JournalOK
<1>7. PICK pc \in {"finish", "lane"} : pc = IF c.found = "observable" THEN "finish" ELSE "lane"
  BY Zenon
<1>8. PICK d : d = [c EXCEPT !.pc = pc, !.ctx = Absent, !.at = 0, !.found = "none"]
  BY Zenon
<1>9. call' = [call EXCEPT ![p] = d]
  BY Zenon, <1>1, <1>7, <1>8 DEF ReserveBundle, Serving, Goto
<1>10. d \in CallRecords
  <2>1. PICK e : e = [c EXCEPT !.pc = pc, !.ctx = Absent]
    BY Zenon
  <2>2. pc \in ResumePcs /\ 0 \in 0 .. MaxNow /\ "none" \in Founds
    BY TimesAssumption DEF ResumePcs, Founds
  <2>3. e \in CallRecords
    BY Zenon, <1>3, <2>1, <2>2 DEF CallRecords
  <2>4. d = [e EXCEPT !.at = 0, !.found = "none"]
    BY Zenon, <1>3, <1>8, <2>1 DEF CallRecords
  <2> QED BY Zenon, <2>2, <2>3, <2>4 DEF CallRecords
<1>11. Fields(d, pc, c.kind, c.id, c.calls, c.hash, c.rec, c.lane, Absent, 0, "none")
  BY Zenon, <1>3, <1>8 DEF CallRecords, Fields
<1>12. \A s : s # Absent /\ (pc = "finish" => s.op = c.hash) => CallOK(d, s, x, j)
  BY Zenon, <1>2, <1>3, <1>6, <1>7, <1>10, <1>11 DEF CallOK, Fields, Sending, ResumePcs, Advanced
<1>13. CASE r = Absent
  <2>1. PICK q : q = reserveAccepted(c.ctx.lease)
    BY Zenon
  <2>2. bundles' = [bundles EXCEPT ![c.id] = q]
    BY Zenon, <1>1, <1>13, <2>1 DEF ReserveBundle, Serving, Bundle
  <2>3. q \in BundleRecords /\ Readable(q) /\ q.op = None /\ q # Absent
    BY Zenon, <1>5, <2>1, ReservedIsReadable, NotAbsent
  <2>4. Writable(c.id, r, q, x)
    BY Zenon, <1>3, <1>4, <1>13, <2>3 DEF Writable
  <2>5. CallOK(d, q, x, j)
    BY Zenon, <1>6, <1>7, <1>12, <1>13, <2>3
  <2>6. BundleMoves(p, c, r, x, j, q, d)
    BY Zenon, <1>1, <1>3, <1>7, <1>9, <1>11, <1>13, <2>2, <2>4, <2>5
    DEF BundleMoves, ReserveBundle, Serving, Fields, Sending
  <2> QED BY Zenon, <2>6, BundleMove
<1>14. CASE r # Absent
  <2>1. CallOK(d, r, x, j)
    BY Zenon, <1>6, <1>7, <1>12, <1>14
  <2>2. UNCHANGED bundles
    BY Zenon, <1>1, <1>14 DEF ReserveBundle, Serving
  <2> QED BY Zenon, <1>1, <1>2, <1>7, <1>9, <1>11, <2>1, <2>2, LocalMove
          DEF ReserveBundle, Serving, Fields, Sending, stores
<1> QED BY Zenon, <1>13, <1>14

LEMMA StatusOfExpiredOK ==
    ASSUME IInv, NEW p \in Callers, NEW b \in Ids, StatusOfExpired(p, b)
    PROVE  Good
<1>1. PICK r : r = bundles[b]
  BY Zenon
<1>2. PICK q : IsEnded(b, r, q)
  BY Zenon, TerminalizedIs
<1>3. /\ bundles' = [bundles EXCEPT ![b] = q] /\ bundles'[b] = q
      /\ Writable(b, r, q, contexts[b])
      /\ r # Absent => q # Absent /\ q.released = r.released /\ q.op = r.op
      /\ Fenced(r, r, OpenStates) => q.state = "terminal"
      /\ ~Fenced(r, r, OpenStates) => q = r
  BY Zenon, <1>1, <1>2 DEF StatusOfExpired, IsEnded
<1>4. r # Absent /\ r \in BundleRecords /\ Readable(r)
  BY Zenon, <1>1 DEF StatusOfExpired, IInv, BundlesOK, BundleOK
<1>5. r.op = None
  BY Zenon, <1>1, <1>4 DEF StatusOfExpired, Readable, parseWalletCallBundleRecord, Origin
<1>6. q.state = "terminal"
  BY Zenon, <1>1, <1>3, <1>4 DEF Fenced, StatusOfExpired, OpenStates
<1>7. FailedOK(b, bundles'[b], journal')
  BY Zenon, <1>3, <1>4, <1>5, <1>6 DEF FailedOK
<1>8. AnswersGrow
  BY Zenon, <1>7 DEF AnswersGrow, StatusOfExpired, Answer, IInv, AnswersOK
<1>9. ReturnsGrow
  BY Zenon, NothingNew DEF StatusOfExpired
<1> QED BY Zenon, <1>1, <1>3, <1>8, <1>9, BundleStep DEF StatusOfExpired

LEMMA StatusIs ==
    ASSUME IInv, NEW p \in Callers, NEW c, NEW r, NEW x, NEW j, Serving(p, c, r, x, j),
           c.pc \in StatusPcs
    PROVE  /\ c \in CallRecords /\ c.kind = "status" /\ c.id \in Ids /\ c.hash \in Hashes
           /\ c.rec # Absent /\ r # Absent /\ r \in BundleRecords /\ r.op = c.hash /\ c.hash # None
<1>1. CallOK(c, r, x, j) /\ c \in CallRecords
  BY Zenon DEF Serving, CallOK
<1>2. c.kind = "status"
  BY Zenon, <1>1 DEF CallOK, CallRecords, StatusPcs, StartPcs, ResumePcs
<1>3. c.id \in Ids /\ c.rec # Absent /\ r # Absent /\ r.op = c.hash /\ c.hash # None
  BY Zenon, <1>1, <1>2 DEF CallOK
<1> QED BY Zenon, <1>1, <1>2, <1>3 DEF CallRecords, Serving, IInv, BundlesOK

LEMMA ConcludeOK ==
    ASSUME IInv, NEW p \in Callers, Conclude(p)
    PROVE  Good
<1>1. PICK c, r, x, j : Serving(p, c, r, x, j)
  BY Zenon, Served
<1>2. CallOK(c, r, x, j) /\ c.pc = "conclude"
  BY Zenon, <1>1 DEF Conclude, At, Serving
<1>3. /\ c \in CallRecords /\ c.kind = "status" /\ c.id \in Ids /\ c.hash \in Hashes
      /\ r # Absent /\ r \in BundleRecords /\ r.op = c.hash /\ c.hash # None
  BY Zenon, <1>1, <1>2, StatusIs DEF StatusPcs
<1>4. PICK t : IsEnded(c.id, c.rec, t)
  BY Zenon, <1>3, TerminalizedIs
<1>5. r = bundles[c.id] /\ x = contexts[c.id] /\ j = journal[c.hash]
  BY Zenon, <1>1 DEF Serving
<1>6. /\ Terminalized(c.id, c.rec) = [bundles EXCEPT ![c.id] = t]
      /\ Terminalized(c.id, c.rec)[c.id] = t /\ Writable(c.id, r, t, x)
      /\ t # Absent /\ t.released = r.released /\ t.op = r.op
  BY Zenon, <1>3, <1>4, <1>5 DEF IsEnded
<1>7. PICK q \in {r, t} : bundles' = [bundles EXCEPT ![c.id] = q] /\ bundles'[c.id] = q
                           /\ Writable(c.id, r, q, x)
  <2>1. bundles' = bundles \/ bundles' = Terminalized(c.id, c.rec)
    BY Zenon, <1>1 DEF Conclude, Serving
  <2>2. r = bundles[c.id] /\ x = contexts[c.id]
    BY Zenon, <1>1 DEF Serving
  <2>3. bundles = [bundles EXCEPT ![c.id] = r] /\ Writable(c.id, r, r, x)
    BY Zenon, <1>3, <2>2, SameBundle
  <2> QED BY Zenon, <1>6, <2>1, <2>2, <2>3
<1>8. q # Absent /\ q.released = r.released /\ q.op = c.hash
  BY Zenon, <1>3, <1>6, <1>7
<1>9. AnswersGrow
  <2>1. CASE UNCHANGED answer
    BY Zenon, <2>1, NothingNew
  <2>2. CASE Answer(c.id, "failed") /\ Fails(c) /\ bundles' = Terminalized(c.id, c.rec)
    <3>1. t.state = "terminal" /\ t.terminalFrom \in FailedFrom(c.found) /\ bundles'[c.id] = t
      BY Zenon, <1>6, <2>2 DEF Fails
    <3>2. t.terminalFrom = "operation_reserved" \/ c.found = "abandoned"
      BY Zenon, <3>1 DEF FailedFrom
    <3>3. c.found = "abandoned" => journal[t.op].state = "abandoned" /\ t.op # None
      <4>1. c.found = "abandoned" => j.state = "abandoned"
        BY Zenon, <1>2 DEF CallOK
      <4>2. t.op = c.hash
        BY Zenon, <1>3, <1>6
      <4> QED BY Zenon, <1>3, <1>5, <4>1, <4>2
    <3>4. FailedOK(c.id, bundles'[c.id], journal')
      BY Zenon, <1>6, <3>1, <3>2, <3>3 DEF FailedOK, Conclude
    <3> QED BY Zenon, <1>3, <2>2, <3>4 DEF AnswersGrow, Answer, IInv, AnswersOK
  <2> QED BY Zenon, <1>1, <2>1, <2>2 DEF Conclude, Serving, Fails
<1>10. ReturnsGrow
  BY Zenon, NothingNew DEF Conclude
<1>11. \E d : GoesOn(p, d)
  <2>1. CASE Stop(p)
    BY Zenon, <2>1, Stops
  <2>2. CASE c.found = "observable" /\ call' = [call EXCEPT ![p] = [c EXCEPT !.pc = "observe"]]
    <3>1. PICK d : d = [c EXCEPT !.pc = "observe"]
      BY Zenon
    <3>2. /\ d \in CallRecords
          /\ Fields(d, "observe", c.kind, c.id, c.calls, c.hash, c.rec, c.lane, c.ctx, c.at, c.found)
      BY Zenon, <1>3, <3>1, PcMoves DEF StatusPcs
    <3>3. Advanced(d, j)
      BY Zenon, <1>2, <2>2, <3>2 DEF CallOK, Advanced, Fields
    <3>4. CallOK(d, q, x, j)
      BY Zenon, <1>2, <1>3, <1>8, <3>2, <3>3 DEF CallOK, Fields, Sending, StatusPcs
    <3>5. UNCHANGED <<contexts, journal>>
      BY Zenon DEF Conclude
    <3>6. GoesOn(p, d)
      BY Zenon, <1>1, <1>3, <1>7, <2>2, <3>1, <3>2, <3>4, <3>5 DEF GoesOn, Serving, Fields, Sending
    <3> QED BY Zenon, <3>6
  <2> QED BY Zenon, <1>1, <2>1, <2>2 DEF Conclude, Serving, Stop, Goto
<1> QED BY <1>1, <1>3, <1>7, <1>8, <1>9, <1>10, <1>11, BundleStep DEF Conclude, Serving

LEMMA SettleOK ==
    ASSUME IInv, NEW p \in Callers, Settle(p)
    PROVE  Good
<1>1. PICK c, r, x, j : Serving(p, c, r, x, j)
  BY Zenon, Served
<1>2. CallOK(c, r, x, j) /\ c.pc = "settle"
  BY Zenon, <1>1 DEF Settle, At, Serving
<1>3. /\ c \in CallRecords /\ c.kind = "status" /\ c.id \in Ids /\ c.hash \in Hashes
      /\ r # Absent /\ r \in BundleRecords /\ r.op = c.hash /\ c.hash # None
  BY Zenon, <1>1, <1>2, StatusIs DEF StatusPcs
<1>4. PICK status : status = projectEip5792Status(c.found)
  BY Zenon
<1>5. CASE status = "pending"
  BY Zenon, <1>1, <1>4, <1>5, LocalStop DEF Settle, Serving, stores
<1>6. CASE status # "pending"
  <2>1. PICK t : IsEnded(c.id, c.rec, t)
    BY Zenon, <1>3, TerminalizedIs
  <2>2. r = bundles[c.id] /\ j = journal[c.hash]
    BY Zenon, <1>1 DEF Serving
  <2>3. /\ Terminalized(c.id, c.rec) = [bundles EXCEPT ![c.id] = t]
        /\ Terminalized(c.id, c.rec)[c.id] = t
        /\ t # Absent /\ t.op = r.op
    BY Zenon, <1>3, <2>1, <2>2 DEF IsEnded
  <2>4. bundles' = Terminalized(c.id, c.rec) /\ Stop(p)
    BY Zenon, <1>1, <1>4, <1>6 DEF Settle, Serving
  <2>5. /\ status = "done" => c.found = "finalized"
        /\ status = "failed" => c.found \in {"dropped", "abandoned"}
        /\ status \in {"done", "failed"}
    BY Zenon, <1>4, <1>6 DEF projectEip5792Status
  <2>6. Advanced(c, j) /\ (c.found \in Ended => j.state = c.found)
    BY Zenon, <1>2 DEF CallOK
  <2>7. status = "done" => \E h \in executed : journal[h].owner = c.id
    <3>1. JournalOK(c.hash, j, bundles[j.owner], sent, executed, nonce)
      BY Zenon, <1>1, <1>3 DEF Serving, IInv, JournalsOK
    <3> QED BY Zenon, <1>1, <2>5, <2>6, <3>1 DEF Serving, JournalOK, Advanced, Ended
  <2>8. status = "failed" => FailedOK(c.id, t, journal)
    <3>1. t # Absent /\ t.op = c.hash /\ c.hash # None
      BY Zenon, <1>3, <2>3
    <3>2. status = "failed" => j.state \in {"dropped", "abandoned"}
      BY Zenon, <2>5, <2>6 DEF Ended
    <3> QED BY Zenon, <2>2, <3>1, <3>2 DEF FailedOK
  <2>9. AnswersGrow
    <3>1. CASE UNCHANGED answer
      BY Zenon, <3>1, NothingNew
    <3>2. CASE Answer(c.id, status)
      BY <1>3, <2>3, <2>4, <2>5, <2>7, <2>8, <3>2
         DEF AnswersGrow, Answer, IInv, AnswersOK, Settle, chain
    <3> QED BY Zenon, <1>1, <1>4, <1>6, <3>1, <3>2 DEF Settle, Serving
  <2>10. ReturnsGrow
    BY Zenon, NothingNew DEF Settle
  <2> QED BY Zenon, <1>3, <2>4, <2>9, <2>10, BundleStop DEF Settle
<1> QED BY Zenon, <1>5, <1>6

-----------------------------------------------------------------------------
(***************************************************************************)
(* The steps that write the journal or reach the bundler.                  *)
(***************************************************************************)

\* The caller p writes j2 for its operation and goes on with d.
LEMMA JournalMove ==
    ASSUME IInv, NEW p \in Callers, NEW c, NEW r, NEW x, NEW j, Serving(p, c, r, x, j),
           c.hash \in Hashes, NEW k, journal' = [journal EXCEPT ![c.hash] = k],
           JournalGrows(j, k), k.state # "absent",
           JournalOK(c.hash, k, bundles[k.owner], sent, executed, nonce),
           lane' \in {lane, c.hash}, UNCHANGED <<bundles, contexts, chain, now, answer, returned>>,
           NEW d, call' = [call EXCEPT ![p] = d], d.id = c.id, d.kind = c.kind, d.hash = c.hash,
           CallOK(d, r, x, k),
           d.pc \in Sending => c.hash \notin sent /\ k.state = "attempted" /\ j.state = "prepared",
           k.state \notin {"attempted", "superseded", "dropped"} => ~OtherSender(p, c.hash)
    PROVE  Good
<1>1. journal'[c.hash] = k
  BY Zenon DEF IInv, JournalsOK
<1>2. d.kind = "start" => ~r.released
  BY Zenon DEF Serving, IInv, CallsOK
<1>3. GoesOn(p, d)
  BY Zenon, <1>1, <1>2 DEF GoesOn, Serving, chain
<1> QED BY Zenon, <1>3, JournalStep DEF Serving

\* Nobody submits an operation that is not attempted, or one that was sent.
LEMMA NoSender ==
    ASSUME IInv, NEW h \in Hashes,
           h \in sent \/ journal[h].state \notin {"attempted", "superseded", "dropped"}
    PROVE  \A q \in Callers : ~(call[q].pc \in Sending /\ call[q].hash = h)
BY Zenon DEF IInv, CallsOK, Unsent

LEMMA PublishOK ==
    ASSUME IInv, NEW p \in Callers, Publish(p)
    PROVE  Good
<1>1. PICK c, r, x, j : Serving(p, c, r, x, j)
  BY Zenon, Served
<1>2. CallOK(c, r, x, j) /\ c.pc = "publish"
  BY Zenon, <1>1 DEF Publish, At, Serving
<1>3. /\ c \in CallRecords /\ c.id \in Ids /\ c.hash \in Hashes /\ c.hash # None
      /\ c.kind \in {"start", "resume"} /\ r # Absent /\ r.op = c.hash
  BY Zenon, <1>1, <1>2, WorkerIs
<1>4. PICK l \in LaneRecords : l = LaneNow
  BY Zenon, LaneIs
<1>5. PICK prepared \in LaneRecords : prepared = [hash |-> c.hash, state |-> "prepared", owner |-> c.id]
  BY Zenon, <1>3 DEF LaneRecords, JournalStates
<1>6. CASE Goto(p, [c EXCEPT !.pc = "release"]) /\ UNCHANGED <<journal, lane>>
  <2>1. PICK d : d = [c EXCEPT !.pc = "release"]
    BY Zenon
  <2>2. /\ d \in CallRecords
        /\ Fields(d, "release", c.kind, c.id, c.calls, c.hash, c.rec, c.lane, c.ctx, c.at, c.found)
    BY Zenon, <1>3, <2>1, PcMoves DEF StartPcs
  <2>3. CallOK(d, r, x, j)
    BY <1>2, <1>3, <2>2 DEF CallOK, Fields, Sending, StartPcs, ResumePcs
  <2> QED BY Zenon, <1>1, <1>6, <2>1, <2>2, <2>3, LocalMove DEF Publish, Serving, Goto, Fields, Sending, stores
<1>7. CASE Stop(p) /\ UNCHANGED <<journal, lane>>
  BY Zenon, <1>7, LocalStop DEF Publish, stores
<1>8. CASE /\ j.state = "absent" /\ Journal(c.hash, "prepared", c.id) /\ lane' = c.hash
           /\ Goto(p, [c EXCEPT !.pc = "authorize", !.lane = prepared])
  <2>1. PICK d : d = [c EXCEPT !.pc = "authorize", !.lane = prepared]
    BY Zenon
  <2>2. d \in CallRecords
    BY Zenon, <1>3, <2>1 DEF CallRecords, StartPcs
  <2>3. Fields(d, "authorize", c.kind, c.id, c.calls, c.hash, c.rec, prepared, c.ctx, c.at, c.found)
    BY Zenon, <1>3, <2>1 DEF CallRecords, Fields
  <2>4. PICK k : k = [state |-> "prepared", owner |-> c.id]
    BY Zenon
  <2>5. k.state = "prepared" /\ k.owner = c.id /\ k \in JournalRecords
    BY Zenon, <1>3, <2>4 DEF JournalRecords, JournalStates
  <2>6. CallOK(d, r, x, k)
    BY <1>2, <1>3, <1>5, <2>2, <2>3 DEF CallOK, Fields, Sending, StartPcs, ResumePcs
  <2>7. JournalGrows(j, k)
    BY Zenon, <1>8 DEF JournalGrows, Ended
  <2>8. c.hash \notin sent
    BY Zenon, <1>1, <1>3, <1>8 DEF Serving, IInv, JournalsOK, JournalOK, Attempted
  <2>9. JournalOK(c.hash, k, bundles[k.owner], sent, executed, nonce)
    BY Zenon, <1>1, <1>3, <2>5, <2>8 DEF JournalOK, Serving, Attempted
  <2>10. ~OtherSender(p, c.hash)
    BY Zenon, <1>1, <1>3, <1>8, NoSender DEF OtherSender, Serving
  <2>11. journal' = [journal EXCEPT ![c.hash] = k] /\ call' = [call EXCEPT ![p] = d]
    BY Zenon, <1>8, <2>1, <2>4 DEF Journal, Goto
  <2>12. UNCHANGED <<bundles, contexts, chain, now, answer, returned>> /\ lane' \in {lane, c.hash}
    BY Zenon, <1>8 DEF Publish
  <2>13. d.id = c.id /\ d.kind = c.kind /\ d.hash = c.hash /\ d.pc \notin Sending /\ k.state # "absent"
    BY Zenon, <2>3, <2>5 DEF Fields, Sending
  <2> QED BY Zenon, <1>1, <1>3, <2>6, <2>7, <2>9, <2>10, <2>11, <2>12, <2>13, JournalMove
<1>9. CASE /\ c.kind = "resume" /\ Mine(c, l) /\ UNCHANGED <<journal, lane>>
           /\ Goto(p, [c EXCEPT !.pc = IF l = prepared THEN "authorize" ELSE "converge", !.lane = l])
  <2>1. PICK pc \in {"authorize", "converge"} : pc = IF l = prepared THEN "authorize" ELSE "converge"
    BY Zenon
  <2>2. PICK d : d = [c EXCEPT !.pc = pc, !.lane = l]
    BY Zenon
  <2>3. d \in CallRecords
    BY Zenon, <1>3, <2>2 DEF CallRecords, ResumePcs
  <2>4. Fields(d, pc, c.kind, c.id, c.calls, c.hash, c.rec, l, c.ctx, c.at, c.found)
    BY Zenon, <1>3, <2>2 DEF CallRecords, Fields
  <2>5. l # prepared => Advanced(c, j)
    <3>1. j.owner = c.id /\ j.state = l.state /\ j.state # "absent"
      BY Zenon, <1>1, <1>3, <1>4, <1>9, LaneIsMine DEF Serving
    <3>2. l.state = "prepared" => l = prepared
      BY Zenon, <1>5, <1>9 DEF Mine, LaneRecords
    <3> QED BY Zenon, <3>1, <3>2 DEF Advanced
  <2>6. pc = "converge" => Advanced(d, j)
    BY Zenon, <2>1, <2>4, <2>5 DEF Advanced, Fields
  <2>7. CallOK(d, r, x, j)
    BY <1>2, <1>3, <1>5, <1>9, <2>1, <2>3, <2>4, <2>6 DEF CallOK, Fields, Sending, ResumePcs
  <2>8. call' = [call EXCEPT ![p] = d] /\ UNCHANGED <<stores, chain, now, answer, returned>>
    BY Zenon, <1>9, <2>1, <2>2 DEF Publish, Goto, stores
  <2>9. d.id = c.id /\ d.hash = c.hash /\ d.kind # "start" /\ d.pc \notin Sending
    BY Zenon, <1>9, <2>4 DEF Fields, Sending
  <2>10. CallOK(d, bundles[d.id], contexts[d.id], journal[d.hash])
    BY Zenon, <1>1, <2>7, <2>9 DEF Serving
  <2> QED BY Zenon, <2>8, <2>9, <2>10, LocalMove
<1>10. CASE Goto(p, [c EXCEPT !.lane = l, !.retried = TRUE]) /\ UNCHANGED <<journal, lane>>
  <2>1. PICK d : d = [c EXCEPT !.lane = l, !.retried = TRUE]
    BY Zenon
  <2>2. d \in CallRecords
    BY Zenon, <1>3, <2>1 DEF CallRecords
  <2>3. Fields(d, "publish", c.kind, c.id, c.calls, c.hash, c.rec, l, c.ctx, c.at, c.found)
    BY Zenon, <1>2, <1>3, <2>1 DEF CallRecords, Fields
  <2>4. l # Absent
    BY DEF LaneRecords, Absent
  <2>5. CallOK(d, r, x, j)
    BY <1>2, <1>3, <2>2, <2>3, <2>4 DEF CallOK, Fields, Sending, StartPcs, ResumePcs
  <2> QED BY Zenon, <1>1, <1>10, <2>1, <2>3, <2>5, LocalMove DEF Publish, Serving, Goto, Fields, Sending, stores
<1> QED BY Zenon, <1>1, <1>4, <1>5, <1>6, <1>7, <1>8, <1>9, <1>10 DEF Publish, Serving

LEMMA AbandonOK ==
    ASSUME IInv, NEW p \in Callers, Abandon(p)
    PROVE  Good
<1>1. PICK c, r, x, j : Serving(p, c, r, x, j)
  BY Zenon, Served
<1>2. CallOK(c, r, x, j) /\ c.pc \in {"abandon", "reject"}
  BY Zenon, <1>1 DEF Abandon, Serving
<1>3. /\ c \in CallRecords /\ c.id \in Ids /\ c.hash \in Hashes /\ c.hash # None
      /\ c.kind \in {"start", "resume"} /\ r # Absent /\ r.op = c.hash
  BY <1>1, <1>2, WorkerIs
<1>4. \A pc \in {"release", "finish", "converge"} :
        /\ pc \in {"finish", "converge"} => c.pc = "reject" /\ pc = Started(c)
        => /\ CallOK([c EXCEPT !.pc = pc], r, x, j)
           /\ Fields([c EXCEPT !.pc = pc], pc, c.kind, c.id, c.calls, c.hash, c.rec, c.lane, c.ctx, c.at, c.found)
  <2>1. SUFFICES ASSUME NEW pc \in {"release", "finish", "converge"}, NEW d, d = [c EXCEPT !.pc = pc],
                        pc \in {"finish", "converge"} => c.pc = "reject" /\ pc = Started(c)
                 PROVE  /\ CallOK(d, r, x, j)
                        /\ Fields(d, pc, c.kind, c.id, c.calls, c.hash, c.rec, c.lane, c.ctx, c.at, c.found)
    BY Zenon
  <2>2. /\ d \in CallRecords
        /\ Fields(d, pc, c.kind, c.id, c.calls, c.hash, c.rec, c.lane, c.ctx, c.at, c.found)
    BY Zenon, <1>3, <2>1, PcMoves DEF StartPcs, ResumePcs
  <2>3. pc \in {"finish", "converge"} => Advanced(d, j)
    BY Zenon, <1>2, <2>1, <2>2 DEF CallOK, Advanced, Fields
  <2>4. CallOK(d, r, x, j)
    BY <1>2, <1>3, <2>1, <2>2, <2>3 DEF CallOK, Fields, Sending, StartPcs, ResumePcs, Started
  <2> QED BY Zenon, <2>2, <2>4
<1>5. CASE LaneNow = c.lane
  <2>1. PICK d : d = [c EXCEPT !.pc = "release"]
    BY Zenon
  <2>2. CallOK(d, r, x, j)
        /\ Fields(d, "release", c.kind, c.id, c.calls, c.hash, c.rec, c.lane, c.ctx, c.at, c.found)
    BY Zenon, <1>4, <2>1
  <2>3. PICK k : k = [state |-> "abandoned", owner |-> c.id]
    BY Zenon
  <2>4. journal' = [journal EXCEPT ![c.hash] = k] /\ call' = [call EXCEPT ![p] = d]
    BY Zenon, <1>1, <1>5, <2>1, <2>3 DEF Abandon, Serving, Journal, Goto
  <2>5. k.state = "abandoned" /\ k.owner = c.id /\ k \in JournalRecords
    BY Zenon, <1>3, <2>3 DEF JournalRecords, JournalStates
  <2>6. /\ c.pc = "abandon" => j.state = "prepared" /\ j.owner = c.id
        /\ c.pc = "reject" => j.state = "attempted" /\ j.owner = c.id
    <3>1. /\ c.pc = "abandon" => c.lane = [hash |-> c.hash, state |-> "prepared", owner |-> c.id]
          /\ c.pc = "reject" => c.lane = [hash |-> c.hash, state |-> "attempted", owner |-> c.id]
      BY Zenon, <1>2 DEF CallOK, Sending
    <3>2. j = journal[c.hash]
      BY Zenon, <1>1 DEF Serving
    <3>3. CASE c.pc = "abandon"
      BY <1>3, <1>5, <3>1, <3>2, <3>3, LaneHolds
    <3>4. CASE c.pc = "reject"
      BY <1>3, <1>5, <3>1, <3>2, <3>4, LaneHolds
    <3> QED BY Zenon, <3>3, <3>4
  <2>7. JournalGrows(j, k)
    BY Zenon, <1>2, <2>5, <2>6 DEF JournalGrows, Ended
  <2>8. c.hash \notin sent
    BY Zenon, <1>1, <1>2, <1>3, <2>6 DEF Serving, IInv, JournalsOK, JournalOK, Attempted, CallsOK, Unsent, Sending
  <2>9. JournalOK(c.hash, k, bundles[k.owner], sent, executed, nonce)
    BY Zenon, <1>1, <1>3, <2>5, <2>8 DEF JournalOK, Serving, Attempted
  <2>10. ~OtherSender(p, c.hash)
    <3>1. CASE c.pc = "abandon"
      BY Zenon, <1>1, <1>3, <2>6, <3>1, NoSender DEF OtherSender, Serving
    <3>2. CASE c.pc = "reject"
      BY Zenon, <1>1, <3>2 DEF OtherSender, Serving, IInv, CallsOK, Sending
    <3> QED BY Zenon, <1>2, <3>1, <3>2
  <2>11. CallOK(d, r, x, k)
    BY Zenon, <2>2 DEF CallOK, Fields, Sending
  <2>12. UNCHANGED <<bundles, contexts, chain, now, answer, returned>> /\ lane' \in {lane, c.hash}
    BY Zenon DEF Abandon
  <2>13. d.id = c.id /\ d.kind = c.kind /\ d.hash = c.hash /\ d.pc \notin Sending /\ k.state # "absent"
    BY Zenon, <2>2, <2>5 DEF Fields, Sending
  <2> QED BY Zenon, <1>1, <1>3, <2>4, <2>7, <2>9, <2>10, <2>11, <2>12, <2>13, JournalMove
<1>6. CASE LaneNow # c.lane
  <2>1. \/ Stop(p)
        \/ \E pc \in {"release", "finish", "converge"} :
              /\ pc \in {"finish", "converge"} => c.pc = "reject" /\ pc = Started(c)
              /\ call' = [call EXCEPT ![p] = [c EXCEPT !.pc = pc]]
    BY Zenon, <1>1, <1>6 DEF Abandon, Serving, Goto, Started
  <2>2. UNCHANGED <<stores, chain, now, answer, returned>>
    BY Zenon, <1>1, <1>6 DEF Abandon, Serving, stores
  <2>3. CASE Stop(p)
    BY Zenon, <2>2, <2>3, LocalStop
  <2>4. ASSUME NEW pc \in {"release", "finish", "converge"},
               pc \in {"finish", "converge"} => c.pc = "reject" /\ pc = Started(c),
               call' = [call EXCEPT ![p] = [c EXCEPT !.pc = pc]]
        PROVE  Good
    <3>1. PICK d : d = [c EXCEPT !.pc = pc]
      BY Zenon
    <3>2. CallOK(d, r, x, j)
          /\ Fields(d, pc, c.kind, c.id, c.calls, c.hash, c.rec, c.lane, c.ctx, c.at, c.found)
      BY Zenon, <1>4, <2>4, <3>1
    <3> QED BY Zenon, <1>1, <2>2, <2>4, <3>1, <3>2, LocalMove DEF Serving, Fields, Sending
  <2> QED BY Zenon, <2>1, <2>3, <2>4
<1> QED BY Zenon, <1>5, <1>6

LEMMA AttemptOK ==
    ASSUME IInv, NEW p \in Callers, Attempt(p)
    PROVE  Good
<1>1. PICK c, r, x, j : Serving(p, c, r, x, j)
  BY Zenon, Served
<1>2. CallOK(c, r, x, j) /\ c.pc = "attempt"
  BY Zenon, <1>1 DEF Attempt, At, Serving
<1>3. /\ c \in CallRecords /\ c.id \in Ids /\ c.hash \in Hashes /\ c.hash # None
      /\ c.kind \in {"start", "resume"} /\ r # Absent /\ r.op = c.hash
  BY Zenon, <1>1, <1>2, WorkerIs
<1>4. c.lane = [hash |-> c.hash, state |-> "prepared", owner |-> c.id] /\ Origin(r) = "operation_bound"
  BY Zenon, <1>2 DEF CallOK
<1>5. CASE LaneNow = c.lane
  <2>1. PICK attempted \in LaneRecords :
           attempted = [hash |-> c.hash, state |-> "attempted", owner |-> c.id]
    BY Zenon, <1>3 DEF LaneRecords, JournalStates
  <2>2. PICK d : d = [c EXCEPT !.pc = "send", !.lane = attempted]
    BY Zenon
  <2>3. PICK k : k = [state |-> "attempted", owner |-> c.id]
    BY Zenon
  <2>4. [c EXCEPT !.pc = "send", !.lane.state = "attempted"] = d
    <3>1. attempted = [c.lane EXCEPT !.state = "attempted"]
      BY <1>4, <2>1
    <3>2. PICK e : e = [c EXCEPT !.pc = "send"]
      BY Zenon
    <3>3. e.lane = c.lane
      BY Zenon, <1>3, <3>2 DEF CallRecords
    <3>4. d = [e EXCEPT !.lane = attempted]
      BY Zenon, <1>3, <2>2, <3>2 DEF CallRecords
    <3>5. [c EXCEPT !.pc = "send", !.lane.state = "attempted"]
            = [e EXCEPT !.lane = [e.lane EXCEPT !.state = "attempted"]]
      BY Zenon, <1>3, <3>2 DEF CallRecords
    <3> QED BY Zenon, <3>1, <3>3, <3>4, <3>5
  <2>5. journal' = [journal EXCEPT ![c.hash] = k] /\ call' = [call EXCEPT ![p] = d]
    BY Zenon, <1>1, <1>5, <2>3, <2>4 DEF Attempt, Serving, Journal, Goto
  <2>6. k.state = "attempted" /\ k.owner = c.id /\ k \in JournalRecords
    BY Zenon, <1>3, <2>3 DEF JournalRecords, JournalStates
  <2>7. d \in CallRecords
    <3>1. PICK e : e = [c EXCEPT !.pc = "send"]
      BY Zenon
    <3>2. e \in CallRecords
      BY Zenon, <1>3, <3>1 DEF CallRecords, StartPcs
    <3>3. d = [e EXCEPT !.lane = attempted]
      BY Zenon, <1>3, <2>2, <3>1 DEF CallRecords
    <3>4. attempted \in LaneRecords \cup {Absent}
      BY Zenon, <2>1
    <3> QED BY Zenon, <3>2, <3>3, <3>4 DEF CallRecords
  <2>8. Fields(d, "send", c.kind, c.id, c.calls, c.hash, c.rec, attempted, c.ctx, c.at, c.found)
    BY Zenon, <1>3, <2>2 DEF CallRecords, Fields
  <2>9. j.state = "prepared" /\ j.owner = c.id
    BY <1>1, <1>3, <1>4, <1>5, LaneHolds DEF Serving
  <2>10. JournalGrows(j, k)
    BY Zenon, <2>6, <2>9 DEF JournalGrows, Ended
  <2>11. c.hash \notin sent
    BY Zenon, <1>1, <1>3, <2>9 DEF Serving, IInv, JournalsOK, JournalOK, Attempted
  <2>12. JournalOK(c.hash, k, bundles[k.owner], sent, executed, nonce)
    BY Zenon, <1>1, <1>3, <1>4, <2>6 DEF JournalOK, Serving, Attempted
  <2>13. Advanced(d, k)
    BY Zenon, <2>6, <2>8 DEF Advanced, Fields
  <2>14. CallOK(d, r, x, k)
    BY <1>2, <1>3, <1>4, <2>1, <2>7, <2>8, <2>13 DEF CallOK, Fields, Sending, StartPcs, ResumePcs
  <2>15. UNCHANGED <<bundles, contexts, chain, now, answer, returned>> /\ lane' \in {lane, c.hash}
    BY Zenon DEF Attempt
  <2>16. d.id = c.id /\ d.kind = c.kind /\ d.hash = c.hash /\ k.state # "absent"
         /\ k.state \in {"attempted", "superseded", "dropped"}
    BY Zenon, <2>6, <2>8 DEF Fields
  <2> QED BY Zenon, <1>1, <1>3, <2>5, <2>6, <2>9, <2>10, <2>11, <2>12, <2>14, <2>15, <2>16, JournalMove
<1>6. CASE LaneNow # c.lane
  <2>1. UNCHANGED <<stores, chain, now, answer, returned>>
    BY Zenon, <1>1, <1>6 DEF Attempt, Serving, stores
  <2>2. CASE Stop(p)
    BY Zenon, <2>1, <2>2, LocalStop
  <2>3. CASE /\ c.kind = "resume" /\ Mine(c, LaneNow) /\ LaneNow.state # "prepared"
             /\ call' = [call EXCEPT ![p] = [c EXCEPT !.pc = "converge"]]
    <3>1. PICK d : d = [c EXCEPT !.pc = "converge"]
      BY Zenon
    <3>2. /\ d \in CallRecords
          /\ Fields(d, "converge", c.kind, c.id, c.calls, c.hash, c.rec, c.lane, c.ctx, c.at, c.found)
      BY Zenon, <1>3, <3>1, PcMoves DEF ResumePcs
    <3>3. j.owner = c.id /\ j.state \notin {"absent", "prepared"}
      BY Zenon, <1>1, <1>3, <2>3, LaneIsMine DEF Serving
    <3>4. Advanced(d, j)
      BY Zenon, <3>2, <3>3 DEF Advanced, Fields
    <3>5. CallOK(d, r, x, j)
      BY Zenon, <1>2, <1>3, <2>3, <3>2, <3>4 DEF CallOK, Fields, Sending, ResumePcs
    <3> QED BY Zenon, <1>1, <2>1, <2>3, <3>1, <3>2, <3>5, LocalMove DEF Serving, Fields, Sending
  <2> QED BY Zenon, <1>1, <1>6, <2>2, <2>3 DEF Attempt, Serving, Goto
<1> QED BY Zenon, <1>5, <1>6

LEMMA SendOK ==
    ASSUME IInv, NEW p \in Callers, Send(p)
    PROVE  Good
<1>1. PICK c, r, x, j : Serving(p, c, r, x, j)
  BY Zenon, Served
<1>2. CallOK(c, r, x, j) /\ c.pc = "send"
  BY Zenon, <1>1 DEF Send, At, Serving
<1>3. /\ c \in CallRecords /\ c.id \in Ids /\ c.hash \in Hashes /\ c.hash # None
      /\ c.kind \in {"start", "resume"} /\ r # Absent /\ r.op = c.hash
  BY Zenon, <1>1, <1>2, WorkerIs
<1>4. PICK pc \in {"finish", "converge", "reject"} :
         /\ pc \in {"finish", "converge"} => pc = Started(c)
         /\ call' = [call EXCEPT ![p] = [c EXCEPT !.pc = pc]]
         /\ sent' = sent \/ (sent' = sent \cup {c.hash} /\ pc # "reject")
  BY Zenon, <1>1 DEF Send, Serving, Goto, Started
<1>5. PICK d : d = [c EXCEPT !.pc = pc]
  BY Zenon
<1>6. /\ d \in CallRecords
      /\ Fields(d, pc, c.kind, c.id, c.calls, c.hash, c.rec, c.lane, c.ctx, c.at, c.found)
  BY Zenon, <1>3, <1>5, PcMoves DEF StartPcs, ResumePcs
<1>7. Advanced(d, j)
  BY Zenon, <1>2, <1>6 DEF CallOK, Advanced, Fields
<1>8. CallOK(d, r, x, j)
  BY <1>2, <1>3, <1>4, <1>6, <1>7 DEF CallOK, Fields, Sending, StartPcs, ResumePcs, Started
<1>9. CASE UNCHANGED sent
  BY Zenon, <1>1, <1>2, <1>4, <1>5, <1>6, <1>8, <1>9, LocalMove DEF Send, Serving, Fields, Sending, chain
<1>10. CASE sent' = sent \cup {c.hash} /\ pc # "reject"
  <2>1. UNCHANGED <<stores, nonce, executed, now, answer, returned>>
    BY Zenon DEF Send
  <2>2. StoresGrow
    BY Zenon, <2>1, BundleStays DEF StoresGrow, IInv, BundlesOK, BundleOK, ContextGrows, JournalGrows, stores
  <2>3. BundlesOK'
    BY Zenon, <2>1 DEF IInv, BundlesOK, stores
  <2>4. j.state \in Attempted
    BY Zenon, <1>1, <1>2 DEF Serving, IInv, CallsOK, Unsent, Sending, Attempted
  <2>5. ASSUME NEW h \in Hashes
        PROVE  JournalOK(h, journal[h], bundles[journal[h].owner], sent', executed, nonce)
    <3>1. JournalOK(h, journal[h], bundles[journal[h].owner], sent, executed, nonce)
      BY Zenon DEF IInv, JournalsOK
    <3>2. h \in sent' => h \in sent \/ journal[h].state \in Attempted
      BY Zenon, <1>1, <1>10, <2>4 DEF Serving
    <3> QED BY Zenon, <3>1, <3>2 DEF JournalOK
  <2>6. JournalsOK'
    BY Zenon, <1>3, <1>10, <2>1, <2>5 DEF IInv, JournalsOK, stores
  <2>7. AnswersGrow /\ ReturnsGrow
    BY Zenon, <2>1, NothingNew
  <2>8. d.kind = "start" => ~r.released /\ call[p].kind = "start" /\ call[p].id = d.id
    BY Zenon, <1>1, <1>6 DEF Serving, IInv, CallsOK, Fields
  <2>9. GoesOn(p, d)
    BY Zenon, <1>1, <1>4, <1>5, <1>6, <1>8, <1>10, <2>1, <2>8 DEF GoesOn, Serving, Fields, Sending, stores
  <2>10. OthersKeep(p)
    BY Zenon, <1>1, <1>2, <1>10, <2>1 DEF OthersKeep, Serving, IInv, CallsOK, Unsent, Sending, stores
  <2>11. CallsOK'
    BY Zenon, <2>2, <2>9, <2>10, CallsStay
  <2> QED BY Zenon, <2>1, <2>2, <2>3, <2>6, <2>7, <2>11, StepIsGood
<1> QED BY Zenon, <1>4, <1>9, <1>10

LEMMA AbandonPreparedOK ==
    ASSUME IInv, NEW p \in Callers, AbandonPrepared(p)
    PROVE  Good
<1>1. PICK c, r, x, j : Serving(p, c, r, x, j)
  BY Zenon, Served
<1>2. CallOK(c, r, x, j) /\ c.pc = "abandonPrepared"
  BY Zenon, <1>1 DEF AbandonPrepared, At, Serving
<1>3. /\ c \in CallRecords /\ c.kind = "status" /\ c.id \in Ids /\ c.hash \in Hashes
      /\ r # Absent /\ r.op = c.hash /\ c.hash # None
  BY Zenon, <1>1, <1>2, StatusIs DEF StatusPcs
<1>4. PICK d : d = [c EXCEPT !.pc = "recheck"]
  BY Zenon
<1>5. /\ d \in CallRecords
      /\ Fields(d, "recheck", c.kind, c.id, c.calls, c.hash, c.rec, c.lane, c.ctx, c.at, c.found)
  BY Zenon, <1>3, <1>4, PcMoves DEF StatusPcs
<1>6. \A i : CallOK(d, r, x, i)
  BY Zenon, <1>2, <1>3, <1>5 DEF CallOK, Fields, Sending, StatusPcs
<1>7. call' = [call EXCEPT ![p] = d]
  BY Zenon, <1>1, <1>4 DEF AbandonPrepared, Serving, Goto
<1>8. CASE LaneNow.hash = c.hash /\ LaneNow.state = "prepared"
  <2>1. j.state = "prepared" /\ LaneNow.owner = j.owner
    BY Zenon, <1>1, <1>3, <1>8, LaneIs DEF Serving
  <2>2. PICK k : k = [state |-> "abandoned", owner |-> j.owner]
    BY Zenon
  <2>3. journal' = [journal EXCEPT ![c.hash] = k]
    BY Zenon, <1>1, <1>8, <2>1, <2>2 DEF AbandonPrepared, Serving, Journal
  <2>4. JournalOK(c.hash, j, bundles[j.owner], sent, executed, nonce)
    BY Zenon, <1>1, <1>3 DEF Serving, IInv, JournalsOK
  <2>5. k.state = "abandoned" /\ k.owner = j.owner /\ k \in JournalRecords
    BY Zenon, <2>2, <2>4 DEF JournalOK, JournalRecords, JournalStates
  <2>6. JournalOK(c.hash, k, bundles[k.owner], sent, executed, nonce)
    BY Zenon, <2>1, <2>4, <2>5 DEF JournalOK, Attempted
  <2>7. JournalGrows(j, k)
    BY Zenon, <2>1, <2>5 DEF JournalGrows, Ended
  <2>8. ~OtherSender(p, c.hash)
    BY Zenon, <1>1, <1>3, <2>1, NoSender DEF OtherSender, Serving
  <2>9. UNCHANGED <<bundles, contexts, chain, now, answer, returned>> /\ lane' \in {lane, c.hash}
    BY Zenon DEF AbandonPrepared
  <2>10. d.id = c.id /\ d.kind = c.kind /\ d.hash = c.hash /\ d.pc \notin Sending /\ k.state # "absent"
    BY Zenon, <1>5, <2>5 DEF Fields, Sending
  <2> QED BY Zenon, <1>1, <1>3, <1>6, <1>7, <2>3, <2>6, <2>7, <2>8, <2>9, <2>10, JournalMove
<1>9. CASE ~(LaneNow.hash = c.hash /\ LaneNow.state = "prepared")
  BY Zenon, <1>1, <1>3, <1>5, <1>6, <1>7, <1>9, LocalMove DEF AbandonPrepared, Serving, Fields, Sending, stores
<1> QED BY Zenon, <1>8, <1>9

LEMMA ObserveOK ==
    ASSUME IInv, NEW p \in Callers, Observe(p)
    PROVE  Good
<1>1. PICK c, r, x, j : Serving(p, c, r, x, j)
  BY Zenon, Served
<1>2. CallOK(c, r, x, j) /\ c.pc = "observe"
  BY Zenon, <1>1 DEF Observe, At, Serving
<1>3. /\ c \in CallRecords /\ c.kind = "status" /\ c.id \in Ids /\ c.hash \in Hashes
      /\ r # Absent /\ r.op = c.hash /\ c.hash # None
  BY Zenon, <1>1, <1>2, StatusIs DEF StatusPcs
<1>4. j.owner = c.id /\ j.state \notin {"absent", "prepared"}
  BY Zenon, <1>2 DEF CallOK, Advanced
<1>5. JournalOK(c.hash, j, bundles[j.owner], sent, executed, nonce)
  BY Zenon, <1>1, <1>3 DEF Serving, IInv, JournalsOK
<1>6. \/ UNCHANGED journal
      \/ /\ j.state = "attempted"
         /\ \E k : /\ journal' = [journal EXCEPT ![c.hash] = k] /\ k.owner = c.id /\ k \in JournalRecords
                   /\ \/ k.state = "finalized" /\ c.hash \in executed
                      \/ k.state \in {"superseded", "dropped"} /\ c.hash \notin executed /\ c.hash[2] < nonce
  BY <1>1, <1>3 DEF Observe, Serving, Journal, JournalRecords, JournalStates
<1>7. ASSUME NEW k, k \in JournalRecords, k = journal'[c.hash], k.owner = c.id,
             k.state \notin {"absent", "prepared"}
      PROVE  \E d : /\ call' = [call EXCEPT ![p] = d] /\ CallOK(d, r, x, k)
                    /\ d.id = c.id /\ d.kind = c.kind /\ d.hash = c.hash /\ d.pc \notin Sending
  <2>1. PICK d : d = [c EXCEPT !.pc = "settle", !.found = k.state]
    BY Zenon
  <2>2. k.state \in Founds
    BY Zenon, <1>7 DEF JournalRecords, Founds
  <2>3. d \in CallRecords
    BY Zenon, <1>3, <2>1, <2>2 DEF CallRecords, StatusPcs
  <2>4. Fields(d, "settle", c.kind, c.id, c.calls, c.hash, c.rec, c.lane, c.ctx, c.at, k.state)
    BY Zenon, <1>3, <2>1 DEF CallRecords, Fields
  <2>5. Advanced(d, k)
    BY Zenon, <1>7, <2>4 DEF Advanced, Fields
  <2>6. CallOK(d, r, x, k)
    BY Zenon, <1>2, <1>3, <2>3, <2>4, <2>5 DEF CallOK, Fields, Sending, StatusPcs
  <2> QED BY Zenon, <1>1, <1>7, <2>1, <2>4, <2>6 DEF Observe, Serving, Goto, Fields, Sending
<1>8. CASE UNCHANGED journal
  <2>1. j \in JournalRecords /\ j = journal'[c.hash]
    BY Zenon, <1>1, <1>5, <1>8 DEF Serving, JournalOK
  <2>2. PICK d : /\ call' = [call EXCEPT ![p] = d] /\ CallOK(d, r, x, j)
                 /\ d.id = c.id /\ d.kind = c.kind /\ d.hash = c.hash /\ d.pc \notin Sending
    BY Zenon, <1>4, <1>7, <2>1
  <2> QED BY Zenon, <1>1, <1>3, <1>8, <2>2, LocalMove DEF Observe, Serving, stores
<1>9. ASSUME NEW k, j.state = "attempted", journal' = [journal EXCEPT ![c.hash] = k], k.owner = c.id,
             k \in JournalRecords,
             \/ k.state = "finalized" /\ c.hash \in executed
             \/ k.state \in {"superseded", "dropped"} /\ c.hash \notin executed /\ c.hash[2] < nonce
      PROVE  Good
  <2>1. k = journal'[c.hash]
    BY Zenon, <1>3, <1>9 DEF IInv, JournalsOK
  <2>2. PICK d : /\ call' = [call EXCEPT ![p] = d] /\ CallOK(d, r, x, k)
                 /\ d.id = c.id /\ d.kind = c.kind /\ d.hash = c.hash /\ d.pc \notin Sending
    BY Zenon, <1>7, <1>9, <2>1
  <2>3. JournalOK(c.hash, k, bundles[k.owner], sent, executed, nonce)
    BY Zenon, <1>1, <1>4, <1>5, <1>9 DEF JournalOK, Attempted
  <2>4. JournalGrows(j, k) /\ k.state # "absent"
    BY Zenon, <1>4, <1>9 DEF JournalGrows, Ended
  <2>5. k.state \notin {"attempted", "superseded", "dropped"} => ~OtherSender(p, c.hash)
    <3>1. SUFFICES ASSUME c.hash \in executed PROVE ~OtherSender(p, c.hash)
      BY Zenon, <1>9
    <3>2. c.hash \in sent
      BY Zenon, <3>1 DEF IInv, JournalsOK
    <3> QED BY Zenon, <1>3, <3>2, NoSender DEF OtherSender
  <2>6. UNCHANGED <<bundles, contexts, chain, now, answer, returned>> /\ lane' \in {lane, c.hash}
    BY Zenon DEF Observe
  <2> QED BY Zenon, <1>1, <1>3, <1>9, <2>2, <2>3, <2>4, <2>5, <2>6, JournalMove
<1> QED BY Zenon, <1>6, <1>8, <1>9

-----------------------------------------------------------------------------
(***************************************************************************)
(* The steps that write a context, and the world.                          *)
(***************************************************************************)

LEMMA PrepareCallsOK ==
    ASSUME IInv, NEW k \in Contexts, PrepareCalls(k)
    PROVE  Good
<1>1. PICK a \in CallsOf[k] :
         contexts' = [contexts EXCEPT ![k] = reservePrepared(<<a, nonce>>, now, now + ContextLife)]
  BY Zenon DEF PrepareCalls
<1>2. PICK y : y = reservePrepared(<<a, nonce>>, now, now + ContextLife)
  BY Zenon
<1>3. now \in 0 .. MaxNow /\ nonce \in 0 .. MaxSeq
  BY TimesAssumption DEF PrepareCalls, IInv, JournalsOK
<1>4. now \in Times /\ Never \in Times /\ now + ContextLife \in Nat
  BY <1>3, TimesAssumption, ProviderAssumption DEF Times, Never
<1>5. <<a, nonce>> \in Hashes
  BY Zenon, <1>1, <1>3, ProviderAssumption DEF Hashes
<1>6. y \in ContextRecords
  BY <1>2, <1>4, <1>5 DEF reservePrepared, ContextRecords
<1>7. y.state = "prepared" /\ y.rev = 0 /\ y.lease = Never
  BY Zenon, <1>2 DEF reservePrepared
<1>8. y # Absent /\ ContextOK(y)
  BY <1>6, <1>7 DEF ContextOK, ContextReadable, Absent, ContextRecords
<1>9. ContextGrows(contexts[k], y)
  BY Zenon DEF PrepareCalls, ContextGrows
<1> QED BY Zenon, <1>1, <1>2, <1>8, <1>9, ContextStep DEF PrepareCalls

\* The contexts that a request may move.
LEMMA PreparedMoves ==
    ASSUME NEW x \in ContextRecords, ContextReadable(x), x.state = "prepared",
           NEW at \in 0 .. MaxNow
    PROVE  /\ at >= x.expiresAt =>
                /\ markExpired(x, at) # Absent /\ ContextOK(markExpired(x, at))
                /\ ContextGrows(x, markExpired(x, at))
           /\ /\ markStale(x, at) # Absent /\ ContextOK(markStale(x, at))
              /\ ContextGrows(x, markStale(x, at))
           /\ at < x.expiresAt /\ at + Lease <= MaxNow =>
                /\ consume(x, at) \in ContextRecords /\ ContextOK(consume(x, at))
                /\ consume(x, at) # Absent /\ ContextGrows(x, consume(x, at))
                /\ consume(x, at).state = "consumed" /\ consume(x, at).lease # Never
<1>1. x.lease = Never /\ at \in Times /\ x.lease \in Times /\ x.op \in Hashes /\ x.expiresAt \in Nat
  BY TimesAssumption DEF ContextReadable, Times, Never, ContextRecords
<1>2. ASSUME at >= x.expiresAt
      PROVE  /\ markExpired(x, at) # Absent /\ ContextOK(markExpired(x, at))
             /\ ContextGrows(x, markExpired(x, at))
  <2>1. PICK y : y = markExpired(x, at)
    BY Zenon
  <2>2. y \in ContextRecords
    <3>1. PICK z : z = [x EXCEPT !.state = "expired", !.at = at]
      BY Zenon
    <3>2. z \in ContextRecords
      BY Zenon, <1>1, <3>1 DEF ContextRecords
    <3>3. y = [z EXCEPT !.rev = 1]
      BY Zenon, <2>1, <3>1 DEF markExpired, ContextRecords
    <3> QED BY <3>2, <3>3 DEF ContextRecords
  <2>3. y.state = "expired" /\ y.rev = 1 /\ y.lease = Never /\ y.at = at /\ y.expiresAt = x.expiresAt
        /\ y.op = x.op
    BY Zenon, <1>1, <2>1 DEF markExpired, ContextRecords
  <2>4. y # Absent /\ ContextReadable(y)
    BY <1>2, <2>2, <2>3 DEF ContextReadable, Absent
  <2> QED BY Zenon, <2>1, <2>2, <2>3, <2>4 DEF ContextOK, ContextGrows
<1>3. /\ markStale(x, at) # Absent /\ ContextOK(markStale(x, at))
      /\ ContextGrows(x, markStale(x, at))
  <2>1. PICK y : y = markStale(x, at)
    BY Zenon
  <2>2. y \in ContextRecords
    <3>1. PICK z : z = [x EXCEPT !.state = "invalidated_as_stale", !.at = at]
      BY Zenon
    <3>2. z \in ContextRecords
      BY Zenon, <1>1, <3>1 DEF ContextRecords
    <3>3. y = [z EXCEPT !.rev = 1]
      BY Zenon, <2>1, <3>1 DEF markStale, ContextRecords
    <3> QED BY <3>2, <3>3 DEF ContextRecords
  <2>3. y.state = "invalidated_as_stale" /\ y.rev = 1 /\ y.lease = Never /\ y.op = x.op
    BY Zenon, <1>1, <2>1 DEF markStale, ContextRecords
  <2>4. y # Absent /\ ContextReadable(y)
    BY <2>2, <2>3 DEF ContextReadable, Absent
  <2> QED BY Zenon, <2>1, <2>2, <2>3, <2>4 DEF ContextOK, ContextGrows
<1>4. ASSUME at < x.expiresAt, at + Lease <= MaxNow
      PROVE  /\ consume(x, at) \in ContextRecords /\ ContextOK(consume(x, at))
             /\ consume(x, at) # Absent /\ ContextGrows(x, consume(x, at))
             /\ consume(x, at).state = "consumed" /\ consume(x, at).lease # Never
  <2>1. PICK y : y = consume(x, at)
    BY Zenon
  <2>2. PICK end \in Times : end = at + Lease /\ end # Never /\ end > at
    BY <1>4, TimesAssumption DEF Times, Never
  <2>3. y = [x EXCEPT !.state = "consumed", !.at = at, !.lease = end, !.rev = 1]
    BY Zenon, <2>1, <2>2 DEF consume
  <2>4. y \in ContextRecords
    <3>1. PICK z : z = [x EXCEPT !.state = "consumed", !.at = at]
      BY Zenon
    <3>2. z \in ContextRecords
      BY Zenon, <1>1, <3>1 DEF ContextRecords
    <3>3. PICK v : v = [z EXCEPT !.lease = end]
      BY Zenon
    <3>4. v \in ContextRecords
      BY Zenon, <3>2, <3>3 DEF ContextRecords
    <3>5. y = [v EXCEPT !.rev = 1]
      BY Zenon, <2>3, <3>1, <3>3 DEF ContextRecords
    <3> QED BY <3>4, <3>5 DEF ContextRecords
  <2>5. y.state = "consumed" /\ y.rev = 1 /\ y.lease = end /\ y.at = at /\ y.op = x.op
        /\ y.expiresAt = x.expiresAt
    BY Zenon, <2>3 DEF ContextRecords
  <2>6. y # Absent /\ ContextReadable(y)
    BY <1>4, <2>2, <2>4, <2>5 DEF ContextReadable, Absent
  <2> QED BY Zenon, <2>1, <2>2, <2>4, <2>5, <2>6 DEF ContextOK, ContextGrows
<1> QED BY Zenon, <1>2, <1>3, <1>4

LEMMA SendPreparedCallsOK ==
    ASSUME IInv, NEW p \in Callers, NEW k \in Contexts, SendPreparedCalls(p, k)
    PROVE  Good
<1>1. PICK x : x = contexts[k]
  BY Zenon
<1>2. x # Absent /\ x \in ContextRecords /\ ContextReadable(x) /\ x.state \in {"prepared", "consumed"}
  BY Zenon, <1>1 DEF SendPreparedCalls, IInv, BundlesOK, ContextOK
<1>3. now \in 0 .. MaxNow /\ x.expiresAt \in Nat
  BY Zenon, <1>2 DEF IInv, JournalsOK, ContextRecords
<1>4. CASE x.state = "prepared" /\ now >= x.expiresAt
  <2>1. contexts' = [contexts EXCEPT ![k] = markExpired(x, now)] /\ UNCHANGED call
    BY Zenon, <1>1, <1>4 DEF SendPreparedCalls
  <2>2. /\ markExpired(x, now) # Absent /\ ContextOK(markExpired(x, now))
        /\ ContextGrows(x, markExpired(x, now))
    BY Zenon, <1>2, <1>3, <1>4, PreparedMoves
  <2> QED BY Zenon, <1>1, <2>1, <2>2, ContextStep DEF SendPreparedCalls
<1>5. CASE ~(x.state = "prepared" /\ now >= x.expiresAt)
  <2>1. PICK pc \in {"recall", "validate"} :
           /\ pc = IF x.state = "consumed" THEN "recall" ELSE "validate"
           /\ pc = "recall" => x.state = "consumed"
    BY Zenon
  <2>2. PICK d : d = [Idle EXCEPT !.pc = pc, !.kind = "resume", !.id = k, !.hash = x.op,
                                  !.ctx = x, !.at = now]
    BY Zenon
  <2>3. call' = [call EXCEPT ![p] = d]
    BY Zenon, <1>1, <1>5, <2>1, <2>2 DEF SendPreparedCalls, Goto
  <2>4. d = [pc |-> pc, kind |-> "resume", id |-> k, calls |-> None, hash |-> x.op, rec |-> Absent,
             lane |-> Absent, ctx |-> x, at |-> now, found |-> "none", retried |-> FALSE]
    BY Zenon, <2>2 DEF Idle
  <2>5. UNCHANGED contexts /\ now + Lease <= MaxNow
    BY Zenon, <1>1, <1>5 DEF SendPreparedCalls
  <2>6. x.op \in Hashes /\ x.op # None /\ k \in Ids
    BY Zenon, <1>2, NoneAssumption, ProviderAssumption DEF ContextRecords
  <2>7. d \in CallRecords
    BY Zenon, <1>2, <1>3, <2>4, <2>6 DEF CallRecords, ResumePcs, Founds
  <2>8. Fields(d, pc, "resume", k, None, x.op, Absent, Absent, x, now, "none")
    BY Zenon, <2>4 DEF Fields
  <2>9. x.state = "consumed" => x.lease # Never
    BY Zenon, <1>2 DEF ContextReadable
  <2>10. \A r, j : CallOK(d, r, x, j)
    BY <1>2, <2>1, <2>5, <2>6, <2>7, <2>8, <2>9 DEF CallOK, Fields, Sending, ResumePcs
  <2> QED BY Zenon, <1>1, <2>3, <2>5, <2>8, <2>10, LocalMove DEF SendPreparedCalls, Fields, Sending, stores
<1> QED BY Zenon, <1>4, <1>5

LEMMA InvalidateOK ==
    ASSUME IInv, NEW p \in Callers, Invalidate(p)
    PROVE  Good
<1>1. PICK c, r, x, j : Serving(p, c, r, x, j)
  BY Zenon, Served
<1>2. CallOK(c, r, x, j) /\ c.kind = "resume"
  BY Zenon, <1>1 DEF Invalidate, At, Serving, CallOK, CallRecords, StatusPcs, StartPcs
<1>3. c.id \in Contexts /\ x \in ContextRecords /\ ContextReadable(x) /\ c.at \in 0 .. MaxNow
  BY <1>1, <1>2, ResumeIs DEF CallRecords
<1>4. CASE ContextFenced(x, c.ctx)
  <2>1. x.state = "prepared"
    BY Zenon, <1>4 DEF ContextFenced
  <2>2. contexts' = [contexts EXCEPT ![c.id] = markStale(x, c.at)] /\ Stop(p)
    BY Zenon, <1>1, <1>4 DEF Invalidate, Serving
  <2>3. /\ markStale(x, c.at) # Absent /\ ContextOK(markStale(x, c.at))
        /\ ContextGrows(x, markStale(x, c.at))
    BY Zenon, <1>3, <2>1, PreparedMoves
  <2> QED BY Zenon, <1>1, <1>3, <2>2, <2>3, Stops, ContextStep DEF Invalidate, Serving
<1>5. CASE ~ContextFenced(x, c.ctx)
  BY Zenon, <1>1, <1>5, LocalStop DEF Invalidate, Serving, stores
<1> QED BY Zenon, <1>4, <1>5

LEMMA ConsumeOK ==
    ASSUME IInv, NEW p \in Callers, Consume(p)
    PROVE  Good
<1>1. PICK c, r, x, j : Serving(p, c, r, x, j)
  BY Zenon, Served
<1>2. CallOK(c, r, x, j) /\ c.pc = "consume" /\ c.kind = "resume"
  BY Zenon, <1>1 DEF Consume, At, Serving, CallOK, CallRecords, StatusPcs, StartPcs
<1>3. /\ c \in CallRecords /\ c.id \in Contexts /\ x \in ContextRecords /\ ContextReadable(x)
      /\ c.at \in 0 .. MaxNow /\ c.hash = x.op /\ c.hash # None /\ x # Absent
  BY <1>1, <1>2, ResumeIs DEF CallRecords
<1>4. c.at + Lease <= MaxNow /\ c.found = "none"
  BY Zenon, <1>2 DEF CallOK
<1>5. ASSUME NEW y, y \in ContextRecords, y.state = "consumed", y.lease # Never, y.op = x.op,
             NEW d, d = [c EXCEPT !.pc = "bundle", !.ctx = y]
      PROVE  CallOK(d, r, y, j)
             /\ Fields(d, "bundle", c.kind, c.id, c.calls, c.hash, c.rec, c.lane, y, c.at, c.found)
  <2>1. d \in CallRecords
    BY Zenon, <1>3, <1>5 DEF CallRecords, ResumePcs
  <2>2. Fields(d, "bundle", c.kind, c.id, c.calls, c.hash, c.rec, c.lane, y, c.at, c.found)
    BY Zenon, <1>3, <1>5 DEF CallRecords, Fields
  <2>3. y # Absent
    BY <1>5 DEF ContextRecords, Absent
  <2> QED BY <1>2, <1>3, <1>4, <1>5, <2>1, <2>2, <2>3 DEF CallOK, Fields, Sending, ResumePcs
<1>6. CASE ContextFenced(x, c.ctx) /\ mayConsume(x, c.at)
  <2>1. PICK y : y = consume(x, c.at)
    BY Zenon
  <2>2. x.state = "prepared" /\ c.at < x.expiresAt
    BY Zenon, <1>6 DEF ContextFenced, mayConsume
  <2>3. /\ y \in ContextRecords /\ ContextOK(y) /\ y # Absent /\ ContextGrows(x, y)
        /\ y.state = "consumed" /\ y.lease # Never
    BY Zenon, <1>3, <1>4, <2>1, <2>2, PreparedMoves
  <2>4. y.op = x.op
    BY Zenon, <1>3, <2>3 DEF ContextGrows
  <2>5. PICK d : d = [c EXCEPT !.pc = "bundle", !.ctx = y]
    BY Zenon
  <2>6. contexts' = [contexts EXCEPT ![c.id] = y] /\ call' = [call EXCEPT ![p] = d]
    BY Zenon, <1>1, <1>6, <2>1, <2>5 DEF Consume, Serving, Goto
  <2>7. CallOK(d, r, y, j)
        /\ Fields(d, "bundle", c.kind, c.id, c.calls, c.hash, c.rec, c.lane, y, c.at, c.found)
    BY Zenon, <1>5, <2>3, <2>4, <2>5
  <2>8. contexts'[c.id] = y
    BY Zenon, <1>3, <2>6 DEF IInv, BundlesOK
  <2>9. GoesOn(p, d)
    BY Zenon, <1>1, <1>2, <2>6, <2>7, <2>8 DEF GoesOn, Serving, Fields, Sending, Consume
  <2> QED BY Zenon, <1>1, <1>3, <2>3, <2>6, <2>9, ContextStep DEF Consume, Serving
<1>7. CASE ~(ContextFenced(x, c.ctx) /\ mayConsume(x, c.at))
  <2>1. UNCHANGED <<stores, chain, now, answer, returned>>
    BY Zenon, <1>1, <1>7 DEF Consume, Serving, stores
  <2>2. CASE Stop(p)
    BY Zenon, <2>1, <2>2, LocalStop
  <2>3. CASE x.state = "consumed" /\ call' = [call EXCEPT ![p] = [c EXCEPT !.pc = "bundle", !.ctx = x]]
    <3>1. PICK d : d = [c EXCEPT !.pc = "bundle", !.ctx = x]
      BY Zenon
    <3>2. x.lease # Never
      BY Zenon, <1>3, <2>3 DEF ContextReadable
    <3>3. CallOK(d, r, x, j)
          /\ Fields(d, "bundle", c.kind, c.id, c.calls, c.hash, c.rec, c.lane, x, c.at, c.found)
      BY Zenon, <1>3, <1>5, <2>3, <3>1, <3>2
    <3> QED BY Zenon, <1>1, <1>2, <2>1, <2>3, <3>1, <3>3, LocalMove DEF Serving, Fields, Sending
  <2> QED BY Zenon, <1>1, <1>7, <2>2, <2>3 DEF Consume, Serving, Goto
<1> QED BY Zenon, <1>6, <1>7

LEMMA WorldOK ==
    ASSUME IInv, UNCHANGED <<stores, sent, call, answer, returned>>, now' \in 0 .. MaxNow,
           nonce' \in 0 .. MaxSeq + 1, nonce' >= nonce, executed \subseteq executed',
           executed' \subseteq sent, \A h \in executed' \ executed : h[2] >= nonce
    PROVE  Good
<1>1. StoresGrow
  BY Zenon, BundleStays DEF StoresGrow, IInv, BundlesOK, BundleOK, ContextGrows, JournalGrows, stores
<1>2. BundlesOK'
  BY Zenon DEF IInv, BundlesOK, stores
<1>3. ASSUME NEW h \in Hashes
      PROVE  JournalOK(h, journal[h], bundles[journal[h].owner], sent, executed', nonce')
  <2>1. JournalOK(h, journal[h], bundles[journal[h].owner], sent, executed, nonce)
    BY Zenon DEF IInv, JournalsOK
  <2>2. h[2] \in Nat /\ nonce \in Nat /\ nonce' \in Nat
    BY TimesAssumption DEF Hashes, IInv, JournalsOK
  <2>3. h[2] < nonce => h[2] < nonce' /\ (h \in executed' => h \in executed)
    BY <2>2
  <2> QED BY Zenon, <2>1, <2>3 DEF JournalOK
<1>4. JournalsOK'
  BY Zenon, <1>3 DEF IInv, JournalsOK, stores
<1>5. AnswersGrow /\ ReturnsGrow
  BY Zenon, NothingNew
<1>6. \A q \in Callers :
         /\ call[q].kind = "start" => ~bundles'[call[q].id].released
         /\ call[q].pc \in Sending => Unsent(call[q])'
  BY Zenon DEF IInv, CallsOK, Unsent, stores
<1>7. CallsOK'
  BY Zenon, <1>1, <1>6, CallsRest
<1> QED BY Zenon, <1>1, <1>2, <1>4, <1>5, <1>7, StepIsGood

LEMMA TickOK ==
    ASSUME IInv, Tick
    PROVE  Good
<1>1. now' \in 0 .. MaxNow /\ nonce \in 0 .. MaxSeq + 1 /\ executed \subseteq sent
  BY TimesAssumption DEF IInv, JournalsOK, Tick
<1> QED BY <1>1, WorldOK DEF Tick, chain

LEMMA ExecuteOK ==
    ASSUME IInv, NEW h \in Hashes, Execute(h)
    PROVE  Good
<1>1. /\ now \in 0 .. MaxNow /\ nonce \in 0 .. MaxSeq + 1 /\ executed \subseteq sent
      /\ h[2] \in 0 .. MaxSeq
  BY Zenon DEF IInv, JournalsOK, Hashes
<1>2. nonce' \in 0 .. MaxSeq + 1 /\ nonce' >= nonce
  BY <1>1, TimesAssumption DEF Execute
<1>3. executed \subseteq executed' /\ executed' \subseteq sent /\ \A o \in executed' \ executed : o[2] >= nonce
  BY <1>1, TimesAssumption DEF Execute
<1> QED BY Zenon, <1>1, <1>2, <1>3, WorldOK DEF Execute

LEMMA ForeignOK ==
    ASSUME IInv, Foreign
    PROVE  Good
<1>1. now \in 0 .. MaxNow /\ nonce \in 0 .. MaxSeq + 1 /\ executed \subseteq sent
  BY Zenon DEF IInv, JournalsOK
<1>2. nonce' \in 0 .. MaxSeq + 1 /\ nonce' >= nonce
  BY <1>1, TimesAssumption DEF Foreign
<1> QED BY Zenon, <1>1, <1>2, WorldOK DEF Foreign

-----------------------------------------------------------------------------
LEMMA InitOK == Init => IInv
<1> SUFFICES ASSUME Init PROVE IInv
  BY Zenon
<1>1. BundlesOK
  BY Zenon DEF Init, BundlesOK, BundleOK, ContextOK
<1>2. JournalsOK
  <2>1. ASSUME NEW h \in Hashes
        PROVE  JournalOK(h, journal[h], bundles[journal[h].owner], sent, executed, nonce)
    <3>1. journal[h] = [state |-> "absent", owner |-> None]
      BY Zenon DEF Init
    <3> QED BY Zenon, <3>1 DEF Init, JournalOK, JournalRecords, JournalStates, Attempted
  <2>2. journal \in [Hashes -> JournalRecords]
    BY Zenon DEF Init, JournalRecords, JournalStates
  <2> QED BY <2>1, <2>2, TimesAssumption DEF Init, JournalsOK
<1>3. AnswersOK /\ ReturnsOK
  BY Zenon DEF Init, AnswersOK, ReturnsOK
<1>4. CallsOK
  BY Zenon, IdleIsOK DEF Init, CallsOK
<1> QED BY Zenon, <1>1, <1>2, <1>3, <1>4 DEF IInv

LEMMA CallerOK ==
    ASSUME IInv, NEW p \in Callers, RunnerStep(p) \/ SendStep(p) \/ StatusStep(p) \/ Crash(p)
    PROVE  Good
<1>1. CASE RunnerStep(p)
  BY Zenon, <1>1, ReadLaneOK, ReserveForStartOK, PreparationFailsOK, ReserveForResumeOK, PublishOK, AuthorizeOK,
     ConfirmPublicationOK, AbandonOK, ReleaseReservationOK, AttemptOK, SendOK, ConvergeOK, FinishSendOK,
     ReleasePublicationOK DEF RunnerStep
<1>2. CASE SendStep(p)
  BY Zenon, <1>2, SendCallsOK, ApproveOK, GiveUpOK, SendPreparedCallsOK, RecallOK, ValidateOK, InvalidateOK,
     ConsumeOK, ReserveBundleOK DEF SendStep
<1>3. CASE StatusStep(p)
  BY Zenon, <1>3, StatusOfExpiredOK, StatusOfBoundOK, RecoverOK, AbandonPreparedOK, ConcludeOK, ObserveOK,
     SettleOK DEF StatusStep
<1> QED BY Zenon, <1>1, <1>2, <1>3, CrashOK

LEMMA StepOK ==
    ASSUME IInv, [Next]_vars
    PROVE  IInv' /\ [HistoryAdvances]_vars
<1>1. CASE Next
  <2>1. Good
    BY Zenon, <1>1, CallerOK, PrepareCallsOK, TickOK, ExecuteOK, ForeignOK DEF Next, World
  <2> QED BY Zenon, <2>1 DEF Good
<1>2. CASE UNCHANGED vars
  <2>1. UNCHANGED <<bundles, contexts, journal, lane, nonce, sent, executed, now, call, answer, returned>>
    BY Zenon, <1>2 DEF vars
  <2>2. BundlesOK' /\ JournalsOK'
    BY Zenon, <2>1 DEF IInv, BundlesOK, JournalsOK
  <2>3. AnswersOK' /\ ReturnsOK'
    BY Zenon, <2>1 DEF IInv, AnswersOK, ReturnsOK
  <2>4. CallsOK'
    BY <2>1 DEF IInv, CallsOK, Unsent
  <2> QED BY Zenon, <1>2, <2>2, <2>3, <2>4 DEF IInv
<1> QED BY Zenon, <1>1, <1>2

\* The stores, the journal and the callers keep to the invariant in every
\* behaviour, whatever the requests, their order and their crashes.
THEOREM ProviderInvariant == Spec => []IInv
<1>1. IInv /\ [Next]_vars => IInv'
  BY Zenon, StepOK
<1> QED BY <1>1, InitOK, PTL DEF Spec

\* Every record of the stores has its shape, the nonce and the clock stay within
\* their bounds, and only what was sent is executed.
THEOREM ProviderTypeCorrect == Spec => []TypeOK
<1>1. IInv => TypeOK
  BY Zenon DEF IInv, BundlesOK, JournalsOK, AnswersOK, ReturnsOK, TypeOK, JournalRecords
<1> QED BY <1>1, ProviderInvariant, PTL

\* Every record that bundle-store.ts and prepared-call-store.ts have written
\* passes the checks of their next read.
THEOREM ProviderStaysReadable == Spec => []StoredIsReadable
<1>1. IInv => StoredIsReadable
  BY Zenon DEF IInv, BundlesOK, BundleOK, ContextOK, StoredIsReadable
<1> QED BY <1>1, ProviderInvariant, PTL

\* Every step leaves each bundle with a record that requireCompatibleHistory
\* accepts after the one before it.
THEOREM ProviderKeepsHistory == Spec => HistoryIsCompatible
<1>1. IInv /\ [Next]_vars => [HistoryAdvances]_vars
  BY Zenon, StepOK
<1> QED BY <1>1, ProviderInvariant, PTL DEF Spec, HistoryIsCompatible

\* What reached the bundler is the operation of a bundle that is durably bound
\* to it.
THEOREM ProviderSendsBound == Spec => []SentIsBound
<1>1. ASSUME IInv PROVE SentIsBound
  <2>1. SUFFICES ASSUME NEW h \in sent
                 PROVE  /\ bundles[journal[h].owner] # Absent /\ bundles[journal[h].owner].op = h
                        /\ Origin(bundles[journal[h].owner]) = "operation_bound"
    BY Zenon DEF SentIsBound
  <2>2. h \in Hashes
    BY Zenon, <1>1 DEF IInv, JournalsOK
  <2>3. JournalOK(h, journal[h], bundles[journal[h].owner], sent, executed, nonce)
    BY Zenon, <1>1, <2>2 DEF IInv, JournalsOK
  <2> QED BY Zenon, <2>3 DEF JournalOK, Attempted
<1> QED BY <1>1, ProviderInvariant, PTL

\* A final status that wallet_getCallsStatus has given stays true: failed calls
\* are never executed as the bundle's operation, and done ones were.
THEOREM ProviderAnswersTruly == Spec => []AnswerIsTrue
<1>1. ASSUME IInv PROVE AnswerIsTrue
  <2>1. SUFFICES ASSUME NEW b \in Ids, answer[b] = "failed", NEW h \in executed, journal[h].owner = b
                 PROVE  FALSE
    BY Zenon, <1>1 DEF AnswerIsTrue, IInv, AnswersOK
  <2>2. h \in Hashes /\ h \in sent
    BY Zenon, <1>1 DEF IInv, JournalsOK
  <2>3. JournalOK(h, journal[h], bundles[b], sent, executed, nonce)
    BY Zenon, <1>1, <2>1, <2>2 DEF IInv, JournalsOK
  <2>4. /\ journal[h].state \in {"attempted", "finalized"}
        /\ bundles[b].op = h /\ Origin(bundles[b]) = "operation_bound"
    BY Zenon, <2>2, <2>3 DEF JournalOK, Attempted
  <2>5. FailedOK(b, bundles[b], journal)
    BY Zenon, <1>1, <2>1 DEF IInv, AnswersOK
  <2>6. h # None
    BY Zenon, <2>2, NoneAssumption
  <2> QED BY Zenon, <2>1, <2>4, <2>5, <2>6 DEF FailedOK, Origin
<1> QED BY <1>1, ProviderInvariant, PTL

\* An operation is journaled for a prepared-call context only once the context
\* was consumed in time, and a returned id stands for an attempted submission.
THEOREM ProviderAdmitsConsumed == Spec => []SentWasAdmitted
<1>1. ASSUME IInv PROVE SentWasAdmitted
  <2>1. ASSUME NEW c \in Contexts, NEW h \in Hashes, journal[h].owner = c
        PROVE  contexts[c].state = "consumed" /\ contexts[c].op = h
    <3>1. c \in Ids /\ c # None /\ h # None
      BY Zenon, ProviderAssumption, NoneAssumption
    <3>2. JournalOK(h, journal[h], bundles[c], sent, executed, nonce)
      BY Zenon, <1>1, <2>1 DEF IInv, JournalsOK
    <3>3. bundles[c] # Absent /\ bundles[c].op = h
      BY Zenon, <2>1, <3>1, <3>2 DEF JournalOK
    <3> QED BY Zenon, <1>1, <3>1, <3>3 DEF IInv, BundlesOK, BundleOK
  <2>2. ASSUME NEW b \in returned
        PROVE  /\ bundles[b].released /\ journal[bundles[b].op].owner = b
               /\ journal[bundles[b].op].state \notin {"absent", "prepared"}
    BY Zenon, <1>1 DEF IInv, ReturnsOK, ReturnOK
  <2> QED BY Zenon, <2>1, <2>2 DEF SentWasAdmitted
<1> QED BY <1>1, ProviderInvariant, PTL
=============================================================================
