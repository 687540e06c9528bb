---------------------------- MODULE AggregateStore ----------------------------
(***************************************************************************)
(* One lane of the Operation store (sdk/src/store.ts) under several        *)
(* clients.  The adapter's compare-and-swap is atomic; everything around it*)
(* is not: a swap reads the archive, reads the lane, swaps, reads back and *)
(* reads the archive again, and an exact read reads the lane and then the  *)
(* archive, each await letting every other client in between.  An          *)
(* Operation is its identity (the hash), how often it advanced and whether *)
(* it ended; OperationLife says which values those stand for.              *)
(***************************************************************************)
EXTENDS Integers, FiniteSets

CONSTANTS Clients,
          Hashes,       \* user operation hashes
          MaxRevision,  \* bound on the store revision
          MaxAdvance,   \* bound on the transitions of one Operation
          Failures      \* clients whose adapter calls may fail

VARIABLES lane,      \* the current record of the lane, or Absent
          archive,   \* the records the lane archived
          client     \* what each client is doing

vars == <<lane, archive, client>>

Absent == [storeRevision |-> -1]

Values == [hash : Hashes, revision : 0..MaxAdvance, ended : BOOLEAN]
Records == [storeRevision : 0..MaxRevision, value : Values]

createOperation(h) == [hash |-> h, revision |-> 0, ended |-> FALSE]

Outcomes == {"none", "committed", "conflict", "refused", "indeterminate", "unverified"}
Steps == {"idle", "archived", "read", "swap", "readback", "verify", "exact_archive"}

Clear == [pc |-> "idle", known |-> Absent, next |-> Absent, seen |-> Absent, hash |-> "none",
          swapped |-> FALSE, outcome |-> "none", answer |-> Absent]

\* The archived record of a hash, or Absent.
getArchived(h) ==
  IF \E r \in archive : r.value.hash = h
  THEN CHOOSE r \in archive : r.value.hash = h ELSE Absent

Init ==
  /\ lane = Absent
  /\ archive = {}
  /\ client = [c \in Clients |-> Clear]

Set(c, changes) == client' = [client EXCEPT ![c] = changes]

\* The call is over; known stays what the client last read.
Finish(c, outcome) ==
  Set(c, [Clear EXCEPT !.known = client[c].known, !.outcome = outcome])

-----------------------------------------------------------------------------
(* Reads. *)

\* get: the client learns the record its next swap is computed from.
get(c) ==
  /\ client[c].pc = "idle"
  /\ Set(c, [Clear EXCEPT !.known = lane])
  /\ UNCHANGED <<lane, archive>>

\* getExact, first read: the lane.
getExact(c, h) ==
  /\ client[c].pc = "idle"
  /\ Set(c, [Clear EXCEPT !.pc = "exact_archive", !.known = client[c].known, !.seen = lane,
                          !.hash = h])
  /\ UNCHANGED <<lane, archive>>

\* readArchived refuses a record that still occupies its lane.
readArchivedRefuses(archived) == archived # Absent /\ ~archived.value.ended

\* An archived record is older than the lane's, and of another identity.
exactRefuses(current, archived, h) ==
  \/ readArchivedRefuses(archived)
  \/ archived # Absent /\ archived.storeRevision >= current.storeRevision
  \/ archived # Absent /\ current # Absent /\ current.value.hash = h

\* What an exact read of h answers when it read these two records.
exactAnswer(current, archived, h) ==
  IF current # Absent /\ current.value.hash = h THEN current ELSE archived

\* A bug in which the lane is only compared, and the archive answers.
getExactArchivedMutant(c) ==
  LET me == client[c]
      archived == getArchived(me.hash)
  IN /\ me.pc = "exact_archive"
     /\ Set(c, [me EXCEPT !.pc = "idle",
                          !.outcome = IF exactRefuses(me.seen, archived, me.hash)
                                      THEN "refused" ELSE "committed",
                          !.answer = archived])
     /\ UNCHANGED <<lane, archive>>

\* getExact, second read: the archive; then the verdict.
getExactArchived(c) ==
  LET me == client[c]
      archived == getArchived(me.hash)
  IN /\ me.pc = "exact_archive"
     /\ Set(c, [me EXCEPT !.pc = "idle",
                          !.outcome = IF exactRefuses(me.seen, archived, me.hash)
                                      THEN "refused" ELSE "committed",
                          !.answer = exactAnswer(me.seen, archived, me.hash)])
     /\ UNCHANGED <<lane, archive>>

-----------------------------------------------------------------------------
(* compareAndSwap. *)

\* What a caller makes of the record it knows: the next version of the same
\* Operation, or a new Operation.
Successors(known) ==
  {createOperation(h) : h \in Hashes}
    \cup IF known = Absent THEN {}
         ELSE [hash : {known.value.hash}, revision : {known.value.revision + 1}, ended : BOOLEAN]

\* The call is made with the revision of the record the client knows.
compareAndSwap(c, value) ==
  LET me == client[c]
  IN /\ me.pc = "idle"
     /\ me.known.storeRevision < MaxRevision
     /\ value.revision <= MaxAdvance
     /\ value.revision > 0 => ~me.known.value.ended
     /\ Set(c, [Clear EXCEPT !.pc = "archived", !.known = me.known,
                             !.next = [storeRevision |-> me.known.storeRevision + 1, value |-> value]])
     /\ UNCHANGED <<lane, archive>>

\* A hash of the archive never comes back.
swapReadArchived(c) ==
  /\ client[c].pc = "archived"
  /\ IF getArchived(client[c].next.value.hash) # Absent
     THEN Finish(c, "refused")
     ELSE Set(c, [client[c] EXCEPT !.pc = "read"])
  /\ UNCHANGED <<lane, archive>>

\* Another Operation takes the lane only when the current one has ended; the
\* same hash is the same identity, so it is not created a second time.
validateNext(current, value) ==
  current # Absent =>
    /\ current.value.hash = value.hash => value.revision > 0
    /\ current.value.hash # value.hash => current.value.ended

swapRead(c) ==
  LET me == client[c]
  IN /\ me.pc = "read"
     /\ IF lane.storeRevision # me.known.storeRevision THEN Finish(c, "conflict")
        ELSE IF ~validateNext(lane, me.next.value) THEN Finish(c, "refused")
        ELSE Set(c, [me EXCEPT !.pc = "swap", !.seen = lane])
     /\ UNCHANGED <<lane, archive>>

\* Whether the swap of `next` over `current` archives `current`.
archiveFor(current, next) ==
  IF current = Absent \/ current.value.hash = next.value.hash THEN {} ELSE {current}

\* The adapter: revision and archive are compared, and both records written,
\* in one step.
SwapApplies(me) ==
  /\ lane.storeRevision = me.known.storeRevision
  /\ getArchived(me.next.value.hash) = Absent

swapApply(me) ==
  /\ lane' = me.next
  /\ archive' = archive \cup archiveFor(me.seen, me.next)

swapCommit(c) ==
  LET me == client[c]
  IN /\ me.pc = "swap"
     /\ IF SwapApplies(me) THEN swapApply(me) ELSE UNCHANGED <<lane, archive>>
     /\ Set(c, [me EXCEPT !.pc = "readback", !.swapped = SwapApplies(me)])

\* The adapter call fails, before or after it took effect.
swapFails(c) ==
  LET me == client[c]
  IN /\ me.pc = "swap" /\ c \in Failures
     /\ \/ SwapApplies(me) /\ swapApply(me)
        \/ UNCHANGED <<lane, archive>>
     /\ Finish(c, "indeterminate")

\* The read back: a swap counts only when the lane still holds its record,
\* and a conflict only when the lane is past the revision it expected.
swapReadBack(c) ==
  LET me == client[c]
  IN /\ me.pc = "readback"
     /\ IF me.swapped
        THEN IF lane = me.next THEN Set(c, [me EXCEPT !.pc = "verify"])
             ELSE Finish(c, "unverified")
        ELSE Finish(c, IF lane.storeRevision > me.known.storeRevision THEN "conflict"
                       ELSE "indeterminate")
     /\ UNCHANGED <<lane, archive>>

\* A failed read back.
readBackFails(c) ==
  /\ client[c].pc = "readback" /\ c \in Failures
  /\ Finish(c, IF client[c].swapped THEN "unverified" ELSE "indeterminate")
  /\ UNCHANGED <<lane, archive>>

\* verifyCommitted: the replaced record is in the archive as it was read.
verifyCommitted(c) ==
  LET me == client[c]
  IN /\ me.pc = "verify"
     /\ IF archiveFor(me.seen, me.next) \subseteq archive
        THEN Set(c, [Clear EXCEPT !.known = me.next, !.outcome = "committed", !.answer = me.next])
        ELSE Finish(c, "unverified")
     /\ UNCHANGED <<lane, archive>>

Next ==
  \E c \in Clients :
    \/ get(c)
    \/ \E h \in Hashes : getExact(c, h)
    \/ getExactArchived(c)
    \/ \E value \in Successors(client[c].known) : compareAndSwap(c, value)
    \/ swapReadArchived(c)
    \/ swapRead(c)
    \/ swapCommit(c)
    \/ swapFails(c)
    \/ swapReadBack(c)
    \/ readBackFails(c)
    \/ verifyCommitted(c)

Spec == Init /\ [][Next]_vars

-----------------------------------------------------------------------------
\* A reader that is not overtaken is never refused: whatever clients write,
\* with swaps that fail before or after taking effect, the archive holds only
\* ended Operations, each older than the lane's record and none of its hash.
HistoryIsReadable ==
  \A h \in Hashes : ~exactRefuses(lane, getArchived(h), h)

\* getExact is not one read, and its answer is right all the same: it refuses
\* only when the lane changed its Operation between its two reads, and it
\* answers that a hash is unknown only when no record of the hash was stored
\* at the revision it had read.
ExactReadIsTrue ==
  \A c \in Clients :
    client[c].pc = "idle" /\ client[c].hash # "none" =>
      /\ client[c].outcome = "refused" =>
           client[c].seen = Absent \/ client[c].seen.value.hash # lane.value.hash
      /\ client[c].outcome = "committed" /\ client[c].answer = Absent =>
           \A r \in archive \cup ({lane} \ {Absent}) :
             r.value.hash = client[c].hash => r.storeRevision > client[c].seen.storeRevision
=============================================================================
