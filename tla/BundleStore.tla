------------------------------ MODULE BundleStore ------------------------------
(***************************************************************************)
(* The record of one wallet-call bundle (provider/bundle-store.ts) and the *)
(* record of one prepared-call context (provider/prepared-call-store.ts):  *)
(* the transitions of the two stores, each fenced by the revision its      *)
(* caller saw.  A store method reads the record, checks it against the     *)
(* expected revision and swaps it at that same revision, so one step of    *)
(* the model is one method; what a method answers is whether it committed. *)
(***************************************************************************)
EXTENDS Naturals

CONSTANTS
    Ids,        \* bundle identifiers
    Calls,      \* what a request asks for
    MaxSeq,     \* bound on the account's nonce sequence
    None,       \* no operation, no bundle
    Lease,      \* WALLET_CALL_BUNDLE_PUBLICATION_LEASE_SECONDS
    Lifetime,   \* WALLET_CALL_BUNDLE_CONFIRMATION_LIFETIME_SECONDS
    MaxNow      \* bound on the clock

ASSUME TimesAssumption == Lease \in Nat \ {0} /\ Lifetime \in Nat \ {0} /\ MaxNow \in Nat /\ MaxSeq \in Nat

Never == MaxNow + Lease + Lifetime + 1       \* a time field that is null
Times == 0 .. Never

\* A user operation hash commits to the calls and to the nonce sequence.
Hashes == Calls \X (0 .. MaxSeq)

ASSUME NoneAssumption == None \notin Ids /\ None \notin Hashes

(***************************************************************************)
(* Bundle records.  op is the hash of the bound operation; its request     *)
(* hash is derived from the bundle's own id and generation, and an id is   *)
(* never reserved twice, so the identity of the operation is <<op, id>>.   *)
(***************************************************************************)
OpenStates == {"confirmation_pending", "accepted", "operation_reserved", "operation_bound"}

Absent == [state |-> "absent"]

BundleRecords ==
    [state : OpenStates \cup {"terminal"}, terminalFrom : OpenStates \cup {"none"},
     op : Hashes \cup {None}, confirmBy : Times, lease : Times,
     released : BOOLEAN, rev : 0 .. 5]

reserveAccepted(leaseEnd) ==
    [state |-> "accepted", terminalFrom |-> "none", op |-> None, confirmBy |-> Never,
     lease |-> leaseEnd, released |-> FALSE, rev |-> 0]

reservePendingConfirmation(at) ==
    [state |-> "confirmation_pending", terminalFrom |-> "none", op |-> None,
     confirmBy |-> at + Lifetime, lease |-> Never, released |-> FALSE, rev |-> 0]

\* The check every fenced method makes on the record it reads: same revision
\* and a state it may leave.  updatedAt is left out: every caller passes at
\* least the one it read, so the order of the times refuses nothing.
Fenced(current, expected, from) ==
    /\ current # Absent
    /\ current.rev = expected.rev
    /\ current.state \in from

Moved(r) == [r EXCEPT !.rev = @ + 1]

mayApprove(current, expected, at) ==
    Fenced(current, expected, {"confirmation_pending"}) /\ at < current.confirmBy

approveConfirmation(r, at) ==
    [Moved(r) EXCEPT !.state = "accepted", !.lease = at + Lease]

reserveOperation(r, h) ==
    [Moved(r) EXCEPT !.state = "operation_reserved", !.op = h]

confirmOperationPublished(r) == [Moved(r) EXCEPT !.state = "operation_bound"]

\* A bug in which the release forgets the lease.
releaseOperationPublicationMutant(r) == [Moved(r) EXCEPT !.released = TRUE, !.lease = Never]

releaseOperationPublication(r) == [Moved(r) EXCEPT !.released = TRUE]

\* A bug in which the terminal record does not say which state it came from.
markTerminalMutant(r) ==
    [Moved(r) EXCEPT !.state = "terminal", !.terminalFrom = "accepted"]

markTerminal(r) ==
    [Moved(r) EXCEPT !.state = "terminal", !.terminalFrom = r.state]

-----------------------------------------------------------------------------
(* What the store checks of every record it reads, and of every record it  *)
(* meets instead of the one it expected.                                   *)

stateRank(state) ==
    CASE state = "confirmation_pending" -> 0
      [] state = "accepted" -> 1
      [] state = "operation_reserved" -> 2
      [] state = "operation_bound" -> 3
      [] state = "terminal" -> 4

\* The state a record is in, or the one it was ended from.
Origin(r) == IF r.state = "terminal" THEN r.terminalFrom ELSE r.state

requiredStoreRevision(r) ==
    LET release == IF r.released THEN 1 ELSE 0
        approval == IF r.confirmBy = Never THEN 0 ELSE 1
        reached == CASE Origin(r) = "confirmation_pending" -> 0
                     [] Origin(r) = "accepted" -> approval
                     [] Origin(r) = "operation_reserved" -> approval + 1
                     [] Origin(r) = "operation_bound" -> approval + 2 + release
    IN  IF r.state = "terminal" THEN reached + 1 ELSE reached

\* The evidence a record must and must not carry in its state.
parseWalletCallBundleRecord(r) ==
    /\ r.state = "terminal" <=> r.terminalFrom # "none"
    /\ Origin(r) = "confirmation_pending" => r.confirmBy # Never
    /\ Origin(r) = "confirmation_pending" <=> r.lease = Never
    /\ Origin(r) \in {"operation_reserved", "operation_bound"} <=> r.op # None
    /\ r.released => Origin(r) = "operation_bound"

\* parseRead accepts the stored record.
Readable(r) == parseWalletCallBundleRecord(r) /\ r.rev = requiredStoreRevision(r)

requireCompatibleHistory(previous, current) ==
    /\ current.confirmBy = previous.confirmBy
    /\ stateRank(current.state) >= stateRank(previous.state)
    /\ current.state = "terminal" =>
          IF previous.state = "terminal"
          THEN current.terminalFrom = previous.terminalFrom
          ELSE /\ requiredStoreRevision(current) > requiredStoreRevision(previous)
               /\ current.rev - previous.rev >=
                     requiredStoreRevision(current) - requiredStoreRevision(previous)
    /\ previous.op # None => current.op = previous.op
    /\ previous.lease # Never => current.lease = previous.lease
    /\ (previous.lease = Never /\ current.lease # Never) => previous.state = "confirmation_pending"
    /\ previous.released => current.released

-----------------------------------------------------------------------------
(* Prepared-call contexts: prepared, then exactly one of consumed, expired *)
(* and invalidated_as_stale.                                               *)

ContextRecords ==
    [state : {"prepared", "consumed", "expired", "invalidated_as_stale"}, op : Hashes,
     expiresAt : Nat, at : Times, lease : Times, rev : 0 .. 1]

reservePrepared(h, at, expiresAt) ==
    [state |-> "prepared", op |-> h, expiresAt |-> expiresAt, at |-> at, lease |-> Never, rev |-> 0]

\* A context moves only from prepared, at the revision its caller saw.
ContextFenced(current, expected) ==
    /\ current # Absent
    /\ current.rev = expected.rev
    /\ current.state = "prepared"

\* parsePreparedCallRecord refuses a consumption outside the context's life.
mayConsume(r, at) == at >= r.at /\ at < r.expiresAt

consume(r, at) == [r EXCEPT !.state = "consumed", !.at = at, !.lease = at + Lease, !.rev = 1]

markExpired(r, at) == [r EXCEPT !.state = "expired", !.at = at, !.rev = 1]

markStale(r, at) == [r EXCEPT !.state = "invalidated_as_stale", !.at = at, !.rev = 1]

\* requiredRevision and the times parsePreparedCallRecord checks.
ContextReadable(r) ==
    /\ r.rev = (IF r.state = "prepared" THEN 0 ELSE 1)
    /\ r.state = "consumed" <=> r.lease # Never
    /\ r.state = "consumed" => r.at < r.expiresAt /\ r.lease > r.at
    /\ r.state = "expired" => r.at >= r.expiresAt
=============================================================================
