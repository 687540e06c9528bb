-------------------------------- MODULE Grant --------------------------------
(***************************************************************************)
(* The Grant aggregate of packages/protocol/src/grant.ts: one owner-       *)
(* approved permission, its per-chain materializations and its revocation. *)
(* parseGrant is the predicate ValidGrant, advanceGrant the pair           *)
(* MayAdvance (the guards) and Apply (the successor), which the code       *)
(* always re-parses.  Account and permission id of a chain binding are one *)
(* value of Bindings, a block hash is one of Hashes, and an absent         *)
(* materialization is one in state "none", so that the sorted array of the *)
(* code is a function on Chains.                                           *)
(***************************************************************************)
EXTENDS Integers, FiniteSets, Functions

CONSTANTS Chains,     \* chain ids
          Bindings,   \* (account, permissionId) pairs
          Ops,        \* user operation hashes
          Hashes,     \* block hashes
          NonceSpan   \* sequences per install nonce key (2^64)

NoTime == -1          \* null
NoOp == "no_operation"
NoBinding == "no_binding"
NoHash == "no_hash"

GrantStates == {"requested", "rejected", "approved", "active", "revoking",
                "revoked", "expired"}
TerminalGrantStates == {"rejected", "revoked", "expired"}

\* ChainPermissionEvidence; block 0 is null.
Evidence == [binding : Bindings \cup {NoBinding}, block : Nat,
             hash : Hashes \cup {NoHash}, observedAt : Int]
NoEvidence == [binding |-> NoBinding, block |-> 0, hash |-> NoHash,
               observedAt |-> NoTime]
IsNull(e) == e = NoEvidence

MaterializationStates == {"none", "unsupported", "unmaterialized", "installing",
                          "installed", "revoking", "revoked", "unreadable"}

\* ChainMaterialization, all variants with the fields of the others null.
Materializations ==
  [state : MaterializationStates, binding : Bindings \cup {NoBinding},
   updatedAt : Int, operationId : Ops \cup {NoOp}, installation : Evidence,
   removal : Evidence, startedAt : Int,
   priorState : {"none", "installing", "installed", "revoking"}]

NoMaterialization ==
  [state |-> "none", binding |-> NoBinding, updatedAt |-> NoTime,
   operationId |-> NoOp, installation |-> NoEvidence, removal |-> NoEvidence,
   startedAt |-> NoTime, priorState |-> "none"]

\* ChainRevocationEvidence: the finalized absence and the nonce read with it.
Proofs == [permission : Evidence, installNonce : Nat]
NoProof == [permission |-> NoEvidence, installNonce |-> 0]

Grants ==
  [revision : Nat, state : GrantStates, requestedAt : Int, expiresAt : Int,
   updatedAt : Int, approvedAt : Int, activatedAt : Int,
   revocationStartedAt : Int, targets : [Chains -> Bindings \cup {NoBinding}],
   installNonce : Nat, evidence : [Chains -> Proofs], invalidatedAt : Int,
   terminalFrom : GrantStates \cup {"none"}, recordedAt : Int,
   materializations : [Chains -> Materializations]]

createGrant(requestedAt, expiresAt) ==
  [revision |-> 0, state |-> "requested", requestedAt |-> requestedAt,
   expiresAt |-> expiresAt, updatedAt |-> requestedAt, approvedAt |-> NoTime,
   activatedAt |-> NoTime, revocationStartedAt |-> NoTime,
   targets |-> [c \in Chains |-> NoBinding], installNonce |-> 0,
   evidence |-> [c \in Chains |-> NoProof], invalidatedAt |-> NoTime,
   terminalFrom |-> "none", recordedAt |-> NoTime,
   materializations |-> [c \in Chains |-> NoMaterialization]]

-----------------------------------------------------------------------------
(***************************************************************************)
(* parseGrant: which records are read back at all.                         *)
(***************************************************************************)
\* Mutant: a nonce of another key counts as consumed.
nonceConsumedMutant(expected, observed) == observed > expected

nonceConsumed(expected, observed) ==
  /\ expected \div NonceSpan = observed \div NonceSpan
  /\ observed > expected

Targets(g) == {c \in Chains : g.targets[c] # NoBinding}
Proven(g) == {c \in Chains : g.evidence[c] # NoProof}

parseRevocation(g) ==
  g.revocationStartedAt # NoTime =>
    /\ Targets(g) # {}
    /\ \A c \in Proven(g) :
         /\ c \in Targets(g)
         /\ g.evidence[c].permission.binding = g.targets[c]
         /\ nonceConsumed(g.installNonce, g.evidence[c].installNonce)

revocationComplete(g) == g.revocationStartedAt # NoTime /\ Proven(g) = Targets(g)

parseMaterialization(m) ==
  LET matches(e) == IsNull(e) \/ (e.binding = m.binding /\ e.observedAt <= m.updatedAt)
  IN CASE m.state \in {"none", "unsupported", "unmaterialized"} -> TRUE
       [] m.state = "installing" -> m.startedAt = m.updatedAt
       [] m.state = "installed" ->
            /\ ~IsNull(m.installation)
            /\ m.installation.binding = m.binding
            /\ m.installation.observedAt = m.updatedAt
       [] m.state = "revoking" ->
            matches(m.installation) /\ m.startedAt <= m.updatedAt
       [] m.state = "revoked" ->
            /\ ~IsNull(m.installation) /\ ~IsNull(m.removal)
            /\ m.removal.binding = m.binding
            /\ m.removal.observedAt = m.updatedAt
            /\ matches(m.installation)
            /\ m.installation.block < m.removal.block
       [] m.state = "unreadable" ->
            /\ m.priorState = "installed" => ~IsNull(m.installation)
            /\ m.priorState = "installing" => IsNull(m.installation)
            /\ matches(m.installation)

\* Mutant: removal is counted as two transitions.
ChildCostMutant(m) ==
  CASE m.state = "none" -> 0
    [] m.state \in {"unsupported", "unmaterialized"} -> 1
    [] m.state = "installing" -> 2
    [] m.state = "installed" -> 3
    [] m.state = "revoking" -> IF IsNull(m.installation) THEN 4 ELSE 5
    [] m.state = "revoked" -> 6
    [] m.state = "unreadable" -> 4

\* activeChildCost and revokingChildCost: the least number of transitions
\* that lead to the materialization.
ChildCost(m) ==
  CASE m.state = "none" -> 0
    [] m.state \in {"unsupported", "unmaterialized"} -> 1
    [] m.state = "installing" -> 2
    [] m.state = "installed" -> 3
    [] m.state = "revoking" -> IF IsNull(m.installation) THEN 3 ELSE 4
    [] m.state = "revoked" -> 5
    [] m.state = "unreadable" ->
         3 + (IF IsNull(m.installation) THEN 0 ELSE 1)
           + (IF m.priorState = "revoking" THEN 1 ELSE 0)

\* What an active Grant may contain (activeChildCost throws otherwise).
ActiveChild(m) ==
  /\ m.state \notin {"revoking", "revoked"}
  /\ m.state = "unreadable" => m.priorState # "revoking"

sumChildCosts(g) ==
  FoldFunction(LAMBDA m, n : ChildCost(m) + n, 0, g.materializations)

latestGrantTime(g) ==
  LET times == {g.requestedAt, g.approvedAt, g.activatedAt, g.revocationStartedAt,
                g.invalidatedAt, g.recordedAt}
                 \cup {g.materializations[c].updatedAt : c \in Chains}
                 \cup {g.evidence[c].permission.observedAt : c \in Chains}
  IN CHOOSE t \in times : \A u \in times : u <= t

Present(g) == {c \in Chains : g.materializations[c].state # "none"}

materializationChronologyValid(g) ==
  \A c \in Present(g) :
    LET m == g.materializations[c]
        revoking == \/ m.state \in {"revoking", "revoked"}
                    \/ m.state = "unreadable" /\ m.priorState = "revoking"
    IN /\ g.activatedAt # NoTime
       /\ m.updatedAt >= g.activatedAt
       /\ g.recordedAt # NoTime => m.updatedAt <= g.recordedAt
       /\ ~IsNull(m.installation) => m.installation.observedAt >= g.activatedAt
       /\ revoking => /\ g.revocationStartedAt # NoTime
                      /\ m.updatedAt >= g.revocationStartedAt
       /\ m.state = "revoking" => m.startedAt >= g.revocationStartedAt

chronologyValid(g) ==
  /\ g.expiresAt > g.requestedAt
  /\ \A c \in Proven(g) :
       LET at == g.evidence[c].permission.observedAt IN
       at >= g.revocationStartedAt /\ (g.recordedAt # NoTime => at <= g.recordedAt)
  /\ g.approvedAt # NoTime => g.approvedAt \in g.requestedAt..(g.expiresAt - 1)
  /\ g.activatedAt # NoTime =>
       g.approvedAt # NoTime /\ g.activatedAt \in g.approvedAt..(g.expiresAt - 1)
  /\ g.revocationStartedAt # NoTime =>
       /\ g.activatedAt # NoTime
       /\ g.revocationStartedAt \in g.activatedAt..(g.expiresAt - 1)
  /\ g.invalidatedAt # NoTime =>
       g.revocationStartedAt # NoTime /\ g.invalidatedAt >= g.revocationStartedAt
  /\ g.recordedAt # NoTime =>
       /\ g.recordedAt >= g.requestedAt
       /\ g.invalidatedAt <= g.recordedAt
       /\ g.state = "rejected" => g.recordedAt < g.expiresAt
       /\ g.state = "revoked" => /\ g.revocationStartedAt # NoTime
                                 /\ g.recordedAt >= g.revocationStartedAt
       /\ g.state = "expired" => g.recordedAt >= g.expiresAt
  /\ materializationChronologyValid(g)

\* The fields the record has in each stage of its life.
NotRevoking(g) == g.revocationStartedAt = NoTime /\ g.invalidatedAt = NoTime
NotActivated(g) == g.activatedAt = NoTime /\ NotRevoking(g) /\ Present(g) = {}

StageFields(g, stage) ==
  CASE stage = "requested" -> g.approvedAt = NoTime /\ NotActivated(g)
    [] stage = "approved" -> g.approvedAt # NoTime /\ NotActivated(g)
    [] stage = "active" ->
         /\ g.approvedAt # NoTime /\ g.activatedAt # NoTime /\ NotRevoking(g)
         /\ \A c \in Present(g) : /\ ActiveChild(g.materializations[c])
                                  /\ g.materializations[c].updatedAt < g.expiresAt
    [] stage = "revoking" ->
         g.approvedAt # NoTime /\ g.activatedAt # NoTime /\ g.revocationStartedAt # NoTime

\* The least revision a record of that stage can carry.
StageRevision(g, stage) ==
  CASE stage = "requested" -> 0
    [] stage = "approved" -> 1
    [] stage = "active" -> 2 + sumChildCosts(g)
    [] stage = "revoking" ->
         3 + sumChildCosts(g) + (IF g.invalidatedAt = NoTime THEN 0 ELSE 1)
           + Cardinality(Proven(g))

\* No chain still carries, or may come to carry, the permission.
AllChainsClosed(g) ==
  \A c \in Chains :
    g.materializations[c].state \in {"none", "unsupported", "unmaterialized", "revoked"}

parseGrantState(g) ==
  CASE g.state = "requested" -> StageFields(g, "requested") /\ g.revision = 0
    [] g.state = "rejected" -> StageFields(g, "requested") /\ g.revision = 1
    [] g.state = "approved" -> StageFields(g, "approved") /\ g.revision = 1
    [] g.state \in {"active", "revoking"} ->
         StageFields(g, g.state) /\ g.revision >= StageRevision(g, g.state)
    [] g.state = "revoked" ->
         /\ StageFields(g, "revoking")
         /\ g.revision > StageRevision(g, "revoking")
         /\ g.invalidatedAt # NoTime /\ revocationComplete(g) /\ AllChainsClosed(g)
    [] g.state = "expired" ->
         /\ g.terminalFrom \in GrantStates \ TerminalGrantStates
         /\ StageFields(g, g.terminalFrom)
         /\ g.revision > StageRevision(g, g.terminalFrom)

ValidGrant(g) ==
  /\ parseRevocation(g)
  /\ \A c \in Chains : parseMaterialization(g.materializations[c])
  /\ g.revocationStartedAt # NoTime =>
       \A c \in Present(g) :
         \/ g.materializations[c].state = "unsupported"
         \/ g.materializations[c].binding = g.targets[c]
  /\ chronologyValid(g)
  /\ latestGrantTime(g) = g.updatedAt
  /\ g.state \in TerminalGrantStates <=> g.recordedAt # NoTime
  /\ parseGrantState(g)

-----------------------------------------------------------------------------
(***************************************************************************)
(* advanceGrant.  A transition is a record with the fields of its type; at *)
(* is its time.  MayX is the guard, X the changed record.                  *)
(***************************************************************************)
requireGrantTime(g, at) == at >= g.updatedAt
requireBeforeExpiry(g, at) == requireGrantTime(g, at) /\ at < g.expiresAt

Latest(t, u) == IF t < u THEN u ELSE t

\* requireBoundMaterialization
Bound(g, t) ==
  /\ g.materializations[t.chain].state \notin {"none", "unsupported"}
  /\ g.materializations[t.chain].binding = t.binding

withMaterialization(g, c, m) == [g EXCEPT !.materializations[c] = m]

retainedInstallation(m) ==
  IF m.state \in {"installed", "revoking", "revoked", "unreadable"}
  THEN m.installation ELSE NoEvidence

\* Mutant: presence at an earlier block replaces what is known.
requireNonRegressingPresenceMutant(prior, next) == IsNull(prior) \/ next.hash \in Hashes

requireNonRegressingPresence(prior, next) ==
  IsNull(prior) \/ next.block > prior.block
                \/ (next.block = prior.block /\ next.hash = prior.hash)

MayReject(g, t) == g.state = "requested" /\ requireBeforeExpiry(g, t.at)
Reject(g, t) ==
  [g EXCEPT !.state = "rejected", !.updatedAt = t.at, !.recordedAt = t.at]

MayApprove(g, t) == g.state = "requested" /\ requireBeforeExpiry(g, t.at)
Approve(g, t) ==
  [g EXCEPT !.state = "approved", !.updatedAt = t.at, !.approvedAt = t.at]

MayActivate(g, t) == g.state = "approved" /\ requireBeforeExpiry(g, t.at)
Activate(g, t) ==
  [g EXCEPT !.state = "active", !.updatedAt = t.at, !.activatedAt = t.at]

MayExpire(g, t) ==
  /\ g.state \notin TerminalGrantStates
  /\ requireGrantTime(g, t.at) /\ t.at >= g.expiresAt
Expire(g, t) ==
  [g EXCEPT !.state = "expired", !.updatedAt = t.at, !.recordedAt = t.at,
            !.terminalFrom = g.state]

MayRecordUnsupported(g, t) ==
  /\ g.state = "active" /\ requireBeforeExpiry(g, t.at)
  /\ g.materializations[t.chain].state \in {"none", "unsupported"}
RecordUnsupported(g, t) ==
  withMaterialization([g EXCEPT !.updatedAt = t.at], t.chain,
    [NoMaterialization EXCEPT !.state = "unsupported", !.updatedAt = t.at])

Unmaterialized(g, t) ==
  withMaterialization([g EXCEPT !.updatedAt = t.at], t.chain,
    [NoMaterialization EXCEPT !.state = "unmaterialized", !.binding = t.binding,
                              !.updatedAt = t.at])

MayRecordUnmaterialized(g, t) ==
  LET m == g.materializations[t.chain] IN
  /\ g.state = "active" /\ requireBeforeExpiry(g, t.at)
  /\ m.state \in {"none", "unsupported", "unmaterialized"}
  /\ m.state = "unmaterialized" => m.binding = t.binding

MayBeginMaterialization(g, t) ==
  /\ g.state = "active" /\ requireBeforeExpiry(g, t.at) /\ Bound(g, t)
  /\ g.materializations[t.chain].state = "unmaterialized"
BeginMaterialization(g, t) ==
  withMaterialization([g EXCEPT !.updatedAt = t.at], t.chain,
    [NoMaterialization EXCEPT !.state = "installing", !.binding = t.binding,
       !.updatedAt = t.at, !.operationId = t.op, !.startedAt = t.at])

MayAbandonMaterialization(g, t) ==
  /\ g.state \in {"active", "revoking"} /\ requireGrantTime(g, t.at) /\ Bound(g, t)
  /\ g.materializations[t.chain].state = "installing"
  /\ g.materializations[t.chain].operationId = t.op

\* The states that name an installing operation and not yet a removal.
MayCarry(m) ==
  \/ m.state \in {"installing", "installed"}
  \/ m.state = "unreadable" /\ m.priorState # "revoking"

MayRecordInstalled(g, t) ==
  LET m == g.materializations[t.chain] IN
  /\ g.state \in {"active", "revoking"} /\ Bound(g, t)
  /\ MayCarry(m) /\ m.operationId = t.op
  /\ t.evidence.binding = t.binding
  /\ t.evidence.observedAt >= m.updatedAt
  /\ g.state = "active" => t.evidence.observedAt < g.expiresAt
  /\ requireNonRegressingPresence(retainedInstallation(m), t.evidence)
RecordInstalled(g, t) ==
  withMaterialization([g EXCEPT !.updatedAt = Latest(@, t.evidence.observedAt)], t.chain,
    [NoMaterialization EXCEPT !.state = "installed", !.binding = t.binding,
       !.updatedAt = t.evidence.observedAt, !.operationId = t.op,
       !.installation = t.evidence])

MayRecordUnreadable(g, t) ==
  LET m == g.materializations[t.chain] IN
  /\ g.state \in {"active", "revoking"} /\ Bound(g, t)
  /\ m.state \in {"installing", "installed", "revoking", "unreadable"}
  /\ t.at >= m.updatedAt
  /\ g.state = "active" => t.at < g.expiresAt
RecordUnreadable(g, t) ==
  LET m == g.materializations[t.chain] IN
  withMaterialization([g EXCEPT !.updatedAt = Latest(@, t.at)], t.chain,
    [NoMaterialization EXCEPT !.state = "unreadable", !.binding = t.binding,
       !.updatedAt = t.at, !.operationId = m.operationId,
       !.priorState = IF m.state = "unreadable" THEN m.priorState ELSE m.state,
       !.installation = retainedInstallation(m)])

MayBeginRevocation(g, t) == g.state = "active" /\ requireBeforeExpiry(g, t.at)
BeginRevocation(g, t) ==
  [g EXCEPT !.state = "revoking", !.updatedAt = t.at, !.revocationStartedAt = t.at,
            !.targets = t.targets, !.installNonce = t.nonce]

MayBeginChainRevocation(g, t) ==
  /\ g.state = "revoking" /\ requireGrantTime(g, t.at) /\ Bound(g, t)
  /\ MayCarry(g.materializations[t.chain])
BeginChainRevocation(g, t) ==
  LET m == g.materializations[t.chain] IN
  withMaterialization([g EXCEPT !.updatedAt = t.at], t.chain,
    [NoMaterialization EXCEPT !.state = "revoking", !.binding = t.binding,
       !.updatedAt = t.at, !.operationId = m.operationId,
       !.installation = retainedInstallation(m), !.startedAt = t.at])

MayRecordChainRevoked(g, t) ==
  LET m == g.materializations[t.chain] IN
  /\ g.state = "revoking" /\ t.evidence.binding = t.binding /\ Bound(g, t)
  /\ m.state = "revoking" \/ (m.state = "unreadable" /\ m.priorState = "revoking")
  /\ t.evidence.observedAt >= m.updatedAt
  /\ ~IsNull(retainedInstallation(m))
  /\ t.evidence.block > retainedInstallation(m).block
RecordChainRevoked(g, t) ==
  LET m == g.materializations[t.chain] IN
  withMaterialization([g EXCEPT !.updatedAt = Latest(@, t.evidence.observedAt)], t.chain,
    [NoMaterialization EXCEPT !.state = "revoked", !.binding = t.binding,
       !.updatedAt = t.evidence.observedAt, !.operationId = m.operationId,
       !.installation = retainedInstallation(m), !.removal = t.evidence])

MayRecordCapabilityInvalidated(g, t) ==
  g.state = "revoking" /\ g.invalidatedAt = NoTime /\ requireGrantTime(g, t.at)
RecordCapabilityInvalidated(g, t) ==
  [g EXCEPT !.updatedAt = t.at, !.invalidatedAt = t.at]

MayRecordRevocationEvidence(g, t) ==
  /\ g.state = "revoking"
  /\ t.chain \in Targets(g) /\ t.evidence.binding = g.targets[t.chain]
  /\ t.chain \notin Proven(g)
  /\ nonceConsumed(g.installNonce, t.nonce)
  /\ t.evidence.observedAt >= g.revocationStartedAt
RecordRevocationEvidence(g, t) ==
  [g EXCEPT !.updatedAt = Latest(@, t.evidence.observedAt),
            !.evidence[t.chain] = [permission |-> t.evidence, installNonce |-> t.nonce]]

MayCompleteRevocation(g, t) ==
  /\ g.state = "revoking" /\ requireGrantTime(g, t.at)
  /\ g.invalidatedAt # NoTime /\ revocationComplete(g) /\ AllChainsClosed(g)
CompleteRevocation(g, t) ==
  [g EXCEPT !.state = "revoked", !.updatedAt = t.at, !.recordedAt = t.at]

MayAdvance(g, t) ==
  CASE t.type = "reject" -> MayReject(g, t)
    [] t.type = "approve" -> MayApprove(g, t)
    [] t.type = "activate" -> MayActivate(g, t)
    [] t.type = "expire" -> MayExpire(g, t)
    [] t.type = "record_unsupported" -> MayRecordUnsupported(g, t)
    [] t.type = "record_unmaterialized" -> MayRecordUnmaterialized(g, t)
    [] t.type = "begin_materialization" -> MayBeginMaterialization(g, t)
    [] t.type = "abandon_materialization" -> MayAbandonMaterialization(g, t)
    [] t.type = "record_installed" -> MayRecordInstalled(g, t)
    [] t.type = "record_unreadable" -> MayRecordUnreadable(g, t)
    [] t.type = "begin_revocation" -> MayBeginRevocation(g, t)
    [] t.type = "begin_chain_revocation" -> MayBeginChainRevocation(g, t)
    [] t.type = "record_chain_revoked" -> MayRecordChainRevoked(g, t)
    [] t.type = "record_capability_invalidated" -> MayRecordCapabilityInvalidated(g, t)
    [] t.type = "record_revocation_evidence" -> MayRecordRevocationEvidence(g, t)
    [] t.type = "complete_revocation" -> MayCompleteRevocation(g, t)

Changed(g, t) ==
  CASE t.type = "reject" -> Reject(g, t)
    [] t.type = "approve" -> Approve(g, t)
    [] t.type = "activate" -> Activate(g, t)
    [] t.type = "expire" -> Expire(g, t)
    [] t.type = "record_unsupported" -> RecordUnsupported(g, t)
    [] t.type \in {"record_unmaterialized", "abandon_materialization"} ->
         Unmaterialized(g, t)
    [] t.type = "begin_materialization" -> BeginMaterialization(g, t)
    [] t.type = "record_installed" -> RecordInstalled(g, t)
    [] t.type = "record_unreadable" -> RecordUnreadable(g, t)
    [] t.type = "begin_revocation" -> BeginRevocation(g, t)
    [] t.type = "begin_chain_revocation" -> BeginChainRevocation(g, t)
    [] t.type = "record_chain_revoked" -> RecordChainRevoked(g, t)
    [] t.type = "record_capability_invalidated" -> RecordCapabilityInvalidated(g, t)
    [] t.type = "record_revocation_evidence" -> RecordRevocationEvidence(g, t)
    [] t.type = "complete_revocation" -> CompleteRevocation(g, t)

\* advanceGrantRecord
Apply(g, t) == [Changed(g, t) EXCEPT !.revision = g.revision + 1]

\* advanceGrant succeeds, with Apply(g, t): the guards hold and the successor
\* parses.
Advances(g, t) == MayAdvance(g, t) /\ ValidGrant(Apply(g, t))
=============================================================================
